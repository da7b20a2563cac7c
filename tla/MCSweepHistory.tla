--------------------------- MODULE MCSweepHistory ---------------------------
(***************************************************************************)
(* The instances of MCSweep, with the history of SweepHistory.             *)
(***************************************************************************)
EXTENDS SweepHistory, MCSweep
=============================================================================
