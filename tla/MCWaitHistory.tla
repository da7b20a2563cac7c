--------------------------- MODULE MCWaitHistory ----------------------------
(***************************************************************************)
(* The instances of MCWaitEngine, with the history of WaitHistory.         *)
(***************************************************************************)
EXTENDS WaitHistory, MCWaitEngine
=============================================================================
