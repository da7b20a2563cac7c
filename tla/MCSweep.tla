------------------------------ MODULE MCSweep -------------------------------
(***************************************************************************)
(* Small instances of Sweep.                                               *)
(***************************************************************************)
EXTENDS Sweep, TLC

\* Processes differ in nothing but their name.
Perms == Permutations(Pids)
=============================================================================
