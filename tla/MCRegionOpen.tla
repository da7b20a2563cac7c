---------------------------- MODULE MCRegionOpen ----------------------------
(***************************************************************************)
(* RegionOpen with everything that may be found at the path, and with the  *)
(* leftover of an older build only.                                        *)
(***************************************************************************)
EXTENDS RegionOpen, TLC

Found    == {File("wrong", "other"), File("right", "other"), File("right", "complete"),
             File("right", "none"), File("right", "checks")}
Leftover == {File("right", "other")}

Perms == Permutations(Procs)
=============================================================================
