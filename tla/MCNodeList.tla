----------------------------- MODULE MCNodeList -----------------------------
(***************************************************************************)
(* A small instance of NodeList: three waiters of one object, one of which *)
(* has it as its alert event too and may die anywhere, and one node too    *)
(* few.                                                                    *)
(***************************************************************************)
EXTENDS NodeList, TLC

CONSTANTS p1, p2, p3

WaitsNodes == (p1 :> {<<1, 1>>}) @@ (p2 :> {<<1>>}) @@ (p3 :> {<<1>>})
=============================================================================
