---------------------------- MODULE MCSpinBudget ----------------------------
(***************************************************************************)
(* SpinBudget scaled down: a second of 10 units, percentages out of 10.    *)
(* The credit and the allowance share nothing but the clock, so no         *)
(* environment has both a credit and an allowance that can run out.        *)
(***************************************************************************)
EXTENDS SpinBudget

Env(i, t, p) == [iters |-> i, tail |-> t, pct |-> p]
Envs == {Env(Unset, Unset, Unset), Env(Unset, 9, Unset), Env(Unset, 9, 25),
         Env(500, Unset, Unset), Env(500, 9, 0)}
MinusTwo == -2
=============================================================================
