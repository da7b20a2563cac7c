---------------------------- MODULE SweepHistory ----------------------------
(***************************************************************************)
(* Sweep with history: what has been dead ever since a sweep began, and    *)
(* when the last auto-sweep began.                                         *)
(***************************************************************************)
EXTENDS Sweep

VARIABLES
    doomed,   \* doomed[p]: objects dead at every moment since p's sweep began
    left,     \* left[p]: nodes whose waiter was dead at every such moment
    began     \* when the last auto-sweep began

hvars == <<vars, doomed, left, began>>

\* An object whose creator and holders are all dead, and all known.
Doomed == {s \in Slots : /\ slot[s].used /\ slot[s].pid # NoPid /\ ~slot[s].over
                         /\ slot[s].pid \notin alive
                         /\ \A i \in 1 .. Len(slot[s].holders) : slot[s].holders[i] \notin alive}

\* A node that a dead waiter has left behind.
Left == {k \in NodeIds : node[k].own /\ node[k].pid \notin alive}

Idle(p)     == pc[p] \in {"idle", "claim"}
Begins(p)   == Idle(p) /\ pc'[p] = "collect"
Finishes(p) == pc[p] = "collect" /\ pc'[p] = "idle" /\ p \in alive'

HInit == /\ Init
         /\ doomed = [p \in Pids |-> {}] /\ left = [p \in Pids |-> {}]
         /\ began = -Interval

HNext ==
    /\ Next
    /\ doomed' = [p \in Pids |-> IF Idle(p)' THEN {}
                                 ELSE IF Begins(p) THEN Doomed ELSE doomed[p] \cap Doomed']
    /\ left' = [p \in Pids |-> IF Idle(p)' THEN {}
                               ELSE IF Begins(p) THEN Left ELSE left[p] \cap Left']
    /\ began' = IF \E p \in Pids : Begins(p) /\ pc[p] = "claim" THEN now ELSE began

HSpec == HInit /\ [][HNext]_hvars

\* A sweep frees every object that was dead when it began and that nobody has
\* picked up since: no slot is beyond its ranges, between two chunks or
\* shielded by a remembered verdict.
SweepComplete == [][\A p \in Pids : Finishes(p) => doomed[p] = {}]_hvars

\* `purge waiter nodes left behind by dead waiters': nor does it leave a node
\* behind whose waiter was dead when it began.
DeadNodesPurged == [][\A p \in Pids : Finishes(p) => left[p] = {}]_hvars

\* `The claim is what limits the sweep to one pass per interval': of all the
\* processes that see the interval over, one sweeps.
OnePassPerInterval ==
    [][\A p \in Pids : Begins(p) /\ pc[p] = "claim" => now - began >= Interval]_hvars
=============================================================================
