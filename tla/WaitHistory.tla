---------------------------- MODULE WaitHistory -----------------------------
(***************************************************************************)
(* WaitEngine with two history variables that remember, for each wait in   *)
(* progress, what has happened to its objects since it was called.         *)
(***************************************************************************)
EXTENDS WaitEngine

VARIABLES
    there,   \* there[t]: the handles of t's wait whose object has been there for the
             \* taking at every moment since t was last up: the call, or the end
             \* of its last sleep
    pulsed   \* pulsed[t]: an event t waits for was pulsed after t first registered

hvars == <<vars, there, pulsed>>

\* Object i of t's wait could be taken, pulses aside.
Up(t, i) ==
    LET s == hs(t)[i].idx
    IN  Waitable(hs(t)[i]) /\ is_locked(slot[s].type, w0[s], d[s], t, d[s])

\* A call begins or a sleep ends.
GetsUp(t) == \/ pc[t] = "idle"
             \/ pc[t] \in {"futex", "tail"} /\ pc'[t] \notin {"futex", "tail"}

HInit == Init /\ there = [t \in Threads |-> {}] /\ pulsed = [t \in Threads |-> FALSE]

HNext ==
    /\ Next
    /\ there' = [t \in Threads |->
                   {i \in 1 .. N(t)' : Up(t, i)' /\ (GetsUp(t) \/ i \in there[t])}]
    /\ pulsed' = [t \in Threads |->
                    pc'[t] # "idle" /\
                      (pulsed[t] \/ \E i \in 1 .. N(t) : /\ nodes[t] > 0
                                                        /\ d'[hs(t)[i].idx] > d[hs(t)[i].idx])]

HSpec == HInit /\ [][HNext]_hvars

Returns(t, kind) == pc[t] # "idle" /\ pc'[t] = "idle" /\ res'[t].kind = kind

\* A wait, a poll included, never times out on something that was there for
\* the taking ever since it was called or last woke: a signal that beats the
\* deadline is not lost to it (`do not decide here' after futex_wait).
NoFalseTimeout ==
    [][\A t \in Threads : Returns(t, "Timeout") =>
          IF req[t].all THEN there[t] # 1 .. N(t) ELSE there[t] = {}]_hvars

\* event_pulse reaches every wait-any that has registered: it may still fail or
\* be satisfied by another object, but not time out.  This goes for one that
\* spins, too, of which the comment at src/core.rs:1667-1669 says that `a pulse
\* shorter than the window can be missed': the pulse clears the event at once
\* but leaves its counter moved, and as the sample `is not refreshed during the
\* spin' every later attempt still sees that.
PulseReaches ==
    [][\A t \in Threads : Returns(t, "Timeout") /\ ~req[t].all => ~pulsed[t]]_hvars
=============================================================================
