---------------------------- MODULE MCWaitEngine ----------------------------
(***************************************************************************)
(* Small instances of WaitEngine: the objects and the workloads.           *)
(***************************************************************************)
EXTENDS WaitRefinement, TLC

Obj(type, w) == [type |-> type, w |-> w]
H(s)         == [idx |-> s, gen |-> 0]
H1(s)        == [idx |-> s, gen |-> 1]

Op(op, s)            == SignalReq(op, H(s), 0)
AnyOf(hh, timeout)     == WaitReq(hh, FALSE, NoHandle, timeout)
AllOf(hh, timeout)     == WaitReq(hh, TRUE, NoHandle, timeout)
Alertable(hh, a, timeout) == WaitReq(hh, FALSE, H(a), timeout)

Sem(count, max)      == Obj(TYPE_SEM, pack_sem(count, max))
FreeMutex            == Obj(TYPE_MUTEX, pack_mutex(0, 0, FALSE))
AutoEvent(signaled)  == Obj(TYPE_EVENT, pack_event(signaled, FALSE))
ManualEvent(signaled) == Obj(TYPE_EVENT, pack_event(signaled, TRUE))

\* Two waiters compete for a mutex, which one of them also unlocks, one for a
\* semaphore too; a third thread releases the semaphore and kills the mutex
\* under its owner.
ObjsAny == (1 :> Sem(0, 1)) @@ (2 :> FreeMutex)
MenuAny ==
    (1 :> {AnyOf(<<H(1), H(2)>>, "inf")})
      @@ (2 :> {AnyOf(<<H(2)>>, "finite"), SignalReq("mutex_unlock", H(2), 2)})
      @@ (3 :> {SignalReq("sem_release", H(1), 1), SignalReq("mutex_kill", H(2), 1)})

\* Events: set, reset and pulsed under a waiter for either or both of them,
\* while another thread polls one and sets it too, under the pulse.
ObjsEvent == (1 :> AutoEvent(FALSE)) @@ (2 :> ManualEvent(FALSE))
MenuEvent ==
    (1 :> {AnyOf(<<H(1), H(2)>>, "finite"), AllOf(<<H(1), H(2)>>, "finite")})
      @@ (2 :> {AnyOf(<<H(1)>>, "zero"), Op("event_set", 1)})
      @@ (3 :> {Op("event_set", 2), Op("event_reset", 2), Op("event_pulse", 1)})

\* An alertable waiter whose object and alert event are closed and reused, and
\* a wait-all that polls both.
ObjsReuse  == (1 :> Sem(0, 1)) @@ (2 :> ManualEvent(FALSE))
FreshReuse == {Sem(0, 1), ManualEvent(FALSE)}
MenuReuse ==
    (1 :> {Alertable(<<H(1)>>, 2, "finite"), Alertable(<<H1(1)>>, 2, "inf"),
           AnyOf(<<H(1), H(1)>>, "inf")})
      @@ (2 :> {SignalReq("sem_release", H(1), 1), Op("event_set", 2), Op("event_reset", 2)})
      @@ (3 :> {Op("close", 1), Op("close", 2), Op("event_pulse", 2),
                AllOf(<<H(1), H(2)>>, "zero")})

\* The races that the comments of the code rule out.
ObjsRollback == (1 :> Sem(1, 1)) @@ (2 :> AutoEvent(FALSE))
MenuRollback ==
    (1 :> {AllOf(<<H(1), H(2)>>, "zero")}) @@ (2 :> {AnyOf(<<H(1)>>, "inf")})

ObjsAlert == (1 :> Sem(0, 1)) @@ (2 :> AutoEvent(FALSE))
MenuAlert ==
    (1 :> {Alertable(<<H(1)>>, 2, "inf")}) @@ (2 :> {Op("event_set", 2)})
=============================================================================
