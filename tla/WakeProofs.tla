----------------------------- MODULE WakeProofs -----------------------------
(***************************************************************************)
(* No wakeup is missed: the lists, the lock and the words of WaitEngine    *)
(* for every number of threads, every table and every node pool.           *)
(*                                                                         *)
(* The first invariant is about the lists alone and holds for every        *)
(* workload.  The second adds the words; it needs a workload without       *)
(* wait-all, whose rollback wakes nobody.  The last two are about what a   *)
(* wait that times out has missed, and hold for every workload again.      *)
(***************************************************************************)
EXTENDS WaitHistory, WaitEngineProofs

USE ThreadsAssumption

\* The waiter is between its registration and the release of the lock.
Held(t) == pc[t] = "deadline" \/ (pc[t] \in {"try", "trypulse", "rollback"} /\ lock = t)

\* The waiter has released the lock to sleep, or to spin first.
Parked(t) == \/ pc[t] \in {"spin", "peek", "spinmiss", "futex", "tail"}
             \/ pc[t] \in {"try", "trypulse", "rollback"} /\ lock # t /\ nodes[t] > 0

\* It must be found by whoever walks one of its lists.
OnLists(t) == Held(t) \/ (Parked(t) /\ ~bumped[t])

\* A pulse is under way, with the lock in hand.
PulseLabels == {"pulse", "clear", "store"}

\* Nothing of a blocking wait or a pulse.
OffLabels == (CallLabels \ PulseLabels) \cup FastLabels

ListOK(t) ==
    /\ nodes[t] = 0 => reg[t] = {}
    /\ \A s \in reg[t] : slot[s].used
    /\ pc[t] \in {"alertchk", "register"} => AllValid(t)
    /\ pc[t] \in PulseLabels => ValidOf(req[t].h, TYPE_EVENT)
    /\ OnLists(t) => reg[t] = WaitSlots(t) /\ AllValid(t)

ListInv == TypeInv /\ \A t \in Threads : ListOK(t)

-----------------------------------------------------------------------------
(* The lists. *)

LEMMA ListInit == Init => ListInv
<1> SUFFICES ASSUME Init PROVE ListInv
  OBVIOUS
<1>1. \A t \in Threads : ListOK(t)
  BY DEF Init, ListOK, OnLists, Held, Parked, PulseLabels
<1>2. QED
  BY <1>1, TInit DEF ListInv

\* What AllValid and WaitSlots read.
LEMMA ValidSame ==
    ASSUME NEW t \in Threads, slot' = slot, req'[t] = req[t]
    PROVE  /\ AllValid(t)' <=> AllValid(t)
           /\ WaitSlots(t)' = WaitSlots(t)
           /\ ValidOf(req[t].h, TYPE_EVENT)' <=> ValidOf(req[t].h, TYPE_EVENT)
  BY DEF AllValid, WaitSlots, Waitable, ValidOf, Valid, HasAlert, hs, N, alert

\* A step that keeps the waiter's lists, and at most takes it off its duty to
\* be on them.
LEMMA StayOK ==
    ASSUME ListInv, NEW t \in Threads, slot' = slot, req'[t] = req[t],
           reg'[t] = reg[t], nodes'[t] = nodes[t],
           OnLists(t)' => OnLists(t),
           pc'[t] \in {"alertchk", "register"} => AllValid(t),
           pc'[t] \in PulseLabels => ValidOf(req[t].h, TYPE_EVENT)
    PROVE  ListOK(t)'
  BY ValidSame DEF ListInv, ListOK

\* A thread that is outside of a blocking wait.
LEMMA OffOK ==
    ASSUME NEW t \in Threads, reg'[t] = {}, nodes'[t] = 0, pc'[t] \in OffLabels
    PROVE  ListOK(t)'
  BY DEF ListOK, OnLists, Held, Parked, OffLabels, PulseLabels, CallLabels, FastLabels

LEMMA ListFrame ==
    ASSUME ListInv, NEW u \in Threads, Undisturbed(u), slot' = slot,
           reg'[u] = reg[u], bumped'[u] = bumped[u]
    PROVE  ListOK(u)'
<1>1. OnLists(u)' => OnLists(u)
  BY DEF Undisturbed, OnLists, Held, Parked
<1>2. pc'[u] \in {"alertchk", "register"} => AllValid(u)
  BY DEF Undisturbed, ListInv, ListOK
<1>3. pc'[u] \in PulseLabels => ValidOf(req[u].h, TYPE_EVENT)
  BY DEF Undisturbed, ListInv, ListOK
<1>4. QED
  BY <1>1, <1>2, <1>3, StayOK DEF Undisturbed

\* A step that wakes nobody.
LEMMA QuietStep ==
    ASSUME ListInv, NEW t \in Threads, StepOK(t), slot' = slot,
           \A u \in Threads \ {t} : reg'[u] = reg[u] /\ bumped'[u] = bumped[u],
           ListOK(t)'
    PROVE  ListInv'
<1>1. TypeInv'
  BY StepSuffices DEF ListInv
<1>2. \A u \in Threads \ {t} : ListOK(u)'
  BY ListFrame DEF StepOK
<1>3. QED
  BY <1>1, <1>2 DEF ListInv

\* Everyone on the list of s is woken, and s may be freed with that.
LEMMA WokenOK ==
    ASSUME ListInv, NEW s \in Slots, wake_object(s), NEW u \in Threads, lock # u,
           \A x \in Slots \ {s} : slot'[x] = slot[x],
           Undisturbed(u)
    PROVE  ListOK(u)'
<1>1. /\ reg'[u] = reg[u] \ {s}
      /\ bumped'[u] = (bumped[u] \/ s \in reg[u])
      /\ reg[u] \subseteq Slots
  BY DEF wake_object, ListInv, TypeInv, TypeOK
<1>2. lock # u /\ pc[u] \notin HeldLabels /\ lock' # u
  BY DEF ListInv, TypeInv, ThreadOK, HoldOK, Undisturbed
<1>3. nodes'[u] = 0 => reg'[u] = {}
  BY <1>1 DEF ListInv, ListOK, Undisturbed
<1>4. \A x \in reg'[u] : slot'[x].used
  BY <1>1 DEF ListInv, ListOK
<1>5. pc'[u] \notin {"alertchk", "register", "deadline"} \cup PulseLabels
  BY <1>2 DEF Undisturbed, HeldLabels, PulseLabels
<1>6. ASSUME OnLists(u)'
      PROVE  reg'[u] = WaitSlots(u)' /\ AllValid(u)'
  <2>1. Parked(u) /\ ~bumped[u] /\ s \notin reg[u]
    BY <1>1, <1>2, <1>5, <1>6 DEF OnLists, Held, Parked, Undisturbed
  <2>2. reg[u] = WaitSlots(u) /\ AllValid(u) /\ reg'[u] = reg[u]
    BY <1>1, <2>1 DEF ListInv, ListOK, OnLists
  <2>3. WaitSlots(u)' = WaitSlots(u)
    BY DEF Undisturbed, WaitSlots, HasAlert, hs, N, alert
  <2>4. req'[u] = req[u] /\ \A x \in WaitSlots(u) : slot'[x] = slot[x]
    BY <1>1, <2>1, <2>2 DEF Undisturbed
  <2>5. /\ \A i \in 1 .. N(u) : hs(u)[i].idx \in WaitSlots(u)
        /\ HasAlert(u) => alert(u).idx \in WaitSlots(u)
    BY DEF WaitSlots
  <2>6. AllValid(u)'
    BY <2>2, <2>4, <2>5 DEF AllValid, Waitable, ValidOf, Valid, HasAlert, hs, N, alert
  <2>7. QED
    BY <2>2, <2>3, <2>6
<1>7. QED
  BY <1>3, <1>4, <1>5, <1>6 DEF ListOK

\* A step that touches no list and no slot, and after which the waiter is
\* either outside of a blocking wait or as much on its lists as before.
LEMMA QuietMove ==
    ASSUME ListInv, NEW t \in Threads, StepOK(t), UNCHANGED <<slot, reg, bumped, nodes>>,
           \/ pc'[t] \in OffLabels
           \/ /\ req'[t] = req[t]
              /\ OnLists(t)' => OnLists(t)
              /\ pc'[t] \in {"alertchk", "register"} => AllValid(t)
              /\ pc'[t] \in PulseLabels => ValidOf(req[t].h, TYPE_EVENT)
    PROVE  ListInv'
<1>1. CASE pc'[t] \in OffLabels
  <2>1. nodes'[t] = 0
    BY <1>1 DEF StepOK, ThreadOK, HoldOK, OffLabels
  <2>2. reg'[t] = {}
    BY <2>1 DEF ListInv, ListOK
  <2>3. QED
    BY <1>1, <2>1, <2>2, OffOK, QuietStep
<1>2. CASE /\ req'[t] = req[t]
           /\ OnLists(t)' => OnLists(t)
           /\ pc'[t] \in {"alertchk", "register"} => AllValid(t)
           /\ pc'[t] \in PulseLabels => ValidOf(req[t].h, TYPE_EVENT)
  BY <1>2, StayOK, QuietStep
<1>3. QED
  BY <1>1, <1>2

\* Where an attempt can lead.
LEMMA MissList ==
    ASSUME ListInv, NEW t \in Threads, pc[t] \in {"try", "trypulse", "rollback"}, Miss(t),
           UNCHANGED <<lock, nodes, bumped>>
    PROVE  \/ pc'[t] \in OffLabels
           \/ /\ req'[t] = req[t]
              /\ OnLists(t)' => OnLists(t)
              /\ pc'[t] \notin {"alertchk", "register"} \cup PulseLabels
<1>1. /\ pc'[t] = IF lock = t THEN "deadline" ELSE IF nodes[t] > 0 THEN "spinmiss" ELSE "fastmiss"
      /\ req' = req
  BY DEF Miss, Goto, ListInv, TypeInv, TypeOK
<1>2. CASE lock = t
  BY <1>1, <1>2 DEF OnLists, Held, PulseLabels
<1>3. CASE lock # t /\ nodes[t] > 0
  <2>1. Parked(t) /\ pc'[t] = "spinmiss"
    BY <1>1, <1>3 DEF Parked
  <2>2. QED
    BY <1>1, <1>3, <2>1 DEF OnLists, Held, PulseLabels
<1>4. CASE lock # t /\ ~(nodes[t] > 0)
  BY <1>1, <1>4 DEF OffLabels, FastLabels
<1>5. QED
  BY <1>2, <1>3, <1>4

LEMMA DecideList ==
    ASSUME ListInv, NEW t \in Threads, NEW r, Decide(t, r)
    PROVE  \/ pc'[t] \in OffLabels
           \/ /\ req'[t] = req[t]
              /\ ~OnLists(t)'
              /\ pc'[t] \notin {"alertchk", "register"} \cup PulseLabels
<1>1. \/ pc'[t] = "idle"
      \/ pc'[t] = "cleanup" /\ req' = req
  BY DEF Decide, Return, ListInv, TypeInv, TypeOK
<1>2. QED
  BY <1>1 DEF OffLabels, PulseLabels, CallLabels, OnLists, Held, Parked

\* A failed or a successful attempt goes on to another, or ends the call.
LEMMA TryLeads ==
    ASSUME ListInv, NEW t \in Threads,
           TryAny(t) \/ TryPulseAny(t) \/ TryAll(t) \/ TryPulseAll(t) \/ Rollback(t)
    PROVE  \/ Miss(t)
           \/ \E r : Decide(t, r)
           \/ pc'[t] \in {"try", "trypulse", "rollback"} /\ req' = req
<1>1. \A l : Goto(t, l) => pc'[t] = l
  BY DEF Goto, ListInv, TypeInv, TypeOK
<1>2. PassAny(t) => Miss(t) \/ (pc'[t] = "try" /\ req' = req)
  BY <1>1 DEF PassAny
<1>3. BusyAll(t) => Miss(t) \/ (pc'[t] = "rollback" /\ req' = req)
  BY <1>1 DEF BusyAll
<1>4. ASSUME NEW od, GotAll(t, od)
      PROVE  (\E r : Decide(t, r)) \/ (pc'[t] = "try" /\ req' = req)
  <2> DEFINE got == Append(acq[t], [i |-> cur[t], od |-> od])
             dead == \E k \in 1 .. Len(got) : got[k].od
  <2>1. \/ Decide(t, Signaled(0, dead))
        \/ Goto(t, "try") /\ req' = req
    BY <1>4 DEF GotAll
  <2>2. QED
    BY <1>1, <2>1
<1>5. CASE TryAny(t)
  BY <1>1, <1>2, <1>5 DEF TryAny
<1>6. CASE TryPulseAny(t)
  BY <1>2, <1>6 DEF TryPulseAny
<1>7. CASE TryAll(t)
  BY <1>1, <1>3, <1>4, <1>7 DEF TryAll
<1>8. CASE TryPulseAll(t)
  BY <1>3, <1>4, <1>8 DEF TryPulseAll
<1>9. CASE Rollback(t)
  BY <1>9 DEF Rollback
<1>10. QED
  BY <1>5, <1>6, <1>7, <1>8, <1>9

LEMMA TryList ==
    ASSUME ListInv, NEW t \in Threads,
           TryAny(t) \/ TryPulseAny(t) \/ TryAll(t) \/ TryPulseAll(t) \/ Rollback(t)
    PROVE  ListInv'
<1>1. StepOK(t)
  BY TryAnyOK, TryPulseAnyOK, TryAllOK, TryPulseAllOK, RollbackOK DEF ListInv
<1>2. /\ UNCHANGED <<slot, reg, bumped, nodes, lock>>
      /\ pc[t] \in {"try", "trypulse", "rollback"}
  BY DEF TryAny, TryPulseAny, TryAll, TryPulseAll, Rollback, shared
<1>3. CASE Miss(t)
  BY <1>1, <1>2, <1>3, MissList, QuietMove
<1>4. CASE \E r : Decide(t, r)
  BY <1>1, <1>2, <1>4, DecideList, QuietMove
<1>5. CASE pc'[t] \in {"try", "trypulse", "rollback"} /\ req' = req
  <2>1. OnLists(t)' => OnLists(t)
    BY <1>2, <1>5 DEF OnLists, Held, Parked
  <2>2. pc'[t] \notin {"alertchk", "register"} \cup PulseLabels
    BY <1>5 DEF PulseLabels
  <2>3. QED
    BY <1>1, <1>2, <1>5, <2>1, <2>2, QuietMove
<1>6. QED
  BY <1>3, <1>4, <1>5, TryLeads

\* The actions that touch no list and no slot.
LEMMA SignalList ==
    ASSUME ListInv, NEW t \in Threads,
           Refuse(t) \/ Begin(t) \/ Resolve(t) \/ Cas(t) \/ ReadHead(t)
    PROVE  ListInv'
<1>1. StepOK(t)
  BY RefuseOK, BeginOK, ResolveOK, CasOK, ReadHeadOK DEF ListInv
<1>2. UNCHANGED <<slot, reg, bumped, nodes>>
  BY DEF Refuse, Begin, Resolve, Cas, ReadHead, shared
<1>3. pc'[t] \in OffLabels
  <2>1. CASE Begin(t)
    <3>1. PICK r \in Menu[t] :
            Goto(t, CASE r.op \in SignalOps -> "resolve"
                      [] r.op \in LockedOps -> "locked"
                      [] r.op = "wait"      -> "validate")
      BY <2>1 DEF Begin
    <3>2. r.op \in SignalOps \cup LockedOps \cup {"wait"}
      BY WorkloadAssumption DEF Requests, Ops
    <3>3. QED
      BY <3>1, <3>2 DEF Goto, ListInv, TypeInv, TypeOK, OffLabels, PulseLabels, CallLabels,
                              FastLabels
  <2>2. CASE Refuse(t) \/ Resolve(t) \/ Cas(t) \/ ReadHead(t)
    <3>1. pc \in [Threads -> Labels]
      BY DEF ListInv, TypeInv, TypeOK
    <3>2. CASE Refuse(t)
      BY <3>2 DEF Refuse, shared, OffLabels, PulseLabels, CallLabels
    <3>3. CASE Resolve(t)
      BY <3>1, <3>3 DEF Resolve, Goto, Return, OffLabels, PulseLabels, CallLabels
    <3>4. CASE Cas(t)
      BY <3>1, <3>4 DEF Cas, Goto, Return, OffLabels, PulseLabels, CallLabels
    <3>5. CASE ReadHead(t)
      BY <3>1, <3>5 DEF ReadHead, Goto, Return, OffLabels, PulseLabels, CallLabels
    <3>6. QED
      BY <2>2, <3>2, <3>3, <3>4, <3>5
  <2>3. QED
    BY <2>1, <2>2
<1>4. QED
  BY <1>1, <1>2, <1>3, QuietMove

LEMMA FastList ==
    ASSUME ListInv, NEW t \in Threads,
           FastValidate(t) \/ AlertValid(t) \/ AlertFast(t) \/ FastMiss(t)
    PROVE  ListInv'
<1>1. StepOK(t)
  BY FastValidateOK, AlertValidOK, AlertFastOK, FastMissOK DEF ListInv
<1>2. UNCHANGED <<slot, reg, bumped, nodes, lock>> /\ pc[t] \in FastLabels
  BY DEF FastValidate, AlertValid, AlertFast, FastMiss, shared, FastLabels
<1>3. nodes[t] = 0 /\ lock # t
  BY <1>2 DEF ListInv, TypeInv, ThreadOK, HoldOK, CallLabels, FastLabels, HeldLabels
<1>4. \/ pc'[t] = "idle"
      \/ pc'[t] \in FastLabels \cup {"try", "lock", "panic"} /\ req' = req
  <2>1. CASE FastValidate(t)
    <3>1. PICK l \in {"lock", "validate", "try", "alertvalid"} : Goto(t, l)
      BY <2>1 DEF FastValidate
    <3>2. QED
      BY <2>1, <3>1 DEF FastValidate, Goto, ListInv, TypeInv, TypeOK, FastLabels
  <2>2. CASE AlertValid(t) \/ AlertFast(t) \/ FastMiss(t)
    BY <2>2 DEF AlertValid, AlertFast, FastMiss, Goto, Return, ListInv,
                TypeInv, TypeOK, FastLabels
  <2>3. QED
    BY <2>1, <2>2
<1>5. ~OnLists(t)' /\ pc'[t] \notin {"alertchk", "register"} \cup PulseLabels
  BY <1>2, <1>3, <1>4 DEF OnLists, Held, Parked, FastLabels, PulseLabels
<1>6. QED
  BY <1>1, <1>2, <1>4, <1>5, QuietMove DEF OffLabels, PulseLabels, CallLabels

LEMMA SpinList ==
    ASSUME ListInv, NEW t \in Threads, SpinAlert(t) \/ Peek(t) \/ SpinMiss(t)
    PROVE  ListInv'
<1>1. StepOK(t)
  BY SpinAlertOK, PeekOK, SpinMissOK DEF ListInv
<1>2. /\ UNCHANGED <<slot, reg, bumped, nodes, lock, req>>
      /\ pc[t] \in {"spin", "peek", "spinmiss"}
  BY DEF SpinAlert, Peek, SpinMiss, shared
<1>3. lock # t
  BY <1>2 DEF ListInv, TypeInv, ThreadOK, HoldOK, HeldLabels
<1>4. pc'[t] \in {"peek", "panic", "cleanup", "try", "spinmiss", "spin", "futex", "tail"}
  BY DEF SpinAlert, Peek, SpinMiss, SleepLabels, Goto, ListInv, TypeInv, TypeOK
<1>5. OnLists(t)' => OnLists(t)
  BY <1>2, <1>3, <1>4 DEF OnLists, Held, Parked
<1>6. QED
  BY <1>1, <1>2, <1>4, <1>5, QuietMove DEF PulseLabels

LEMMA SleepList ==
    ASSUME ListInv, NEW t \in Threads,
           Wake(t) \/ Interrupt(t) \/ TailDone(t) \/ AlertCheck(t) \/ Expire(t)
    PROVE  ListInv'
<1>1. StepOK(t)
  BY WakeOK, InterruptOK, TailDoneOK, AlertCheckOK, ExpireOK DEF ListInv
<1>2. UNCHANGED <<slot, reg, bumped, nodes, lock, req>>
  BY DEF Wake, Interrupt, TailDone, AlertCheck, Expire, shared
<1>3. \/ pc'[t] \in {"awake", "lock", "cleanup"}
      \/ pc'[t] = "register" /\ AllValid(t)
      \/ pc' = pc
  BY DEF Wake, Interrupt, TailDone, AlertCheck, Expire, Goto, ListInv, ListOK, TypeInv, TypeOK
<1>4. OnLists(t)' => OnLists(t)
  BY <1>2, <1>3 DEF OnLists, Held, Parked
<1>5. pc'[t] \in {"alertchk", "register"} => AllValid(t)
  BY <1>3 DEF ListInv, ListOK
<1>6. pc'[t] \in PulseLabels => ValidOf(req[t].h, TYPE_EVENT)
  BY <1>3 DEF ListInv, ListOK, PulseLabels
<1>7. QED
  BY <1>1, <1>2, <1>4, <1>5, <1>6, QuietMove

LEMMA LockList ==
    ASSUME ListInv, NEW t \in Threads, Lock(t)
    PROVE  ListInv'
<1>1. StepOK(t)
  BY LockOK DEF ListInv
<1>2. UNCHANGED <<slot, reg, bumped, nodes, req>>
  BY DEF Lock
<1>3. \/ pc'[t] \in {"alertchk", "register"} /\ AllValid(t)
      \/ pc'[t] = "cleanup"
  BY DEF Lock, Goto, ListInv, TypeInv, TypeOK
<1>4. ~OnLists(t)'
  BY <1>3 DEF OnLists, Held, Parked
<1>5. QED
  BY <1>1, <1>2, <1>3, <1>4, QuietMove DEF PulseLabels

LEMMA RegisterList ==
    ASSUME ListInv, NEW t \in Threads, Register(t)
    PROVE  ListInv'
<1>1. StepOK(t) /\ AllValid(t) /\ pc[t] = "register" /\ slot' = slot /\ req' = req
  BY RegisterOK DEF ListInv, ListOK, Register
<1>2. \A u \in Threads \ {t} : reg'[u] = reg[u] /\ bumped'[u] = bumped[u]
  BY DEF Register, ListInv, TypeInv, TypeOK
<1>3. CASE Exhausted(t)
  <2>1. /\ pc'[t] = "cleanup" /\ UNCHANGED <<nodes, reg>>
    BY <1>3 DEF Register, Goto, ListInv, TypeInv, TypeOK
  <2>2. ~OnLists(t)'
    BY <2>1 DEF OnLists, Held, Parked
  <2>3. ListOK(t)'
    BY <1>1, <2>1, <2>2, StayOK DEF PulseLabels
  <2>4. QED
    BY <1>1, <1>2, <2>3, QuietStep
<1>4. CASE ~Exhausted(t)
  <2>1. /\ pc'[t] = "try" /\ nodes'[t] = n_nodes(t) /\ reg'[t] = WaitSlots(t)
    BY <1>4 DEF Register, Goto, ListInv, TypeInv, TypeOK
  <2>2. nodes'[t] # 0
    <3>1. TypeOK
      BY DEF ListInv, TypeInv
    <3>2. N(t) \in Nat /\ n_nodes(t) \in Nat /\ n_nodes(t) >= N(t)
      BY <3>1, ReqType
    <3>3. CallOK(t)
      BY DEF ListInv, TypeInv, ThreadOK
    <3>4. pc[t] \notin CallLabels
      BY <1>1 DEF CallLabels
    <3>5. N(t) >= 1
      BY <3>3, <3>4 DEF CallOK
    <3>6. QED
      BY <2>1, <3>2, <3>5
  <2>3. \A s \in WaitSlots(t) : slot[s].used
    BY <1>1 DEF AllValid, WaitSlots, Waitable, ValidOf, Valid
  <2>4. AllValid(t)' /\ WaitSlots(t)' = WaitSlots(t)
    BY <1>1, ValidSame
  <2>5. ListOK(t)'
    BY <1>1, <2>1, <2>2, <2>3, <2>4 DEF ListOK, PulseLabels
  <2>6. QED
    BY <1>1, <1>2, <2>5, QuietStep
<1>5. QED
  BY <1>3, <1>4

LEMMA DeadlineList ==
    ASSUME ListInv, NEW t \in Threads, Deadline(t)
    PROVE  ListInv'
<1>1. StepOK(t)
  BY DeadlineOK DEF ListInv
<1>2. /\ UNCHANGED <<slot, reg, nodes, req>> /\ OnLists(t)
      /\ \A u \in Threads \ {t} : bumped'[u] = bumped[u]
  BY DEF Deadline, OnLists, Held, ListInv, TypeInv, TypeOK
<1>3. pc'[t] \in {"cleanup", "spin", "futex", "tail"}
  BY DEF Deadline, SleepLabels, Goto, ListInv, TypeInv, TypeOK
<1>4. ListOK(t)'
  BY <1>2, <1>3, StayOK DEF PulseLabels
<1>5. QED
  BY <1>1, <1>2, <1>4, QuietStep

LEMMA LeaveList ==
    ASSUME ListInv, NEW t \in Threads, Awake(t) \/ Cleanup(t)
    PROVE  ListInv'
<1>1. StepOK(t)
  BY AwakeOK, CleanupOK DEF ListInv
<1>2. /\ slot' = slot /\ reg'[t] = {} /\ pc'[t] \in {"lock", "idle"}
      /\ \A u \in Threads \ {t} : reg'[u] = reg[u] /\ bumped'[u] = bumped[u]
  BY DEF Awake, Cleanup, Goto, Return, shared, ListInv, TypeInv, TypeOK
<1>3. ListOK(t)'
  BY <1>2 DEF ListOK, OnLists, Held, Parked, PulseLabels
<1>4. QED
  BY <1>1, <1>2, <1>3, QuietStep

\* A pulse, until it comes to its store: it has looked its event up under the lock.
LEMMA PulseList ==
    ASSUME ListInv, NEW t \in Threads, event_pulse(t) \/ PulseCount(t) \/ PulseLoad(t)
    PROVE  ListInv'
<1>1. StepOK(t)
  BY PulseOK, PulseCountOK, PulseLoadOK DEF ListInv
<1>2. UNCHANGED <<slot, reg, bumped, nodes>>
  BY DEF event_pulse, PulseCount, PulseLoad
<1>3. \/ pc'[t] = "idle"
      \/ pc'[t] \in PulseLabels /\ req' = req /\ ValidOf(req[t].h, TYPE_EVENT)
  <2>1. CASE event_pulse(t)
    BY <2>1 DEF event_pulse, Goto, Return, PulseLabels, ListInv, TypeInv, TypeOK
  <2>2. CASE PulseCount(t)
    BY <2>2 DEF PulseCount, Goto, PulseLabels, ListInv, ListOK, TypeInv, TypeOK
  <2>3. CASE PulseLoad(t)
    BY <2>3 DEF PulseLoad, Goto, PulseLabels, ListInv, ListOK, TypeInv, TypeOK
  <2>4. QED
    BY <2>1, <2>2, <2>3
<1>4. CASE pc'[t] = "idle"
  BY <1>1, <1>2, <1>4, QuietMove DEF OffLabels, PulseLabels, CallLabels
<1>5. CASE pc'[t] \in PulseLabels /\ req' = req /\ ValidOf(req[t].h, TYPE_EVENT)
  <2>1. ~OnLists(t)' /\ pc'[t] \notin {"alertchk", "register"}
    BY <1>5 DEF OnLists, Held, Parked, PulseLabels
  <2>2. QED
    BY <1>1, <1>2, <1>5, <2>1, QuietMove
<1>6. QED
  BY <1>3, <1>4, <1>5

\* The actions that wake.
LEMMA WakeList ==
    ASSUME ListInv, NEW t \in Threads, Walk(t) \/ PulseStore(t) \/ close(t)
    PROVE  ListInv'
<1> DEFINE s == req[t].h.idx
<1>1. StepOK(t)
  BY WalkOK, PulseStoreOK, CloseOK DEF ListInv
<1>2. lock \in {t, NoThread} /\ pc'[t] = "idle" /\ nodes' = nodes
  <2>1. PulseStore(t) => lock = t
    BY PulseHolds DEF PulseStore, ListInv
  <2>2. QED
    BY <2>1 DEF Walk, PulseStore, close, Return, shared, ListInv, TypeInv, TypeOK
<1>3. nodes[t] = 0 /\ reg[t] = {} /\ s \in Slots
  <2>1. pc[t] \in {"walk", "locked", "store"}
    BY DEF Walk, PulseStore, close
  <2>2. nodes[t] = 0
    BY <2>1 DEF ListInv, TypeInv, ThreadOK, HoldOK, CallLabels
  <2>3. s \in Slots
    BY DEF ListInv, TypeInv, TypeOK, Requests, Handles
  <2>4. QED
    BY <2>2, <2>3 DEF ListInv, ListOK
<1>4. CASE UNCHANGED <<slot, reg, bumped>>
  BY <1>1, <1>2, <1>4, QuietMove DEF OffLabels, PulseLabels, CallLabels
<1>5. CASE wake_object(s) /\ \A x \in Slots \ {s} : slot'[x] = slot[x]
  <2>1. \A u \in Threads \ {t} : lock # u
    BY <1>2 DEF NoThread
  <2>2. \A u \in Threads \ {t} : ListOK(u)'
    BY <1>1, <1>3, <1>5, <2>1, WokenOK DEF StepOK
  <2>3. reg'[t] = {}
    BY <1>3, <1>5 DEF wake_object
  <2>4. ListOK(t)'
    BY <1>2, <1>3, <2>3, OffOK DEF OffLabels, PulseLabels, CallLabels
  <2>5. QED
    BY <1>1, <2>2, <2>4, StepSuffices DEF ListInv
<1>6. QED
  BY <1>3, <1>4, <1>5 DEF Walk, PulseStore, close, shared, ListInv, TypeInv, TypeOK

\* A slot that somebody waits on is not free.
LEMMA CreateList ==
    ASSUME ListInv, NEW t \in Threads, Create(t)
    PROVE  ListInv'
<1>1. PICK s \in Slots, o \in Fresh :
         /\ ~slot[s].used
         /\ slot' = [slot EXCEPT ![s] = [used |-> TRUE, gen |-> slot[s].gen, type |-> o.type]]
  BY DEF Create
<1>2. StepOK(t) /\ UNCHANGED <<lock, pool, local>> /\ lock = NoThread
  BY CreateOK DEF ListInv, Create
<1>3. ASSUME NEW u \in Threads PROVE ListOK(u)'
  <2>1. s \notin reg[u] /\ reg[u] \subseteq Slots
    BY <1>1 DEF ListInv, ListOK, TypeInv, TypeOK
  <2>2. \A x \in reg[u] : slot'[x] = slot[x]
    BY <1>1, <2>1 DEF ListInv, TypeInv, TypeOK
  <2>3. pc[u] \notin HeldLabels /\ pc' = pc
    BY <1>2 DEF ListInv, TypeInv, ThreadOK, HoldOK, NoThread, local
  <2>4. UNCHANGED <<pc, req, reg, nodes, bumped, lock>>
    BY <1>2 DEF local
  <2>5. OnLists(u)' => OnLists(u) /\ reg[u] = WaitSlots(u) /\ AllValid(u)
    BY <2>4 DEF OnLists, Held, Parked, ListInv, ListOK
  <2>6. WaitSlots(u)' = WaitSlots(u)
    BY <2>4 DEF WaitSlots, HasAlert, hs, N, alert
  <2>7. /\ \A i \in 1 .. N(u) : hs(u)[i].idx \in WaitSlots(u)
        /\ HasAlert(u) => alert(u).idx \in WaitSlots(u)
    BY DEF WaitSlots
  <2>8. OnLists(u)' => AllValid(u)'
    BY <2>2, <2>4, <2>5, <2>7 DEF AllValid, Waitable, ValidOf, Valid, HasAlert, hs, N, alert
  <2>9. QED
    BY <2>2, <2>3, <2>4, <2>5, <2>6, <2>8 DEF ListInv, ListOK, HeldLabels, PulseLabels
<1>4. QED
  BY <1>2, <1>3, StepSuffices DEF ListInv

LEMMA ListStep == ListInv /\ [Next]_vars => ListInv'
<1> SUFFICES ASSUME ListInv, [Next]_vars PROVE ListInv'
  OBVIOUS
<1>1. CASE UNCHANGED vars
  <2>1. TypeInv'
    BY TypeStep DEF ListInv
  <2>2. \A u \in Threads : ListOK(u)'
    BY <1>1, ListFrame DEF vars, shared, local, Undisturbed
  <2>3. QED
    BY <2>1, <2>2 DEF ListInv
<1>2. CASE Next
  <2>1. PICK t \in Threads :
          Refuse(t) \/ Begin(t) \/ Create(t) \/ Step(t) \/ Interrupt(t) \/ Expire(t)
    BY <1>2 DEF Next
  <2>2. CASE Refuse(t) \/ Begin(t) \/ SignalStep(t)
    BY <2>2, SignalList, WakeList DEF SignalStep
  <2>3. CASE Create(t) \/ LockedStep(t)
    BY <2>3, CreateList, PulseList, WakeList DEF LockedStep
  <2>4. CASE WaitStep(t)
    BY <2>4, FastList, TryList, LockList, SleepList, RegisterList, DeadlineList,
       SpinList, LeaveList DEF WaitStep
  <2>5. CASE Interrupt(t) \/ Expire(t)
    BY <2>5, SleepList
  <2>6. QED
    BY <2>1, <2>2, <2>3, <2>4, <2>5 DEF Step
<1>3. QED
  BY <1>1, <1>2

LEMMA ListInvariant == Spec => []ListInv
<1>1. QED
  BY ListInit, ListStep, PTL DEF Spec

\* Nobody sleeps on an object that is gone, whatever is closed, created and
\* reused around it: close() and the validation in wait() take the same lock.
THEOREM NobodyStranded == Spec => []NotStranded
<1>1. ListInv => NotStranded
  BY DEF ListInv, ListOK, OnLists, Parked, NotStranded, Asleep, AllValid
<1>2. QED
  BY <1>1, ListInvariant, PTL

\* try_satisfy, under the lock or from a spin that was not ended by a walk, acts
\* on the objects that the caller named.
THEOREM TriesWhatWasNamed == Spec => []TriesNamedObjects
<1>1. ListInv => TriesNamedObjects
  BY DEF ListInv, ListOK, OnLists, Held, Parked, TriesNamedObjects, AllValid
<1>2. QED
  BY <1>1, ListInvariant, PTL

\* alloc_slot never cuts a node off: the list of a slot it takes is empty.
THEOREM FreeSlotsUnlisted == Spec => []FreeSlotUnlisted
<1>1. ListInv => FreeSlotUnlisted
  BY DEF ListInv, ListOK, FreeSlotUnlisted
<1>2. QED
  BY <1>1, ListInvariant, PTL

\* Every way out of wait() gives back the nodes, the lists and the lock.
THEOREM WaitLeavesNothing == Spec => []NothingLeftBehind
<1>1. ListInv => NothingLeftBehind
  BY DEF ListInv, ListOK, NothingLeftBehind, TypeInv, ThreadOK, HoldOK,
         CallLabels, FastLabels, HeldLabels
<1>2. QED
  BY <1>1, ListInvariant, PTL

-----------------------------------------------------------------------------
(***************************************************************************)
(* `Registration and wake walks both happen under the region lock, and     *)
(* waiters re-check under it before sleeping, so no wakeup can be missed':  *)
(* the claim at the head of core.rs, for every number of threads, table,   *)
(* node pool and workload of waits for any of several objects.  With       *)
(* wait-all it is false (the rollback of a partial acquisition wakes       *)
(* nobody), and a signal operation on a handle whose slot has been reused  *)
(* may act on a word of another type; AnyOnly leaves both out.             *)
(***************************************************************************)

USE MaxRecAssumption, ThreadsAssumption, SizesAssumption

\* A workload without wait-all in which no slot is reused and a thread
\* unlocks mutexes only as itself.
AnyOnly ==
    /\ Fresh = {}
    /\ \A t \in Threads : \A r \in Menu[t] :
         ~r.all /\ (r.op = "mutex_unlock" => r.n = t)

Plain(t) ==
    /\ ~req[t].all /\ pc[t] # "rollback"
    /\ req[t].op = "mutex_unlock" => req[t].n = t
    /\ pc[t] = "cas" => slot[req[t].h.idx].type = OpType(req[t].op)

\* Somebody who stands there has yet to look at the list of his object, or to walk it.
PendingLabels == {"head", "walk", "clear", "store"}

\* The waiter has seen object i busy and will not look again by itself.
Tried(t, i) == \/ pc[t] \in {"try", "trypulse"} /\ lock = t /\ i < cur[t]
               \/ pc[t] = "deadline"
               \/ Parked(t) /\ ~bumped[t]

\* It has seen the word of event i without the signal, and not its counter yet.
Seen(t, i) == pc[t] = "trypulse" /\ lock = t /\ i = cur[t]

\* The word of object i lets t take it, pulses aside.
WordUp(t, i) ==
    LET s == hs(t)[i].idx IN is_locked(slot[s].type, w0[s], 0, t, 0)

Heard(t) == \A i \in 1 .. N(t) :
              (Tried(t, i) /\ Acquirable(t, i)) \/ (Seen(t, i) /\ WordUp(t, i))
                 => WakePending(hs(t)[i].idx)

WakeInv == ListInv /\ \A t \in Threads : Plain(t) /\ Heard(t)

-----------------------------------------------------------------------------
\* A signal operation that does not go on to wake anybody makes nothing
\* available to anybody else.
LEMMA QuietOutcome ==
    ASSUME NEW r \in Requests, r.op \in SignalOps, NEW w \in Word,
           ~OpOutcome(r, w).wake,
           NEW t \in Threads, NEW u \in Threads, t # u,
           r.op = "mutex_unlock" => r.n = u,
           NEW dd, NEW seq,
           is_locked(OpType(r.op), OpOutcome(r, w).w, dd, t, seq)
    PROVE  is_locked(OpType(r.op), w, dd, t, seq)
<1>0. w.lo \in Nat /\ w.hi \in Nat /\ t # 0 /\ u # 0
  BY DEF Word
<1>1. CASE r.op = "sem_release"
  BY <1>0, <1>1 DEF OpOutcome, sem_release, Outcome
<1>2. CASE r.op = "event_set"
  BY <1>0, <1>2 DEF OpOutcome, event_set, Outcome
<1>3. CASE r.op = "event_reset"
  <2>1. OpType(r.op) = TYPE_EVENT /\ OpOutcome(r, w) = event_reset(w)
    BY <1>3 DEF OpType, OpOutcome
  <2>2. w.lo = 0 => OpOutcome(r, w).w = w
    BY <2>1 DEF event_reset, Outcome
  <2>3. w.lo # 0 => is_locked(TYPE_EVENT, w, dd, t, seq)
    BY DEF is_locked, TYPE_SEM, TYPE_MUTEX, TYPE_EVENT
  <2>4. QED
    BY <2>1, <2>2, <2>3
<1>4. CASE r.op = "mutex_unlock"
  <2>1. OpType(r.op) = TYPE_MUTEX /\ OpOutcome(r, w) = mutex_unlock(w, u)
    BY <1>4 DEF OpType, OpOutcome
  <2>2. w.lo # u => OpOutcome(r, w).w = w
    BY <2>1 DEF mutex_unlock, Outcome
  <2>3. w.lo = u => OpOutcome(r, w).w.lo = u
    <3>1. CASE w.lo = u /\ w.hi = 1
      <4>1. mutex_unlock(w, u).wake
        BY <3>1 DEF mutex_unlock, Outcome
      <4>2. QED
        BY <2>1, <4>1
    <3>2. CASE w.lo = u /\ w.hi # 1
      BY <2>1, <3>2 DEF mutex_unlock, pack_mutex, Outcome
    <3>3. QED
      BY <3>1, <3>2
  <2>4. OpOutcome(r, w).w.lo \in {0, t}
    BY <2>1 DEF is_locked, TYPE_SEM, TYPE_MUTEX, TYPE_EVENT
  <2>5. QED
    BY <1>0, <2>1, <2>2, <2>3, <2>4
<1>5. CASE r.op = "mutex_kill"
  BY <1>0, <1>5 DEF OpOutcome, mutex_kill, Outcome
<1>6. QED
  BY <1>1, <1>2, <1>3, <1>4, <1>5 DEF SignalOps

\* Neither does taking an object.
LEMMA QuietAttempt ==
    ASSUME NEW type, NEW w \in Word, NEW dd,
           NEW t \in Threads, NEW u \in Threads, t # u, NEW seq,
           is_locked(type, try_acquire(type, w, u).w, dd, t, seq)
    PROVE  is_locked(type, w, dd, t, seq)
<1>0. w.lo \in Nat /\ w.hi \in Nat /\ t # 0 /\ u # 0
  BY DEF Word
<1>1. CASE type = TYPE_SEM
  BY <1>0, <1>1 DEF is_locked, try_acquire, Acquired, Busy, pack_sem,
                    TYPE_SEM, TYPE_MUTEX, TYPE_EVENT
<1>2. CASE type = TYPE_MUTEX
  BY <1>0, <1>2 DEF is_locked, try_acquire, Acquired, Busy, pack_mutex,
                    TYPE_SEM, TYPE_MUTEX, TYPE_EVENT
<1>3. CASE type = TYPE_EVENT
  BY <1>0, <1>3 DEF is_locked, try_acquire, Acquired, Busy, ClearBit,
                    TYPE_SEM, TYPE_MUTEX, TYPE_EVENT
<1>4. CASE type \notin {TYPE_SEM, TYPE_MUTEX, TYPE_EVENT}
  BY <1>4 DEF is_locked
<1>5. QED
  BY <1>1, <1>2, <1>3, <1>4

-----------------------------------------------------------------------------
LEMMA WakeInit == Init => WakeInv
<1> SUFFICES ASSUME Init PROVE WakeInv
  OBVIOUS
<1>1. \A t \in Threads : Plain(t)
  BY DEF Init, Plain, NoReq, SignalReq
<1>2. \A t \in Threads : Heard(t)
  BY DEF Init, Heard, Tried, Seen, Parked
<1>3. QED
  BY <1>1, <1>2, ListInit DEF WakeInv

\* Who has seen an object busy is on its list.
LEMMA TriedListed ==
    ASSUME WakeInv, NEW t \in Threads, NEW i \in 1 .. N(t), Tried(t, i) \/ Seen(t, i)
    PROVE  hs(t)[i].idx \in reg[t]
<1>1. OnLists(t)
  BY DEF Tried, Seen, OnLists, Held
<1>2. QED
  BY <1>1 DEF WakeInv, ListInv, ListOK, WaitSlots

\* What Acquirable and WordUp read.
LEMMA AcquirableSame ==
    ASSUME NEW t \in Threads, req'[t] = req[t], eseq'[t] = eseq[t], NEW i \in 1 .. N(t),
           LET s == hs(t)[i].idx
           IN  slot'[s].type = slot[s].type /\ w0'[s] = w0[s] /\ d'[s] = d[s]
    PROVE  (Acquirable(t, i)' <=> Acquirable(t, i)) /\ (WordUp(t, i)' <=> WordUp(t, i))
  BY DEF Acquirable, WordUp, hs

LEMMA WordUpSame ==
    ASSUME NEW t \in Threads, req'[t] = req[t], NEW i \in 1 .. N(t),
           LET s == hs(t)[i].idx
           IN  slot'[s].type = slot[s].type /\ w0'[s] = w0[s]
    PROVE  WordUp(t, i)' <=> WordUp(t, i)
  BY DEF WordUp, hs

\* An attempt succeeds by the word, or else by the counter of an event.
LEMMA AttemptWordUp ==
    ASSUME TypeInv, NEW t \in Threads, NEW i \in 1 .. N(t)
    PROVE  /\ Attempt(t, i).ok <=> WordUp(t, i)
           /\ Acquirable(t, i) <=> WordUp(t, i) \/ (IsEvent(t, i) /\ CounterMoved(t, i))
<1> DEFINE s == hs(t)[i].idx
<1>1. s \in Slots /\ w0[s] \in Word /\ t \in Nat
  BY ReqType DEF TypeInv, TypeOK
<1>2. is_locked(slot[s].type, w0[s], 0, t, 0) <=> try_acquire(slot[s].type, w0[s], t).ok
  BY <1>1, AttemptLocked
<1>3. is_locked(slot[s].type, w0[s], d[s], t, eseq[t][i])
        <=> try_acquire(slot[s].type, w0[s], t).ok \/ (slot[s].type = TYPE_EVENT /\ d[s] # eseq[t][i])
  BY <1>1, AttemptLocked
<1>4. QED
  BY <1>2, <1>3 DEF Attempt, WordUp, Acquirable, IsEvent, CounterMoved

\* The types of the slots never change.
SameTypes == \A s \in Slots : slot'[s].type = slot[s].type

LEMMA TypesKept ==
    ASSUME AnyOnly, ListInv, Next
    PROVE  SameTypes
<1>1. PICK t \in Threads :
          Refuse(t) \/ Begin(t) \/ Create(t) \/ Step(t) \/ Interrupt(t) \/ Expire(t)
  BY DEF Next
<1>2. ~Create(t)
  BY DEF AnyOnly, Create
<1>3. CASE close(t)
  <2> DEFINE s == req[t].h.idx
  <2>1. \/ slot' = slot
        \/ slot' = [slot EXCEPT ![s] = [used |-> FALSE, gen |-> slot[s].gen + 1,
                                       type |-> slot[s].type]]
    BY <1>3 DEF close
  <2>2. slot \in [Slots -> [used : BOOLEAN, gen : Nat, type : Types]]
    BY DEF ListInv, TypeInv, TypeOK
  <2>3. QED
    BY <2>1, <2>2 DEF SameTypes
<1>4. CASE SignalStep(t) \/ event_pulse(t) \/ PulseCount(t) \/ PulseLoad(t) \/ PulseStore(t)
  BY <1>4 DEF SignalStep, Resolve, Cas, ReadHead, Walk, event_pulse, PulseCount, PulseLoad,
              PulseStore, shared, SameTypes
<1>5. CASE WaitStep(t)
  BY <1>5 DEF WaitStep, FastValidate, AlertValid, AlertFast, FastMiss, TryAny, TryPulseAny,
              TryAll, TryPulseAll, Rollback, Lock, AlertCheck, Register, Deadline, SpinAlert, Peek, SpinMiss,
              Wake, TailDone, Awake, Cleanup, shared, SameTypes
<1>6. CASE Refuse(t) \/ Begin(t) \/ Interrupt(t) \/ Expire(t)
  BY <1>6 DEF Refuse, Begin, Interrupt, Expire, shared, SameTypes
<1>7. QED
  BY <1>1, <1>2, <1>3, <1>4, <1>5, <1>6 DEF Step, LockedStep

\* WakePending of slot s after the step.
PendingNext(s) ==
    \E v \in Threads : pc'[v] \in PendingLabels /\ req'[v].h.idx = s

\* The step is not the end of a walk, or of the look that saves one.
WalksOn(u) == pc[u] \in PendingLabels => pc'[u] \in PendingLabels /\ req'[u] = req[u]

\* A signaler that has not finished yet is still there.
LEMMA PendingKept ==
    ASSUME NEW u \in Threads, StepOK(u), NEW s, WakePending(s),
           WalksOn(u) \/ req[u].h.idx # s
    PROVE  PendingNext(s)
  BY DEF StepOK, Undisturbed, WakePending, PendingNext, PendingLabels, WalksOn

\* The invariant of a thread t that watches a step of thread u.
LEMMA WatcherOK ==
    ASSUME WakeInv, SameTypes, NEW u \in Threads, StepOK(u), NEW t \in Threads \ {u},
           bumped[t] => bumped'[t],
           \A i \in 1 .. N(t) : Tried(t, i)' \/ Seen(t, i)' =>
             /\ Acquirable(t, i)' => Acquirable(t, i) \/ PendingNext(hs(t)[i].idx)
             /\ WordUp(t, i)' => WordUp(t, i) \/ PendingNext(hs(t)[i].idx)
             /\ WakePending(hs(t)[i].idx) => PendingNext(hs(t)[i].idx)
    PROVE  Plain(t)' /\ Heard(t)'
<1>1. Undisturbed(t)
  BY DEF StepOK
<1>2. Plain(t)'
  <2>1. req[t].h.idx \in Slots
    BY DEF WakeInv, ListInv, TypeInv, TypeOK, Requests, Handles
  <2>2. QED
    BY <1>1, <2>1 DEF WakeInv, Plain, Undisturbed, SameTypes
<1>3. N(t)' = N(t) /\ hs(t)' = hs(t)
  BY <1>1 DEF Undisturbed, N, hs
<1>4. \A i \in 1 .. N(t) : (Tried(t, i)' => Tried(t, i)) /\ (Seen(t, i)' => Seen(t, i))
  <2>1. bumped[t] \in BOOLEAN /\ (~bumped'[t] => ~bumped[t])
    BY DEF WakeInv, ListInv, TypeInv, TypeOK
  <2>2. Parked(t)' => Parked(t)
    BY <1>1 DEF Undisturbed, Parked
  <2>3. QED
    BY <1>1, <2>1, <2>2 DEF Undisturbed, Tried, Seen
<1>5. ASSUME NEW i \in 1 .. N(t),
             (Tried(t, i)' /\ Acquirable(t, i)') \/ (Seen(t, i)' /\ WordUp(t, i)')
      PROVE  PendingNext(hs(t)[i].idx)
  BY <1>4, <1>5 DEF WakeInv, Heard
<1>6. Heard(t)'
  BY <1>3, <1>5 DEF Heard, PendingNext, PendingLabels, WakePending
<1>7. QED
  BY <1>2, <1>6

\* It is enough that the step keeps the words, wakes nobody and is not the end
\* of a signal operation.
LEMMA WatchersOK ==
    ASSUME WakeInv, SameTypes, NEW u \in Threads, StepOK(u), UNCHANGED <<w0, d>>,
           WalksOn(u), \A t \in Threads \ {u} : bumped'[t] = bumped[t]
    PROVE  \A t \in Threads \ {u} : Plain(t)' /\ Heard(t)'
<1> SUFFICES ASSUME NEW t \in Threads \ {u} PROVE Plain(t)' /\ Heard(t)'
  OBVIOUS
<1>1. ASSUME NEW i \in 1 .. N(t)
      PROVE  (Acquirable(t, i)' <=> Acquirable(t, i)) /\ (WordUp(t, i)' <=> WordUp(t, i))
  <2>1. hs(t)[i].idx \in Slots
    BY ReqType DEF WakeInv, ListInv, TypeInv
  <2>2. req'[t] = req[t] /\ eseq'[t] = eseq[t]
    BY DEF StepOK, Undisturbed
  <2>3. QED
    BY <2>1, <2>2, AcquirableSame DEF SameTypes
<1>2. \A s : WakePending(s) => PendingNext(s)
  BY PendingKept
<1>3. QED
  BY <1>1, <1>2, WatcherOK

\* The invariant of the thread that acts, when it is not left waiting.
LEMMA NotTriedOK ==
    ASSUME NEW t \in Threads, \A i \in 1 .. N(t)' : ~Tried(t, i)' /\ ~Seen(t, i)'
    PROVE  Heard(t)'
  BY DEF Heard

\* The same when it waits on.
LEMMA StillTriedOK ==
    ASSUME WakeInv, SameTypes, NEW t \in Threads, StepOK(t), UNCHANGED <<w0, d>>,
           WalksOn(t), req'[t] = req[t], eseq'[t] = eseq[t],
           \A i \in 1 .. N(t) :
             /\ Tried(t, i)' /\ Acquirable(t, i) => Tried(t, i) \/ (Seen(t, i) /\ WordUp(t, i))
             /\ Seen(t, i)' => ~WordUp(t, i)
    PROVE  Heard(t)'
<1>1. N(t)' = N(t) /\ hs(t)' = hs(t)
  BY DEF N, hs
<1>2. ASSUME NEW i \in 1 .. N(t),
             (Tried(t, i)' /\ Acquirable(t, i)') \/ (Seen(t, i)' /\ WordUp(t, i)')
      PROVE  PendingNext(hs(t)[i].idx)
  <2>1. hs(t)[i].idx \in Slots
    BY ReqType DEF WakeInv, ListInv, TypeInv
  <2>2. Tried(t, i)' /\ Acquirable(t, i)
    BY <1>2, <2>1, AcquirableSame DEF SameTypes
  <2>3. WakePending(hs(t)[i].idx)
    BY <1>2, <2>2 DEF WakeInv, Heard
  <2>4. QED
    BY <2>3, PendingKept
<1>3. QED
  BY <1>1, <1>2 DEF Heard, PendingNext, PendingLabels, WakePending

\* Plain, for the thread that acts.
LEMMA PlainOK ==
    ASSUME WakeInv, SameTypes, NEW t \in Threads,
           req'[t] \in {req[t], NoReq}, pc'[t] \notin {"cas", "rollback"}
    PROVE  Plain(t)'
  BY DEF WakeInv, Plain, NoReq, SignalReq

\* Putting the two together.
LEMMA WakeSuffices ==
    ASSUME ListInv', NEW u \in Threads, Plain(u)', Heard(u)',
           \A t \in Threads \ {u} : Plain(t)' /\ Heard(t)'
    PROVE  WakeInv'
  BY DEF WakeInv

-----------------------------------------------------------------------------
(* The steps. *)

\* Calls begin and end; nobody becomes a waiter by that.
LEMMA CallWake ==
    ASSUME AnyOnly, WakeInv, SameTypes, ListInv', NEW t \in Threads,
           Refuse(t) \/ Begin(t) \/ Resolve(t)
    PROVE  WakeInv'
<1>1. StepOK(t)
  BY RefuseOK, BeginOK, ResolveOK DEF WakeInv, ListInv
<1>2. /\ UNCHANGED <<w0, d, bumped, slot>>
      /\ pc[t] \in {"idle", "resolve"}
  BY DEF Refuse, Begin, Resolve, shared
<1>3. pc'[t] \in CallLabels \cup {"validate"}
  <2>1. CASE Begin(t)
    <3>1. PICK r \in Menu[t] :
            Goto(t, CASE r.op \in SignalOps -> "resolve"
                      [] r.op \in LockedOps -> "locked"
                      [] r.op = "wait"      -> "validate")
      BY <2>1 DEF Begin
    <3>2. r.op \in SignalOps \cup LockedOps \cup {"wait"}
      BY WorkloadAssumption DEF Requests, Ops
    <3>3. QED
      BY <3>1, <3>2 DEF Goto, WakeInv, ListInv, TypeInv, TypeOK, CallLabels
  <2>2. CASE Refuse(t) \/ Resolve(t)
    BY <2>2 DEF Refuse, Resolve, Goto, Return, WakeInv, ListInv, TypeInv, TypeOK, CallLabels
  <2>3. QED
    BY <2>1, <2>2
<1>4. Heard(t)'
  BY <1>3, NotTriedOK DEF Tried, Seen, Parked, CallLabels
<1>5. Plain(t)'
  <2>1. CASE Begin(t)
    <3>1. PICK r \in Menu[t] : req' = [req EXCEPT ![t] = r]
      BY <2>1 DEF Begin
    <3>2. req'[t] = r
      BY <3>1 DEF WakeInv, ListInv, TypeInv, TypeOK
    <3>3. pc'[t] \notin {"cas", "rollback"}
      <4>1. PICK q \in Menu[t] :
              Goto(t, CASE q.op \in SignalOps -> "resolve"
                        [] q.op \in LockedOps -> "locked"
                        [] q.op = "wait"      -> "validate")
        BY <2>1 DEF Begin
      <4>2. q.op \in SignalOps \cup LockedOps \cup {"wait"}
        BY WorkloadAssumption DEF Requests, Ops
      <4>3. QED
        BY <4>1, <4>2 DEF Goto, WakeInv, ListInv, TypeInv, TypeOK
    <3>4. QED
      BY <3>2, <3>3 DEF AnyOnly, Plain
  <2>2. CASE Refuse(t)
    BY <2>2, <1>2, PlainOK DEF Refuse
  <2>3. CASE Resolve(t)
    <3>1. CASE Return(t, Invalid)
      BY <3>1, PlainOK DEF Return, WakeInv, ListInv, TypeInv, TypeOK
    <3>2. CASE /\ ValidOf(req[t].h, OpType(req[t].op))
               /\ UNCHANGED req /\ Goto(t, "cas")
      BY <1>2, <3>2 DEF WakeInv, Plain, ValidOf, Goto, ListInv, TypeInv, TypeOK
    <3>3. QED
      BY <2>3, <3>1, <3>2 DEF Resolve
  <2>4. QED
    BY <2>1, <2>2, <2>3
<1>6. QED
  BY <1>1, <1>2, <1>4, <1>5, WatchersOK, WakeSuffices DEF WalksOn, PendingLabels

\* The CAS of a signal operation: either it makes nothing available, or the
\* signaler goes on to look at the list.
LEMMA CasWake ==
    ASSUME WakeInv, SameTypes, ListInv', NEW u \in Threads, Cas(u)
    PROVE  WakeInv'
<1> DEFINE s == req[u].h.idx
           o == OpOutcome(req[u], w0[s])
<1>1. StepOK(u) /\ pc[u] = "cas" /\ UNCHANGED <<slot, d, bumped>>
  BY CasOK DEF WakeInv, ListInv, Cas
<1>2. /\ req[u] \in Requests /\ s \in Slots /\ w0[s] \in Word /\ req[u].op \in SignalOps
      /\ w0' = [w0 EXCEPT ![s] = o.w] /\ w0 \in [Slots -> Word]
  BY <1>1 DEF Cas, WakeInv, ListInv, TypeInv, TypeOK, Requests, Handles, ThreadOK, CallOK
<1>3. \/ o.wake /\ pc'[u] = "head" /\ req' = req
      \/ ~o.wake /\ pc'[u] = "idle" /\ req'[u] = NoReq
  BY ZenonT(30) DEF Cas, Goto, Return, WakeInv, ListInv, TypeInv, TypeOK
<1>4. Heard(u)'
  BY <1>3, NotTriedOK DEF Tried, Seen, Parked
<1>5. Plain(u)'
  BY <1>3, PlainOK
<1>6. ASSUME NEW t \in Threads \ {u}
      PROVE  Plain(t)' /\ Heard(t)'
  <2>1. ASSUME NEW i \in 1 .. N(t)
        PROVE  /\ Acquirable(t, i)' => Acquirable(t, i) \/ PendingNext(hs(t)[i].idx)
               /\ WordUp(t, i)' => WordUp(t, i) \/ PendingNext(hs(t)[i].idx)
    <3> DEFINE x == hs(t)[i].idx
    <3>1. x \in Slots
      BY ReqType DEF WakeInv, ListInv, TypeInv
    <3>2. req'[t] = req[t] /\ eseq'[t] = eseq[t]
      BY <1>1 DEF StepOK, Undisturbed
    <3>3. CASE x # s
      <4>1. slot'[x].type = slot[x].type /\ w0'[x] = w0[x] /\ d'[x] = d[x]
        BY <1>1, <1>2, <3>1, <3>3
      <4>2. QED
        BY <3>2, <4>1, AcquirableSame
    <3>4. CASE x = s /\ o.wake
      BY <1>3, <3>4 DEF PendingNext, PendingLabels
    <3>5. CASE x = s /\ ~o.wake
      <4>1. slot[s].type = OpType(req[u].op) /\ (req[u].op = "mutex_unlock" => req[u].n = u)
        BY <1>1 DEF WakeInv, Plain
      <4>2. ASSUME NEW dd, NEW seq, is_locked(slot[s].type, o.w, dd, t, seq)
            PROVE  is_locked(slot[s].type, w0[s], dd, t, seq)
        <5>1. t \in Threads /\ t # u /\ ~o.wake
          BY <3>5
        <5>2. /\ is_locked(OpType(req[u].op), OpOutcome(req[u], w0[s]).w, dd, t, seq)
              /\ ~OpOutcome(req[u], w0[s]).wake
          BY <4>1, <4>2, <5>1
        <5>3. is_locked(OpType(req[u].op), w0[s], dd, t, seq)
          BY ONLY <1>2, <4>1, <5>1, <5>2, QuietOutcome, u \in Threads
        <5>4. QED
          BY <4>1, <5>3
      <4>3. w0'[s] = o.w /\ slot' = slot /\ d' = d
        BY <1>1, <1>2
      <4>4. /\ Acquirable(t, i)' <=> is_locked(slot[s].type, o.w, d[s], t, eseq[t][i])
            /\ WordUp(t, i)' <=> is_locked(slot[s].type, o.w, 0, t, 0)
        BY <3>2, <3>5, <4>3 DEF Acquirable, WordUp, hs
      <4>5. /\ Acquirable(t, i) <=> is_locked(slot[s].type, w0[s], d[s], t, eseq[t][i])
            /\ WordUp(t, i) <=> is_locked(slot[s].type, w0[s], 0, t, 0)
        BY <3>5 DEF Acquirable, WordUp
      <4>6. QED
        BY <4>2, <4>4, <4>5
    <3>6. QED
      BY <3>3, <3>4, <3>5, <1>3
  <2>2. \A x : WakePending(x) => PendingNext(x)
    BY <1>1, PendingKept DEF WalksOn, PendingLabels
  <2>3. QED
    BY <1>1, <2>1, <2>2, WatcherOK
<1>7. QED
  BY <1>4, <1>5, <1>6, WakeSuffices

\* Where a thread stands after a return and after a jump.
LEMMA PcAfter ==
    ASSUME WakeInv, NEW t \in Threads
    PROVE  /\ \A r : Return(t, r) => pc'[t] = "idle" /\ req'[t] = NoReq
           /\ \A l : Goto(t, l) => pc'[t] = l
  BY DEF WakeInv, ListInv, TypeInv, TypeOK, Return, Goto

\* The look at the list: it is not empty if anybody waits on the object.
LEMMA ReadHeadWake ==
    ASSUME WakeInv, SameTypes, ListInv', NEW u \in Threads, ReadHead(u)
    PROVE  WakeInv'
<1> DEFINE s == req[u].h.idx
<1>1. StepOK(u) /\ pc[u] = "head" /\ UNCHANGED <<slot, w0, d, reg, bumped>>
  BY ReadHeadOK DEF WakeInv, ListInv, ReadHead, shared
<1>2. \/ pc'[u] = "walk" /\ req' = req
      \/ /\ pc'[u] = "idle" /\ req'[u] = NoReq
         /\ \A t \in Threads : s \notin reg[t]
  BY PcAfter DEF ReadHead
<1>3. Heard(u)'
  BY <1>2, NotTriedOK DEF Tried, Seen, Parked
<1>4. Plain(u)'
  BY <1>2, PlainOK
<1>5. ASSUME NEW t \in Threads \ {u}
      PROVE  Plain(t)' /\ Heard(t)'
  <2>1. ASSUME NEW i \in 1 .. N(t), Tried(t, i)' \/ Seen(t, i)'
        PROVE  /\ Acquirable(t, i)' => Acquirable(t, i)
               /\ WordUp(t, i)' => WordUp(t, i)
               /\ WakePending(hs(t)[i].idx) => PendingNext(hs(t)[i].idx)
    <3> DEFINE x == hs(t)[i].idx
    <3>1. x \in Slots
      BY ReqType DEF WakeInv, ListInv, TypeInv
    <3>2. Undisturbed(t)
      BY <1>1 DEF StepOK
    <3>3. (Acquirable(t, i)' <=> Acquirable(t, i)) /\ (WordUp(t, i)' <=> WordUp(t, i))
      BY <1>1, <3>1, <3>2, AcquirableSame DEF Undisturbed
    <3>4. x \in reg[t]
      <4>1. Tried(t, i) \/ Seen(t, i)
        BY <1>1, <2>1, <3>2 DEF Tried, Seen, Parked, Undisturbed
      <4>2. QED
        BY <4>1, TriedListed
    <3>5. CASE x # s
      BY <1>1, <3>3, <3>5, PendingKept
    <3>6. CASE x = s
      <4>1. pc'[u] = "walk" /\ req'[u].h.idx = x
        BY <1>2, <3>4, <3>6
      <4>2. PendingNext(x)
        BY <4>1 DEF PendingNext, PendingLabels
      <4>3. QED
        BY <3>3, <4>2
    <3>7. QED
      BY <3>5, <3>6
  <2>2. QED
    BY <1>1, <2>1, WatcherOK
<1>6. QED
  BY <1>3, <1>4, <1>5, WakeSuffices

\* A walk, the end of a pulse and a close reach everyone who waits on the object.
LEMMA WalkWake ==
    ASSUME WakeInv, SameTypes, ListInv', NEW u \in Threads,
           Walk(u) \/ PulseStore(u) \/ close(u)
    PROVE  WakeInv'
<1> DEFINE s == req[u].h.idx
<1>1. StepOK(u)
  BY WalkOK, PulseStoreOK, CloseOK DEF WakeInv, ListInv
<1>2. /\ pc[u] \in {"walk", "locked", "store"} /\ pc'[u] = "idle" /\ req'[u] = NoReq
      /\ lock \in {u, NoThread}
  <2>1. PulseStore(u) => lock = u
    BY PulseHolds DEF PulseStore, WakeInv, ListInv
  <2>2. QED
    BY <2>1, PcAfter DEF Walk, PulseStore, close
<1>3. Plain(u)' /\ Heard(u)'
  BY <1>2, PlainOK, NotTriedOK DEF Tried, Seen, Parked
<1>4. CASE UNCHANGED <<w0, d, bumped>> /\ pc[u] = "locked"
  <2>1. \A t \in Threads \ {u} : Plain(t)' /\ Heard(t)'
    BY <1>1, <1>4, WatchersOK DEF WalksOn, PendingLabels
  <2>2. QED
    BY <1>3, <2>1, WakeSuffices
<1>5. CASE wake_object(s) /\ \A x \in Slots \ {s} : w0'[x] = w0[x] /\ d'[x] = d[x]
  <2>1. ASSUME NEW t \in Threads \ {u}
        PROVE  Plain(t)' /\ Heard(t)'
    <3>1. Undisturbed(t) /\ lock # t
      BY <1>1, <1>2 DEF StepOK, NoThread
    <3>2. bumped'[t] = (bumped[t] \/ s \in reg[t]) /\ bumped[t] \in BOOLEAN
      BY <1>5 DEF wake_object, WakeInv, ListInv, TypeInv, TypeOK
    <3>3. ASSUME NEW i \in 1 .. N(t), Tried(t, i)' \/ Seen(t, i)'
          PROVE  /\ Acquirable(t, i)' => Acquirable(t, i)
                 /\ WordUp(t, i)' => WordUp(t, i)
                 /\ WakePending(hs(t)[i].idx) => PendingNext(hs(t)[i].idx)
      <4> DEFINE x == hs(t)[i].idx
      <4>1. pc[t] # "deadline"
        BY <3>1 DEF WakeInv, ListInv, TypeInv, ThreadOK, HoldOK, HeldLabels
      <4>2. Tried(t, i) /\ s \notin reg[t]
        BY <3>1, <3>2, <3>3, <4>1 DEF Tried, Seen, Parked, Undisturbed
      <4>3. x \in reg[t]
        BY <4>2, TriedListed
      <4>4. x # s /\ x \in Slots
        BY <4>2, <4>3, ReqType DEF WakeInv, ListInv, TypeInv
      <4>5. (Acquirable(t, i)' <=> Acquirable(t, i)) /\ (WordUp(t, i)' <=> WordUp(t, i))
        <5>1. /\ req'[t] = req[t] /\ eseq'[t] = eseq[t]
              /\ slot'[x].type = slot[x].type /\ w0'[x] = w0[x] /\ d'[x] = d[x]
          BY <1>5, <3>1, <4>4 DEF Undisturbed, SameTypes
        <5>2. QED
          BY <5>1, AcquirableSame
      <4>6. QED
        BY <1>1, <4>4, <4>5, PendingKept
    <3>4. QED
      BY <1>1, <3>2, <3>3, WatcherOK
  <2>2. QED
    BY <1>3, <2>1, WakeSuffices
<1>6. QED
  <2>1. CASE Walk(u)
    BY <1>5, <2>1 DEF Walk, shared
  <2>2. CASE PulseStore(u)
    <3>1. /\ wake_object(s) /\ d' = d
          /\ w0' = [w0 EXCEPT ![s] = ClearBit(old)]
      BY <2>2 DEF PulseStore
    <3>2. w0 \in [Slots -> Word]
      BY DEF WakeInv, ListInv, TypeInv, TypeOK
    <3>3. QED
      BY <1>5, <3>1, <3>2
  <2>3. CASE close(u)
    BY <1>4, <1>5, <2>3 DEF close
  <2>4. QED
    BY <2>1, <2>2, <2>3

\* A pulse, until it comes to its store: from the count on it is on its way to
\* those who wait.
LEMMA PulseWake ==
    ASSUME WakeInv, SameTypes, ListInv', NEW u \in Threads,
           event_pulse(u) \/ PulseCount(u) \/ PulseLoad(u)
    PROVE  WakeInv'
<1> DEFINE s == req[u].h.idx
<1>1. StepOK(u)
  BY PulseOK, PulseCountOK, PulseLoadOK DEF WakeInv, ListInv
<1>2. /\ UNCHANGED <<slot, w0, reg, bumped>>
      /\ \/ pc[u] = "locked" /\ pc'[u] \in {"idle", "pulse"} /\ req'[u] \in {req[u], NoReq} /\ d' = d
         \/ pc[u] = "pulse" /\ pc'[u] = "clear" /\ req' = req /\ d' = [d EXCEPT ![s] = d[s] + 1]
         \/ pc[u] = "clear" /\ pc'[u] = "store" /\ req' = req /\ d' = d
  BY PcAfter DEF event_pulse, PulseCount, PulseLoad
<1>3. Plain(u)' /\ Heard(u)' /\ WalksOn(u)
  <2>1. pc'[u] \in {"idle", "pulse", "clear", "store"} /\ req'[u] \in {req[u], NoReq}
    BY <1>2
  <2>2. QED
    BY <1>2, <2>1, PlainOK, NotTriedOK DEF Tried, Seen, Parked, WalksOn, PendingLabels
<1>4. CASE d' = d
  BY <1>1, <1>2, <1>3, <1>4, WatchersOK, WakeSuffices
<1>5. CASE d' = [d EXCEPT ![s] = d[s] + 1] /\ pc'[u] = "clear" /\ req' = req
  <2>1. ASSUME NEW t \in Threads \ {u} PROVE Plain(t)' /\ Heard(t)'
    <3>1. ASSUME NEW i \in 1 .. N(t)
          PROVE  /\ Acquirable(t, i)' => Acquirable(t, i) \/ PendingNext(hs(t)[i].idx)
                 /\ WordUp(t, i)' => WordUp(t, i)
      <4> DEFINE x == hs(t)[i].idx
      <4>1. x \in Slots /\ d \in [Slots -> Nat]
        BY ReqType DEF WakeInv, ListInv, TypeInv, TypeOK
      <4>2. req'[t] = req[t] /\ eseq'[t] = eseq[t]
        BY <1>1 DEF StepOK, Undisturbed
      <4>3. WordUp(t, i)' <=> WordUp(t, i)
        BY <1>2, <4>2, WordUpSame
      <4>4. CASE x = s
        BY <1>5, <4>3, <4>4 DEF PendingNext, PendingLabels
      <4>5. CASE x # s
        BY <1>2, <1>5, <4>1, <4>2, <4>5, AcquirableSame
      <4>6. QED
        BY <4>4, <4>5
    <3>2. \A x : WakePending(x) => PendingNext(x)
      BY <1>1, <1>3, PendingKept
    <3>3. QED
      BY <1>1, <1>2, <3>1, <3>2, WatcherOK
  <2>2. QED
    BY <1>3, <2>1, WakeSuffices
<1>6. QED
  BY <1>2, <1>4, <1>5

\* The waiter's own steps that leave the words alone.
LEMMA MoveWake ==
    ASSUME WakeInv, SameTypes, ListInv', NEW t \in Threads, StepOK(t),
           UNCHANGED <<w0, d>>, \A u \in Threads \ {t} : bumped'[u] = bumped[u],
           WalksOn(t), pc'[t] \notin {"cas", "rollback"},
           \/ /\ req'[t] \in {req[t], NoReq}
              /\ \A i \in 1 .. N(t)' : ~Tried(t, i)' /\ ~Seen(t, i)'
           \/ /\ req'[t] = req[t] /\ eseq'[t] = eseq[t]
              /\ \A i \in 1 .. N(t) :
                   /\ Tried(t, i)' /\ Acquirable(t, i) => Tried(t, i) \/ (Seen(t, i) /\ WordUp(t, i))
                   /\ Seen(t, i)' => ~WordUp(t, i)
    PROVE  WakeInv'
<1>1. Plain(t)'
  BY PlainOK
<1>2. Heard(t)'
  BY NotTriedOK, StillTriedOK
<1>3. QED
  BY <1>1, <1>2, WatchersOK, WakeSuffices

LEMMA FastWake ==
    ASSUME WakeInv, SameTypes, ListInv', NEW t \in Threads,
           FastValidate(t) \/ AlertValid(t) \/ AlertFast(t) \/ FastMiss(t)
    PROVE  WakeInv'
<1>1. StepOK(t)
  BY FastValidateOK, AlertValidOK, AlertFastOK, FastMissOK DEF WakeInv, ListInv
<1>2. UNCHANGED <<w0, d, bumped, nodes, lock>> /\ pc[t] \in FastLabels
  BY DEF FastValidate, AlertValid, AlertFast, FastMiss, shared, FastLabels
<1>3. nodes[t] = 0 /\ lock # t
  BY <1>2 DEF WakeInv, ListInv, TypeInv, ThreadOK, HoldOK, CallLabels, FastLabels, HeldLabels
<1>4. \/ pc'[t] = "idle" /\ req'[t] = NoReq
      \/ pc'[t] \in FastLabels \cup {"try", "lock", "panic"} /\ req' = req
  <2>1. CASE FastValidate(t)
    <3>1. PICK l \in {"lock", "validate", "try", "alertvalid"} : Goto(t, l)
      BY <2>1 DEF FastValidate
    <3>2. QED
      BY <2>1, <3>1 DEF FastValidate, Goto, WakeInv, ListInv, TypeInv, TypeOK, FastLabels
  <2>2. CASE AlertValid(t) \/ AlertFast(t) \/ FastMiss(t)
    BY <2>2, PcAfter DEF AlertValid, AlertFast, FastMiss, FastLabels
  <2>3. QED
    BY <2>1, <2>2
<1>5. \A i \in 1 .. N(t)' : ~Tried(t, i)' /\ ~Seen(t, i)'
  BY <1>2, <1>3, <1>4 DEF Tried, Seen, Parked, FastLabels
<1>6. QED
  BY <1>1, <1>2, <1>4, <1>5, MoveWake DEF FastLabels, WalksOn, PendingLabels

LEMMA SpinWake ==
    ASSUME WakeInv, SameTypes, ListInv', NEW t \in Threads,
           SpinAlert(t) \/ Peek(t) \/ SpinMiss(t)
    PROVE  WakeInv'
<1>1. StepOK(t)
  BY SpinAlertOK, PeekOK, SpinMissOK DEF WakeInv, ListInv
<1>2. /\ UNCHANGED <<w0, d, bumped, nodes, lock, req, eseq>>
      /\ pc[t] \in {"spin", "peek", "spinmiss"}
  BY DEF SpinAlert, Peek, SpinMiss, shared
<1>3. lock # t
  BY <1>2 DEF WakeInv, ListInv, TypeInv, ThreadOK, HoldOK, HeldLabels
<1>4. pc'[t] \in {"peek", "panic", "cleanup", "try", "spinmiss", "spin", "futex", "tail"}
  BY ZenonT(30) DEF SpinAlert, Peek, SpinMiss, SleepLabels, Goto, WakeInv, ListInv, TypeInv, TypeOK
<1>5. \A i \in 1 .. N(t) : (Tried(t, i)' => Tried(t, i)) /\ ~Seen(t, i)'
  BY <1>2, <1>3, <1>4 DEF Tried, Seen, Parked
<1>6. QED
  BY <1>1, <1>2, <1>4, <1>5, MoveWake DEF WalksOn, PendingLabels

LEMMA SleepWake ==
    ASSUME WakeInv, SameTypes, ListInv', NEW t \in Threads,
           \/ Wake(t) \/ Interrupt(t) \/ TailDone(t) \/ Awake(t) \/ Cleanup(t)
           \/ Lock(t) \/ AlertCheck(t)
    PROVE  WakeInv'
<1>1. StepOK(t)
  BY WakeOK, InterruptOK, TailDoneOK, AwakeOK, CleanupOK, LockOK, AlertCheckOK
  DEF WakeInv, ListInv
<1>2. /\ UNCHANGED <<w0, d>> /\ \A u \in Threads \ {t} : bumped'[u] = bumped[u]
      /\ pc[t] \notin PendingLabels
  BY DEF PendingLabels, Wake, Interrupt, TailDone, Awake, Cleanup, Lock, AlertCheck, shared,
         WakeInv, ListInv, TypeInv, TypeOK
<1>3. /\ pc'[t] \in {"awake", "lock", "idle", "alertchk", "register", "cleanup"}
      /\ req'[t] \in {req[t], NoReq}
  BY ZenonT(30) DEF Wake, Interrupt, TailDone, Awake, Cleanup, Lock, AlertCheck, Goto, Return, shared,
         WakeInv, ListInv, TypeInv, TypeOK
<1>4. \A i \in 1 .. N(t)' : ~Tried(t, i)' /\ ~Seen(t, i)'
  BY <1>3 DEF Tried, Seen, Parked
<1>5. QED
  BY <1>1, <1>2, <1>3, <1>4, MoveWake DEF WalksOn

LEMMA RegisterWake ==
    ASSUME WakeInv, SameTypes, ListInv', NEW t \in Threads, Register(t)
    PROVE  WakeInv'
<1>1. StepOK(t)
  BY RegisterOK DEF WakeInv, ListInv
<1>2. UNCHANGED <<w0, d, bumped, req, cur, lock>> /\ pc[t] = "register" /\ cur[t] = 1 /\ lock = t
  BY DEF Register, WakeInv, ListInv, TypeInv, ThreadOK, TryOK, HoldOK, HeldLabels
<1>3. pc'[t] \in {"try", "cleanup"}
  BY DEF Register, Goto, WakeInv, ListInv, TypeInv, TypeOK
<1>4. \A i \in 1 .. N(t)' : ~Tried(t, i)' /\ ~Seen(t, i)'
  BY <1>2, <1>3 DEF Tried, Seen, Parked
<1>5. QED
  BY <1>1, <1>2, <1>3, <1>4, MoveWake DEF WalksOn, PendingLabels

\* The waiter releases the lock having seen all its objects busy under it.
LEMMA DeadlineWake ==
    ASSUME WakeInv, SameTypes, ListInv', NEW t \in Threads, Deadline(t) \/ Expire(t)
    PROVE  WakeInv'
<1>1. StepOK(t)
  BY DeadlineOK, ExpireOK DEF WakeInv, ListInv
<1>2. CASE Deadline(t)
  <2>1. /\ UNCHANGED <<w0, d, req, eseq>> /\ pc[t] = "deadline"
        /\ \A u \in Threads \ {t} : bumped'[u] = bumped[u]
    BY <1>2 DEF Deadline, WakeInv, ListInv, TypeInv, TypeOK
  <2>2. pc'[t] \in {"cleanup", "spin", "futex", "tail"}
    BY <1>2 DEF Deadline, SleepLabels, Goto, WakeInv, ListInv, TypeInv, TypeOK
  <2>3. \A i \in 1 .. N(t) : Tried(t, i)
    BY <2>1 DEF Tried
  <2>4. \A i \in 1 .. N(t) : ~Seen(t, i)'
    BY <2>2 DEF Seen
  <2>5. QED
    BY <1>1, <2>1, <2>2, <2>3, <2>4, MoveWake DEF WalksOn, PendingLabels
<1>3. CASE Expire(t)
  <2>1. UNCHANGED <<slot, w0, d, lock, pc, req, cur, eseq, nodes, bumped>>
    BY <1>3 DEF Expire, shared
  <2>2. \A u \in Threads : Plain(u)'
    BY <2>1 DEF WakeInv, Plain
  <2>3. \A u \in Threads : Heard(u)'
    <3>1. ASSUME NEW u \in Threads, NEW i \in 1 .. N(u)
          PROVE  /\ (Tried(u, i)' <=> Tried(u, i)) /\ (Acquirable(u, i)' <=> Acquirable(u, i))
                 /\ (Seen(u, i)' <=> Seen(u, i)) /\ (WordUp(u, i)' <=> WordUp(u, i))
      BY <2>1 DEF Tried, Seen, Parked, Acquirable, WordUp, hs
    <3>2. QED
      BY <2>1, <3>1 DEF WakeInv, Heard, N, hs, WakePending
  <2>4. QED
    BY <2>2, <2>3 DEF WakeInv
<1>4. QED
  BY <1>2, <1>3

\* The waiter goes on to its next object, or gives up: what it has come past it
\* has seen busy.
LEMMA PassWake ==
    ASSUME WakeInv, SameTypes, ListInv', NEW u \in Threads, StepOK(u), PassAny(u),
           pc[u] \in {"try", "trypulse"}, UNCHANGED <<w0, d, lock, nodes, bumped>>,
           lock = u /\ Acquirable(u, cur[u]) => Seen(u, cur[u]) /\ WordUp(u, cur[u])
    PROVE  WakeInv'
<1> DEFINE c == cur[u]
<1>1. c \in 1 .. N(u) /\ N(u) \in Nat /\ UNCHANGED <<req, eseq>>
  BY TryAt DEF WakeInv, ListInv, PassAny, Miss
<1>2. \/ pc'[u] = "try" /\ cur'[u] = c + 1
      \/ /\ c = N(u)
         /\ pc'[u] = IF lock = u THEN "deadline" ELSE IF nodes[u] > 0 THEN "spinmiss" ELSE "fastmiss"
  <2>1. c < N(u) \/ c = N(u)
    BY <1>1
  <2>2. QED
    BY <1>1, <2>1 DEF PassAny, Miss, Goto, WakeInv, ListInv, TypeInv, TypeOK
<1>3. ASSUME NEW i \in 1 .. N(u) PROVE Tried(u, i)' => Tried(u, i) \/ (lock = u /\ i = c)
  <2>1. i \in Nat /\ c \in Nat /\ (c = N(u) => i < c \/ i = c)
    BY <1>1
  <2>2. CASE lock = u
    BY <1>2, <2>1, <2>2 DEF Tried, Parked
  <2>3. CASE lock # u /\ nodes[u] > 0
    BY <1>2, <2>3 DEF Tried, Parked
  <2>4. CASE lock # u /\ ~(nodes[u] > 0)
    BY <1>2, <2>4 DEF Tried, Parked
  <2>5. QED
    BY <2>2, <2>3, <2>4
<1>4. ASSUME NEW i \in 1 .. N(u)
      PROVE  /\ Tried(u, i)' /\ Acquirable(u, i) => Tried(u, i) \/ (Seen(u, i) /\ WordUp(u, i))
             /\ Seen(u, i)' => ~WordUp(u, i)
  BY <1>2, <1>3 DEF Seen
<1>5. pc'[u] \notin {"cas", "rollback"} /\ WalksOn(u)
  BY <1>2 DEF WalksOn, PendingLabels
<1>6. QED
  BY <1>1, <1>4, <1>5, MoveWake

\* An attempt: what it takes is nothing for the others to wake up for, and what
\* it finds busy it has seen busy.
LEMMA TryWake ==
    ASSUME WakeInv, SameTypes, ListInv', NEW u \in Threads, TryAny(u)
    PROVE  WakeInv'
<1> DEFINE c == cur[u]
           s == hs(u)[c].idx
           a == Attempt(u, c)
<1>1. /\ StepOK(u) /\ pc[u] = "try" /\ UNCHANGED <<slot, d, lock, reg, nodes, bumped>>
      /\ w0' = [w0 EXCEPT ![s] = a.w]
  BY TryAnyOK DEF WakeInv, ListInv, TryAny
<1>2. c \in 1 .. N(u) /\ N(u) \in Nat
  BY <1>1, TryAt DEF WakeInv, ListInv
<1>3. s \in Slots /\ w0[s] \in Word /\ w0 \in [Slots -> Word] /\ u \in Nat
  BY <1>2, ReqType DEF WakeInv, ListInv, TypeInv, TypeOK
<1>4. a = try_acquire(slot[s].type, w0[s], u) /\ (~a.ok => a.w = w0[s])
  BY <1>3, AttemptType DEF Attempt
<1>5. ASSUME NEW t \in Threads \ {u}
      PROVE  Plain(t)' /\ Heard(t)'
  <2>1. ASSUME NEW i \in 1 .. N(t)
        PROVE  (Acquirable(t, i)' => Acquirable(t, i)) /\ (WordUp(t, i)' => WordUp(t, i))
    <3> DEFINE x == hs(t)[i].idx
    <3>1. x \in Slots
      BY ReqType DEF WakeInv, ListInv, TypeInv
    <3>2. req'[t] = req[t] /\ eseq'[t] = eseq[t]
      BY <1>1 DEF StepOK, Undisturbed
    <3>3. CASE x # s
      <4>1. slot'[x].type = slot[x].type /\ w0'[x] = w0[x] /\ d'[x] = d[x]
        BY <1>1, <1>3, <3>1, <3>3
      <4>2. QED
        BY <3>2, <4>1, AcquirableSame
    <3>4. CASE x = s
      <4>1. w0'[s] = a.w /\ slot' = slot /\ d' = d
        BY <1>1, <1>3
      <4>2. /\ Acquirable(t, i)' <=> is_locked(slot[s].type, a.w, d[s], t, eseq[t][i])
            /\ WordUp(t, i)' <=> is_locked(slot[s].type, a.w, 0, t, 0)
        BY <3>2, <3>4, <4>1 DEF Acquirable, WordUp, hs
      <4>3. t \in Threads /\ t # u
        OBVIOUS
      <4>4. ASSUME NEW dd, NEW seq, is_locked(slot[s].type, a.w, dd, t, seq)
            PROVE  is_locked(slot[s].type, w0[s], dd, t, seq)
        <5>1. is_locked(slot[s].type, try_acquire(slot[s].type, w0[s], u).w, dd, t, seq)
          BY <1>4, <4>4
        <5>2. QED
          BY ONLY <1>3, <4>3, <5>1, QuietAttempt, u \in Threads
      <4>5. QED
        BY <3>4, <4>2, <4>4 DEF Acquirable, WordUp
    <3>5. QED
      BY <3>3, <3>4
  <2>2. \A x : WakePending(x) => PendingNext(x)
    BY <1>1, PendingKept DEF WalksOn, PendingLabels
  <2>3. QED
    BY <1>1, <2>1, <2>2, WatcherOK
<1>6. CASE a.ok
  <2>1. Decide(u, Signaled(c - 1, a.od))
    BY <1>6 DEF TryAny
  <2>2. pc'[u] \in {"idle", "cleanup"} /\ req'[u] \in {req[u], NoReq}
    BY <2>1 DEF Decide, Return, WakeInv, ListInv, TypeInv, TypeOK
  <2>3. Plain(u)' /\ Heard(u)'
    BY <2>2, PlainOK, NotTriedOK DEF Tried, Seen, Parked
  <2>4. QED
    BY <1>5, <2>3, WakeSuffices
<1>7. CASE ~a.ok
  <2>1. UNCHANGED <<w0, d, bumped>>
    BY <1>1, <1>3, <1>4, <1>7
  <2>2. /\ ~WordUp(u, c)
        /\ Acquirable(u, c) => IsEvent(u, c)
    BY <1>2, <1>7, AttemptWordUp DEF WakeInv, ListInv
  <2>3. CASE IsEvent(u, c)
    <3>1. pc'[u] = "trypulse" /\ UNCHANGED <<req, eseq, cur>>
      BY <1>7, <2>3, PcAfter DEF TryAny
    <3>2. \A i \in 1 .. N(u) : (Tried(u, i)' => Tried(u, i)) /\ (Seen(u, i)' => i = c)
      BY <1>1, <3>1 DEF Tried, Seen, Parked
    <3>3. WalksOn(u)
      BY <1>1 DEF WalksOn, PendingLabels
    <3>4. QED
      BY <1>1, <2>1, <2>2, <3>1, <3>2, <3>3, MoveWake
  <2>4. CASE ~IsEvent(u, c)
    <3>1. PassAny(u)
      BY <1>7, <2>4 DEF TryAny
    <3>2. QED
      BY <1>1, <2>1, <2>2, <2>4, <3>1, PassWake
  <2>5. QED
    BY <2>3, <2>4
<1>8. QED
  BY <1>6, <1>7

\* The look at the counter.  An event_set that has come since the look at the
\* word is on its way to the list.
LEMMA TryPulseWake ==
    ASSUME WakeInv, SameTypes, ListInv', NEW u \in Threads, TryPulseAny(u)
    PROVE  WakeInv'
<1> DEFINE c == cur[u]
<1>1. /\ StepOK(u) /\ pc[u] = "trypulse" /\ UNCHANGED <<slot, w0, d, lock, reg, nodes, bumped>>
  BY TryPulseAnyOK DEF WakeInv, ListInv, TryPulseAny, shared
<1>2. c \in 1 .. N(u)
  BY <1>1, TryAt DEF WakeInv, ListInv
<1>3. CASE CounterMoved(u, c)
  <2>1. Decide(u, Signaled(c - 1, FALSE))
    BY <1>3 DEF TryPulseAny
  <2>2. pc'[u] \in {"idle", "cleanup"} /\ req'[u] \in {req[u], NoReq}
    BY <2>1 DEF Decide, Return, WakeInv, ListInv, TypeInv, TypeOK
  <2>3. \A i \in 1 .. N(u)' : ~Tried(u, i)' /\ ~Seen(u, i)'
    BY <2>2 DEF Tried, Seen, Parked
  <2>4. WalksOn(u) /\ pc'[u] \notin {"cas", "rollback"}
    BY <1>1, <2>2 DEF WalksOn, PendingLabels
  <2>5. QED
    BY <1>1, <2>2, <2>3, <2>4, MoveWake
<1>4. CASE ~CounterMoved(u, c)
  <2>1. PassAny(u)
    BY <1>4 DEF TryPulseAny
  <2>2. Acquirable(u, c) => WordUp(u, c)
    BY <1>2, <1>4, AttemptWordUp DEF WakeInv, ListInv
  <2>3. lock = u => Seen(u, c)
    BY <1>1 DEF Seen
  <2>4. QED
    BY <1>1, <2>1, <2>2, <2>3, PassWake
<1>5. QED
  BY <1>3, <1>4

LEMMA WakeStep == ASSUME AnyOnly PROVE WakeInv /\ [Next]_vars => WakeInv'
<1> SUFFICES ASSUME WakeInv, [Next]_vars PROVE WakeInv'
  OBVIOUS
<1>1. ListInv'
  BY ListStep DEF WakeInv
<1>2. CASE UNCHANGED vars
  <2>1. UNCHANGED <<slot, w0, d, lock, pc, req, cur, eseq, nodes, bumped>>
    BY <1>2 DEF vars, shared, local
  <2>2. \A u \in Threads : Plain(u)'
    BY <2>1 DEF WakeInv, Plain
  <2>3. \A u \in Threads : Heard(u)'
    <3>1. ASSUME NEW u \in Threads, NEW i \in 1 .. N(u)
          PROVE  /\ (Tried(u, i)' <=> Tried(u, i)) /\ (Acquirable(u, i)' <=> Acquirable(u, i))
                 /\ (Seen(u, i)' <=> Seen(u, i)) /\ (WordUp(u, i)' <=> WordUp(u, i))
      BY <2>1 DEF Tried, Seen, Parked, Acquirable, WordUp, hs
    <3>2. QED
      BY <2>1, <3>1 DEF WakeInv, Heard, N, hs, WakePending
  <2>4. QED
    BY <1>1, <2>2, <2>3 DEF WakeInv
<1>3. CASE Next
  <2>1. PICK t \in Threads :
          Refuse(t) \/ Begin(t) \/ Create(t) \/ Step(t) \/ Interrupt(t) \/ Expire(t)
    BY <1>3 DEF Next
  <2>2. SameTypes
    BY <1>3, TypesKept DEF WakeInv
  <2>3. ~Create(t) /\ ~TryAll(t) /\ ~TryPulseAll(t) /\ ~Rollback(t)
    BY DEF AnyOnly, Create, WakeInv, Plain, TryAll, TryPulseAll, Rollback
  <2>4. CASE Refuse(t) \/ Begin(t) \/ SignalStep(t)
    BY <1>1, <2>2, <2>4, CallWake, CasWake, ReadHeadWake, WalkWake DEF SignalStep
  <2>5. CASE LockedStep(t)
    BY <1>1, <2>2, <2>5, PulseWake, WalkWake DEF LockedStep
  <2>6. CASE WaitStep(t)
    BY <1>1, <2>2, <2>3, <2>6, FastWake, TryWake, TryPulseWake, SleepWake, RegisterWake, DeadlineWake,
       SpinWake DEF WaitStep
  <2>7. CASE Interrupt(t) \/ Expire(t)
    BY <1>1, <2>2, <2>7, SleepWake, DeadlineWake
  <2>8. QED
    BY <2>1, <2>3, <2>4, <2>5, <2>6, <2>7 DEF Step
<1>4. QED
  BY <1>2, <1>3

\* No wakeup is missed: a sleeping wait-any has an object it could take only
\* while the thread that made the object available is still between its CAS, or
\* its count of a pulse, and the end of its walk over the object's waiter list.
THEOREM WakeupsNotLost ==
    ASSUME AnyOnly
    PROVE  Spec => []NoLostWakeup
<1>1. WakeInv => NoLostWakeup
  <2> SUFFICES ASSUME WakeInv, NEW t \in Threads, Asleep(t)
               PROVE  /\ ~req[t].all
                      /\ \A i \in 1 .. N(t) : Acquirable(t, i) => WakePending(hs(t)[i].idx)
    BY DEF NoLostWakeup
  <2>1. ~req[t].all
    BY DEF WakeInv, Plain
  <2>2. \A i \in 1 .. N(t) : Tried(t, i)
    BY DEF Asleep, Tried, Parked
  <2>3. QED
    BY <2>1, <2>2 DEF WakeInv, Heard
<1>2. QED
  BY <1>1, WakeInit, WakeStep, PTL DEF Spec

-----------------------------------------------------------------------------
(* No false timeout. *)

\* Not everything t waits for has been there ever since it was last up.
Missed(t) == IF req[t].all THEN there[t] # 1 .. N(t) ELSE there[t] = {}

\* The labels at which a try has failed since t was last up.
LostLabels == {"rollback", "fastmiss", "deadline"}

\* What has been there all the time is still there, and a try has not come past
\* it; a wait that is about to give up has missed something.
GivesUp(t) ==
    /\ there[t] \subseteq {i \in 1 .. N(t) : Up(t, i)}
    /\ pc[t] \in {"try", "trypulse"} /\ ~req[t].all => \A i \in there[t] : i >= cur[t]
    /\ pc[t] = "trypulse" => cur[t] \notin there[t]
    /\ pc[t] \in LostLabels => Missed(t)
    /\ pc[t] = "cleanup" /\ res[t].kind = "Timeout" => Missed(t)
    /\ pc[t] \in {"head", "walk"} \cup PulseLabels => res[t].kind # "Timeout"

GiveInv == \A t \in Threads : GivesUp(t)

\* t is in the same wait as before, and was not asleep.
SameWait(t) == pc[t] # "idle" /\ pc[t] \notin {"futex", "tail"} /\ req'[t] = req[t]

\* What a step has to do for thread t, told by the state before it.
Honest(t) ==
    /\ pc'[t] \in {"try", "trypulse"} /\ ~req'[t].all =>
          cur'[t] = 1 \/ (SameWait(t) /\ \A i \in there[t] : i >= cur'[t])
    /\ pc'[t] = "trypulse" => SameWait(t) /\ cur'[t] \notin there[t]
    /\ pc'[t] \in LostLabels => SameWait(t) /\ Missed(t)
    /\ pc'[t] = "cleanup" /\ res'[t].kind = "Timeout" => SameWait(t) /\ Missed(t)
    /\ pc'[t] \in {"head", "walk"} \cup PulseLabels => res'[t].kind # "Timeout"
    /\ Returns(t, "Timeout") => Missed(t)

\* As long as a wait is not up again, what has been there can only get less.
LEMMA ThereShrinks ==
    ASSUME NEW t \in Threads, HNext, SameWait(t)
    PROVE  there'[t] \subseteq there[t] /\ N(t)' = N(t)
  BY DEF HNext, SameWait, GetsUp, N

LEMMA HonestOK ==
    ASSUME TypeInv', HNext, NEW t \in Threads, GivesUp(t), Honest(t)
    PROVE  GivesUp(t)'
<1>1. there'[t] \subseteq {i \in 1 .. N(t)' : Up(t, i)'}
  BY DEF HNext
<1>2. N(t)' \in Nat
  BY DEF TypeInv, TypeOK, Requests, N
<1>3. ASSUME pc'[t] \in {"try", "trypulse"}, ~req'[t].all PROVE \A i \in there'[t] : i >= cur'[t]
  <2>1. CASE cur'[t] = 1
    BY <1>1, <1>2, <2>1
  <2>2. CASE SameWait(t) /\ \A i \in there[t] : i >= cur'[t]
    BY <2>2, ThereShrinks
  <2>3. QED
    BY <1>3, <2>1, <2>2 DEF Honest
<1>4. ASSUME SameWait(t), Missed(t) PROVE Missed(t)'
  BY <1>1, <1>4, ThereShrinks DEF Missed, GivesUp, SameWait
<1>5. pc'[t] = "trypulse" => cur'[t] \notin there'[t]
  BY ThereShrinks DEF Honest
<1>6. QED
  BY <1>1, <1>3, <1>4, <1>5 DEF GivesUp, Honest

\* A step of another thread is honest.
LEMMA OtherHonest ==
    ASSUME NEW u \in Threads, GivesUp(u), pc'[u] = pc[u], req'[u] = req[u], cur'[u] = cur[u],
           res'[u] = res[u]
    PROVE  Honest(u)
  BY DEF GivesUp, Honest, SameWait, Returns, LostLabels

\* So is one that leads away from all tries, and to no timeout.
LEMMA AwayHonest ==
    ASSUME NEW t \in Threads,
           pc'[t] \notin LostLabels \cup {"head", "walk", "trypulse"} \cup PulseLabels,
           pc'[t] = "try" => cur'[t] = 1,
           pc'[t] = "cleanup" \/ (pc'[t] = "idle" /\ pc[t] # "idle") => res'[t].kind # "Timeout"
    PROVE  Honest(t)
  BY DEF Honest, Returns, LostLabels, PulseLabels

\* No signal operation reports a timeout.
LEMMA OutcomeKind ==
    ASSUME NEW r, r.op \in SignalOps, NEW w
    PROVE  OpOutcome(r, w).err # "Timeout"
<1>1. CASE r.op = "sem_release"
  BY <1>1 DEF OpOutcome, sem_release, Outcome
<1>2. CASE r.op = "event_set"
  BY <1>2 DEF OpOutcome, event_set, Outcome
<1>3. CASE r.op = "event_reset"
  BY <1>3 DEF OpOutcome, event_reset, Outcome
<1>4. CASE r.op = "mutex_unlock"
  BY <1>4 DEF OpOutcome, mutex_unlock, Outcome
<1>5. CASE r.op = "mutex_kill"
  BY <1>5 DEF OpOutcome, mutex_kill, Outcome
<1>6. QED
  BY <1>1, <1>2, <1>3, <1>4, <1>5 DEF SignalOps

\* The try of an object has failed for good.
Fails(t) == IF pc[t] = "try" THEN ~Attempt(t, cur[t]).ok /\ ~IsEvent(t, cur[t])
                             ELSE ~CounterMoved(t, cur[t])

\* How a try goes on.
LEMMA TryMoves ==
    ASSUME TypeInv, NEW t \in Threads,
           TryAny(t) \/ TryPulseAny(t) \/ TryAll(t) \/ TryPulseAll(t)
    PROVE  /\ cur[t] \in 1 .. N(t) /\ N(t) \in Nat /\ pc[t] \in {"try", "trypulse"}
           /\ \/ \E r : r.kind = "Signaled" /\ Decide(t, r)
              \/ req[t].all /\ pc'[t] = "try" /\ UNCHANGED <<req, eseq, res>>
              \/ /\ pc[t] = "try" /\ ~Attempt(t, cur[t]).ok /\ pc'[t] = "trypulse"
                 /\ UNCHANGED <<req, cur, eseq, res>>
              \/ /\ ~req[t].all /\ Fails(t) /\ pc'[t] = "try" /\ cur'[t] = cur[t] + 1
                 /\ UNCHANGED <<req, eseq, res>>
              \/ Fails(t) /\ (~req[t].all => cur[t] = N(t)) /\ Miss(t)
              \/ /\ req[t].all /\ Fails(t) /\ pc'[t] = "rollback"
                 /\ UNCHANGED <<req, eseq, res>>
<1> DEFINE i == cur[t]
           a == Attempt(t, i)
<1>1. /\ pc[t] \in {"try", "trypulse"} /\ i \in 1 .. N(t) /\ N(t) \in Nat
      /\ cur \in [Threads -> Nat \ {0}]
  BY TryAt DEF TryAny, TryPulseAny, TryAll, TryPulseAll, TypeInv, TypeOK
<1>2. a.ok \in BOOLEAN
  BY <1>1, AttemptWord
<1>3. i < N(t) \/ i = N(t)
  BY <1>1
<1>4. \A n, od : Signaled(n, od).kind = "Signaled"
  BY DEF Signaled, Result
<1>5. \A l : Goto(t, l) => pc'[t] = l
  BY DEF Goto, TypeInv, TypeOK
<1>6. ASSUME PassAny(t)
      PROVE  \/ pc'[t] = "try" /\ cur'[t] = cur[t] + 1 /\ UNCHANGED <<req, eseq, res>>
             \/ cur[t] = N(t) /\ Miss(t)
  BY <1>1, <1>3, <1>5, <1>6 DEF PassAny
<1>7. ASSUME BusyAll(t)
      PROVE  \/ pc'[t] = "rollback" /\ UNCHANGED <<req, eseq, res>>
             \/ Miss(t)
  BY <1>5, <1>7 DEF BusyAll
<1>8. ASSUME NEW od, GotAll(t, od)
      PROVE  \/ \E r : r.kind = "Signaled" /\ Decide(t, r)
             \/ pc'[t] = "try" /\ UNCHANGED <<req, eseq, res>>
  <2> DEFINE got == Append(acq[t], [i |-> cur[t], od |-> od])
             dead == \E k \in 1 .. Len(got) : got[k].od
  <2>1. \/ Decide(t, Signaled(0, dead))
        \/ Goto(t, "try") /\ UNCHANGED <<req, eseq, res>>
    BY <1>8 DEF GotAll
  <2>2. QED
    BY <1>4, <1>5, <2>1
<1>9. CASE TryAny(t)
  <2>1. ~req[t].all /\ pc[t] = "try"
    BY <1>9 DEF TryAny
  <2>2. \/ Decide(t, Signaled(i - 1, a.od))
        \/ ~a.ok /\ Goto(t, "trypulse") /\ UNCHANGED <<req, cur, eseq, res>>
        \/ ~a.ok /\ ~IsEvent(t, i) /\ PassAny(t)
    BY <1>9, <1>2 DEF TryAny
  <2>3. QED
    BY <1>1, <1>4, <1>5, <1>6, <2>1, <2>2 DEF Fails
<1>10. CASE TryPulseAny(t)
  <2>1. ~req[t].all /\ pc[t] = "trypulse"
    BY <1>10 DEF TryPulseAny
  <2>2. \/ Decide(t, Signaled(i - 1, FALSE))
        \/ ~CounterMoved(t, i) /\ PassAny(t)
    BY <1>10 DEF TryPulseAny
  <2>3. QED
    BY <1>1, <1>4, <1>6, <2>1, <2>2 DEF Fails
<1>11. CASE TryAll(t)
  <2>1. req[t].all /\ pc[t] = "try"
    BY <1>11 DEF TryAll
  <2>2. \/ GotAll(t, a.od)
        \/ ~a.ok /\ Goto(t, "trypulse") /\ UNCHANGED <<req, cur, eseq, res>>
        \/ ~a.ok /\ ~IsEvent(t, i) /\ BusyAll(t)
    BY <1>11, <1>2 DEF TryAll
  <2>3. QED
    BY <1>1, <1>5, <1>7, <1>8, <2>1, <2>2 DEF Fails
<1>12. CASE TryPulseAll(t)
  <2>1. req[t].all /\ pc[t] = "trypulse"
    BY <1>12 DEF TryPulseAll
  <2>2. \/ GotAll(t, FALSE)
        \/ ~CounterMoved(t, i) /\ BusyAll(t)
    BY <1>12 DEF TryPulseAll
  <2>3. QED
    BY <1>1, <1>7, <1>8, <2>1, <2>2 DEF Fails
<1>13. QED
  BY <1>9, <1>10, <1>11, <1>12

\* A thread's result is its own.
LEMMA OwnResult ==
    ASSUME TypeInv, NEW t \in Threads, NEW u \in Threads \ {t},
           Refuse(t) \/ Begin(t) \/ Create(t) \/ Step(t) \/ Interrupt(t) \/ Expire(t)
    PROVE  res'[u] = res[u]
<1>0. res \in [Threads -> Results]
  BY DEF TypeInv, TypeOK
<1>1. CASE Refuse(t) \/ Begin(t) \/ Create(t) \/ Interrupt(t) \/ Expire(t)
  BY <1>0, <1>1 DEF Refuse, Begin, Create, Interrupt, Expire, local
<1>2. CASE SignalStep(t)
  BY <1>0, <1>2 DEF SignalStep, Resolve, Cas, ReadHead, Walk, Return
<1>3. CASE LockedStep(t)
  BY <1>0, <1>3 DEF LockedStep, event_pulse, PulseCount, PulseLoad, PulseStore, close, Return
<1>4. CASE FastValidate(t) \/ AlertValid(t) \/ AlertFast(t) \/ FastMiss(t)
  BY <1>0, <1>4 DEF FastValidate, AlertValid, AlertFast, FastMiss, Return
<1>5. CASE Rollback(t)
  BY <1>0, <1>5 DEF Rollback, Miss
<1>6. CASE TryAny(t) \/ TryPulseAny(t) \/ TryAll(t) \/ TryPulseAll(t)
  <2>1. UNCHANGED res \/ Miss(t) \/ \E r : Decide(t, r)
    BY <1>6, TryMoves
  <2>2. QED
    BY <1>0, <2>1 DEF Miss, Decide, Return
<1>7. CASE Lock(t) \/ AlertCheck(t) \/ Register(t) \/ Deadline(t)
  BY <1>0, <1>7 DEF Lock, AlertCheck, Register, Deadline
<1>8. CASE SpinAlert(t)
  BY <1>0, <1>8 DEF SpinAlert
<1>9. CASE Peek(t) \/ SpinMiss(t) \/ Wake(t) \/ TailDone(t) \/ Awake(t) \/ Cleanup(t)
  BY <1>0, <1>9 DEF Peek, SpinMiss, Wake, TailDone, Awake, Cleanup, Return
<1>10. QED
  BY <1>1, <1>2, <1>3, <1>4, <1>5, <1>6, <1>7, <1>8, <1>9 DEF Step, WaitStep

\* What could be taken, pulses aside, a try takes.
LEMMA UpTaken ==
    ASSUME TypeInv, NEW t \in Threads, NEW i \in 1 .. N(t), Up(t, i)
    PROVE  Attempt(t, i).ok
<1> DEFINE s == hs(t)[i].idx
<1>1. s \in Slots /\ w0[s] \in Word /\ d[s] \in Nat /\ t \in Nat
  BY ReqType DEF TypeInv, TypeOK
<1>2. is_locked(slot[s].type, w0[s], d[s], t, d[s]) => try_acquire(slot[s].type, w0[s], t).ok
  BY <1>1, AttemptLocked
<1>3. QED
  BY <1>2 DEF Up, Attempt

\* A try that has failed has missed something.
LEMMA TryHonest ==
    ASSUME TypeInv, NEW t \in Threads, GivesUp(t),
           TryAny(t) \/ TryPulseAny(t) \/ TryAll(t) \/ TryPulseAll(t)
    PROVE  Honest(t)
<1>0. /\ cur[t] \in 1 .. N(t) /\ N(t) \in Nat /\ pc[t] \in {"try", "trypulse"}
      /\ pc \in [Threads -> Labels] /\ res \in [Threads -> Results] /\ cur \in [Threads -> Nat \ {0}]
      /\ there[t] \subseteq 1 .. N(t)
  BY TryMoves DEF TypeInv, TypeOK, GivesUp
<1>1. ~Attempt(t, cur[t]).ok \/ Fails(t) => cur[t] \notin there[t]
  <2>1. ~Attempt(t, cur[t]).ok => cur[t] \notin there[t]
    BY <1>0, UpTaken DEF GivesUp
  <2>2. QED
    BY <1>0, <2>1 DEF Fails, GivesUp
<1>2. ASSUME NEW r, r.kind = "Signaled", Decide(t, r) PROVE Honest(t)
  <2>1. pc'[t] \in {"cleanup", "idle"} /\ res'[t].kind = "Signaled"
    BY <1>0, <1>2 DEF Decide, Return
  <2>2. QED
    BY <2>1, AwayHonest DEF LostLabels, PulseLabels
<1>3. CASE req[t].all /\ pc'[t] = "try" /\ UNCHANGED <<req, eseq, res>>
  BY <1>0, <1>3 DEF Honest, LostLabels, PulseLabels, Returns
<1>4. CASE /\ ~Attempt(t, cur[t]).ok /\ pc'[t] = "trypulse"
           /\ UNCHANGED <<req, cur, eseq, res>>
  <2>1. ~req[t].all => \A i \in there[t] : i >= cur[t]
    BY <1>0 DEF GivesUp
  <2>2. QED
    BY <1>0, <1>1, <1>4, <2>1 DEF Honest, LostLabels, PulseLabels, Returns, SameWait
<1>5. CASE /\ ~req[t].all /\ Fails(t) /\ pc'[t] = "try" /\ cur'[t] = cur[t] + 1
           /\ UNCHANGED <<req, eseq, res>>
  <2>1. \A i \in there[t] : i >= cur'[t]
    BY <1>0, <1>1, <1>5 DEF GivesUp
  <2>2. QED
    BY <1>0, <1>5, <2>1 DEF Honest, LostLabels, PulseLabels, Returns, SameWait
<1>6. CASE Fails(t) /\ (~req[t].all => cur[t] = N(t)) /\ Miss(t)
  <2>1. Missed(t)
    <3>1. CASE req[t].all
      BY <1>0, <1>1, <1>6, <3>1 DEF Missed
    <3>2. CASE ~req[t].all
      <4>1. \A i \in there[t] : i >= N(t) /\ i # N(t) /\ i \in 1 .. N(t)
        BY <1>0, <1>1, <1>6, <3>2 DEF GivesUp
      <4>2. QED
        BY <1>0, <3>2, <4>1 DEF Missed
    <3>3. QED
      BY <3>1, <3>2
  <2>2. pc'[t] \in {"deadline", "spinmiss", "fastmiss"} /\ req'[t] = req[t]
    BY <1>0, <1>6 DEF Miss, Goto
  <2>3. QED
    BY <1>0, <2>1, <2>2 DEF Honest, LostLabels, PulseLabels, Returns, SameWait
<1>7. CASE req[t].all /\ Fails(t) /\ pc'[t] = "rollback" /\ UNCHANGED <<req, eseq, res>>
  <2>1. Missed(t)
    BY <1>0, <1>1, <1>7 DEF Missed
  <2>2. QED
    BY <1>0, <1>7, <2>1 DEF Honest, LostLabels, PulseLabels, Returns, SameWait
<1>8. QED
  BY <1>2, <1>3, <1>4, <1>5, <1>6, <1>7, TryMoves

\* What is still in front of a thread that has failed.
LEMMA LostHonest ==
    ASSUME TypeInv, NEW t \in Threads, GivesUp(t),
           Rollback(t) \/ FastMiss(t) \/ Deadline(t) \/ Cleanup(t)
    PROVE  Honest(t)
<1>0. /\ pc \in [Threads -> Labels] /\ res \in [Threads -> Results] /\ cur \in [Threads -> Nat \ {0}]
  BY DEF TypeInv, TypeOK
<1>1. CASE Rollback(t)
  <2>1. pc[t] = "rollback" /\ Missed(t)
    BY <1>1 DEF Rollback, GivesUp, LostLabels
  <2>2. pc'[t] \in {"rollback", "deadline", "spinmiss", "fastmiss"} /\ req'[t] = req[t]
    BY <1>0, <1>1, <2>1 DEF Rollback, Miss, Goto
  <2>3. QED
    BY <2>1, <2>2 DEF Honest, LostLabels, PulseLabels, Returns, SameWait
<1>2. CASE FastMiss(t)
  <2>1. pc[t] = "fastmiss" /\ Missed(t)
    BY <1>2 DEF FastMiss, GivesUp, LostLabels
  <2>2. pc'[t] \in {"idle", "lock"}
    BY <1>0, <1>2 DEF FastMiss, Goto, Return
  <2>3. QED
    BY <2>1, <2>2 DEF Honest, LostLabels, PulseLabels
<1>3. CASE Deadline(t)
  <2>1. pc[t] = "deadline" /\ Missed(t)
    BY <1>3 DEF Deadline, GivesUp, LostLabels
  <2>2. pc'[t] \in {"cleanup", "spin", "futex", "tail"} /\ req'[t] = req[t]
    BY <1>0, <1>3 DEF Deadline, Goto, SleepLabels
  <2>3. QED
    BY <2>1, <2>2 DEF Honest, LostLabels, PulseLabels, Returns, SameWait
<1>4. CASE Cleanup(t)
  <2>1. pc[t] = "cleanup" /\ pc'[t] = "idle" /\ res'[t] = res[t]
    BY <1>0, <1>4 DEF Cleanup, Return
  <2>2. QED
    BY <2>1 DEF Honest, LostLabels, PulseLabels, Returns, GivesUp
<1>5. QED
  BY <1>1, <1>2, <1>3, <1>4

\* A call begins and a signal operation runs without a timeout.
LEMMA SignalHonest ==
    ASSUME TypeInv, NEW t \in Threads, GivesUp(t),
           Refuse(t) \/ Begin(t) \/ Create(t) \/ Expire(t) \/ SignalStep(t) \/ LockedStep(t)
    PROVE  Honest(t)
<1>0. /\ pc \in [Threads -> Labels] /\ res \in [Threads -> Results] /\ cur \in [Threads -> Nat \ {0}]
  BY DEF TypeInv, TypeOK
<1>1. CASE Create(t) \/ Expire(t)
  BY <1>1, OtherHonest DEF Create, Expire, local
<1>2. CASE Refuse(t)
  <2>1. pc[t] = "idle" /\ pc'[t] = "idle"
    BY <1>2 DEF Refuse
  <2>2. QED
    BY <2>1, AwayHonest DEF LostLabels, PulseLabels
<1>3. CASE Begin(t)
  <2>1. pc[t] = "idle" /\ pc'[t] \in {"resolve", "locked", "validate"}
    <3>1. PICK r \in Menu[t] : pc' = [pc EXCEPT ![t] = CASE r.op \in SignalOps -> "resolve"
                                                         [] r.op \in LockedOps -> "locked"
                                                         [] r.op = "wait"      -> "validate"]
      BY <1>3 DEF Begin, Goto
    <3>2. r.op \in Ops
      BY WorkloadAssumption DEF Requests
    <3>3. QED
      BY <1>0, <1>3, <3>1, <3>2 DEF Begin, Ops, SignalOps, LockedOps
  <2>2. QED
    BY <2>1, AwayHonest DEF LostLabels, PulseLabels
<1>4. CASE Resolve(t)
  <2>1. pc'[t] = "cas" \/ (pc'[t] = "idle" /\ res'[t] = Invalid)
    BY <1>0, <1>4 DEF Resolve, Goto, Return
  <2>2. pc'[t] \in {"cas", "idle"} /\ (pc'[t] = "idle" => res'[t].kind # "Timeout")
    BY <2>1 DEF Invalid, Result
  <2>3. QED
    BY <2>2, AwayHonest DEF LostLabels, PulseLabels
<1>5. CASE Cas(t)
  <2>1. OpOutcome(req[t], w0[req[t].h.idx]).err # "Timeout"
    BY <1>5, OutcomeKind DEF Cas, TypeInv, ThreadOK, CallOK
  <2>2. pc'[t] \in {"head", "idle"} /\ res'[t].kind # "Timeout"
    BY <1>0, <1>5, <2>1 DEF Cas, Goto, Return, Result
  <2>3. QED
    BY <2>2 DEF Honest, LostLabels, PulseLabels, Returns
<1>6. CASE ReadHead(t) \/ Walk(t)
  <2>1. pc[t] \in {"head", "walk"} /\ pc'[t] \in {"walk", "idle"} /\ res'[t] = res[t]
    BY <1>0, <1>6 DEF ReadHead, Walk, Goto, Return
  <2>2. QED
    BY <2>1 DEF Honest, LostLabels, PulseLabels, Returns, GivesUp
<1>7. CASE event_pulse(t) \/ close(t)
  <2>1. /\ pc'[t] \in {"idle", "pulse"}
        /\ \E k \in {"ok", "Invalid"} : \E v : res'[t] = Result(k, v, FALSE)
    BY <1>0, <1>7 DEF event_pulse, close, Goto, Return, Invalid
  <2>2. QED
    BY <2>1 DEF Honest, LostLabels, Returns, Result
<1>8. CASE PulseCount(t) \/ PulseLoad(t) \/ PulseStore(t)
  <2>1. pc[t] \in PulseLabels /\ pc'[t] \in PulseLabels \cup {"idle"} /\ res'[t] = res[t]
    BY <1>0, <1>8 DEF PulseCount, PulseLoad, PulseStore, Goto, Return, PulseLabels
  <2>2. res'[t].kind # "Timeout"
    BY <2>1 DEF GivesUp
  <2>3. QED
    BY <2>1, <2>2 DEF Honest, LostLabels, PulseLabels, Returns
<1>9. QED
  BY <1>1, <1>2, <1>3, <1>4, <1>5, <1>6, <1>7, <1>8 DEF SignalStep, LockedStep

\* The rest of a wait decides nothing, or not for a timeout.
LEMMA WaitHonest ==
    ASSUME TypeInv, NEW t \in Threads, GivesUp(t),
           \/ FastValidate(t) \/ AlertValid(t) \/ AlertFast(t) \/ Lock(t) \/ AlertCheck(t) \/ Register(t)
           \/ SpinAlert(t) \/ Peek(t) \/ SpinMiss(t) \/ Wake(t) \/ Interrupt(t) \/ TailDone(t) \/ Awake(t)
    PROVE  Honest(t)
<1>0. /\ pc \in [Threads -> Labels] /\ res \in [Threads -> Results] /\ cur \in [Threads -> Nat \ {0}]
      /\ pc[t] \notin {"validate", "try", "trypulse", "rollback"} => cur[t] = 1
  BY DEF TypeInv, TypeOK, ThreadOK, TryOK
<1>1. CASE FastValidate(t)
  <2>1. cur[t] \in 1 .. N(t) /\ N(t) \in Nat
    BY <1>1, ReqType DEF FastValidate, TypeInv, ThreadOK, TryOK
  <2>2. \/ pc'[t] \in {"lock", "validate", "alertvalid"}
        \/ pc'[t] = "try" /\ cur'[t] = 1
    BY <1>0, <1>1, <2>1 DEF FastValidate, Goto
  <2>3. QED
    BY <2>2, AwayHonest DEF LostLabels, PulseLabels
<1>2. CASE AlertValid(t) \/ Peek(t) \/ SpinMiss(t)
  <2>1. pc'[t] \in {"alertfast", "lock", "try", "spinmiss", "spin", "futex", "tail"} /\ cur'[t] = 1
    BY <1>0, <1>2 DEF AlertValid, Peek, SpinMiss, Goto, SleepLabels
  <2>2. QED
    BY <2>1, AwayHonest DEF LostLabels, PulseLabels
<1>3. CASE AlertFast(t)
  <2>1. \/ pc'[t] = "idle" /\ res'[t] = Signaled(N(t), FALSE)
        \/ pc'[t] = "try" /\ cur'[t] = 1
        \/ pc'[t] = "panic"
    BY <1>0, <1>3 DEF AlertFast, Goto, Return
  <2>2. QED
    BY <2>1, AwayHonest DEF LostLabels, PulseLabels, Signaled, Result
<1>4. CASE Lock(t) \/ AlertCheck(t) \/ Register(t)
  <2>1. /\ pc'[t] = "cleanup" => res'[t] \in {Invalid, Signaled(N(t), FALSE)}
        /\ pc'[t] \in {"cleanup", "alertchk", "register", "try"} /\ cur'[t] = 1
    BY <1>0, <1>4 DEF Lock, AlertCheck, Register, Goto
  <2>2. QED
    BY <2>1, AwayHonest DEF LostLabels, PulseLabels, Invalid, Signaled, Result
<1>5. CASE SpinAlert(t)
  <2>1. \/ pc'[t] \in {"peek", "panic"}
        \/ pc'[t] = "cleanup" /\ res'[t] = Signaled(N(t), FALSE)
    BY <1>0, <1>5 DEF SpinAlert, Goto
  <2>2. QED
    BY <2>1, AwayHonest DEF LostLabels, PulseLabels, Signaled, Result
<1>6. CASE Wake(t) \/ Interrupt(t) \/ TailDone(t) \/ Awake(t)
  <2>1. pc'[t] \in {"awake", "lock"}
    BY <1>0, <1>6 DEF Wake, Interrupt, TailDone, Awake, Goto
  <2>2. QED
    BY <2>1, AwayHonest DEF LostLabels, PulseLabels
<1>7. QED
  BY <1>1, <1>2, <1>3, <1>4, <1>5, <1>6

\* Which thread takes a step, and that it leaves the others' calls alone.
LEMMA StepOwner ==
    ASSUME TypeInv, Next
    PROVE  \E t \in Threads :
              /\ Refuse(t) \/ Begin(t) \/ Create(t) \/ Step(t) \/ Interrupt(t) \/ Expire(t)
              /\ \A u \in Threads \ {t} : Undisturbed(u) /\ res'[u] = res[u]
<1>1. PICK t \in Threads : Refuse(t) \/ Begin(t) \/ Create(t) \/ Step(t) \/ Interrupt(t) \/ Expire(t)
  BY DEF Next
<1>2. StepOK(t)
  <2>1. CASE Refuse(t) \/ Begin(t) \/ Create(t) \/ Interrupt(t) \/ Expire(t)
    BY <2>1, RefuseOK, BeginOK, CreateOK, InterruptOK, ExpireOK
  <2>2. CASE SignalStep(t) \/ LockedStep(t)
    BY <2>2, ResolveOK, CasOK, ReadHeadOK, WalkOK, PulseOK, PulseCountOK, PulseLoadOK, PulseStoreOK,
       CloseOK DEF SignalStep, LockedStep
  <2>3. CASE WaitStep(t)
    BY <2>3, FastValidateOK, AlertValidOK, AlertFastOK, FastMissOK, TryAnyOK, TryPulseAnyOK, TryAllOK,
       TryPulseAllOK, RollbackOK, LockOK,
       AlertCheckOK, RegisterOK, DeadlineOK, SpinAlertOK, PeekOK, SpinMissOK, WakeOK, TailDoneOK, AwakeOK,
       CleanupOK DEF WaitStep
  <2>4. QED
    BY <1>1, <2>1, <2>2, <2>3 DEF Step
<1>3. QED
  BY <1>1, <1>2, OwnResult DEF StepOK

LEMMA NextHonest ==
    ASSUME TypeInv, GiveInv, Next, NEW u \in Threads
    PROVE  Honest(u)
<1>1. PICK t \in Threads :
         /\ Refuse(t) \/ Begin(t) \/ Create(t) \/ Step(t) \/ Interrupt(t) \/ Expire(t)
         /\ \A v \in Threads \ {t} : Undisturbed(v) /\ res'[v] = res[v]
  BY StepOwner
<1>2. CASE u # t
  BY <1>1, <1>2, OtherHonest DEF GiveInv, Undisturbed
<1>3. CASE u = t
  <2>1. GivesUp(t)
    BY DEF GiveInv
  <2>2. CASE Refuse(t) \/ Begin(t) \/ Create(t) \/ Expire(t) \/ SignalStep(t) \/ LockedStep(t)
    BY <1>3, <2>1, <2>2, SignalHonest
  <2>3. CASE WaitStep(t) \/ Interrupt(t)
    BY <1>3, <2>1, <2>3, TryHonest, LostHonest, WaitHonest DEF WaitStep
  <2>4. QED
    BY <1>1, <2>2, <2>3 DEF Step
<1>4. QED
  BY <1>2, <1>3

\* A wait, a poll included, does not time out on what was there for the taking
\* ever since it was called or last woke, for every number of threads and every
\* workload: `do not decide here' after futex_wait, and the try before the
\* deadline test, keep this.
THEOREM NoTimeoutIsFalse == HSpec => NoFalseTimeout
<1>1. HInit => TypeInv /\ GiveInv
  <2>1. HInit => GiveInv
    BY DEF HInit, Init, GiveInv, GivesUp, LostLabels, PulseLabels
  <2>2. QED
    BY <2>1, TInit DEF HInit
<1>2. TypeInv /\ GiveInv /\ [HNext]_hvars => (TypeInv /\ GiveInv)'
  <2>1. CASE HNext
    <3>1. TypeInv /\ HNext => TypeInv'
      BY TypeStep DEF HNext
    <3>2. QED
      BY <2>1, <3>1, NextHonest, HonestOK DEF GiveInv, HNext
  <2>2. CASE UNCHANGED hvars
    <3>1. TypeInv => TypeInv'
      BY <2>2, TypeStep DEF hvars
    <3>2. GiveInv => GiveInv'
      BY <2>2 DEF hvars, vars, shared, local, GiveInv, GivesUp, Missed, Up, Waitable, Valid, hs, N
    <3>3. QED
      BY <3>1, <3>2
  <2>3. QED
    BY <2>1, <2>2
<1>3. TypeInv /\ GiveInv /\ [HNext]_hvars
        => [\A t \in Threads : Returns(t, "Timeout") =>
              IF req[t].all THEN there[t] # 1 .. N(t) ELSE there[t] = {}]_hvars
  BY NextHonest DEF HNext, Honest, Missed
<1>4. QED
  BY <1>1, <1>2, <1>3, PTL DEF HSpec, NoFalseTimeout

-----------------------------------------------------------------------------
(***************************************************************************)
(* A pulse reaches everyone who has registered.  What a wait has registered *)
(* for it can tell from what took its place: a slot's generation rises with *)
(* each close, and the pulse counter of an object that lives does not fall. *)
(***************************************************************************)
Gone(h) == slot[h.idx].gen > h.gen

\* Object i of t's wait was closed, or pulsed since t sampled its counter.
Reached(t, i) ==
    LET h == hs(t)[i]
    IN  Gone(h) \/ (ValidOf(h, TYPE_EVENT) /\ d[h.idx] > eseq[t][i])

\* What a wait's sample of object i is worth once it is validated.
Sampled(t, i) ==
    LET h == hs(t)[i]
    IN  /\ Gone(h) \/ Waitable(h)
        /\ ValidOf(h, TYPE_EVENT) => d[h.idx] >= eseq[t][i]

Registered(t) == nodes[t] > 0 \/ pc[t] \in {"alertchk", "register"}

\* A thread that was pulsed can tell, and has not tried past what was pulsed
\* when it holds the lock; one that was not, and is about to time out, holds the
\* lock until it has returned, so that no pulse comes between.
PulseFelt(t) ==
    /\ pulsed[t] => nodes[t] > 0
    /\ Registered(t) => \A i \in 1 .. N(t) : Sampled(t, i)
    /\ pulsed[t] => \E i \in 1 .. N(t) : Reached(t, i)
    /\ pc[t] \in {"try", "trypulse"} /\ lock = t /\ ~req[t].all /\ pulsed[t]
          => \E i \in 1 .. N(t) : i >= cur[t] /\ Reached(t, i)
    /\ pc[t] = "rollback" => req[t].all
    /\ pc[t] = "deadline" /\ ~req[t].all => ~pulsed[t]
    /\ pc[t] = "cleanup" /\ res[t].kind = "Timeout" => lock = t /\ (~req[t].all => ~pulsed[t])

PulseInv == \A t \in Threads : PulseFelt(t)

\* Generations do not fall, an object stays what it is until it is closed, and
\* only a pulse raises a counter, with the lock.
Forward ==
    \A s \in Slots :
      /\ slot'[s].gen >= slot[s].gen
      /\ slot[s].used /\ slot'[s].gen = slot[s].gen => slot'[s] = slot[s] /\ d'[s] >= d[s]
      /\ d'[s] > d[s] => slot' = slot /\ slot[s].used /\ slot[s].type = TYPE_EVENT
                          /\ \E u \in Threads : lock = u /\ pc[u] = "pulse"

LEMMA ForwardSame ==
    ASSUME TypeInv, slot' = slot, d' = d
    PROVE  Forward
  BY DEF Forward, TypeInv, TypeOK

LEMMA StepForward ==
    ASSUME ListInv, NEW t \in Threads,
           Refuse(t) \/ Begin(t) \/ Create(t) \/ Step(t) \/ Interrupt(t) \/ Expire(t)
    PROVE  Forward
<1>0. slot \in [Slots -> [used : BOOLEAN, gen : Nat, type : Types]] /\ d \in [Slots -> Nat]
  BY DEF ListInv, TypeInv, TypeOK
<1>1. CASE Create(t)
  BY <1>0, <1>1 DEF Create, Forward
<1>2. CASE PulseCount(t)
  <2>1. slot' = slot /\ pc[t] = "pulse" /\ lock = t /\ d' = [d EXCEPT ![req[t].h.idx] = @ + 1]
    BY <1>2, PulseHolds DEF PulseCount, ListInv
  <2>2. slot[req[t].h.idx].used /\ slot[req[t].h.idx].type = TYPE_EVENT
    BY <2>1 DEF ListInv, ListOK, PulseLabels, ValidOf, Valid
  <2>3. QED
    BY <1>0, <2>1, <2>2 DEF Forward
<1>3. CASE close(t)
  <2>1. \/ slot' = slot
        \/ slot' = [slot EXCEPT ![req[t].h.idx] = [used |-> FALSE, gen |-> @.gen + 1, type |-> @.type]]
    BY <1>3 DEF close
  <2>2. d' = d
    BY <1>3 DEF close
  <2>3. QED
    BY <1>0, <2>1, <2>2 DEF Forward
<1>4. CASE \/ Refuse(t) \/ Begin(t) \/ Interrupt(t) \/ Expire(t) \/ SignalStep(t)
           \/ event_pulse(t) \/ PulseLoad(t) \/ PulseStore(t)
  <2>1. slot' = slot /\ d' = d
    BY <1>4 DEF Refuse, Begin, Interrupt, Expire, SignalStep, Resolve, Cas, ReadHead, Walk, shared,
                event_pulse, PulseLoad, PulseStore
  <2>2. QED
    BY <2>1, ForwardSame DEF ListInv
<1>5. CASE WaitStep(t)
  <2>1. slot' = slot /\ d' = d
    BY <1>5 DEF WaitStep, FastValidate, AlertValid, AlertFast, FastMiss, TryAny, TryPulseAny,
                TryAll, TryPulseAll, Rollback, Lock, AlertCheck, Register, Deadline, SpinAlert, Peek, SpinMiss, Wake, TailDone, Awake, Cleanup, shared
  <2>2. QED
    BY <2>1, ForwardSame DEF ListInv
<1>6. QED
  BY <1>1, <1>2, <1>3, <1>4, <1>5 DEF Step, LockedStep

\* A step of whoever it is keeps what a sample is worth, and what it has shown.
LEMMA SampleKept ==
    ASSUME TypeInv, Forward, NEW t \in Threads, NEW i \in 1 .. N(t), req'[t] = req[t],
           eseq'[t][i] = eseq[t][i], eseq[t][i] \in Nat, Sampled(t, i), TypeInv'
    PROVE  /\ Sampled(t, i)'
           /\ Reached(t, i) => Reached(t, i)'
           /\ d'[hs(t)[i].idx] > d[hs(t)[i].idx] => Reached(t, i)'
<1> DEFINE h == hs(t)[i]
           s == h.idx
<1>1. s \in Slots /\ h.gen \in Nat
  BY ReqType DEF TypeInv, Handles
<1>2. slot[s].gen \in Nat /\ slot'[s].gen \in Nat /\ d[s] \in Nat /\ d'[s] \in Nat
  BY <1>1 DEF TypeInv, TypeOK
<1>3. hs(t)' = hs(t)
  BY DEF hs
<1>4. /\ slot'[s].gen >= slot[s].gen
      /\ slot[s].used /\ slot'[s].gen = slot[s].gen => slot'[s] = slot[s] /\ d'[s] >= d[s]
      /\ d'[s] > d[s] => slot' = slot /\ slot[s].used /\ slot[s].type = TYPE_EVENT
  BY <1>1 DEF Forward
<1>5. CASE slot[s].gen > h.gen
  BY <1>1, <1>2, <1>3, <1>4, <1>5 DEF Sampled, Reached, Gone, Waitable, ValidOf, Valid
<1>6. CASE slot'[s].gen > h.gen
  BY <1>1, <1>2, <1>3, <1>4, <1>6 DEF Sampled, Reached, Gone, Waitable, ValidOf, Valid
<1>7. CASE ~(slot[s].gen > h.gen) /\ ~(slot'[s].gen > h.gen)
  <2>1. Waitable(h)
    BY <1>7 DEF Sampled, Gone
  <2>2. slot[s].used /\ slot[s].gen = h.gen /\ slot'[s].gen = h.gen
    BY <1>1, <1>2, <1>4, <1>7, <2>1 DEF Waitable, Valid
  <2>3. slot'[s] = slot[s] /\ d'[s] >= d[s]
    BY <1>4, <2>2
  <2>4. (Waitable(h)' <=> Waitable(h)) /\ (ValidOf(h, TYPE_EVENT)' <=> ValidOf(h, TYPE_EVENT)) /\ ~Gone(h)
    BY <1>2, <1>3, <1>7, <2>3 DEF Waitable, ValidOf, Valid, Gone
  <2>5. ValidOf(h, TYPE_EVENT) => d[s] >= eseq[t][i]
    BY DEF Sampled
  <2>6. d'[s] > d[s] => ValidOf(h, TYPE_EVENT)
    BY <1>4, <2>2 DEF ValidOf, Valid
  <2>7. QED
    BY <1>2, <1>3, <2>1, <2>3, <2>4, <2>5, <2>6 DEF Sampled, Reached
<1>8. QED
  BY <1>5, <1>6, <1>7

\* Who has registered is inside a wait, and has a sample for each object.
LEMMA SampleType ==
    ASSUME TypeInv, NEW t \in Threads, Registered(t)
    PROVE  pc[t] \notin CallLabels /\ \A i \in 1 .. N(t) : eseq[t][i] \in Nat
<1>1. pc[t] \notin CallLabels
  BY DEF TypeInv, TypeOK, ThreadOK, HoldOK, Registered, CallLabels
<1>2. eseq[t] \in Seq(Nat) /\ Len(eseq[t]) = N(t)
  BY <1>1 DEF TypeInv, TypeOK, ThreadOK, CallOK
<1>3. QED
  BY <1>1, <1>2

\* A wait is pulsed while it has nodes, and by nobody while it holds the lock.
LEMMA PulsedNext ==
    ASSUME TypeInv, HNext, Forward, NEW t \in Threads, PulseFelt(t), pulsed'[t]
    PROVE  /\ nodes[t] > 0 /\ pc'[t] # "idle"
           /\ lock = t => pulsed[t]
           /\ pulsed[t] \/ \E i \in 1 .. N(t) : d'[hs(t)[i].idx] > d[hs(t)[i].idx]
<1>1. /\ pc'[t] # "idle"
      /\ pulsed[t] \/ \E i \in 1 .. N(t) : nodes[t] > 0 /\ d'[hs(t)[i].idx] > d[hs(t)[i].idx]
  BY DEF HNext
<1>2. \A i \in 1 .. N(t) : hs(t)[i].idx \in Slots
  BY ReqType DEF TypeInv
<1>3. nodes[t] > 0 /\ lock = t => \A i \in 1 .. N(t) : ~(d'[hs(t)[i].idx] > d[hs(t)[i].idx])
  <2>1. nodes[t] > 0 => pc[t] # "pulse"
    BY PulseHolds
  <2>2. QED
    BY <1>2, <2>1 DEF Forward
<1>4. QED
  BY <1>1, <1>3 DEF PulseFelt

LEMMA SamplesStay ==
    ASSUME TypeInv, TypeInv', Forward, NEW t \in Threads, PulseFelt(t), Registered(t), req'[t] = req[t],
           \A i \in 1 .. N(t) : eseq'[t][i] = eseq[t][i]
    PROVE  \A i \in 1 .. N(t) : /\ Sampled(t, i)'
                                /\ Reached(t, i) => Reached(t, i)'
                                /\ d'[hs(t)[i].idx] > d[hs(t)[i].idx] => Reached(t, i)'
  BY SampleType, SampleKept DEF PulseFelt

\* What is left to show of a step inside a wait.
LEMMA FeltOK ==
    ASSUME TypeInv, TypeInv', HNext, Forward, NEW t \in Threads, PulseFelt(t), req'[t] = req[t],
           nodes[t] > 0 => nodes'[t] > 0 /\ \A i \in 1 .. N(t) : eseq'[t][i] = eseq[t][i],
           nodes[t] = 0 /\ Registered(t)' => \A i \in 1 .. N(t) : Sampled(t, i)',
           pc'[t] \in {"try", "trypulse"} /\ lock' = t /\ ~req[t].all /\ pulsed'[t]
             => cur'[t] = 1 \/ \E i \in 1 .. N(t) : i >= cur'[t] /\ Reached(t, i)',
           pc'[t] = "rollback" => req[t].all,
           pc'[t] = "deadline" /\ ~req[t].all => ~pulsed'[t],
           pc'[t] = "cleanup" /\ res'[t].kind = "Timeout" => lock' = t /\ (~req[t].all => ~pulsed'[t])
    PROVE  PulseFelt(t)'
<1>0. N(t)' = N(t) /\ N(t) \in Nat /\ nodes[t] \in Nat /\ nodes'[t] \in Nat
  BY ReqType DEF N, TypeInv, TypeOK
<1>1. nodes[t] > 0 => \A i \in 1 .. N(t) : /\ Sampled(t, i)'
                                           /\ Reached(t, i) => Reached(t, i)'
                                           /\ d'[hs(t)[i].idx] > d[hs(t)[i].idx] => Reached(t, i)'
  BY SamplesStay DEF Registered
<1>2. pulsed'[t] => nodes'[t] > 0
  BY PulsedNext
<1>3. Registered(t)' => \A i \in 1 .. N(t)' : Sampled(t, i)'
  BY <1>0, <1>1
<1>4. pulsed'[t] => \E i \in 1 .. N(t)' : Reached(t, i)'
  <2>1. ASSUME pulsed'[t] PROVE \E i \in 1 .. N(t) : Reached(t, i)'
    <3>1. CASE pulsed[t]
      BY <1>1, <2>1, <3>1, PulsedNext DEF PulseFelt
    <3>2. CASE \E i \in 1 .. N(t) : d'[hs(t)[i].idx] > d[hs(t)[i].idx]
      BY <1>1, <2>1, <3>2, PulsedNext
    <3>3. QED
      BY <2>1, <3>1, <3>2, PulsedNext
  <2>2. QED
    BY <1>0, <2>1
<1>5. pc'[t] \in {"try", "trypulse"} /\ lock' = t /\ ~req'[t].all /\ pulsed'[t]
        => \E i \in 1 .. N(t)' : i >= cur'[t] /\ Reached(t, i)'
  BY <1>0, <1>4
<1>6. QED
  BY <1>2, <1>3, <1>4, <1>5 DEF PulseFelt

\* A thread without nodes has not been pulsed.
LEMMA OffFelt ==
    ASSUME TypeInv, HNext, Forward, NEW t \in Threads, PulseFelt(t), TypeInv',
           nodes[t] = 0 \/ pc'[t] = "idle", nodes'[t] = 0,
           pc'[t] \notin {"alertchk", "register", "cleanup", "rollback"}
    PROVE  PulseFelt(t)'
<1>1. ~pulsed'[t]
  BY PulsedNext
<1>2. ~Registered(t)'
  BY DEF Registered
<1>3. QED
  BY <1>1, <1>2 DEF PulseFelt

\* A step of another thread.
LEMMA OtherFelt ==
    ASSUME TypeInv, TypeInv', HNext, Forward, NEW u \in Threads, PulseFelt(u), Undisturbed(u), res'[u] = res[u]
    PROVE  PulseFelt(u)'
<1>0. pc[u] = "deadline" => lock = u
  BY DEF TypeInv, ThreadOK, HoldOK, HeldLabels
<1>2. pulsed'[u] /\ lock = u => pulsed[u] /\ nodes[u] > 0
  BY PulsedNext
<1>3. Registered(u)' <=> Registered(u)
  BY DEF Registered, Undisturbed
<1>4. Registered(u) => \A i \in 1 .. N(u) : Sampled(u, i)' /\ (Reached(u, i) => Reached(u, i)')
  BY SamplesStay DEF Undisturbed
<1>5. pc'[u] \in {"try", "trypulse"} /\ lock' = u /\ ~req[u].all /\ pulsed'[u]
        => \E i \in 1 .. N(u) : i >= cur'[u] /\ Reached(u, i)'
  BY <1>2, <1>4 DEF PulseFelt, Undisturbed, Registered
<1>6. pc'[u] = "deadline" /\ ~req[u].all => ~pulsed'[u]
  BY <1>0, <1>2 DEF PulseFelt, Undisturbed
<1>7. pc'[u] = "cleanup" /\ res'[u].kind = "Timeout" => lock' = u /\ (~req[u].all => ~pulsed'[u])
  BY <1>2 DEF PulseFelt, Undisturbed
<1>8. pc'[u] = "rollback" => req[u].all
  BY DEF PulseFelt, Undisturbed
<1>9. QED
  BY <1>3, <1>4, <1>5, <1>6, <1>7, <1>8, FeltOK DEF Undisturbed

\* A wait that holds the lock takes what was pulsed.
LEMMA ReachedTaken ==
    ASSUME ListInv, NEW t \in Threads, pc[t] \in {"try", "trypulse"}, lock = t, NEW i \in 1 .. N(t),
           Reached(t, i)
    PROVE  IsEvent(t, i) /\ CounterMoved(t, i)
<1> DEFINE h == hs(t)[i]
           s == h.idx
<1>1. AllValid(t)
  BY DEF ListInv, ListOK, OnLists, Held
<1>2. s \in Slots /\ h.gen \in Nat
  BY ReqType DEF ListInv, TypeInv, Handles
<1>3. d[s] \in Nat /\ slot[s].gen \in Nat
  BY <1>2 DEF ListInv, TypeInv, TypeOK
<1>4. slot[s].gen = h.gen
  BY <1>1 DEF AllValid, Waitable, Valid
<1>5. slot[s].type = TYPE_EVENT /\ d[s] > eseq[t][i]
  BY <1>2, <1>3, <1>4 DEF Reached, Gone, ValidOf
<1>6. eseq[t][i] \in Nat
  <2>1. nodes[t] > 0
    BY DEF ListInv, TypeInv, ThreadOK, HoldOK
  <2>2. QED
    BY <2>1, SampleType DEF ListInv, Registered
<1>7. QED
  BY <1>3, <1>5, <1>6 DEF IsEvent, CounterMoved

LEMMA TryFelt ==
    ASSUME ListInv, TypeInv', HNext, Forward, NEW t \in Threads, PulseFelt(t),
           TryAny(t) \/ TryPulseAny(t) \/ TryAll(t) \/ TryPulseAll(t)
    PROVE  PulseFelt(t)'
<1>0. /\ cur[t] \in 1 .. N(t) /\ N(t) \in Nat /\ pc[t] \in {"try", "trypulse"} /\ TypeInv
      /\ pc \in [Threads -> Labels] /\ res \in [Threads -> Results]
      /\ nodes[t] \in Nat /\ t # NoThread
  BY TryMoves DEF ListInv, TypeInv, TypeOK, NoThread
<1>1. /\ UNCHANGED <<slot, d, nodes, lock>>
      /\ lock = t => nodes[t] > 0
  BY <1>0 DEF TryAny, TryPulseAny, TryAll, TryPulseAll, shared, TypeInv, ThreadOK, HoldOK
<1>2. Fails(t) /\ lock = t => ~Reached(t, cur[t])
  BY <1>0, ReachedTaken DEF Fails
<1>3. pulsed'[t] /\ lock = t => pulsed[t]
  BY <1>0, PulsedNext
<1>4. ASSUME NEW r, r.kind = "Signaled", Decide(t, r) PROVE PulseFelt(t)'
  <2>1. CASE Owes(t)
    <3>1. pc'[t] = "cleanup" /\ res'[t] = r /\ UNCHANGED <<req, eseq>>
      BY <1>0, <1>4, <2>1 DEF Decide
    <3>2. QED
      BY <1>0, <1>1, <1>4, <3>1, FeltOK DEF Registered
  <2>2. CASE ~Owes(t)
    <3>1. pc'[t] = "idle" /\ nodes[t] = 0
      BY <1>0, <1>4, <2>2 DEF Decide, Return, Owes
    <3>2. QED
      BY <1>0, <1>1, <3>1, OffFelt
  <2>3. QED
    BY <2>1, <2>2
<1>5. CASE req[t].all /\ pc'[t] = "try" /\ UNCHANGED <<req, eseq, res>>
  <2>1. /\ req'[t] = req[t] /\ nodes'[t] = nodes[t] /\ eseq'[t] = eseq[t]
        /\ nodes[t] = 0 => ~Registered(t)'
    BY <1>0, <1>1, <1>5 DEF Registered
  <2>2. QED
    BY <1>0, <1>5, <2>1, FeltOK
<1>6. CASE /\ ~req[t].all /\ Fails(t) /\ pc'[t] = "try" /\ cur'[t] = cur[t] + 1
           /\ UNCHANGED <<req, eseq, res>>
  <2>1. lock = t /\ pulsed'[t] => \E i \in 1 .. N(t) : i >= cur'[t] /\ Reached(t, i)
    <3>1. SUFFICES ASSUME lock = t, pulsed'[t]
                   PROVE  \E i \in 1 .. N(t) : i >= cur'[t] /\ Reached(t, i)
      OBVIOUS
    <3>2. PICK i \in 1 .. N(t) : i >= cur[t] /\ Reached(t, i)
      BY <1>0, <1>3, <1>6, <3>1 DEF PulseFelt
    <3>3. i # cur[t]
      BY <1>2, <1>6, <3>1, <3>2
    <3>4. i >= cur'[t]
      BY <1>0, <1>6, <3>3, <3>2
    <3>5. QED
      BY <3>2, <3>4
  <2>2. \A i \in 1 .. N(t) : Reached(t, i)' <=> Reached(t, i)
    BY <1>1, <1>6 DEF Reached, Gone, ValidOf, Valid, hs
  <2>3. pc'[t] = "try" /\ lock' = t /\ ~req[t].all /\ pulsed'[t]
          => \E i \in 1 .. N(t) : i >= cur'[t] /\ Reached(t, i)'
    BY <1>1, <2>1, <2>2
  <2>4. pc'[t] = "try" /\ req'[t] = req[t] /\ nodes'[t] = nodes[t] /\ eseq'[t] = eseq[t]
    BY <1>0, <1>1, <1>6
  <2>5. nodes[t] = 0 => ~Registered(t)'
    BY <2>4 DEF Registered
  <2>6. QED
    BY <1>0, <2>3, <2>4, <2>5, FeltOK
<1>7. CASE Fails(t) /\ (~req[t].all => cur[t] = N(t)) /\ Miss(t)
  <2>1. /\ UNCHANGED <<req, eseq, res>>
        /\ pc'[t] \in {"deadline", "spinmiss", "fastmiss"}
        /\ pc'[t] = "deadline" => lock = t
    BY <1>0, <1>7 DEF Miss, Goto
  <2>2. ~req[t].all /\ lock = t => ~pulsed'[t]
    <3>1. SUFFICES ASSUME ~req[t].all, lock = t, pulsed'[t] PROVE FALSE
      OBVIOUS
    <3>2. PICK i \in 1 .. N(t) : i >= cur[t] /\ Reached(t, i)
      BY <1>0, <1>3, <3>1 DEF PulseFelt
    <3>3. i = cur[t]
      BY <1>0, <1>7, <3>1, <3>2
    <3>4. QED
      BY <1>2, <1>7, <3>1, <3>2, <3>3
  <2>3. QED
    BY <1>0, <1>1, <2>1, <2>2, FeltOK DEF Registered
<1>8. CASE req[t].all /\ Fails(t) /\ pc'[t] = "rollback" /\ UNCHANGED <<req, eseq, res>>
  BY <1>0, <1>1, <1>8, FeltOK DEF Registered
<1>9. CASE pc'[t] = "trypulse" /\ UNCHANGED <<req, cur, eseq, res>>
  <2>1. \A i \in 1 .. N(t) : Reached(t, i)' <=> Reached(t, i)
    BY <1>1, <1>9 DEF Reached, Gone, ValidOf, Valid, hs
  <2>2. lock' = t /\ ~req[t].all /\ pulsed'[t]
          => \E i \in 1 .. N(t) : i >= cur'[t] /\ Reached(t, i)'
    BY <1>0, <1>1, <1>3, <1>9, <2>1 DEF PulseFelt
  <2>3. /\ req'[t] = req[t] /\ nodes'[t] = nodes[t] /\ eseq'[t] = eseq[t]
        /\ nodes[t] = 0 => ~Registered(t)'
    BY <1>0, <1>1, <1>9 DEF Registered
  <2>4. QED
    BY <1>0, <1>9, <2>2, <2>3, FeltOK
<1>10. QED
  BY <1>0, <1>4, <1>5, <1>6, <1>7, <1>8, <1>9, TryMoves

\* Outside of the blocking path a thread has no nodes.
LEMMA CallFelt ==
    ASSUME TypeInv, TypeInv', HNext, Forward, NEW t \in Threads, PulseFelt(t),
           \/ Refuse(t) \/ Begin(t) \/ SignalStep(t) \/ LockedStep(t)
           \/ FastValidate(t) \/ AlertValid(t) \/ AlertFast(t) \/ FastMiss(t) \/ Cleanup(t)
    PROVE  PulseFelt(t)'
<1>0. pc \in [Threads -> Labels] /\ nodes \in [Threads -> Nat]
  BY DEF TypeInv, TypeOK
<1>1. CASE Cleanup(t)
  <2>1. pc'[t] = "idle" /\ nodes'[t] = 0
    BY <1>0, <1>1 DEF Cleanup, Return
  <2>2. QED
    BY <2>1, OffFelt
<1>2. CASE \/ Refuse(t) \/ Begin(t) \/ SignalStep(t) \/ LockedStep(t)
           \/ FastValidate(t) \/ AlertValid(t) \/ AlertFast(t) \/ FastMiss(t)
  <2>1. pc[t] \in CallLabels \cup FastLabels /\ nodes' = nodes
    BY <1>2 DEF Refuse, Begin, SignalStep, Resolve, Cas, ReadHead, Walk, LockedStep, event_pulse, PulseCount,
                PulseLoad, PulseStore, close, FastValidate, AlertValid, AlertFast, FastMiss, CallLabels, FastLabels
  <2>2. nodes[t] = 0 /\ nodes'[t] = 0
    BY <2>1 DEF TypeInv, ThreadOK, HoldOK
  <2>3. pc'[t] \notin {"alertchk", "register", "cleanup", "rollback"}
    <3>1. CASE Refuse(t)
      BY <1>0, <3>1 DEF Refuse
    <3>2. CASE Begin(t)
      <4>1. PICK r \in Menu[t] : pc' = [pc EXCEPT ![t] = CASE r.op \in SignalOps -> "resolve"
                                                           [] r.op \in LockedOps -> "locked"
                                                           [] r.op = "wait"      -> "validate"]
        BY <3>2 DEF Begin, Goto
      <4>2. r.op \in Ops
        BY WorkloadAssumption DEF Requests
      <4>3. QED
        BY <1>0, <4>1, <4>2 DEF Ops, SignalOps, LockedOps
    <3>3. CASE SignalStep(t) \/ LockedStep(t)
      BY <1>0, <3>3 DEF SignalStep, Resolve, Cas, ReadHead, Walk, LockedStep, event_pulse, PulseCount,
                       PulseLoad, PulseStore, close, Return, Goto
    <3>4. CASE FastValidate(t)
      <4>1. pc'[t] \in {"lock", "validate", "try", "alertvalid"}
        <5>1. cur[t] \in 1 .. N(t) /\ N(t) \in Nat
          BY <3>4, ReqType DEF FastValidate, TypeInv, ThreadOK, TryOK
        <5>2. QED
          BY <1>0, <3>4, <5>1 DEF FastValidate, Goto
      <4>2. QED
        BY <4>1
    <3>5. CASE AlertValid(t) \/ AlertFast(t) \/ FastMiss(t)
      BY <1>0, <3>5 DEF AlertValid, AlertFast, FastMiss, Return, Goto
    <3>6. QED
      BY <1>2, <3>1, <3>2, <3>3, <3>4, <3>5
  <2>4. QED
    BY <2>2, <2>3, OffFelt
<1>3. QED
  BY <1>1, <1>2

\* A wait that is awake again, validates its handles and registers.
LEMMA LockFelt ==
    ASSUME ListInv, TypeInv', HNext, Forward, NEW t \in Threads, PulseFelt(t),
           Lock(t) \/ AlertCheck(t) \/ Register(t)
    PROVE  PulseFelt(t)'
<1>0. /\ pc \in [Threads -> Labels] /\ res \in [Threads -> Results] /\ nodes \in [Threads -> Nat]
      /\ cur[t] = 1 /\ N(t) \in Nat /\ N(t) >= 1 /\ nodes[t] \in Nat /\ n_nodes(t) >= N(t)
      /\ TypeInv /\ n_nodes(t) \in Nat
  BY ReqType DEF ListInv, TypeInv, TypeOK, ThreadOK, TryOK, CallOK, Lock, AlertCheck, Register, CallLabels
<1>1. req' = req /\ cur' = cur /\ slot' = slot /\ d' = d
  BY DEF Lock, AlertCheck, Register, shared
<1>2. Invalid.kind # "Timeout" /\ Signaled(N(t), FALSE).kind # "Timeout"
  BY DEF Invalid, Signaled, Result
<1>3. CASE Lock(t) /\ AllValid(t)
  <2>1. pc'[t] \in {"alertchk", "register"} /\ nodes' = nodes
    BY <1>0, <1>3 DEF Lock, Goto
  <2>2. \A i \in 1 .. N(t) : eseq'[t][i] = IF FirstRound(t) /\ slot[hs(t)[i].idx].type = TYPE_EVENT
                                           THEN d[hs(t)[i].idx] ELSE eseq[t][i]
    BY <1>3 DEF Lock, ListInv, TypeInv, TypeOK
  <2>3. nodes[t] > 0 => \A i \in 1 .. N(t) : eseq'[t][i] = eseq[t][i]
    BY <1>0, <2>2 DEF FirstRound
  <2>4. ASSUME nodes[t] = 0, NEW i \in 1 .. N(t) PROVE Sampled(t, i)'
    <3>1. Waitable(hs(t)[i])
      BY <1>3 DEF AllValid
    <3>2. slot[hs(t)[i].idx].type = TYPE_EVENT => eseq'[t][i] = d[hs(t)[i].idx]
      BY <2>2, <2>4 DEF FirstRound
    <3>3. d[hs(t)[i].idx] \in Nat
      BY <1>0, ReqType DEF TypeInv, TypeOK
    <3>4. QED
      BY <1>1, <3>1, <3>2, <3>3 DEF Sampled, Waitable, ValidOf, Valid, hs
  <2>5. QED
    BY <1>0, <1>1, <2>1, <2>3, <2>4, FeltOK
<1>4. CASE Lock(t) /\ ~AllValid(t)
  <2>1. pc'[t] = "cleanup" /\ res'[t] = Invalid /\ nodes' = nodes /\ eseq' = eseq
    BY <1>0, <1>4 DEF Lock, Goto
  <2>2. QED
    BY <1>0, <1>1, <1>2, <2>1, FeltOK DEF Registered
<1>5. CASE AlertCheck(t)
  <2>1. /\ nodes' = nodes /\ eseq' = eseq /\ pc[t] = "alertchk"
        /\ \/ pc'[t] = "register"
           \/ pc'[t] = "cleanup" /\ res'[t] = Signaled(N(t), FALSE)
    BY <1>0, <1>5 DEF AlertCheck, Goto
  <2>2. \A i \in 1 .. N(t) : Sampled(t, i)'
    BY <1>0, <1>1, <2>1, SamplesStay DEF Registered
  <2>3. QED
    BY <1>0, <1>1, <1>2, <2>1, <2>2, FeltOK
<1>6. CASE Register(t)
  <2>1. /\ eseq' = eseq /\ pc[t] = "register"
        /\ \/ pc'[t] = "cleanup" /\ res'[t] = Invalid /\ nodes' = nodes
           \/ pc'[t] = "try" /\ nodes'[t] = n_nodes(t)
    BY <1>0, <1>6 DEF Register, Goto
  <2>2. \A i \in 1 .. N(t) : Sampled(t, i)'
    BY <1>0, <1>1, <2>1, SamplesStay DEF Registered
  <2>3. /\ req'[t] = req[t] /\ cur'[t] = 1 /\ eseq'[t] = eseq[t]
        /\ nodes[t] > 0 => nodes'[t] > 0
        /\ pc'[t] \in {"cleanup", "try"}
        /\ pc'[t] = "cleanup" => res'[t].kind # "Timeout"
    BY <1>0, <1>1, <1>2, <2>1
  <2>4. QED
    BY <1>0, <2>2, <2>3, FeltOK
<1>7. QED
  BY <1>3, <1>4, <1>5, <1>6

\* The rest of a blocking wait.
LEMMA BlockFelt ==
    ASSUME TypeInv, TypeInv', HNext, Forward, NEW t \in Threads, PulseFelt(t),
           \/ Rollback(t) \/ Deadline(t) \/ SpinAlert(t) \/ Peek(t) \/ SpinMiss(t)
           \/ Wake(t) \/ Interrupt(t) \/ TailDone(t) \/ Awake(t)
    PROVE  PulseFelt(t)'
<1>0. pc \in [Threads -> Labels] /\ res \in [Threads -> Results] /\ nodes[t] \in Nat /\ t # NoThread
  BY DEF TypeInv, TypeOK, NoThread
<1>1. req' = req /\ nodes' = nodes /\ eseq' = eseq
  BY DEF Rollback, Miss, Deadline, SpinAlert, Peek, SpinMiss, Wake, Interrupt, TailDone, Awake
<1>2. CASE Rollback(t)
  <2>1. req[t].all /\ pc'[t] \in {"rollback", "deadline", "spinmiss", "fastmiss"}
    BY <1>0, <1>2 DEF Rollback, Miss, Goto, PulseFelt
  <2>2. QED
    BY <1>0, <1>1, <2>1, FeltOK DEF Registered
<1>3. CASE Deadline(t)
  <2>1. pc[t] = "deadline" /\ lock = t /\ nodes[t] > 0
    BY <1>3 DEF Deadline, TypeInv, ThreadOK, HoldOK, HeldLabels
  <2>2. ~req[t].all => ~pulsed'[t]
    BY <1>0, <2>1, PulsedNext DEF PulseFelt
  <2>3. (pc'[t] = "cleanup" /\ lock' = lock) \/ pc'[t] \in {"spin", "futex", "tail"}
    BY <1>0, <1>3 DEF Deadline, Goto, SleepLabels
  <2>4. QED
    BY <1>0, <1>1, <2>1, <2>2, <2>3, FeltOK
<1>4. CASE \/ SpinAlert(t) \/ Peek(t) \/ SpinMiss(t) \/ Wake(t) \/ Interrupt(t) \/ TailDone(t) \/ Awake(t)
  <2>1. pc[t] \in BlockLabels /\ lock' = lock
    BY <1>4 DEF SpinAlert, Peek, SpinMiss, Wake, Interrupt, TailDone, Awake, BlockLabels, shared
  <2>2. nodes[t] > 0 /\ lock # t
    BY <2>1 DEF TypeInv, ThreadOK, HoldOK, BlockLabels, HeldLabels
  <2>3. /\ pc'[t] \notin {"rollback", "deadline"}
        /\ pc'[t] = "cleanup" => res'[t] = Signaled(N(t), FALSE)
    <3>1. CASE SpinAlert(t)
      BY <1>0, <3>1 DEF SpinAlert, Goto
    <3>2. CASE Peek(t) \/ SpinMiss(t) \/ Wake(t) \/ Interrupt(t) \/ TailDone(t) \/ Awake(t)
      BY <1>0, <3>2 DEF Peek, SpinMiss, Wake, Interrupt, TailDone, Awake, Goto, SleepLabels
    <3>3. QED
      BY <1>4, <3>1, <3>2
  <2>4. pc'[t] = "cleanup" => res'[t].kind # "Timeout"
    BY <2>3 DEF Signaled, Result
  <2>5. lock' # t /\ nodes'[t] > 0 /\ req'[t] = req[t] /\ eseq'[t] = eseq[t]
    BY <1>1, <2>1, <2>2
  <2>6. ~(nodes[t] = 0)
    BY <2>2
  <2>7. QED
    BY <2>3, <2>4, <2>5, <2>6, FeltOK
<1>5. QED
  BY <1>2, <1>3, <1>4

LEMMA NextFelt ==
    ASSUME ListInv, TypeInv', PulseInv, HNext, NEW u \in Threads
    PROVE  PulseFelt(u)'
<1>1. TypeInv
  BY DEF ListInv
<1>2. PICK t \in Threads :
         /\ Refuse(t) \/ Begin(t) \/ Create(t) \/ Step(t) \/ Interrupt(t) \/ Expire(t)
         /\ \A v \in Threads \ {t} : Undisturbed(v) /\ res'[v] = res[v]
  BY <1>1, StepOwner DEF HNext
<1>3. Forward /\ PulseFelt(t) /\ PulseFelt(u)
  BY <1>2, StepForward DEF PulseInv
<1>4. CASE u # t
  BY <1>1, <1>2, <1>3, <1>4, OtherFelt
<1>5. CASE u = t
  <2>1. CASE Create(t) \/ Expire(t)
    <3>1. Undisturbed(t) /\ res'[t] = res[t]
      BY <2>1 DEF Create, Expire, Undisturbed, local, shared
    <3>2. QED
      BY <1>1, <1>3, <1>5, <3>1, OtherFelt
  <2>2. CASE Refuse(t) \/ Begin(t) \/ SignalStep(t) \/ LockedStep(t)
    BY <1>1, <1>3, <1>5, <2>2, CallFelt
  <2>3. CASE WaitStep(t) \/ Interrupt(t)
    BY <1>1, <1>3, <1>5, <2>3, CallFelt, TryFelt, LockFelt, BlockFelt DEF WaitStep
  <2>4. QED
    BY <1>2, <2>1, <2>2, <2>3 DEF Step
<1>6. QED
  BY <1>4, <1>5

\* A wait-any that returns with a timeout was not pulsed.
LEMMA TimeoutUnpulsed ==
    ASSUME TypeInv, PulseInv, Next, NEW u \in Threads, Returns(u, "Timeout"), ~req[u].all
    PROVE  ~pulsed[u]
<1>0. pc \in [Threads -> Labels] /\ res \in [Threads -> Results] /\ PulseFelt(u)
  BY DEF TypeInv, TypeOK, PulseInv
<1>1. PICK t \in Threads :
         /\ Refuse(t) \/ Begin(t) \/ Create(t) \/ Step(t) \/ Interrupt(t) \/ Expire(t)
         /\ \A v \in Threads \ {t} : Undisturbed(v) /\ res'[v] = res[v]
  BY StepOwner
<1>2. u = t
  BY <1>1 DEF Undisturbed, Returns
<1>3. CASE pc[u] \in CallLabels \cup FastLabels
  <2>1. nodes[u] = 0
    BY <1>3 DEF TypeInv, ThreadOK, HoldOK
  <2>2. QED
    BY <1>0, <2>1 DEF PulseFelt
<1>4. CASE pc[u] = "cleanup"
  <2>1. Cleanup(t)
    BY <1>1, <1>2, <1>4 DEF Refuse, Begin, Create, Interrupt, Expire, Returns, local,
       Step, SignalStep, LockedStep, WaitStep, Resolve, Cas, ReadHead, Walk, event_pulse, PulseCount, PulseLoad,
       PulseStore, close, FastValidate, AlertValid, AlertFast, FastMiss, TryAny, TryPulseAny, TryAll, TryPulseAll, Rollback, Lock, AlertCheck, Register,
       Deadline, SpinAlert, Peek, SpinMiss, Wake, TailDone, Awake
  <2>2. res'[u] = res[u]
    BY <1>0, <1>2, <2>1 DEF Cleanup, Return
  <2>3. QED
    BY <1>0, <1>4, <2>2 DEF PulseFelt, Returns
<1>5. CASE TryAny(t) \/ TryPulseAny(t)
  <2>1. \/ \E r : r.kind = "Signaled" /\ Decide(t, r)
        \/ pc'[t] \in {"try", "trypulse", "rollback"}
        \/ Miss(t)
    BY <1>5, TryMoves
  <2>2. ASSUME NEW r, r.kind = "Signaled", Decide(t, r) PROVE res'[t].kind = "Signaled"
    BY <1>0, <2>2 DEF Decide, Return
  <2>3. QED
    BY <1>0, <1>2, <2>1, <2>2 DEF Returns, Miss, Goto
<1>6. QED
  <2>1. CASE Refuse(t) \/ Begin(t) \/ Create(t) \/ Expire(t) \/ SignalStep(t) \/ LockedStep(t)
    BY <1>0, <1>2, <1>3, <2>1 DEF Refuse, Begin, Create, Expire, SignalStep, LockedStep, Resolve, Cas, ReadHead,
       Walk, event_pulse, PulseCount, PulseLoad, PulseStore, close, CallLabels, Returns, local
  <2>2. CASE FastValidate(t) \/ AlertValid(t) \/ AlertFast(t) \/ FastMiss(t)
    BY <1>2, <1>3, <2>2 DEF FastValidate, AlertValid, AlertFast, FastMiss, FastLabels
  <2>3. CASE TryAll(t) \/ TryPulseAll(t)
    BY <1>2, <2>3 DEF TryAll, TryPulseAll
  <2>4. CASE Rollback(t)
    BY <1>0, <1>2, <2>4 DEF Rollback, PulseFelt
  <2>5. CASE Lock(t) \/ AlertCheck(t) \/ Register(t) \/ Deadline(t)
    BY <1>0, <1>2, <2>5 DEF Lock, AlertCheck, Register, Deadline, Goto, Returns, SleepLabels
  <2>6. CASE SpinAlert(t)
    BY <1>0, <1>2, <2>6 DEF SpinAlert, Goto, Returns
  <2>7. CASE Peek(t) \/ SpinMiss(t) \/ Wake(t) \/ Interrupt(t) \/ TailDone(t) \/ Awake(t)
    BY <1>0, <1>2, <2>7 DEF Peek, SpinMiss, Wake, Interrupt, TailDone, Awake, Goto, Returns, SleepLabels
  <2>8. CASE Cleanup(t)
    BY <1>2, <1>4, <2>8 DEF Cleanup
  <2>9. QED
    BY <1>1, <1>5, <2>1, <2>2, <2>3, <2>4, <2>5, <2>6, <2>7, <2>8 DEF Step, WaitStep

\* event_pulse reaches every wait-any that has registered when it comes, for every
\* number of threads and every workload: it does not time out.  That it keeps
\* the counters it sampled when it first blocked is what this rests on.
THEOREM PulsesReach == HSpec => PulseReaches
<1>1. HInit => ListInv /\ PulseInv
  <2>1. HInit => PulseInv
    BY DEF HInit, Init, PulseInv, PulseFelt, Registered
  <2>2. QED
    BY <2>1, ListInit DEF HInit
<1>2. ListInv /\ PulseInv /\ [HNext]_hvars => (ListInv /\ PulseInv)'
  <2>1. CASE HNext
    <3>1. ListInv => ListInv' /\ TypeInv'
      BY <2>1, ListStep DEF HNext, ListInv
    <3>2. QED
      BY <2>1, <3>1, NextFelt DEF PulseInv
  <2>2. CASE UNCHANGED hvars
    <3>1. ListInv => ListInv'
      BY <2>2, ListStep DEF hvars
    <3>2. PulseInv => PulseInv'
      <4>1. ASSUME NEW t \in Threads, NEW i
            PROVE  (Sampled(t, i)' <=> Sampled(t, i)) /\ (Reached(t, i)' <=> Reached(t, i))
        BY <2>2 DEF hvars, vars, shared, local, Sampled, Reached, Gone, ValidOf, Waitable, Valid, hs
      <4>2. ASSUME NEW t \in Threads, PulseFelt(t) PROVE PulseFelt(t)'
        BY <2>2, <4>1, <4>2 DEF hvars, vars, shared, local, PulseFelt, Registered, N
      <4>3. QED
        BY <4>2 DEF PulseInv
    <3>3. QED
      BY <3>1, <3>2
  <2>3. QED
    BY <2>1, <2>2
<1>3. ListInv /\ PulseInv /\ [HNext]_hvars
        => [\A t \in Threads : Returns(t, "Timeout") /\ ~req[t].all => ~pulsed[t]]_hvars
  BY TimeoutUnpulsed DEF HNext, ListInv
<1>4. QED
  BY <1>1, <1>2, <1>3, PTL DEF HSpec, PulseReaches
=============================================================================
