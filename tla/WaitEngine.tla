----------------------------- MODULE WaitEngine -----------------------------
(***************************************************************************)
(* The blocking engine of src/core.rs: threads of any number of processes  *)
(* that operate on the objects of one shared region.                       *)
(*                                                                         *)
(* A signal operation changes an object's word by a lock-free CAS and only *)
(* afterwards looks at the object's waiter list; if that is not empty it   *)
(* takes the region lock and wakes everyone on it.  A wait tries its       *)
(* objects without the lock, then takes the lock, registers one node on    *)
(* each object's list, tries again, and sleeps on the seq word of its      *)
(* first node.  pc[t] is where thread t stands:                            *)
(*                                                                         *)
(*   idle       between two calls            signal operations             *)
(*   validate   fast path, slot() of a handle   resolve  slot() and type   *)
(*   alertvalid, alertfast  the same, alert     cas      the CAS loop      *)
(*   try        try_satisfy, one object         head     waiter_head load  *)
(*   trypulse   its event's pulse counter       walk     wants the lock    *)
(*   rollback   undo of a partial wait-all                                 *)
(*   fastmiss   nothing to be had so far     pulse and close               *)
(*   lock       wants the lock, validates       locked   wants the lock    *)
(*   alertchk   locked, alert test              pulse    locked, moves d   *)
(*   register   locked, node allocation         clear    locked, loads w0  *)
(*   deadline   locked, last step before        store    locked, stores it *)
(*              the sleep                    panic     a failed expect or  *)
(*   spin, peek, spinmiss  bounded spin                unwrap: no way back *)
(*   futex      parked on the seq word                                     *)
(*   tail       spins out the last stretch                                 *)
(*   awake      detaches what is still registered                          *)
(*   cleanup    frees its nodes and returns                                *)
(***************************************************************************)
EXTENDS NtObject, Sequences, FiniteSets

CONSTANTS
    Threads,       \* the threads; a thread's name is the owner id it waits with
    SlotCount,     \* SLOT_COUNT, slot 0 included
    NodeCount,     \* NODE_COUNT
    MaxWaitCount,  \* MAX_WAIT_COUNT
    SpinIters,     \* NTSYNC_SPIN_ITERS; 0 turns the spin off
    TailOn,        \* NTSYNC_SPIN_TAIL_US is not 0
    InitObjects,   \* the objects of the initial region: slot |-> [type, w]
    Fresh,         \* what create_* may be called for: a set of [type, w]
    Menu,          \* Menu[t]: the requests thread t may make
    MaxPulse,      \* bound: pulses of one event
    MaxGen         \* bound: a slot whose generation is MaxGen is not reused

Slots   == 0 .. SlotCount - 1
Handles == [idx : Slots, gen : Nat]

\* Handle 0 stands for `no alert'.  Slot 0 is reserved, so no object has it.
NoHandle == [idx |-> 0, gen |-> 0]
NoThread == 0
NoWord   == pack_sem(0, 0)

WaitTypes == {TYPE_SEM, TYPE_MUTEX, TYPE_EVENT}
Objects   == [type : WaitTypes, w : Word]
SignalOps == {"sem_release", "event_set", "event_reset", "mutex_unlock",
              "mutex_kill"}
LockedOps == {"event_pulse", "close"}
Ops       == SignalOps \cup LockedOps \cup {"wait"}

(***************************************************************************)
(* One call.  h, n: the handle of an operation on one object and its       *)
(* numeric argument (a count or an owner).  hs, all, alert, timeout: the   *)
(* arguments of a wait.                                                    *)
(***************************************************************************)
Requests == [op : Ops, h : Handles, n : Nat, hs : Seq(Handles),
             all : BOOLEAN, alert : Handles,
             timeout : {"zero", "finite", "inf"}]

SignalReq(op, h, n) ==
    [op |-> op, h |-> h, n |-> n, hs |-> <<>>, all |-> FALSE,
     alert |-> NoHandle, timeout |-> "zero"]

WaitReq(hs, all, alert, timeout) ==
    [op |-> "wait", h |-> NoHandle, n |-> 0, hs |-> hs, all |-> all,
     alert |-> alert, timeout |-> timeout]

NoReq == SignalReq("close", NoHandle, 0)

ASSUME ThreadsAssumption == Threads \subseteq Nat \ {0}

ASSUME SizesAssumption ==
    /\ SlotCount \in Nat \ {0}
    /\ NodeCount \in Nat
    /\ MaxWaitCount \in Nat
    /\ SpinIters \in Nat
    /\ MaxPulse \in Nat
    /\ MaxGen \in Nat
    /\ TailOn \in BOOLEAN

ASSUME WorkloadAssumption ==
    /\ DOMAIN InitObjects \subseteq Slots \ {0}
    /\ \A s \in DOMAIN InitObjects : InitObjects[s] \in Objects
    /\ Fresh \subseteq Objects
    /\ \A t \in Threads : Menu[t] \subseteq Requests

-----------------------------------------------------------------------------
VARIABLES
    slot,     \* slot[s]: is it in use, its generation, its obj_type
    w0, d,    \* the state word and the pulse counter of each slot
    old,      \* the word that a pulse, which has the lock, has loaded to store
    lock,     \* who holds the region lock, NoThread if nobody does
    pool,     \* nodes that nobody has allocated
    pc,
    req,      \* the call the thread is in
    cur,      \* validate and try: the handle it has come to
    eseq,     \* entry_seqs
    acq,      \* a wait-all's `acquired' list of [i, od]
    reg,      \* reg[t]: the slots on whose waiter list t has a node
    nodes,    \* nodes t has allocated
    bumped,   \* the head node's seq is not what t sampled before sleeping
    spin,     \* spin iterations left
    expired,  \* the deadline of t's wait has passed
    res       \* what t's last call returned, or is about to return

shared == <<slot, w0, d, old, lock, pool>>
local  == <<pc, req, cur, eseq, acq, reg, nodes, bumped, spin, expired, res>>
vars   == <<shared, local>>

Kinds   == {"none", "ok", "Invalid", "Perm", "Overflow", "Timeout", "Signaled", "panic"}
Results == [kind : Kinds, val : Nat, od : BOOLEAN]

Result(kind, val, od) == [kind |-> kind, val |-> val, od |-> od]
NoResult == Result("none", 0, FALSE)
Invalid  == Result("Invalid", 0, FALSE)
Timeout  == Result("Timeout", 0, FALSE)
Panic    == Result("panic", 0, FALSE)
Signaled(index, od) == Result("Signaled", index, od)

Init ==
    /\ slot = [s \in Slots |->
                 [used |-> s = 0 \/ s \in DOMAIN InitObjects,
                  gen  |-> 0,
                  type |-> IF s \in DOMAIN InitObjects
                           THEN InitObjects[s].type ELSE TYPE_RESERVED]]
    /\ w0 = [s \in Slots |-> IF s \in DOMAIN InitObjects
                             THEN InitObjects[s].w ELSE pack_sem(0, 0)]
    /\ d = [s \in Slots |-> 0]
    /\ old = NoWord
    /\ lock = NoThread
    /\ pool = NodeCount
    /\ pc = [t \in Threads |-> "idle"]
    /\ req = [t \in Threads |-> NoReq]
    /\ cur = [t \in Threads |-> 1]
    /\ eseq = [t \in Threads |-> <<>>]
    /\ acq = [t \in Threads |-> <<>>]
    /\ reg = [t \in Threads |-> {}]
    /\ nodes = [t \in Threads |-> 0]
    /\ bumped = [t \in Threads |-> FALSE]
    /\ spin = [t \in Threads |-> 0]
    /\ expired = [t \in Threads |-> FALSE]
    /\ res = [t \in Threads |-> NoResult]

-----------------------------------------------------------------------------
(* Reading the table. *)

\* Region::slot
Valid(h) == slot[h.idx].used /\ slot[h.idx].gen = h.gen

ValidOf(h, type) == Valid(h) /\ slot[h.idx].type = type

Waitable(h) == Valid(h) /\ slot[h.idx].type \in WaitTypes

hs(t)       == req[t].hs
N(t)        == Len(req[t].hs)
alert(t)    == req[t].alert
HasAlert(t) == req[t].alert # NoHandle
n_nodes(t)  == N(t) + (IF HasAlert(t) THEN 1 ELSE 0)

\* Faulty: only the head node is registered.
WaitSlotsHeadOnly(t) == {hs(t)[1].idx}

\* The slots whose lists a waiter puts a node on.
WaitSlots(t) == {hs(t)[i].idx : i \in 1 .. N(t)}
                  \cup (IF HasAlert(t) THEN {alert(t).idx} ELSE {})

\* A thread's try_acquire on the word of handle i, and is_locked on it.
Attempt(t, i) ==
    LET s == hs(t)[i].idx
    IN  try_acquire(slot[s].type, w0[s], t)

Acquirable(t, i) ==
    LET s == hs(t)[i].idx
    IN  is_locked(slot[s].type, w0[s], d[s], t, eseq[t][i])

IsEvent(t, i) == slot[hs(t)[i].idx].type = TYPE_EVENT

\* The event was pulsed since t sampled its counter.
CounterMoved(t, i) == d[hs(t)[i].idx] # eseq[t][i]

AlertSet(t) == w0[alert(t).idx].lo # 0

-----------------------------------------------------------------------------
(* Pieces that actions are made of. *)

Goto(t, label) == pc' = [pc EXCEPT ![t] = label]

\* The call is over: everything local to it is gone but its result.
Return(t, r) ==
    /\ pc' = [pc EXCEPT ![t] = "idle"]
    /\ req' = [req EXCEPT ![t] = NoReq]
    /\ cur' = [cur EXCEPT ![t] = 1]
    /\ eseq' = [eseq EXCEPT ![t] = <<>>]
    /\ acq' = [acq EXCEPT ![t] = <<>>]
    /\ spin' = [spin EXCEPT ![t] = 0]
    /\ expired' = [expired EXCEPT ![t] = FALSE]
    /\ res' = [res EXCEPT ![t] = r]

\* Faulty: nodes are given back only by who holds the lock.
OwesLockOnly(t) == lock = t

\* The wait has nodes or the lock to give back.
Owes(t) == nodes[t] > 0 \/ lock = t

\* A wait is decided: it returns, by way of waiter_cleanup if it owes something.
Decide(t, r) ==
    IF Owes(t)
    THEN /\ pc' = [pc EXCEPT ![t] = "cleanup"]
         /\ res' = [res EXCEPT ![t] = r]
         /\ acq' = [acq EXCEPT ![t] = <<>>]
         /\ cur' = [cur EXCEPT ![t] = 1]
         /\ UNCHANGED <<req, eseq, spin, expired>>
    ELSE Return(t, r)

\* Faulty: the waiters are taken off the list and their seq is left alone.
wake_object_no_bump(s) ==
    /\ reg' = [u \in Threads |-> reg[u] \ {s}]
    /\ UNCHANGED bumped

\* Faulty: the waiters are woken and stay on the list.
wake_object_no_detach(s) ==
    /\ bumped' = [u \in Threads |-> bumped[u] \/ s \in reg[u]]
    /\ UNCHANGED reg

\* wake_object: everyone on the list of slot s is detached and bumped.
wake_object(s) ==
    /\ reg' = [u \in Threads |-> reg[u] \ {s}]
    /\ bumped' = [u \in Threads |-> bumped[u] \/ s \in reg[u]]

\* Where a waiter goes that is about to sleep: to the futex, or to the spin
\* tail if it is on and the wait has a deadline that may be near enough.
SleepLabels(t) ==
    {"futex"} \cup (IF TailOn /\ req[t].timeout = "finite" THEN {"tail"} ELSE {})

-----------------------------------------------------------------------------
(* Calls. *)

\* What wait() refuses before it looks at the region.
BadArgs(r) ==
    r.op = "wait" /\ \/ Len(r.hs) \notin 1 .. MaxWaitCount
                     \/ \E i, j \in 1 .. Len(r.hs) : i # j /\ r.hs[i] = r.hs[j]

Refuse(t) ==
    /\ pc[t] = "idle"
    /\ \E r \in Menu[t] : BadArgs(r)
    /\ res' = [res EXCEPT ![t] = Invalid]
    /\ UNCHANGED <<shared, pc, req, cur, eseq, acq, reg, nodes, bumped, spin, expired>>

Begin(t) ==
    /\ pc[t] = "idle"
    /\ \E r \in Menu[t] :
         /\ ~BadArgs(r)
         /\ req' = [req EXCEPT ![t] = r]
         /\ Goto(t, CASE r.op \in SignalOps -> "resolve"
                      [] r.op \in LockedOps -> "locked"
                      [] r.op = "wait"      -> "validate")
         /\ eseq' = [eseq EXCEPT ![t] = [i \in 1 .. Len(r.hs) |-> 0]]
         /\ expired' = [expired EXCEPT ![t] = r.op = "wait" /\ r.timeout = "zero"]
         /\ res' = [res EXCEPT ![t] = NoResult]
    /\ UNCHANGED <<shared, cur, acq, reg, nodes, bumped, spin>>

(***************************************************************************)
(* create_semaphore, create_mutex, create_event: alloc_slot and            *)
(* slot_publish under the lock.  Which free slot is taken is left open.    *)
(***************************************************************************)
Create(t) ==
    /\ pc[t] = "idle" /\ lock = NoThread
    /\ \E o \in Fresh, s \in Slots :
         /\ ~slot[s].used /\ slot[s].gen < MaxGen
         /\ slot' = [slot EXCEPT ![s] = [used |-> TRUE, gen |-> @.gen, type |-> o.type]]
         /\ w0' = [w0 EXCEPT ![s] = o.w]
         /\ d' = [d EXCEPT ![s] = 0]
    /\ UNCHANGED <<old, lock, pool, local>>

-----------------------------------------------------------------------------
(* Signal operations. *)

OpType(op) == CASE op = "sem_release" -> TYPE_SEM
                [] op \in {"mutex_unlock", "mutex_kill"} -> TYPE_MUTEX
                [] OTHER -> TYPE_EVENT

OpOutcome(r, w) == CASE r.op = "sem_release"  -> sem_release(w, r.n)
                     [] r.op = "event_set"    -> event_set(w)
                     [] r.op = "event_reset"  -> event_reset(w)
                     [] r.op = "mutex_unlock" -> mutex_unlock(w, r.n)
                     [] r.op = "mutex_kill"   -> mutex_kill(w, r.n)

\* A mutex operation with owner 0 is refused before anything else.
Resolve(t) ==
    /\ pc[t] = "resolve"
    /\ IF /\ ValidOf(req[t].h, OpType(req[t].op))
          /\ OpType(req[t].op) = TYPE_MUTEX => req[t].n # 0
       THEN /\ Goto(t, "cas")
            /\ UNCHANGED <<req, cur, eseq, acq, spin, expired, res>>
       ELSE Return(t, Invalid)
    /\ UNCHANGED <<shared, reg, nodes, bumped>>

\* The pass of the CAS loop that succeeds.  The slot is not looked up again.
Cas(t) ==
    /\ pc[t] = "cas"
    /\ LET s == req[t].h.idx
           o == OpOutcome(req[t], w0[s])
           r == Result(o.err, o.val, FALSE)
       IN  /\ w0' = [w0 EXCEPT ![s] = o.w]
           /\ IF o.wake
              THEN /\ Goto(t, "head")
                   /\ res' = [res EXCEPT ![t] = r]
                   /\ UNCHANGED <<req, cur, eseq, acq, spin, expired>>
              ELSE Return(t, r)
    /\ UNCHANGED <<slot, d, old, lock, pool, reg, nodes, bumped>>

\* wake_waiters_if_any: the lock-free look at waiter_head ...
ReadHead(t) ==
    /\ pc[t] = "head"
    /\ IF \E u \in Threads : req[t].h.idx \in reg[u]
       THEN Goto(t, "walk") /\ UNCHANGED <<req, cur, eseq, acq, spin, expired, res>>
       ELSE Return(t, res[t])
    /\ UNCHANGED <<shared, reg, nodes, bumped>>

\* ... and the walk under the lock.
Walk(t) ==
    /\ pc[t] = "walk" /\ lock = NoThread
    /\ wake_object(req[t].h.idx)
    /\ Return(t, res[t])
    /\ UNCHANGED <<shared, nodes>>

\* event_pulse takes the lock, but sets, resets and tries do not: they come
\* between its loads and stores.  First the state that it will report ...
event_pulse(t) ==
    /\ pc[t] = "locked" /\ req[t].op = "event_pulse" /\ lock = NoThread
    /\ LET h == req[t].h
       IN  IF ValidOf(h, TYPE_EVENT)
           THEN /\ d[h.idx] < MaxPulse
                /\ lock' = t
                /\ Goto(t, "pulse")
                /\ res' = [res EXCEPT ![t] = Result("ok", w0[h.idx].lo, FALSE)]
                /\ UNCHANGED <<req, cur, eseq, acq, spin, expired>>
           ELSE Return(t, Invalid) /\ UNCHANGED lock
    /\ UNCHANGED <<slot, w0, d, old, pool, reg, nodes, bumped>>

\* ... then the counter, which lets go everyone who waits ...
PulseCount(t) ==
    /\ pc[t] = "pulse"
    /\ d' = [d EXCEPT ![req[t].h.idx] = @ + 1]
    /\ Goto(t, "clear")
    /\ UNCHANGED <<slot, w0, old, lock, pool, req, cur, eseq, acq, reg, nodes, bumped,
                   spin, expired, res>>

\* ... then the word is loaded ...
PulseLoad(t) ==
    /\ pc[t] = "clear"
    /\ old' = w0[req[t].h.idx]
    /\ Goto(t, "store")
    /\ UNCHANGED <<slot, w0, d, lock, pool, req, cur, eseq, acq, reg, nodes, bumped,
                   spin, expired, res>>

\* ... and stored without the signal, whatever it is by now; everyone is woken.
PulseStore(t) ==
    /\ pc[t] = "store"
    /\ LET s == req[t].h.idx
       IN  w0' = [w0 EXCEPT ![s] = ClearBit(old)] /\ wake_object(s)
    /\ old' = NoWord
    /\ lock' = NoThread
    /\ Return(t, res[t])
    /\ UNCHANGED <<slot, d, pool, nodes>>

\* The slot is freed under a new generation; its waiters find that out.
close(t) ==
    /\ pc[t] = "locked" /\ req[t].op = "close" /\ lock = NoThread
    /\ LET h == req[t].h
           s == h.idx
       IN  IF s # 0 /\ Valid(h)
           THEN /\ slot' = [slot EXCEPT ![s] = [used |-> FALSE, gen |-> @.gen + 1, type |-> @.type]]
                /\ wake_object(s)
                /\ Return(t, Result("ok", 0, FALSE))
           ELSE Return(t, Invalid) /\ UNCHANGED <<slot, reg, bumped>>
    /\ UNCHANGED <<w0, d, old, lock, pool, nodes>>

-----------------------------------------------------------------------------
(* wait(): the fast path. *)

\* One handle of the validation loop; the alert handle after the last one.
\* A handle that does not resolve sends the wait to the locked path, which
\* decides.
FastValidate(t) ==
    /\ pc[t] = "validate"
    /\ LET i == cur[t]
           h == hs(t)[i]
           good == Waitable(h)
           last == i = N(t)
       IN  /\ eseq' = IF good /\ slot[h.idx].type = TYPE_EVENT
                      THEN [eseq EXCEPT ![t][i] = d[h.idx]] ELSE eseq
           /\ cur' = [cur EXCEPT ![t] = IF good /\ ~last THEN i + 1 ELSE 1]
           /\ Goto(t, CASE ~good -> "lock"
                        [] good /\ ~last -> "validate"
                        [] good /\ last /\ ~HasAlert(t) -> "try"
                        [] good /\ last /\ HasAlert(t) -> "alertvalid")
    /\ UNCHANGED <<shared, req, acq, reg, nodes, bumped, spin, expired, res>>

AlertValid(t) ==
    /\ pc[t] = "alertvalid"
    /\ Goto(t, IF ValidOf(alert(t), TYPE_EVENT) THEN "alertfast" ELSE "lock")
    /\ UNCHANGED <<shared, req, cur, eseq, acq, reg, nodes, bumped, spin, expired, res>>

\* r.slot(alert).unwrap(): the slot is looked up a second time.
AlertFast(t) ==
    /\ pc[t] = "alertfast"
    /\ IF Valid(alert(t))
       THEN IF AlertSet(t)
            THEN Return(t, Signaled(N(t), FALSE))
            ELSE /\ Goto(t, "try")
                 /\ UNCHANGED <<req, cur, eseq, acq, spin, expired, res>>
       ELSE /\ Goto(t, "panic")
            /\ res' = [res EXCEPT ![t] = Panic]
            /\ UNCHANGED <<req, cur, eseq, acq, spin, expired>>
    /\ UNCHANGED <<shared, reg, nodes, bumped>>

-----------------------------------------------------------------------------
(* try_satisfy: on the fast path, under the lock, and from the spin. *)

\* try_satisfy said None: where that leads depends on where it was called.
Miss(t) ==
    /\ Goto(t, IF lock = t THEN "deadline"
               ELSE IF nodes[t] > 0 THEN "spinmiss" ELSE "fastmiss")
    /\ cur' = [cur EXCEPT ![t] = 1]
    /\ acq' = [acq EXCEPT ![t] = <<>>]
    /\ UNCHANGED <<req, eseq, spin, expired, res>>

\* The object is not to be had: on to the next one.
PassAny(t) ==
    IF cur[t] < N(t)
    THEN /\ Goto(t, "try")
         /\ cur' = [cur EXCEPT ![t] = @ + 1]
         /\ UNCHANGED <<req, eseq, acq, spin, expired, res>>
    ELSE Miss(t)

\* try_acquire on the objects in turn; the first that gives way decides.  An
\* event that is not signaled may have been pulsed: its counter is looked at
\* afterwards.
TryAny(t) ==
    /\ pc[t] = "try" /\ ~req[t].all
    /\ LET i == cur[t]
           a == Attempt(t, i)
       IN  /\ w0' = [w0 EXCEPT ![hs(t)[i].idx] = a.w]
           /\ IF a.ok THEN Decide(t, Signaled(i - 1, a.od))
              ELSE IF IsEvent(t, i)
                   THEN Goto(t, "trypulse") /\ UNCHANGED <<req, cur, eseq, acq, spin, expired, res>>
                   ELSE PassAny(t)
    /\ UNCHANGED <<slot, d, old, lock, pool, reg, nodes, bumped>>

TryPulseAny(t) ==
    /\ pc[t] = "trypulse" /\ ~req[t].all
    /\ IF CounterMoved(t, cur[t])
       THEN Decide(t, Signaled(cur[t] - 1, FALSE))
       ELSE PassAny(t)
    /\ UNCHANGED <<shared, reg, nodes, bumped>>

\* One after the other; the first that is busy starts the rollback.
GotAll(t, od) ==
    LET got  == Append(acq[t], [i |-> cur[t], od |-> od])
        dead == \E k \in 1 .. Len(got) : got[k].od
    IN  IF cur[t] = N(t)
        THEN Decide(t, Signaled(0, dead))
        ELSE /\ Goto(t, "try")
             /\ cur' = [cur EXCEPT ![t] = @ + 1]
             /\ acq' = [acq EXCEPT ![t] = got]
             /\ UNCHANGED <<req, eseq, spin, expired, res>>

BusyAll(t) ==
    IF acq[t] # <<>>
    THEN Goto(t, "rollback") /\ UNCHANGED <<req, cur, eseq, acq, spin, expired, res>>
    ELSE Miss(t)

TryAll(t) ==
    /\ pc[t] = "try" /\ req[t].all
    /\ LET i == cur[t]
           a == Attempt(t, i)
       IN  /\ w0' = [w0 EXCEPT ![hs(t)[i].idx] = a.w]
           /\ IF a.ok THEN GotAll(t, a.od)
              ELSE IF IsEvent(t, i)
                   THEN Goto(t, "trypulse") /\ UNCHANGED <<req, cur, eseq, acq, spin, expired, res>>
                   ELSE BusyAll(t)
    /\ UNCHANGED <<slot, d, old, lock, pool, reg, nodes, bumped>>

TryPulseAll(t) ==
    /\ pc[t] = "trypulse" /\ req[t].all
    /\ IF CounterMoved(t, cur[t]) THEN GotAll(t, FALSE) ELSE BusyAll(t)
    /\ UNCHANGED <<shared, reg, nodes, bumped>>

\* Nobody is woken by what is put back.
Rollback(t) ==
    /\ pc[t] = "rollback"
    /\ LET a == Head(acq[t])
           s == hs(t)[a.i].idx
       IN  w0' = [w0 EXCEPT ![s] = rollback_acquire(slot[s].type, @, t, a.od)]
    /\ IF Len(acq[t]) = 1
       THEN Miss(t)
       ELSE /\ acq' = [acq EXCEPT ![t] = Tail(@)]
            /\ UNCHANGED <<pc, req, cur, eseq, spin, expired, res>>
    /\ UNCHANGED <<slot, d, old, lock, pool, reg, nodes, bumped>>

\* A poll gives up here; everyone else goes on to block.
FastMiss(t) ==
    /\ pc[t] = "fastmiss"
    /\ IF req[t].timeout = "zero"
       THEN Return(t, Timeout)
       ELSE Goto(t, "lock") /\ UNCHANGED <<req, cur, eseq, acq, spin, expired, res>>
    /\ UNCHANGED <<shared, reg, nodes, bumped>>

-----------------------------------------------------------------------------
(* wait(): the locked path. *)

\* Faulty: the validation of the fast path is trusted.
AllValidAssumed(t) == TRUE

AllValid(t) ==
    /\ \A i \in 1 .. N(t) : Waitable(hs(t)[i])
    /\ HasAlert(t) => ValidOf(alert(t), TYPE_EVENT)

\* Faulty: every round looks like the first.
FirstRoundAlways(t) == TRUE

\* nodes.is_empty(): the wait has not blocked yet.
FirstRound(t) == nodes[t] = 0

\* Lock and validate.  The pulse counters are sampled again by a wait that
\* has not blocked yet, and kept by one that has.
Lock(t) ==
    /\ pc[t] = "lock" /\ lock = NoThread
    /\ lock' = t
    /\ IF AllValid(t)
       THEN /\ Goto(t, IF HasAlert(t) THEN "alertchk" ELSE "register")
            /\ eseq' = [eseq EXCEPT ![t] = [i \in 1 .. N(t) |->
                          IF FirstRound(t) /\ slot[hs(t)[i].idx].type = TYPE_EVENT
                          THEN d[hs(t)[i].idx] ELSE @[i]]]
            /\ UNCHANGED res
       ELSE /\ Goto(t, "cleanup")
            /\ res' = [res EXCEPT ![t] = Invalid]
            /\ UNCHANGED eseq
    /\ UNCHANGED <<slot, w0, d, old, pool, req, cur, acq, reg, nodes, bumped, spin, expired>>

\* The alert event is tested, never taken.
AlertCheck(t) ==
    /\ pc[t] = "alertchk"
    /\ IF AlertSet(t)
       THEN Goto(t, "cleanup") /\ res' = [res EXCEPT ![t] = Signaled(N(t), FALSE)]
       ELSE Goto(t, "register") /\ UNCHANGED res
    /\ UNCHANGED <<shared, req, cur, eseq, acq, reg, nodes, bumped, spin, expired>>

\* Faulty: off by one.
ExhaustedOffByOne(t) == nodes[t] = 0 /\ pool + 1 < n_nodes(t)

\* node_alloc fails for one of the nodes.
Exhausted(t) == nodes[t] = 0 /\ pool < n_nodes(t)

\* node_alloc on the first round, node_register on every round.
Register(t) ==
    /\ pc[t] = "register"
    /\ IF Exhausted(t)
       THEN /\ Goto(t, "cleanup")
            /\ res' = [res EXCEPT ![t] = Invalid]
            /\ UNCHANGED <<pool, nodes, reg>>
       ELSE /\ Goto(t, "try")
            /\ nodes' = [nodes EXCEPT ![t] = n_nodes(t)]
            /\ pool' = pool + nodes[t] - n_nodes(t)
            /\ reg' = [reg EXCEPT ![t] = WaitSlots(t)]
            /\ UNCHANGED res
    /\ UNCHANGED <<slot, w0, d, old, lock, req, cur, eseq, acq, bumped, spin, expired>>

\* The deadline test, the sample of seq and the unlock.  How much of the spin
\* the thread's credit buys is left open.
Deadline(t) ==
    /\ pc[t] = "deadline"
    /\ IF expired[t]
       THEN /\ Goto(t, "cleanup")
            /\ res' = [res EXCEPT ![t] = Timeout]
            /\ UNCHANGED <<lock, bumped, spin>>
       ELSE /\ lock' = NoThread
            /\ bumped' = [bumped EXCEPT ![t] = FALSE]
            /\ \E b \in 0 .. SpinIters :
                 /\ spin' = [spin EXCEPT ![t] = b]
                 /\ \E l \in IF b > 0 THEN {"spin"} ELSE SleepLabels(t) : Goto(t, l)
            /\ UNCHANGED res
    /\ UNCHANGED <<slot, w0, d, old, pool, req, cur, eseq, acq, reg, nodes, expired>>

-----------------------------------------------------------------------------
(* wait(): the spin, the sleep, and the way out. *)

\* Each iteration tests the alert first; the slot is looked up each time.
SpinAlert(t) ==
    /\ pc[t] = "spin"
    /\ CASE ~HasAlert(t) -> Goto(t, "peek") /\ UNCHANGED res
         [] HasAlert(t) /\ ~Valid(alert(t)) ->
              Goto(t, "panic") /\ res' = [res EXCEPT ![t] = Panic]
         [] HasAlert(t) /\ Valid(alert(t)) /\ AlertSet(t) ->
              Goto(t, "cleanup") /\ res' = [res EXCEPT ![t] = Signaled(N(t), FALSE)]
         [] HasAlert(t) /\ Valid(alert(t)) /\ ~AlertSet(t) ->
              Goto(t, "peek") /\ UNCHANGED res
    /\ UNCHANGED <<shared, req, cur, eseq, acq, reg, nodes, bumped, spin, expired>>

\* The read-only look that decides whether an attempt is worth it.
Peek(t) ==
    /\ pc[t] = "peek"
    /\ LET up == {i \in 1 .. N(t) : Acquirable(t, i)}
       IN  Goto(t, IF up # {} /\ (req[t].all => up = 1 .. N(t))
                   THEN "try" ELSE "spinmiss")
    /\ UNCHANGED <<shared, req, cur, eseq, acq, reg, nodes, bumped, spin, expired, res>>

\* A waiter whose head node was detached stops spinning, and so does one that
\* is out of iterations.
SpinMiss(t) ==
    /\ pc[t] = "spinmiss"
    /\ spin' = [spin EXCEPT ![t] = @ - 1]
    /\ \E l \in IF spin[t] > 1 /\ hs(t)[1].idx \in reg[t]
                THEN {"spin"} ELSE SleepLabels(t) : Goto(t, l)
    /\ UNCHANGED <<shared, req, cur, eseq, acq, reg, nodes, bumped, expired, res>>

\* Faulty: the futex is given no timeout.
WakeUntimed(t) ==
    /\ pc[t] = "futex" /\ bumped[t]
    /\ Goto(t, "awake")
    /\ UNCHANGED <<shared, req, cur, eseq, acq, reg, nodes, bumped, spin, expired, res>>

\* Faulty: a futex timeout decides the wait.
WakeDecides(t) ==
    /\ pc[t] = "futex" /\ (bumped[t] \/ expired[t])
    /\ IF expired[t] THEN Decide(t, Timeout)
       ELSE Goto(t, "awake") /\ UNCHANGED <<req, cur, eseq, acq, spin, expired, res>>
    /\ UNCHANGED <<shared, reg, nodes, bumped>>

\* The futex returns: seq moved (EAGAIN or a wake) or the time is up.
Wake(t) ==
    /\ pc[t] = "futex" /\ (bumped[t] \/ expired[t])
    /\ Goto(t, "awake")
    /\ UNCHANGED <<shared, req, cur, eseq, acq, reg, nodes, bumped, spin, expired, res>>

\* EINTR, the 5 s slices of NTSYNC_DEBUG, a park cut short of its tail.
Interrupt(t) ==
    /\ pc[t] = "futex" /\ ~bumped[t] /\ ~expired[t]
    /\ Goto(t, "awake")
    /\ UNCHANGED <<shared, req, cur, eseq, acq, reg, nodes, bumped, spin, expired, res>>

\* The spin tail ends the same way, and goes round with its nodes in place.
TailDone(t) ==
    /\ pc[t] = "tail" /\ (bumped[t] \/ expired[t])
    /\ Goto(t, "lock")
    /\ UNCHANGED <<shared, req, cur, eseq, acq, reg, nodes, bumped, spin, expired, res>>

\* The lock is taken only if a node is still registered.
Awake(t) ==
    /\ pc[t] = "awake" /\ (reg[t] = {} \/ lock = NoThread)
    /\ Goto(t, "lock")
    /\ reg' = [reg EXCEPT ![t] = {}]
    /\ UNCHANGED <<shared, req, cur, eseq, acq, nodes, bumped, spin, expired, res>>

\* waiter_cleanup, with the lock in hand or taken for it, and the return.
Cleanup(t) ==
    /\ pc[t] = "cleanup" /\ lock \in {t, NoThread}
    /\ lock' = NoThread
    /\ reg' = [reg EXCEPT ![t] = {}]
    /\ pool' = pool + nodes[t]
    /\ nodes' = [nodes EXCEPT ![t] = 0]
    /\ bumped' = [bumped EXCEPT ![t] = FALSE]
    /\ Return(t, res[t])
    /\ UNCHANGED <<slot, w0, d, old>>

\* Time passes.
Expire(t) ==
    /\ req[t].timeout = "finite" /\ ~expired[t]
    /\ expired' = [expired EXCEPT ![t] = TRUE]
    /\ UNCHANGED <<shared, pc, req, cur, eseq, acq, reg, nodes, bumped, spin, res>>

-----------------------------------------------------------------------------
SignalStep(t) == Resolve(t) \/ Cas(t) \/ ReadHead(t) \/ Walk(t)

LockedStep(t) ==
    \/ event_pulse(t) \/ PulseCount(t) \/ PulseLoad(t) \/ PulseStore(t)
    \/ close(t)

WaitStep(t) ==
    \/ FastValidate(t) \/ AlertValid(t) \/ AlertFast(t) \/ FastMiss(t)
    \/ TryAny(t) \/ TryPulseAny(t) \/ TryAll(t) \/ TryPulseAll(t) \/ Rollback(t)
    \/ Lock(t) \/ AlertCheck(t) \/ Register(t) \/ Deadline(t)
    \/ SpinAlert(t) \/ Peek(t) \/ SpinMiss(t)
    \/ Wake(t) \/ TailDone(t) \/ Awake(t) \/ Cleanup(t)

\* What a thread does without being asked to: everything inside a call but
\* the interruption of its sleep.
Step(t) == SignalStep(t) \/ LockedStep(t) \/ WaitStep(t)

Next == \E t \in Threads :
          \/ Refuse(t) \/ Begin(t) \/ Create(t)
          \/ Step(t) \/ Interrupt(t) \/ Expire(t)

Spec == Init /\ [][Next]_vars

(***************************************************************************)
(* A thread inside a call keeps running (the scheduler), a thread that     *)
(* wants the region lock gets it if it is free again and again (the        *)
(* pthread mutex does not starve it), and time passes.  Nobody has to make *)
(* a call, and no sleep is ever interrupted for sure.                      *)
(***************************************************************************)
Fairness == \A t \in Threads :
              /\ SF_vars(Step(t))
              /\ WF_vars(Expire(t))

FairSpec == Spec /\ Fairness

-----------------------------------------------------------------------------
Labels == {"idle", "resolve", "cas", "head", "walk", "locked", "pulse", "clear",
           "store", "validate", "alertvalid", "alertfast", "fastmiss", "try",
           "trypulse", "rollback", "lock", "alertchk", "register", "deadline",
           "spin", "peek", "spinmiss", "futex", "tail", "awake", "cleanup", "panic"}

TypeOK ==
    /\ slot \in [Slots -> [used : BOOLEAN, gen : Nat, type : Types]]
    /\ w0 \in [Slots -> Word]
    /\ d \in [Slots -> Nat]
    /\ old \in Word
    /\ lock \in Threads \cup {NoThread}
    /\ pool \in Nat
    /\ pc \in [Threads -> Labels]
    /\ req \in [Threads -> Requests]
    /\ cur \in [Threads -> Nat \ {0}]
    /\ eseq \in [Threads -> Seq(Nat)]
    /\ acq \in [Threads -> Seq([i : Nat \ {0}, od : BOOLEAN])]
    /\ reg \in [Threads -> SUBSET Slots]
    /\ nodes \in [Threads -> Nat]
    /\ bumped \in [Threads -> BOOLEAN]
    /\ spin \in [Threads -> Nat]
    /\ expired \in [Threads -> BOOLEAN]
    /\ res \in [Threads -> Results]

\* A thread sleeps and nothing has happened yet that will end its sleep.
Asleep(t) == pc[t] \in {"futex", "tail"} /\ ~bumped[t]

\* A signaler or a pulse has changed the object and has yet to look at its list
\* or walk it.
WakePending(s) ==
    \E u \in Threads : pc[u] \in {"head", "walk", "clear", "store"} /\ req[u].h.idx = s

\* A sleeping wait-any has an object it could take only while the one who
\* made the object available is still on its way to wake it; a sleeping
\* wait-all has all its objects only while such a signaler is on its way to
\* one of them.  wake_waiters_if_any and the lock in wait() are there for
\* this: `so no wakeup can be missed'.
NoLostWakeup ==
    \A t \in Threads : Asleep(t) =>
        IF req[t].all
        THEN (\A i \in 1 .. N(t) : Acquirable(t, i)) =>
                \E i \in 1 .. N(t) : WakePending(hs(t)[i].idx)
        ELSE \A i \in 1 .. N(t) : Acquirable(t, i) => WakePending(hs(t)[i].idx)

\* The same for the alert event of an alertable wait: it `aborts the wait'.
AlertNotLost ==
    \A t \in Threads :
        Asleep(t) /\ HasAlert(t) /\ AlertSet(t) => WakePending(alert(t).idx)

\* close() wakes the waiters of what it frees, and a wait that goes to sleep
\* has validated its handles under the same lock: whoever sleeps on, sleeps
\* on objects that all still exist.
NotStranded ==
    \A t \in Threads : Asleep(t) =>
        /\ \A i \in 1 .. N(t) : Waitable(hs(t)[i])
        /\ HasAlert(t) => ValidOf(alert(t), TYPE_EVENT)

\* try_satisfy goes to slots by index: `handles must be pre-validated'.  Under
\* the lock they have been, and nothing that signalers and closers do during
\* the try changes what they name.  The same goes for a spin, without the lock,
\* until a walk tells the waiter; only the fast path may try a slot that was
\* closed and reused since its handle was looked up.
TriesNamedObjects ==
    \A t \in Threads :
      pc[t] \in {"try", "trypulse", "rollback"} /\ (lock = t \/ (nodes[t] > 0 /\ ~bumped[t])) =>
        /\ \A i \in 1 .. N(t) : Waitable(hs(t)[i])
        /\ HasAlert(t) => ValidOf(alert(t), TYPE_EVENT)

\* A free slot has an empty waiter list.  alloc_slot clears waiter_head of
\* the slot it takes; a node it cut off that way would still count itself as
\* registered and no walk would ever find it.
FreeSlotUnlisted ==
    \A s \in Slots : ~slot[s].used => \A t \in Threads : s \notin reg[t]

\* Whatever the operations race with, a word stays one its type allows: a
\* semaphore never exceeds its maximum, a mutex has an owner exactly when it
\* has a recursion count, an abandoned one has none.
WordsWellFormed ==
    \A s \in Slots : slot[s].used => WellFormed(slot[s].type, w0[s])

\* A wait leaves nothing behind: a thread that is not inside a wait owns no
\* node and stands on no list, on whichever of its exits it returned.
NothingLeftBehind ==
    \A t \in Threads :
        /\ pc[t] \in {"idle", "resolve", "cas", "head", "walk", "locked"}
              => nodes[t] = 0 /\ lock # t
        /\ nodes[t] = 0 => reg[t] = {}

-----------------------------------------------------------------------------
\* What a sleeping wait waits for is there.
Satisfiable(t) ==
    IF req[t].all THEN \A i \in 1 .. N(t) : Acquirable(t, i)
                  ELSE \E i \in 1 .. N(t) : Acquirable(t, i)

\* Nobody sleeps through a signal: if what a sleeper waits for is there, it
\* gets up, or somebody else takes it.
SignalWakes ==
    \A t \in Threads : (Asleep(t) /\ Satisfiable(t)) ~> ~(Asleep(t) /\ Satisfiable(t))

\* A wait with a timeout returns.
TimedWaitReturns ==
    \A t \in Threads :
        (req[t].op = "wait" /\ req[t].timeout # "inf") ~> (pc[t] = "idle")
=============================================================================
