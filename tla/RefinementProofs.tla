--------------------------- MODULE RefinementProofs -------------------------
(***************************************************************************)
(* WaitEngine implements NtSync, for every number of threads, table, node  *)
(* pool and workload of signal operations, pulses and waits for any of     *)
(* several objects.                                                        *)
(***************************************************************************)
EXTENDS WaitRefinement, WaitEngineProofs, FiniteSetTheorems

USE MaxRecAssumption, ThreadsAssumption, SizesAssumption

\* The workload that NtSync has a promise for, word by word: objects stay, and
\* no wait is for all of several objects.
Promised ==
    /\ IsFiniteSet(Threads)
    /\ Fresh = {}
    /\ \A t \in Threads : \A r \in Menu[t] : ~r.all /\ r.op # "close"
    /\ \A s \in DOMAIN InitObjects : WellFormed(InitObjects[s].type, InitObjects[s].w)

\* Table and objects stay as they were at the beginning.
InitSlot == [s \in Slots |->
               [used |-> s = 0 \/ s \in DOMAIN InitObjects,
                gen  |-> 0,
                type |-> IF s \in DOMAIN InitObjects
                         THEN InitObjects[s].type ELSE TYPE_RESERVED]]

-----------------------------------------------------------------------------
(* The refinement mapping, thread by thread. *)

CallOf(t)    == IF Undecided(t) THEN req[t] ELSE NoReq
BlockedAt(t) == WaitUndecided(t) /\ (nodes[t] > 0 \/ pc[t] \in {"alertchk", "register"})
MissedAt(t)  == IF WaitUndecided(t) THEN MissedBy(t) ELSE {}
ReachedAt(t) == IF WaitUndecided(t) THEN ReachedBy(t) ELSE {}
ReleasedAt(t) == pc[t] \in {"clear", "store"}

objB     == [h \in LiveHandles |-> Read(slot[h.idx].type, w0[h.idx])]
callB    == [t \in Threads |-> CallOf(t)]
blockedB == [t \in Threads |-> BlockedAt(t)]
missedB  == [t \in Threads |-> MissedAt(t)]
reachedB == [t \in Threads |-> ReachedAt(t)]
releasedB == [t \in Threads |-> ReleasedAt(t)]
outB     == [t \in Threads |-> ReplyOf(res[t])]

\* Nothing that NtSync knows of thread u has changed.
SameView(u) ==
    /\ CallOf(u)' = CallOf(u)
    /\ BlockedAt(u)' = BlockedAt(u)
    /\ MissedAt(u)' = MissedAt(u)
    /\ ReachedAt(u)' = ReachedAt(u)
    /\ ReleasedAt(u)' = ReleasedAt(u)
    /\ ReplyOf(res'[u]) = ReplyOf(res[u])

\* The call of t has had its effect, with this reply.
Ended(t, reply) ==
    /\ callB' = [callB EXCEPT ![t] = NoReq]
    /\ blockedB' = [blockedB EXCEPT ![t] = FALSE]
    /\ missedB' = [missedB EXCEPT ![t] = {}]
    /\ releasedB' = [releasedB EXCEPT ![t] = FALSE]
    /\ outB' = [outB EXCEPT ![t] = reply]

\* If no thread looks different and no object either, nothing happened.
LEMMA Stutter ==
    ASSUME objB' = objB, \A u \in Threads : SameView(u)
    PROVE  UNCHANGED Promise!vars
<1>1. callB' = callB
  BY DEF callB, SameView
<1>2. blockedB' = blockedB
  BY DEF blockedB, SameView
<1>3. missedB' = missedB
  BY DEF missedB, SameView
<1>4. reachedB' = reachedB
  BY DEF reachedB, SameView
<1>5. outB' = outB
  BY DEF outB, SameView
<1>6. releasedB' = releasedB
  BY DEF releasedB, SameView
<1>7. QED
  BY <1>1, <1>2, <1>3, <1>4, <1>5, <1>6
  DEF Promise!vars, objB, callB, blockedB, missedB, reachedB, releasedB, outB, CallOf,
      BlockedAt, MissedAt, ReachedAt, ReleasedAt

\* The end of a call.
LEMMA EndedOK ==
    ASSUME NEW t \in Threads, NEW reply, ~Undecided(t)', ReplyOf(res'[t]) = reply,
           \A u \in Threads \ {t} : SameView(u)
    PROVE  Ended(t, reply) /\ reachedB' = [reachedB EXCEPT ![t] = {}]
<1>0. /\ CallOf(t)' = NoReq /\ BlockedAt(t)' = FALSE /\ MissedAt(t)' = {} /\ ReachedAt(t)' = {}
      /\ ReleasedAt(t)' = FALSE
  BY DEF CallOf, BlockedAt, MissedAt, ReachedAt, ReleasedAt, WaitUndecided, Undecided
<1>1. callB' = [callB EXCEPT ![t] = NoReq]
  BY <1>0 DEF callB, SameView
<1>2. blockedB' = [blockedB EXCEPT ![t] = FALSE]
  BY <1>0 DEF blockedB, SameView
<1>3. missedB' = [missedB EXCEPT ![t] = {}]
  BY <1>0 DEF missedB, SameView
<1>4. reachedB' = [reachedB EXCEPT ![t] = {}]
  BY <1>0 DEF reachedB, SameView
<1>5. outB' = [outB EXCEPT ![t] = reply]
  BY DEF outB, SameView
<1>6. releasedB' = [releasedB EXCEPT ![t] = FALSE]
  BY <1>0 DEF releasedB, SameView
<1>7. QED
  BY <1>1, <1>2, <1>3, <1>4, <1>5, <1>6 DEF Ended

\* A call that ends and leaves the objects alone.
LEMMA DoneB ==
    ASSUME NEW t \in Threads, NEW reply, Ended(t, reply),
           reachedB' = [reachedB EXCEPT ![t] = {}], objB' = objB
    PROVE  Promise!Done(t, reply)
  BY DEF Ended, Promise!Done, Promise!End, objB, callB, blockedB, missedB, reachedB,
         releasedB, outB, CallOf, BlockedAt, MissedAt, ReachedAt, ReleasedAt

\* A call that ends and changes one object.
LEMMA ChangeB ==
    ASSUME NEW t \in Threads, NEW reply, Ended(t, reply), NEW h, NEW o,
           reachedB' = [reachedB EXCEPT ![t] = {}], objB' = [objB EXCEPT ![h] = o]
    PROVE  Promise!Change(t, h, o, reply)
  BY DEF Ended, Promise!Change, Promise!End, objB, callB, blockedB, missedB, reachedB,
         releasedB, outB, CallOf, BlockedAt, MissedAt, ReachedAt, ReleasedAt

\* What the abstract state says of a thread.
LEMMA ThreadB ==
    ASSUME NEW t \in Threads
    PROVE  /\ callB[t] = CallOf(t)
           /\ blockedB[t] = BlockedAt(t)
           /\ missedB[t] = MissedAt(t)
           /\ reachedB[t] = ReachedAt(t)
           /\ releasedB[t] = ReleasedAt(t)
           /\ outB[t] = ReplyOf(res[t])
<1>1. blockedB[t] = BlockedAt(t) /\ releasedB[t] = ReleasedAt(t)
  BY DEF blockedB, releasedB
<1>2. QED
  BY <1>1 DEF callB, missedB, reachedB, outB

-----------------------------------------------------------------------------
(***************************************************************************)
(* The invariant that carries the refinement.  A wait that is past its     *)
(* validation has only handles that name an object; the pulse counters it  *)
(* sampled are not ahead of the objects', and while it holds the lock no   *)
(* pulse comes between its attempts and its deadline test; what a pulse    *)
(* has loaded is the word of its event but for the signal; the nodes that  *)
(* threads have allocated are those that the pool is short of.             *)
(***************************************************************************)
InCall(t) ==
    /\ pc[t] # "panic"
    /\ pc[t] # "idle" => req[t] \in Menu[t] /\ ~BadArgs(req[t])
    /\ pc[t] = "locked" => req[t].op = "event_pulse"
    /\ pc[t] \notin CallLabels => req[t].op = "wait"
    /\ expired[t] => req[t].timeout # "inf"

PulseLabels == {"pulse", "clear", "store"}
ValidLabels == {"alertfast", "try", "trypulse", "fastmiss", "alertchk", "register",
                "deadline"} \cup BlockLabels

Validated(t) ==
    /\ pc[t] = "validate" => \A i \in 1 .. cur[t] - 1 : Waitable(hs(t)[i])
    /\ pc[t] = "alertvalid" => \A i \in 1 .. N(t) : Waitable(hs(t)[i])
    /\ pc[t] \in {"alertvalid", "alertfast", "alertchk"} => HasAlert(t)
    /\ pc[t] \in ValidLabels => AllValid(t)
    /\ pc[t] = "lock" => IF AllValid(t) THEN req[t].timeout # "zero" ELSE nodes[t] = 0
    /\ nodes[t] > 0 \/ pc[t] \in {"alertchk", "register"} => req[t].timeout # "zero"

Pulsed(t, i) == /\ slot[hs(t)[i].idx].type = TYPE_EVENT
                /\ d[hs(t)[i].idx] # eseq[t][i]

Sampled(t) ==
    /\ pc[t] \notin CallLabels => \A i \in 1 .. N(t) : eseq[t][i] <= d[hs(t)[i].idx]
    /\ pc[t] \in {"try", "trypulse"} /\ lock = t
         => \A i \in 1 .. cur[t] - 1 : ~Pulsed(t, i)
    /\ pc[t] = "deadline" => \A i \in 1 .. N(t) : ~Pulsed(t, i)
    /\ pc[t] = "trypulse" => slot[hs(t)[cur[t]].idx].type = TYPE_EVENT

Pulser(t) ==
    /\ pc[t] = "locked" => res[t] = NoResult
    /\ pc[t] \in PulseLabels => res[t].kind = "ok"
    /\ pc[t] = "store" => old.hi = w0[req[t].h.idx].hi

Sound(t) == InCall(t) /\ Validated(t) /\ Sampled(t) /\ Pulser(t)

Allocated == {p \in Threads \X (1 .. MaxWaitCount + 1) : p[2] <= nodes[p[1]]}

PoolInv == pool + Cardinality(Allocated) = NodeCount

RInv == WordInv /\ slot = InitSlot /\ PoolInv /\ \A t \in Threads : Sound(t)

-----------------------------------------------------------------------------
(* The invariant holds at the beginning. *)

LEMMA PromisedWords == Promised => NoReuseNoAll
  BY DEF Promised, NoReuseNoAll

\* No thread has nodes: none is allocated.
LEMMA NothingAllocated ==
    ASSUME \A t \in Threads : nodes[t] = 0
    PROVE  Allocated = {}
<1>1. ASSUME NEW p \in Threads \X (1 .. MaxWaitCount + 1) PROVE ~(p[2] <= nodes[p[1]])
  <2>1. p[1] \in Threads /\ p[2] \in 1 .. MaxWaitCount + 1
    OBVIOUS
  <2>2. nodes[p[1]] = 0
    BY <2>1
  <2>3. QED
    BY <2>1, <2>2
<1>2. QED
  BY <1>1 DEF Allocated

\* The invariant holds at the beginning.
LEMMA RInit == Promised /\ Init => RInv
<1> SUFFICES ASSUME Promised, Init PROVE RInv
  OBVIOUS
<1>1. WordInv
  BY PromisedWords, WordInit
<1>2. slot = InitSlot
  BY DEF Init, InitSlot
<1>3. PoolInv
  <2>1. Allocated = {}
    BY NothingAllocated DEF Init
  <2>2. pool = NodeCount
    BY DEF Init
  <2>3. QED
    BY <2>1, <2>2, FS_EmptySet DEF PoolInv
<1>4. ASSUME NEW t \in Threads PROVE Sound(t)
  <2>1. pc[t] = "idle" /\ expired[t] = FALSE /\ nodes[t] = 0
    BY DEF Init
  <2>2. InCall(t)
    BY <2>1 DEF InCall, CallLabels
  <2>3. Validated(t)
    BY <2>1 DEF Validated, ValidLabels, HeldLabels, BlockLabels
  <2>4. Sampled(t) /\ Pulser(t)
    BY <2>1 DEF Sampled, Pulser, PulseLabels, CallLabels
  <2>5. QED
    BY <2>2, <2>3, <2>4 DEF Sound
<1>5. QED
  BY <1>1, <1>2, <1>3, <1>4 DEF RInv

-----------------------------------------------------------------------------
(* What the invariant of a thread reads. *)

\* No object is created or closed.
LEMMA SlotKept ==
    ASSUME Promised, RInv, Next
    PROVE  slot' = slot
<1>1. PICK t \in Threads :
          Refuse(t) \/ Begin(t) \/ Create(t) \/ Step(t) \/ Interrupt(t) \/ Expire(t)
  BY DEF Next
<1>2. ~Create(t)
  BY DEF Promised, Create
<1>3. ~close(t)
  BY DEF RInv, Sound, InCall, close
<1>4. CASE SignalStep(t) \/ LockedStep(t)
  BY <1>3, <1>4 DEF SignalStep, LockedStep, Resolve, Cas, ReadHead, Walk, event_pulse,
              PulseCount, PulseLoad, PulseStore, shared
<1>5. CASE WaitStep(t)
  BY <1>5 DEF WaitStep, FastValidate, AlertValid, AlertFast, FastMiss, TryAny, TryPulseAny,
              TryAll, TryPulseAll, Rollback, Lock, AlertCheck, Register, Deadline, SpinAlert, Peek, SpinMiss,
              Wake, TailDone, Awake, Cleanup, shared
<1>6. CASE Refuse(t) \/ Begin(t) \/ Interrupt(t) \/ Expire(t)
  BY <1>6 DEF Refuse, Begin, Interrupt, Expire, shared
<1>7. QED
  BY <1>1, <1>2, <1>4, <1>5, <1>6 DEF Step

\* What a thread asked for stays what it was.
LEMMA ReqSame ==
    ASSUME NEW t \in Threads, slot' = slot, req'[t] = req[t]
    PROVE  /\ AllValid(t)' <=> AllValid(t)
           /\ HasAlert(t)' <=> HasAlert(t)
           /\ N(t)' = N(t) /\ hs(t)' = hs(t)
           /\ \A i : Waitable(hs(t)[i])' <=> Waitable(hs(t)[i])
  BY DEF AllValid, Waitable, ValidOf, Valid, HasAlert, hs, N, alert

\* So does whether a pulse has reached it.
LEMMA PulsedSame ==
    ASSUME NEW t \in Threads, slot' = slot, d' = d, req'[t] = req[t], eseq'[t] = eseq[t]
    PROVE  \A i : Pulsed(t, i)' <=> Pulsed(t, i)
  BY DEF Pulsed, hs

\* Another thread's step, pulses included: those need the lock.
LEMMA SoundFrame ==
    ASSUME RInv, NEW u \in Threads, Undisturbed(u), slot' = slot,
           expired'[u] = expired[u],
           res'[u] = res[u],
           d' \in [Slots -> Nat], \A s \in Slots : d'[s] >= d[s],
           \A s \in Slots : slot[s].type = TYPE_EVENT => w0'[s].hi = w0[s].hi,
           lock = u => d' = d /\ old' = old
    PROVE  Sound(u)'
<1>0. /\ pc'[u] = pc[u] /\ req'[u] = req[u] /\ cur'[u] = cur[u] /\ eseq'[u] = eseq[u]
      /\ nodes'[u] = nodes[u] /\ (lock' = u <=> lock = u)
  BY DEF Undisturbed
<1>1. InCall(u)'
  BY <1>0 DEF RInv, Sound, InCall
<1>2. Validated(u)'
  BY <1>0, ReqSame DEF RInv, Sound, Validated
<1>3. Sampled(u)'
  <2>1. ASSUME pc[u] \notin CallLabels, NEW i \in 1 .. N(u)
        PROVE  eseq[u][i] <= d'[hs(u)[i].idx]
    <3>1. hs(u)[i].idx \in Slots /\ eseq[u][i] \in Nat
      <4>1. eseq[u] \in Seq(Nat) /\ Len(eseq[u]) = N(u)
        BY <2>1 DEF RInv, WordInv, TypeInv, TypeOK, ThreadOK, CallOK
      <4>2. QED
        BY <4>1, ReqType DEF RInv, WordInv, TypeInv
    <3>2. eseq[u][i] <= d[hs(u)[i].idx] /\ d[hs(u)[i].idx] \in Nat
      BY <2>1, <3>1 DEF RInv, Sound, Sampled, WordInv, TypeInv, TypeOK
    <3>3. QED
      BY <3>1, <3>2
  <2>2. pc[u] = "deadline" => lock = u
    BY DEF RInv, WordInv, TypeInv, ThreadOK, HoldOK, HeldLabels
  <2>3. lock = u => \A i : Pulsed(u, i)' <=> Pulsed(u, i)
    BY <1>0, PulsedSame
  <2>4. N(u)' = N(u) /\ hs(u)' = hs(u)
    BY <1>0, ReqSame
  <2>5. QED
    BY <1>0, <2>1, <2>2, <2>3, <2>4 DEF RInv, Sound, Sampled
<1>4. Pulser(u)'
  <2>1. ASSUME pc[u] = "store" PROVE old'.hi = w0'[req[u].h.idx].hi
    <3>1. lock = u
      BY <2>1 DEF RInv, WordInv, TypeInv, ThreadOK, HoldOK, HeldLabels
    <3>2. req[u].h.idx \in Slots /\ slot[req[u].h.idx].type = TYPE_EVENT
      BY <2>1, PulseAimed DEF RInv
    <3>3. old.hi = w0[req[u].h.idx].hi
      BY <2>1 DEF RInv, Sound, Pulser
    <3>4. QED
      BY <3>1, <3>2, <3>3
  <2>2. QED
    BY <1>0, <2>1 DEF RInv, Sound, Pulser
<1>5. QED
  BY <1>1, <1>2, <1>3, <1>4 DEF Sound

\* A step inside a wait that samples nothing.
LEMMA MoveSound ==
    ASSUME RInv, NEW t \in Threads, slot' = slot, d' = d,
           req'[t] = req[t], eseq'[t] = eseq[t], nodes'[t] = nodes[t],
           expired'[t] = expired[t],
           pc[t] \notin CallLabels,
           pc'[t] \notin CallLabels \cup {"panic", "validate", "alertvalid"},
           pc'[t] \in {"alertfast", "alertchk"} => HasAlert(t),
           pc'[t] \in ValidLabels => AllValid(t),
           pc'[t] = "lock" => IF AllValid(t) THEN req[t].timeout # "zero" ELSE nodes[t] = 0,
           pc'[t] \in {"alertchk", "register"} => req[t].timeout # "zero",
           pc'[t] \in {"try", "trypulse"} /\ lock' = t
             => \A i \in 1 .. cur'[t] - 1 : ~Pulsed(t, i),
           pc'[t] = "deadline" => \A i \in 1 .. N(t) : ~Pulsed(t, i),
           pc'[t] = "trypulse" => slot[hs(t)[cur'[t]].idx].type = TYPE_EVENT
    PROVE  Sound(t)'
<1>1. InCall(t)'
  BY DEF RInv, Sound, InCall, CallLabels
<1>2. Validated(t)'
  BY ReqSame DEF RInv, Sound, Validated
<1>3. Sampled(t)'
  BY ReqSame, PulsedSame DEF RInv, Sound, Sampled
<1>4. Pulser(t)'
  BY DEF Pulser, PulseLabels, CallLabels
<1>5. QED
  BY <1>1, <1>2, <1>3, <1>4 DEF Sound

\* The end of a call.
LEMMA ReturnSound ==
    ASSUME NEW t \in Threads, pc'[t] = "idle", expired'[t] = FALSE, nodes'[t] = 0
    PROVE  Sound(t)'
<1>1. InCall(t)'
  BY DEF InCall, CallLabels
<1>2. Validated(t)'
  BY DEF Validated, ValidLabels, HeldLabels, BlockLabels
<1>3. Sampled(t)' /\ Pulser(t)'
  BY DEF Sampled, Pulser, PulseLabels, CallLabels
<1>4. QED
  BY <1>1, <1>2, <1>3 DEF Sound

\* A wait that is decided and has yet to clean up.
LEMMA CleanupSound ==
    ASSUME RInv, NEW t \in Threads, slot' = slot, d' = d,
           req'[t] = req[t], eseq'[t] = eseq[t], nodes'[t] = nodes[t],
           expired'[t] = expired[t], pc[t] \notin CallLabels, pc'[t] = "cleanup"
    PROVE  Sound(t)'
  BY MoveSound DEF ValidLabels, HeldLabels, BlockLabels, CallLabels

-----------------------------------------------------------------------------
(* The invariant of the thread that takes a step. *)

\* Types of what the steps below update, in one place.
LEMMA Typed ==
    ASSUME RInv
    PROVE  /\ slot \in [Slots -> [used : BOOLEAN, gen : Nat, type : Types]]
           /\ w0 \in [Slots -> Word] /\ d \in [Slots -> Nat]
           /\ pc \in [Threads -> Labels] /\ req \in [Threads -> Requests]
           /\ cur \in [Threads -> Nat \ {0}] /\ eseq \in [Threads -> Seq(Nat)]
           /\ nodes \in [Threads -> Nat] /\ expired \in [Threads -> BOOLEAN]
           /\ res \in [Threads -> Results] /\ old \in Word
           /\ \A t \in Threads : ThreadOK(t) /\ Sound(t)
  BY DEF RInv, WordInv, TypeInv, TypeOK

\* A thread that returns is outside of every call.
LEMMA ReturnStep ==
    ASSUME RInv, NEW t \in Threads, NEW r, Return(t, r), nodes'[t] = 0
    PROVE  Sound(t)'
<1>1. pc'[t] = "idle" /\ expired'[t] = FALSE
  BY Typed DEF Return
<1>2. QED
  BY <1>1, ReturnSound

\* A wait that is decided only cleans up.
LEMMA DecideStep ==
    ASSUME RInv, NEW t \in Threads, NEW r, Decide(t, r), slot' = slot, d' = d,
           nodes' = nodes, pc[t] \notin CallLabels
    PROVE  Sound(t)'
<1>1. CASE Owes(t)
  <2>1. /\ pc'[t] = "cleanup" /\ req' = req /\ eseq' = eseq /\ expired' = expired
    BY <1>1, Typed DEF Decide
  <2>2. QED
    BY <2>1, CleanupSound
<1>2. CASE ~Owes(t)
  <2>1. nodes[t] = 0
    BY <1>2, Typed DEF Owes
  <2>2. QED
    BY <1>2, <2>1, ReturnStep DEF Decide
<1>3. QED
  BY <1>1, <1>2

\* Calls.
LEMMA BeginSound ==
    ASSUME Promised, RInv, NEW t \in Threads, Begin(t), slot' = slot
    PROVE  Sound(t)'
<1>0. pc[t] = "idle" /\ d' = d /\ nodes' = nodes /\ cur' = cur
  BY DEF Begin, shared
<1>1. nodes[t] = 0 /\ cur[t] = 1 /\ lock # t
  BY <1>0, Typed DEF ThreadOK, HoldOK, TryOK, CallLabels, HeldLabels
<1>2. PICK r \in Menu[t] :
        /\ ~BadArgs(r)
        /\ req' = [req EXCEPT ![t] = r]
        /\ Goto(t, CASE r.op \in SignalOps -> "resolve"
                     [] r.op \in LockedOps -> "locked"
                     [] r.op = "wait"      -> "validate")
        /\ eseq' = [eseq EXCEPT ![t] = [i \in 1 .. Len(r.hs) |-> 0]]
        /\ expired' = [expired EXCEPT ![t] = r.op = "wait" /\ r.timeout = "zero"]
        /\ res' = [res EXCEPT ![t] = NoResult]
  BY DEF Begin
<1>3. r \in Requests /\ r.op # "close"
  BY WorkloadAssumption DEF Promised
<1>4. r.op \in SignalOps \cup {"event_pulse", "wait"}
  BY <1>3 DEF Requests, Ops, LockedOps
<1>5. req'[t] = r /\ eseq'[t] = [i \in 1 .. Len(r.hs) |-> 0]
  BY <1>2, Typed
<1>6. expired'[t] => r.timeout # "inf"
  BY <1>2, Typed
<1>7. \/ r.op \in SignalOps /\ pc'[t] = "resolve"
      \/ r.op = "event_pulse" /\ pc'[t] = "locked"
      \/ r.op = "wait" /\ pc'[t] = "validate"
  BY <1>2, <1>4, Typed DEF Goto, SignalOps, LockedOps
<1>8. InCall(t)'
  BY <1>2, <1>5, <1>6, <1>7 DEF InCall, CallLabels
<1>9. Validated(t)'
  BY <1>0, <1>1, <1>7 DEF Validated, ValidLabels, HeldLabels, BlockLabels
<1>10. Sampled(t)'
  <2>1. N(t)' = Len(r.hs) /\ hs(t)' = r.hs /\ r.hs \in Seq(Handles)
    BY <1>3, <1>5 DEF N, hs, Requests
  <2>2. \A i \in 1 .. Len(r.hs) : eseq'[t][i] <= d[r.hs[i].idx]
    <3>1. \A i \in 1 .. Len(r.hs) : r.hs[i].idx \in Slots
      <4>1. \A i \in 1 .. Len(r.hs) : r.hs[i] \in Handles
        BY <2>1
      <4>2. QED
        BY <4>1 DEF Handles
    <3>2. QED
      BY <1>5, <3>1, Typed
  <2>3. QED
    BY <1>0, <1>7, <2>1, <2>2 DEF Sampled
<1>11. Pulser(t)'
  BY <1>2, <1>7, Typed DEF Pulser, PulseLabels
<1>12. QED
  BY <1>8, <1>9, <1>10, <1>11 DEF Sound

\* A step inside a signal operation or a pulse.
LEMMA OpSound ==
    ASSUME RInv, NEW t \in Threads, pc[t] \in CallLabels \ {"idle"},
           pc'[t] \in {"cas", "head", "walk"} \cup PulseLabels,
           UNCHANGED <<slot, req, expired, nodes>>, Pulser(t)'
    PROVE  Sound(t)'
<1>1. nodes[t] = 0
  BY Typed DEF ThreadOK, HoldOK
<1>2. InCall(t)'
  BY Typed DEF Sound, InCall, CallLabels, PulseLabels
<1>3. Validated(t)'
  BY <1>1 DEF Validated, ValidLabels, BlockLabels, PulseLabels
<1>4. Sampled(t)'
  BY DEF Sampled, CallLabels, PulseLabels
<1>5. QED
  BY <1>2, <1>3, <1>4 DEF Sound

\* Signal operations.
LEMMA SignalSound ==
    ASSUME RInv, NEW t \in Threads, SignalStep(t), slot' = slot
    PROVE  Sound(t)'
<1>0. nodes' = nodes /\ pc[t] \in {"resolve", "cas", "head", "walk"}
  BY DEF SignalStep, Resolve, Cas, ReadHead, Walk
<1>1. nodes[t] = 0
  BY <1>0, Typed DEF ThreadOK, HoldOK, CallLabels
<1>2. \/ \E r : Return(t, r)
      \/ UNCHANGED <<req, expired>> /\ \E l \in {"cas", "head", "walk"} : Goto(t, l)
  BY DEF SignalStep, Resolve, Cas, ReadHead, Walk
<1>3. CASE \E r : Return(t, r)
  BY <1>0, <1>1, <1>3, ReturnStep
<1>4. CASE UNCHANGED <<req, expired>> /\ \E l \in {"cas", "head", "walk"} : Goto(t, l)
  <2>1. pc'[t] \in {"cas", "head", "walk"} /\ req' = req /\ expired' = expired
    BY <1>4, Typed DEF Goto
  <2>2. Pulser(t)'
    BY <2>1 DEF Pulser, PulseLabels
  <2>3. QED
    BY <1>0, <2>1, <2>2, OpSound DEF CallLabels
<1>5. QED
  BY <1>2, <1>3, <1>4

\* Pulses.
LEMMA PulseSound ==
    ASSUME RInv, NEW t \in Threads, slot' = slot,
           event_pulse(t) \/ PulseCount(t) \/ PulseLoad(t) \/ PulseStore(t)
    PROVE  Sound(t)'
<1>0. nodes' = nodes /\ pc[t] \in {"locked"} \cup PulseLabels
  BY DEF event_pulse, PulseCount, PulseLoad, PulseStore, PulseLabels
<1>1. nodes[t] = 0
  BY <1>0, Typed DEF ThreadOK, HoldOK, CallLabels, PulseLabels
<1>2. CASE \E r : Return(t, r)
  BY <1>0, <1>1, <1>2, ReturnStep
<1>3. CASE event_pulse(t) /\ ValidOf(req[t].h, TYPE_EVENT)
  <2>1. /\ pc'[t] = "pulse" /\ req' = req /\ expired' = expired
        /\ res'[t] = Result("ok", w0[req[t].h.idx].lo, FALSE)
    BY <1>3, Typed DEF event_pulse, Goto
  <2>2. Pulser(t)'
    BY <2>1 DEF Pulser, Result
  <2>3. QED
    BY <1>0, <2>1, <2>2, OpSound DEF CallLabels, PulseLabels
<1>4. CASE PulseCount(t)
  <2>1. /\ pc[t] = "pulse" /\ pc'[t] = "clear" /\ req' = req /\ expired' = expired
        /\ res' = res
    BY <1>4, Typed DEF PulseCount, Goto
  <2>2. Pulser(t)'
    BY <2>1, Typed DEF Sound, Pulser, PulseLabels
  <2>3. QED
    BY <1>0, <2>1, <2>2, OpSound DEF CallLabels, PulseLabels
<1>5. CASE PulseLoad(t)
  <2>1. /\ pc[t] = "clear" /\ pc'[t] = "store" /\ req' = req /\ expired' = expired
        /\ res' = res /\ w0' = w0 /\ old' = w0[req[t].h.idx]
    BY <1>5, Typed DEF PulseLoad, Goto
  <2>2. Pulser(t)'
    BY <2>1, Typed DEF Sound, Pulser, PulseLabels
  <2>3. QED
    BY <1>0, <2>1, <2>2, OpSound DEF CallLabels, PulseLabels
<1>6. (event_pulse(t) /\ ~ValidOf(req[t].h, TYPE_EVENT)) \/ PulseStore(t) => \E r : Return(t, r)
  BY DEF event_pulse, PulseStore
<1>7. QED
  BY <1>2, <1>3, <1>4, <1>5, <1>6

\* The fast path of a wait.
LEMMA FastValidateSound ==
    ASSUME RInv, NEW t \in Threads, FastValidate(t), slot' = slot
    PROVE  Sound(t)'
<1> DEFINE i == cur[t]
           h == hs(t)[i]
           good == Waitable(h)
           last == i = N(t)
<1>0. /\ pc[t] = "validate" /\ d' = d /\ req' = req /\ nodes' = nodes /\ expired' = expired
      /\ lock' = lock
  BY DEF FastValidate, shared
<1>1. /\ nodes[t] = 0 /\ i \in 1 .. N(t) /\ N(t) \in Nat /\ lock # t
      /\ Len(eseq[t]) = N(t) /\ eseq[t] \in Seq(Nat) /\ h.idx \in Slots
  <2>1. TypeOK
    BY DEF RInv, WordInv, TypeInv
  <2>2. i \in 1 .. N(t) /\ nodes[t] = 0 /\ lock # t /\ Len(eseq[t]) = N(t)
    BY <1>0, Typed DEF ThreadOK, CallOK, HoldOK, TryOK, CallLabels, FastLabels, HeldLabels
  <2>3. QED
    BY <2>1, <2>2, ReqType, Typed
<1>2. cur'[t] = IF good /\ ~last THEN i + 1 ELSE 1
  BY Typed DEF FastValidate
<1>3. pc'[t] = CASE ~good -> "lock"
                 [] good /\ ~last -> "validate"
                 [] good /\ last /\ ~HasAlert(t) -> "try"
                 [] good /\ last /\ HasAlert(t) -> "alertvalid"
  BY Typed DEF FastValidate, Goto
<1>4. \/ ~good /\ pc'[t] = "lock"
      \/ good /\ ~last /\ pc'[t] = "validate" /\ cur'[t] = i + 1
      \/ good /\ last /\ ~HasAlert(t) /\ pc'[t] = "try" /\ cur'[t] = 1
      \/ good /\ last /\ HasAlert(t) /\ pc'[t] = "alertvalid"
  BY <1>2, <1>3
<1>5. \A k \in 1 .. i - 1 : Waitable(hs(t)[k])
  BY <1>0, Typed DEF Sound, Validated
<1>6. InCall(t)'
  BY <1>0, <1>4, Typed DEF Sound, InCall, CallLabels
<1>7. Validated(t)'
  <2>0. /\ AllValid(t)' <=> AllValid(t)
        /\ HasAlert(t)' <=> HasAlert(t)
        /\ N(t)' = N(t) /\ nodes'[t] = 0
        /\ \A k : Waitable(hs(t)[k])' <=> Waitable(hs(t)[k])
    BY <1>0, <1>1, ReqSame
  <2>1. CASE ~good /\ pc'[t] = "lock"
    <3>1. ~AllValid(t)
      BY <1>1, <2>1 DEF AllValid
    <3>2. QED
      BY <2>0, <2>1, <3>1 DEF Validated, ValidLabels, HeldLabels, BlockLabels
  <2>2. CASE good /\ ~last /\ pc'[t] = "validate" /\ cur'[t] = i + 1
    <3>1. \A k \in 1 .. cur'[t] - 1 : Waitable(hs(t)[k])
      BY <1>1, <1>5, <2>2
    <3>2. QED
      BY <2>0, <2>2, <3>1 DEF Validated, ValidLabels, HeldLabels, BlockLabels
  <2>3. CASE good /\ last
    <3>1. \A k \in 1 .. N(t) : Waitable(hs(t)[k])
      BY <1>1, <1>5, <2>3
    <3>2. ~HasAlert(t) => AllValid(t)
      BY <3>1 DEF AllValid
    <3>3. QED
      BY <1>4, <2>0, <2>3, <3>1, <3>2
      DEF Validated, ValidLabels, HeldLabels, BlockLabels
  <2>4. QED
    BY <1>4, <2>1, <2>2, <2>3
<1>8. Sampled(t)'
  <2>1. \A k \in 1 .. N(t) : eseq'[t][k] \in {eseq[t][k], d[hs(t)[k].idx]}
    <3>1. CASE good /\ slot[h.idx].type = TYPE_EVENT
      <4>1. eseq' = [eseq EXCEPT ![t] = [eseq[t] EXCEPT ![i] = d[h.idx]]]
        BY <3>1 DEF FastValidate
      <4>2. eseq'[t] = [eseq[t] EXCEPT ![i] = d[h.idx]]
        BY <4>1, Typed
      <4>3. QED
        BY <1>1, <4>2
    <3>2. CASE ~(good /\ slot[h.idx].type = TYPE_EVENT)
      BY <3>2 DEF FastValidate
    <3>3. QED
      BY <3>1, <3>2
  <2>2. \A k \in 1 .. N(t) : eseq[t][k] <= d[hs(t)[k].idx] /\ d[hs(t)[k].idx] \in Nat
    <3>1. \A k \in 1 .. N(t) : hs(t)[k].idx \in Slots
      BY ReqType DEF RInv, WordInv, TypeInv
    <3>2. QED
      BY <1>0, <3>1, Typed DEF Sound, Sampled, CallLabels
  <2>3. \A k \in 1 .. N(t) : eseq'[t][k] <= d[hs(t)[k].idx]
    BY <2>1, <2>2
  <2>4. QED
    BY <1>0, <1>1, <1>4, <2>3, ReqSame DEF Sampled
<1>9. Pulser(t)'
  BY <1>4 DEF Pulser, PulseLabels
<1>10. QED
  BY <1>6, <1>7, <1>8, <1>9 DEF Sound

\* The fast path: alert, snapshot and the end of a pass without the lock.
LEMMA FastSound ==
    ASSUME RInv, NEW t \in Threads, AlertValid(t) \/ AlertFast(t) \/ FastMiss(t),
           slot' = slot
    PROVE  Sound(t)'
<1>0. d' = d /\ nodes' = nodes /\ lock' = lock /\ pc[t] \in FastLabels
  BY DEF AlertValid, AlertFast, FastMiss, shared, FastLabels
<1>1. nodes[t] = 0 /\ lock # t
  BY <1>0, Typed DEF ThreadOK, HoldOK, FastLabels, HeldLabels
<1>2. CASE AlertValid(t)
  <2>1. /\ pc[t] = "alertvalid" /\ req' = req /\ eseq' = eseq /\ expired' = expired
        /\ pc'[t] = IF ValidOf(alert(t), TYPE_EVENT) THEN "alertfast" ELSE "lock"
    BY <1>2, Typed DEF AlertValid, Goto
  <2>2. HasAlert(t) /\ \A i \in 1 .. N(t) : Waitable(hs(t)[i])
    BY <2>1, Typed DEF Sound, Validated
  <2>3. AllValid(t) <=> ValidOf(alert(t), TYPE_EVENT)
    BY <2>2 DEF AllValid
  <2>4. QED
    BY <1>0, <1>1, <2>1, <2>2, <2>3, MoveSound
    DEF ValidLabels, HeldLabels, BlockLabels, CallLabels
<1>3. CASE AlertFast(t)
  <2>1. pc[t] = "alertfast" /\ AllValid(t) /\ HasAlert(t)
    BY <1>3, Typed DEF AlertFast, Sound, Validated, ValidLabels
  <2>2. Valid(alert(t))
    BY <2>1 DEF AllValid, ValidOf
  <2>3. CASE Return(t, Signaled(N(t), FALSE))
    BY <1>0, <1>1, <2>3, ReturnStep
  <2>4. CASE Goto(t, "try") /\ UNCHANGED <<req, cur, eseq, acq, spin, expired, res>>
    <3>1. pc'[t] = "try"
      BY <2>4, Typed DEF Goto
    <3>2. QED
      BY <1>0, <1>1, <2>1, <2>4, <3>1, MoveSound DEF ValidLabels, HeldLabels, BlockLabels, CallLabels
  <2>5. QED
    BY <1>3, <2>2, <2>3, <2>4 DEF AlertFast
<1>4. CASE FastMiss(t)
  <2>1. pc[t] = "fastmiss" /\ AllValid(t)
    BY <1>4, Typed DEF FastMiss, Sound, Validated, ValidLabels
  <2>2. CASE Return(t, Timeout)
    BY <1>0, <1>1, <2>2, ReturnStep
  <2>3. CASE /\ req[t].timeout # "zero"
             /\ Goto(t, "lock") /\ UNCHANGED <<req, cur, eseq, acq, spin, expired, res>>
    <3>1. pc'[t] = "lock"
      BY <2>3, Typed DEF Goto
    <3>2. QED
      BY <1>0, <1>1, <2>1, <2>3, <3>1, MoveSound DEF ValidLabels, HeldLabels, BlockLabels, CallLabels
  <2>4. QED
    BY <1>4, <2>2, <2>3 DEF FastMiss
<1>5. QED
  BY <1>2, <1>3, <1>4

\* A handle that is passed over: the pass goes on, or ends.
LEMMA PassSound ==
    ASSUME RInv, NEW t \in Threads, pc[t] \in {"try", "trypulse"}, PassAny(t),
           UNCHANGED <<slot, d, nodes, lock>>, ~Pulsed(t, cur[t])
    PROVE  Sound(t)'
<1> DEFINE i == cur[t]
<1>1. i \in 1 .. N(t) /\ N(t) \in Nat /\ AllValid(t)
  <2>1. TypeOK
    BY DEF RInv, WordInv, TypeInv
  <2>2. QED
    BY <2>1, ReqType, Typed DEF ThreadOK, TryOK, Sound, Validated, ValidLabels
<1>2. lock = t => \A k \in 1 .. i - 1 : ~Pulsed(t, k)
  BY Typed DEF Sound, Sampled
<1>3. CASE i < N(t)
  <2>1. /\ pc'[t] = "try" /\ UNCHANGED <<req, eseq, expired>>
        /\ cur' = [cur EXCEPT ![t] = i + 1]
    BY <1>3, Typed DEF PassAny, Goto
  <2>2. cur'[t] = i + 1
    BY <2>1, Typed
  <2>3. lock = t => \A k \in 1 .. cur'[t] - 1 : ~Pulsed(t, k)
    BY <1>1, <1>2, <2>2
  <2>4. QED
    BY <1>1, <2>1, <2>3, MoveSound DEF CallLabels, ValidLabels, BlockLabels
<1>4. CASE ~(i < N(t))
  <2>1. Miss(t)
    BY <1>4 DEF PassAny
  <2>2. /\ UNCHANGED <<req, eseq, expired>>
        /\ pc'[t] = IF lock = t THEN "deadline"
                    ELSE IF nodes[t] > 0 THEN "spinmiss" ELSE "fastmiss"
    BY <2>1, Typed DEF Miss, Goto
  <2>3. i = N(t)
    BY <1>1, <1>4
  <2>4. lock = t => \A k \in 1 .. N(t) : ~Pulsed(t, k)
    BY <1>1, <1>2, <2>3
  <2>5. QED
    BY <1>1, <2>2, <2>4, MoveSound DEF CallLabels, ValidLabels, BlockLabels
<1>5. QED
  BY <1>3, <1>4

\* An attempt at one handle: at its word ...
LEMMA TrySound ==
    ASSUME RInv, NEW t \in Threads, TryAny(t), slot' = slot
    PROVE  Sound(t)'
<1> DEFINE i == cur[t]
           a == Attempt(t, i)
<1>0. pc[t] = "try" /\ UNCHANGED <<d, nodes, lock>>
  BY DEF TryAny
<1>1. CASE a.ok
  <2>1. Decide(t, Signaled(i - 1, a.od))
    BY <1>1 DEF TryAny
  <2>2. QED
    BY <1>0, <2>1, DecideStep DEF CallLabels
<1>2. CASE ~a.ok /\ IsEvent(t, i)
  <2>1. pc'[t] = "trypulse" /\ UNCHANGED <<req, cur, eseq, expired>>
    BY <1>2, Typed DEF TryAny, Goto
  <2>2. AllValid(t) /\ (lock = t => \A k \in 1 .. cur'[t] - 1 : ~Pulsed(t, k))
    BY <1>0, <2>1, Typed DEF Sound, Validated, ValidLabels, Sampled
  <2>3. slot[hs(t)[cur'[t]].idx].type = TYPE_EVENT
    BY <1>2, <2>1 DEF IsEvent
  <2>4. QED
    BY <1>0, <2>1, <2>2, <2>3, MoveSound DEF CallLabels, ValidLabels, BlockLabels
<1>3. CASE ~a.ok /\ ~IsEvent(t, i)
  <2>1. PassAny(t) /\ ~Pulsed(t, i)
    BY <1>3 DEF TryAny, IsEvent, Pulsed
  <2>2. QED
    BY <1>0, <2>1, PassSound
<1>4. QED
  BY <1>1, <1>2, <1>3

\* ... and at its counter.
LEMMA TryPulseSound ==
    ASSUME RInv, NEW t \in Threads, TryPulseAny(t), slot' = slot
    PROVE  Sound(t)'
<1>0. pc[t] = "trypulse" /\ UNCHANGED <<d, nodes, lock>>
  BY DEF TryPulseAny, shared
<1>1. CASE CounterMoved(t, cur[t])
  <2>1. Decide(t, Signaled(cur[t] - 1, FALSE))
    BY <1>1 DEF TryPulseAny
  <2>2. QED
    BY <1>0, <2>1, DecideStep DEF CallLabels
<1>2. CASE ~CounterMoved(t, cur[t])
  <2>1. PassAny(t) /\ ~Pulsed(t, cur[t])
    BY <1>2 DEF TryPulseAny, CounterMoved, Pulsed
  <2>2. QED
    BY <1>0, <2>1, PassSound
<1>3. QED
  BY <1>1, <1>2

\* The locked path.
LEMMA LockSound ==
    ASSUME RInv, NEW t \in Threads, Lock(t), slot' = slot
    PROVE  Sound(t)'
<1>0. /\ pc[t] = "lock" /\ d' = d /\ req' = req /\ nodes' = nodes /\ expired' = expired
  BY DEF Lock
<1>1. CASE ~AllValid(t)
  <2>1. pc'[t] = "cleanup" /\ eseq' = eseq
    BY <1>1, Typed DEF Lock, Goto
  <2>2. QED
    BY <1>0, <2>1, CleanupSound DEF CallLabels
<1>2. CASE AllValid(t)
  <2> DEFINE e == [i \in 1 .. N(t) |->
                     IF FirstRound(t) /\ slot[hs(t)[i].idx].type = TYPE_EVENT
                     THEN d[hs(t)[i].idx] ELSE eseq[t][i]]
  <2>1. /\ pc'[t] = IF HasAlert(t) THEN "alertchk" ELSE "register"
        /\ eseq'[t] = e
    BY <1>2, Typed DEF Lock, Goto
  <2>2. req[t].timeout # "zero"
    BY <1>0, <1>2, Typed DEF Sound, Validated
  <2>3. InCall(t)'
    BY <1>0, <2>1, Typed DEF Sound, InCall, CallLabels
  <2>4. /\ AllValid(t)' /\ (HasAlert(t)' <=> HasAlert(t)) /\ N(t)' = N(t) /\ hs(t)' = hs(t)
    BY <1>0, <1>2, ReqSame
  <2>5. Validated(t)'
    BY <1>0, <2>1, <2>2, <2>4 DEF Validated
  <2>6. \A i \in 1 .. N(t) : eseq[t][i] <= d[hs(t)[i].idx] /\ d[hs(t)[i].idx] \in Nat
    <3>1. \A k \in 1 .. N(t) : hs(t)[k].idx \in Slots
      BY ReqType DEF RInv, WordInv, TypeInv
    <3>2. QED
      BY <1>0, <3>1, Typed DEF Sound, Sampled, CallLabels
  <2>7. \A i \in 1 .. N(t) : e[i] <= d[hs(t)[i].idx]
    BY <2>6
  <2>8. Sampled(t)' /\ Pulser(t)'
    BY <1>0, <2>1, <2>4, <2>7 DEF Sampled, Pulser, PulseLabels
  <2>9. QED
    BY <2>3, <2>5, <2>8 DEF Sound
<1>3. QED
  BY <1>1, <1>2

\* The steps under the lock before the sleep.
LEMMA HeldSound ==
    ASSUME RInv, NEW t \in Threads, AlertCheck(t) \/ Register(t) \/ Deadline(t),
           slot' = slot
    PROVE  Sound(t)'
<1>0. d' = d /\ UNCHANGED <<req, eseq, cur, expired>> /\ pc[t] \in {"alertchk", "register", "deadline"}
  BY DEF AlertCheck, Register, Deadline, shared
<1>1. AllValid(t) /\ cur[t] = 1 /\ pc[t] \notin CallLabels
  BY <1>0, Typed DEF Sound, Validated, ValidLabels, ThreadOK, TryOK, CallLabels
<1>2. CASE AlertCheck(t)
  <2>1. nodes' = nodes /\ pc'[t] \in {"cleanup", "register"} /\ req[t].timeout # "zero"
    BY <1>2, Typed DEF AlertCheck, Goto, Sound, Validated
  <2>2. QED
    BY <1>0, <1>1, <2>1, MoveSound DEF CallLabels
<1>3. CASE Register(t)
  <2>1. pc[t] = "register" /\ req[t].timeout # "zero"
    BY <1>3, Typed DEF Register, Sound, Validated
  <2>2. CASE Exhausted(t)
    <3>1. pc'[t] = "cleanup" /\ nodes' = nodes
      BY <1>3, <2>2, Typed DEF Register, Goto
    <3>2. QED
      BY <1>0, <1>1, <3>1, CleanupSound
  <2>3. CASE ~Exhausted(t)
    <3>1. pc'[t] = "try"
      BY <1>3, <2>3, Typed DEF Register, Goto
    <3>2. InCall(t)'
      BY <1>0, <1>1, <3>1, Typed DEF Sound, InCall, CallLabels
    <3>3. Validated(t)'
      BY <1>0, <1>1, <2>1, <3>1, ReqSame DEF Validated
    <3>4. Sampled(t)'
      BY <1>0, <1>1, <3>1, ReqSame, Typed DEF Sound, Sampled
    <3>5. Pulser(t)'
      BY <3>1 DEF Pulser, PulseLabels
    <3>6. QED
      BY <3>2, <3>3, <3>4, <3>5 DEF Sound
  <2>4. QED
    BY <2>2, <2>3
<1>4. CASE Deadline(t)
  <2>1. nodes' = nodes /\ pc'[t] \in {"cleanup", "spin", "futex", "tail"}
    BY <1>4, Typed DEF Deadline, Goto, SleepLabels
  <2>2. QED
    BY <1>0, <1>1, <2>1, MoveSound DEF CallLabels
<1>5. QED
  BY <1>2, <1>3, <1>4

\* The spin, the sleep and the way out.
LEMMA BlockSound ==
    ASSUME RInv, NEW t \in Threads, slot' = slot,
           \/ SpinAlert(t) \/ Peek(t) \/ SpinMiss(t) \/ Wake(t) \/ Interrupt(t)
           \/ TailDone(t) \/ Awake(t)
    PROVE  Sound(t)'
<1>0. /\ d' = d /\ UNCHANGED <<req, eseq, cur, nodes, expired, lock>>
      /\ pc[t] \in BlockLabels
  BY DEF SpinAlert, Peek, SpinMiss, Wake, Interrupt, TailDone, Awake, shared, BlockLabels
<1>1. AllValid(t) /\ cur[t] = 1 /\ pc[t] \notin CallLabels /\ nodes[t] > 0 /\ lock # t
  BY <1>0, Typed
  DEF Sound, Validated, ValidLabels, ThreadOK, TryOK, HoldOK, CallLabels, BlockLabels, HeldLabels
<1>2. req[t].timeout # "zero"
  BY <1>1, Typed DEF Sound, Validated
<1>3. HasAlert(t) => Valid(alert(t))
  BY <1>1 DEF AllValid, ValidOf
<1>4. pc'[t] \in {"peek", "cleanup", "try", "spinmiss", "spin", "futex", "tail", "awake", "lock"}
  <2>1. CASE SpinAlert(t)
    BY <1>3, <2>1, Typed DEF SpinAlert, Goto
  <2>2. CASE SpinMiss(t)
    BY <2>2, Typed DEF SpinMiss, Goto, SleepLabels
  <2>3. CASE Peek(t) \/ Wake(t) \/ Interrupt(t) \/ TailDone(t) \/ Awake(t)
    BY <2>3, Typed DEF Peek, Wake, Interrupt, TailDone, Awake, Goto
  <2>4. QED
    BY <2>1, <2>2, <2>3
<1>5. QED
  BY <1>0, <1>1, <1>2, <1>4, MoveSound DEF CallLabels

\* waiter_cleanup gives back all nodes.
LEMMA CleanupStep ==
    ASSUME RInv, NEW t \in Threads, Cleanup(t)
    PROVE  Sound(t)'
<1>1. nodes'[t] = 0 /\ Return(t, res[t])
  BY Typed DEF Cleanup
<1>2. QED
  BY <1>1, ReturnStep

\* Calls that are refused, and time.
LEMMA RestSound ==
    ASSUME RInv, NEW t \in Threads, Refuse(t) \/ Expire(t), slot' = slot
    PROVE  Sound(t)'
<1>1. UNCHANGED <<pc, req, cur, eseq, nodes, d, lock>>
  BY DEF Refuse, Expire, shared
<1>2. expired'[t] => req[t].timeout # "inf"
  <2>1. CASE Refuse(t)
    BY <2>1, Typed DEF Refuse, Sound, InCall
  <2>2. CASE Expire(t)
    BY <2>2 DEF Expire
  <2>3. QED
    BY <2>1, <2>2
<1>3. InCall(t)'
  BY <1>1, <1>2, Typed DEF Sound, InCall
<1>4. Validated(t)'
  BY <1>1, ReqSame, Typed DEF Sound, Validated
<1>5. Sampled(t)'
  BY <1>1, ReqSame, PulsedSame, Typed DEF Sound, Sampled
<1>6. Pulser(t)'
  <2>1. pc[t] # "idle" => res' = res
    BY DEF Refuse, Expire
  <2>2. w0' = w0 /\ old' = old
    BY DEF Refuse, Expire, shared
  <2>3. QED
    BY <1>1, <2>1, <2>2, Typed DEF Sound, Pulser, PulseLabels
<1>7. QED
  BY <1>3, <1>4, <1>5, <1>6 DEF Sound

-----------------------------------------------------------------------------
(* The node pool. *)

\* Finitely many threads have finitely many nodes.
LEMMA AllocatedFinite ==
    ASSUME Promised
    PROVE  /\ IsFiniteSet(Allocated) /\ IsFiniteSet(Allocated')
           /\ Cardinality(Allocated) \in Nat
<1>1. IsFiniteSet(1 .. MaxWaitCount + 1)
  BY FS_Interval
<1>2. IsFiniteSet(Threads \X (1 .. MaxWaitCount + 1))
  BY <1>1, FS_Product DEF Promised
<1>3. Allocated \subseteq Threads \X (1 .. MaxWaitCount + 1)
      /\ Allocated' \subseteq Threads \X (1 .. MaxWaitCount + 1)
  BY DEF Allocated
<1>4. QED
  BY <1>2, <1>3, FS_Subset, FS_CardinalityType

\* The nodes of one thread.
NodesOf(t, n) == {t} \X (1 .. n)

\* The nodes of a thread, counted.
LEMMA NodesOfCount ==
    ASSUME NEW t, NEW n \in Nat
    PROVE  IsFiniteSet(NodesOf(t, n)) /\ Cardinality(NodesOf(t, n)) = n
<1>1. IsFiniteSet(1 .. n) /\ Cardinality(1 .. n) = n
  BY FS_Interval
<1>2. IsFiniteSet({t}) /\ Cardinality({t}) = 1
  BY FS_Singleton
<1>3. QED
  BY <1>1, <1>2, FS_Product DEF NodesOf

\* t takes n nodes, having none.
LEMMA AllocatedTaken ==
    ASSUME Promised, RInv, NEW t \in Threads, NEW n \in 0 .. MaxWaitCount + 1,
           nodes[t] = 0, nodes' = [nodes EXCEPT ![t] = n]
    PROVE  Cardinality(Allocated') = Cardinality(Allocated) + n
<1>0. nodes'[t] = n /\ \A u \in Threads \ {t} : nodes'[u] = nodes[u]
  BY Typed
<1>1. Allocated' = Allocated \cup NodesOf(t, n)
  <2>1. ASSUME NEW p \in Threads \X (1 .. MaxWaitCount + 1)
        PROVE  p \in Allocated' <=> p \in Allocated \cup NodesOf(t, n)
    <3>1. p[1] \in Threads /\ p[2] \in 1 .. MaxWaitCount + 1 /\ p = <<p[1], p[2]>>
      OBVIOUS
    <3>2. p \in NodesOf(t, n) <=> p[1] = t /\ p[2] \in 1 .. n
      BY <3>1 DEF NodesOf
    <3>3. p \in Allocated' <=> p[2] <= nodes'[p[1]]
      BY DEF Allocated
    <3>4. p \in Allocated <=> p[2] <= nodes[p[1]]
      BY DEF Allocated
    <3>5. CASE p[1] = t
      BY <1>0, <3>1, <3>2, <3>3, <3>4, <3>5
    <3>6. CASE p[1] # t
      BY <1>0, <3>1, <3>2, <3>3, <3>4, <3>6
    <3>7. QED
      BY <3>5, <3>6
  <2>2. NodesOf(t, n) \subseteq Threads \X (1 .. MaxWaitCount + 1)
    BY DEF NodesOf
  <2>3. QED
    BY <2>1, <2>2 DEF Allocated
<1>2. Allocated \cap NodesOf(t, n) = {}
  <2>1. ASSUME NEW p \in Allocated, p \in NodesOf(t, n) PROVE FALSE
    <3>1. p[1] = t /\ p[2] \in 1 .. n
      BY <2>1 DEF NodesOf
    <3>2. p[2] <= nodes[p[1]]
      BY DEF Allocated
    <3>3. QED
      BY <3>1, <3>2
  <2>2. QED
    BY <2>1
<1>3. QED
  <2>1. IsFiniteSet(Allocated) /\ IsFiniteSet(NodesOf(t, n)) /\ Cardinality(NodesOf(t, n)) = n
        /\ Cardinality(Allocated) \in Nat
    BY AllocatedFinite, NodesOfCount
  <2>2. Cardinality(Allocated \cup NodesOf(t, n)) =
          Cardinality(Allocated) + Cardinality(NodesOf(t, n))
            - Cardinality(Allocated \cap NodesOf(t, n))
    BY <2>1, FS_Union
  <2>3. Cardinality(Allocated \cap NodesOf(t, n)) = 0
    BY <1>2, FS_EmptySet
  <2>4. QED
    BY <1>1, <2>1, <2>2, <2>3

\* t gives its nodes back.
LEMMA AllocatedFreed ==
    ASSUME Promised, RInv, NEW t \in Threads, nodes[t] \in 0 .. MaxWaitCount + 1,
           nodes' = [nodes EXCEPT ![t] = 0]
    PROVE  Cardinality(Allocated') = Cardinality(Allocated) - nodes[t]
<1> DEFINE n == nodes[t]
<1>0. nodes'[t] = 0 /\ \A u \in Threads \ {t} : nodes'[u] = nodes[u]
  BY Typed
<1>1. ASSUME NEW p \in Threads \X (1 .. MaxWaitCount + 1)
      PROVE  /\ p \in Allocated' <=> p \in Allocated \ NodesOf(t, n)
             /\ p \in NodesOf(t, n) => p \in Allocated
  <2>1. p[1] \in Threads /\ p[2] \in 1 .. MaxWaitCount + 1 /\ p = <<p[1], p[2]>>
    OBVIOUS
  <2>2. p \in NodesOf(t, n) <=> p[1] = t /\ p[2] \in 1 .. n
    BY <2>1 DEF NodesOf
  <2>3. p \in Allocated' <=> p[2] <= nodes'[p[1]]
    BY DEF Allocated
  <2>4. p \in Allocated <=> p[2] <= nodes[p[1]]
    BY DEF Allocated
  <2>5. CASE p[1] = t
    BY <1>0, <2>1, <2>2, <2>3, <2>4, <2>5
  <2>6. CASE p[1] # t
    BY <1>0, <2>1, <2>2, <2>3, <2>4, <2>6
  <2>7. QED
    BY <2>5, <2>6
<1>2. NodesOf(t, n) \subseteq Threads \X (1 .. MaxWaitCount + 1)
  BY DEF NodesOf
<1>3. Allocated' = Allocated \ NodesOf(t, n)
  BY <1>1 DEF Allocated
<1>4. Allocated \cap NodesOf(t, n) = NodesOf(t, n)
  BY <1>1, <1>2
<1>5. IsFiniteSet(Allocated) /\ Cardinality(NodesOf(t, n)) = n
  BY AllocatedFinite, NodesOfCount
<1>6. Cardinality(Allocated \ NodesOf(t, n)) =
        Cardinality(Allocated) - Cardinality(Allocated \cap NodesOf(t, n))
  BY <1>5, FS_Difference
<1>7. QED
  BY <1>3, <1>4, <1>5, <1>6

\* As long as t has no node, the others leave room for those that it may need.
LEMMA RoomLeft ==
    ASSUME Promised, RInv, NEW t \in Threads, nodes[t] = 0,
           NodeCount >= Cardinality(Threads) * (MaxWaitCount + 1)
    PROVE  pool >= MaxWaitCount + 1
<1> DEFINE K == MaxWaitCount + 1
           R == Threads \ {t}
<1>1. IsFiniteSet(R) /\ Cardinality(R) = Cardinality(Threads) - 1
  BY FS_RemoveElement DEF Promised
<1>2. IsFiniteSet(1 .. K) /\ Cardinality(1 .. K) = K
  BY FS_Interval
<1>3. IsFiniteSet(R \X (1 .. K)) /\ Cardinality(R \X (1 .. K)) = (Cardinality(Threads) - 1) * K
  <2> DEFINE I == 1 .. K
  <2>1. IsFiniteSet(R) /\ IsFiniteSet(I)
    BY <1>1, <1>2
  <2> HIDE DEF I, R
  <2>2. IsFiniteSet(R \X I) /\ Cardinality(R \X I) = Cardinality(R) * Cardinality(I)
    BY ONLY <2>1, FS_Product
  <2>3. Cardinality(R) = Cardinality(Threads) - 1 /\ Cardinality(I) = K
    BY <1>1, <1>2 DEF I
  <2> HIDE DEF K
  <2>4. QED
    BY <2>2, <2>3 DEF I
<1>4. Allocated \subseteq R \X (1 .. K)
  <2>1. ASSUME NEW p \in Allocated PROVE p \in R \X (1 .. K)
    <3>1. p \in Threads \X (1 .. K) /\ p[2] <= nodes[p[1]]
      BY DEF Allocated
    <3>2. p[1] \in Threads /\ p[2] \in 1 .. K /\ p = <<p[1], p[2]>>
      BY <3>1
    <3>3. p[1] # t
      BY <3>1, <3>2
    <3>4. QED
      BY <3>2, <3>3
  <2>2. QED
    BY <2>1
<1>5. Cardinality(Allocated) <= (Cardinality(Threads) - 1) * K
  BY <1>3, <1>4, FS_Subset
<1>6. Cardinality(Threads) \in Nat /\ Cardinality(Allocated) \in Nat /\ K \in Nat
  BY AllocatedFinite, FS_CardinalityType DEF Promised
<1>7. pool + Cardinality(Allocated) = NodeCount /\ pool \in Nat
  BY DEF RInv, PoolInv, WordInv, TypeInv, TypeOK
<1>8. ASSUME NEW c \in Nat, NEW k \in Nat PROVE (c - 1) * k = c * k - k
  OBVIOUS
<1>9. (Cardinality(Threads) - 1) * K = Cardinality(Threads) * K - K
  BY <1>6, <1>8
<1> HIDE DEF K
<1>10. NodeCount >= Cardinality(Threads) * K
  BY DEF K
<1>11. pool >= K
  <2> DEFINE c == Cardinality(Threads)
             p == c * K
             a == Cardinality(Allocated)
  <2>1. p \in Int
    BY <1>6
  <2>2. a <= p - K /\ NodeCount >= p /\ pool + a = NodeCount
    BY <1>5, <1>7, <1>9, <1>10
  <2> HIDE DEF p, a, c
  <2>3. a \in Nat
    BY <1>6 DEF a
  <2>4. QED
    BY <1>6, <1>7, <2>1, <2>2, <2>3
<1>12. QED
  BY <1>11 DEF K

\* A wait needs no more nodes than it can name handles.
LEMMA NodesNeeded ==
    ASSUME RInv, NEW t \in Threads, pc[t] \notin CallLabels
    PROVE  n_nodes(t) \in 1 .. MaxWaitCount + 1 /\ N(t) \in 1 .. MaxWaitCount
<1>1. req[t].op = "wait" /\ ~BadArgs(req[t])
  BY Typed DEF Sound, InCall, CallLabels
<1>2. N(t) \in 1 .. MaxWaitCount
  BY <1>1 DEF BadArgs, N
<1>3. QED
  BY <1>2 DEF n_nodes

\* Nodes move between pool and threads, none gets lost.
LEMMA PoolStep ==
    ASSUME Promised, RInv, NEW t \in Threads,
           \/ Register(t) \/ Cleanup(t)
           \/ UNCHANGED <<pool, nodes>>
    PROVE  PoolInv'
<1>0. pool + Cardinality(Allocated) = NodeCount /\ pool \in Nat /\ Cardinality(Allocated) \in Nat
  BY AllocatedFinite DEF RInv, PoolInv, WordInv, TypeInv, TypeOK
<1>1. CASE Register(t)
  <2>1. pc[t] = "register"
    BY <1>1 DEF Register
  <2>2. n_nodes(t) \in 1 .. MaxWaitCount + 1 /\ nodes[t] \in {0, n_nodes(t)}
    BY <2>1, NodesNeeded, Typed DEF CallLabels, ThreadOK, HoldOK
  <2>3. CASE Exhausted(t)
    BY <1>0, <1>1, <2>3 DEF Register, PoolInv, Allocated
  <2>4. CASE ~Exhausted(t) /\ nodes[t] = 0
    <3>1. nodes' = [nodes EXCEPT ![t] = n_nodes(t)] /\ pool' = pool - n_nodes(t)
      BY <1>0, <1>1, <2>2, <2>4 DEF Register
    <3>2. Cardinality(Allocated') = Cardinality(Allocated) + n_nodes(t)
      <4>1. n_nodes(t) \in 0 .. MaxWaitCount + 1 /\ nodes[t] = 0
        BY <2>2, <2>4
      <4>2. QED
        BY <3>1, <4>1, AllocatedTaken
    <3>3. QED
      BY <1>0, <2>2, <3>1, <3>2 DEF PoolInv
  <2>5. CASE ~Exhausted(t) /\ nodes[t] = n_nodes(t)
    <3>1. nodes' = nodes /\ pool' = pool
      <4>1. nodes' = [nodes EXCEPT ![t] = n_nodes(t)] /\ pool' = pool + nodes[t] - n_nodes(t)
        BY <1>1, <2>5 DEF Register
      <4>2. QED
        BY <1>0, <2>2, <2>5, <4>1, Typed
    <3>2. QED
      BY <1>0, <3>1 DEF PoolInv, Allocated
  <2>6. QED
    BY <2>2, <2>3, <2>4, <2>5
<1>2. CASE Cleanup(t)
  <2>1. pc[t] = "cleanup" /\ nodes' = [nodes EXCEPT ![t] = 0] /\ pool' = pool + nodes[t]
    BY <1>2 DEF Cleanup
  <2>2. nodes[t] \in 0 .. MaxWaitCount + 1
    BY <2>1, NodesNeeded, Typed DEF CallLabels, ThreadOK, HoldOK
  <2>3. Cardinality(Allocated') = Cardinality(Allocated) - nodes[t]
    BY <2>1, <2>2, AllocatedFreed
  <2>4. QED
    BY <1>0, <2>1, <2>2, <2>3 DEF PoolInv
<1>3. CASE UNCHANGED <<pool, nodes>>
  BY <1>0, <1>3 DEF PoolInv, Allocated
<1>4. QED
  BY <1>1, <1>2, <1>3

-----------------------------------------------------------------------------
(* What a step of thread t does not do to anybody else. *)

ThreadStep(t) == Refuse(t) \/ Begin(t) \/ Step(t) \/ Interrupt(t) \/ Expire(t)

\* A return or decision is one thread's own.
LEMMA ReturnLocal ==
    ASSUME RInv, NEW t \in Threads, NEW r, Return(t, r) \/ Decide(t, r)
    PROVE  \A u \in Threads \ {t} : expired'[u] = expired[u] /\ res'[u] = res[u]
  BY Typed DEF Return, Decide

\* No step touches the deadline or the result of another thread.
LEMMA LocalOnly ==
    ASSUME RInv, NEW t \in Threads, ThreadStep(t)
    PROVE  \A u \in Threads \ {t} : expired'[u] = expired[u] /\ res'[u] = res[u]
<1>1. CASE Refuse(t) \/ Begin(t) \/ Interrupt(t) \/ Expire(t)
  <2>1. CASE Refuse(t)
    BY <2>1, Typed DEF Refuse
  <2>2. CASE Begin(t)
    BY <2>2, Typed DEF Begin
  <2>3. CASE Interrupt(t) \/ Expire(t)
    BY <2>3, Typed DEF Interrupt, Expire
  <2>4. QED
    BY <1>1, <2>1, <2>2, <2>3
<1>2. CASE Resolve(t) \/ Cas(t) \/ ReadHead(t) \/ Walk(t)
  <2>1. \/ \E r : Return(t, r)
        \/ UNCHANGED expired /\ (UNCHANGED res \/ \E r : res' = [res EXCEPT ![t] = r])
    BY <1>2 DEF Resolve, Cas, ReadHead, Walk
  <2>2. QED
    BY <2>1, ReturnLocal, Typed
<1>3. CASE LockedStep(t) \/ Cleanup(t)
  <2>1. \/ \E r : Return(t, r)
        \/ UNCHANGED expired /\ (UNCHANGED res \/ \E r : res' = [res EXCEPT ![t] = r])
    BY <1>3 DEF LockedStep, event_pulse, PulseCount, PulseLoad, PulseStore, close, Cleanup
  <2>2. QED
    BY <2>1, ReturnLocal, Typed
<1>4. CASE \/ AlertFast(t) \/ FastMiss(t) \/ TryAny(t) \/ TryPulseAny(t) \/ TryAll(t)
           \/ TryPulseAll(t) \/ Rollback(t)
  <2>1. \/ \E r : Return(t, r) \/ Decide(t, r)
        \/ UNCHANGED expired /\ (UNCHANGED res \/ \E r : res' = [res EXCEPT ![t] = r])
    <3>1. CASE AlertFast(t) \/ FastMiss(t)
      BY <3>1 DEF AlertFast, FastMiss
    <3>2. CASE TryAny(t) \/ TryPulseAny(t)
      BY <3>2 DEF TryAny, TryPulseAny, PassAny, Miss
    <3>3. ~TryAll(t) /\ ~TryPulseAll(t) /\ ~Rollback(t)
      BY DEF RInv, WordInv, Calm, TryAll, TryPulseAll, Rollback
    <3>4. QED
      BY <1>4, <3>1, <3>2, <3>3
  <2>2. QED
    BY <2>1, ReturnLocal, Typed
<1>5. CASE FastValidate(t) \/ AlertValid(t) \/ Lock(t) \/ AlertCheck(t) \/ Register(t)
             \/ Deadline(t)
  BY <1>5, Typed DEF FastValidate, AlertValid, Lock, AlertCheck, Register, Deadline
<1>6. CASE SpinAlert(t)
  BY <1>6, Typed DEF SpinAlert
<1>7. CASE Peek(t) \/ SpinMiss(t) \/ Wake(t) \/ TailDone(t) \/ Awake(t)
  BY <1>7 DEF Peek, SpinMiss, Wake, TailDone, Awake
<1>8. QED
  BY <1>1, <1>2, <1>3, <1>4, <1>5, <1>6, <1>7
  DEF ThreadStep, Step, SignalStep, WaitStep

\* Only a pulse moves a pulse counter, and only under the lock.
LEMMA CountersOnly ==
    ASSUME NEW t \in Threads, ThreadStep(t)
    PROVE  d' = d \/ PulseCount(t)
<1>1. CASE Refuse(t) \/ Begin(t) \/ Interrupt(t) \/ Expire(t)
  BY <1>1 DEF Refuse, Begin, Interrupt, Expire, shared
<1>2. CASE SignalStep(t) \/ LockedStep(t)
  BY <1>2 DEF SignalStep, LockedStep, Resolve, Cas, ReadHead, Walk, event_pulse, PulseLoad,
              PulseStore, close, shared
<1>3. CASE WaitStep(t)
  BY <1>3 DEF WaitStep, FastValidate, AlertValid, AlertFast, FastMiss, TryAny, TryPulseAny,
              TryAll, TryPulseAll, Rollback, Lock, AlertCheck, Register, Deadline, SpinAlert, Peek, SpinMiss,
              Wake, TailDone, Awake, Cleanup, shared
<1>4. QED
  BY <1>1, <1>2, <1>3 DEF ThreadStep, Step

\* Only a pulse loads and stores a word, under the lock.
LEMMA LoadsOnly ==
    ASSUME NEW t \in Threads, ThreadStep(t)
    PROVE  old' = old \/ PulseLoad(t) \/ PulseStore(t)
<1>1. CASE Refuse(t) \/ Begin(t) \/ Interrupt(t) \/ Expire(t)
  BY <1>1 DEF Refuse, Begin, Interrupt, Expire, shared
<1>2. CASE SignalStep(t) \/ LockedStep(t)
  BY <1>2 DEF SignalStep, LockedStep, Resolve, Cas, ReadHead, Walk, event_pulse, PulseCount,
              close, shared
<1>3. CASE WaitStep(t)
  BY <1>3 DEF WaitStep, FastValidate, AlertValid, AlertFast, FastMiss, TryAny, TryPulseAny,
              TryAll, TryPulseAll, Rollback, Lock, AlertCheck, Register, Deadline, SpinAlert,
              Peek, SpinMiss, Wake, TailDone, Awake, Cleanup, shared
<1>4. QED
  BY <1>1, <1>2, <1>3 DEF ThreadStep, Step

\* The steps that change words.
LEMMA WordsOnly ==
    ASSUME RInv, NEW t \in Threads, ThreadStep(t)
    PROVE  w0' = w0 \/ Cas(t) \/ PulseStore(t) \/ TryAny(t)
<1>1. CASE Refuse(t) \/ Begin(t) \/ Interrupt(t) \/ Expire(t)
  BY <1>1 DEF Refuse, Begin, Interrupt, Expire, shared
<1>2. CASE SignalStep(t) \/ LockedStep(t)
  BY <1>2 DEF SignalStep, LockedStep, Resolve, ReadHead, Walk, event_pulse, PulseCount,
              PulseLoad, close, shared
<1>3. ~TryAll(t) /\ ~Rollback(t)
  BY DEF RInv, WordInv, Calm, TryAll, Rollback
<1>4. CASE WaitStep(t)
  BY <1>3, <1>4 DEF WaitStep, FastValidate, AlertValid, AlertFast, FastMiss, TryPulseAny,
              TryPulseAll, Lock, AlertCheck, Register, Deadline, SpinAlert,
              Peek, SpinMiss, Wake, TailDone, Awake, Cleanup, shared
<1>5. QED
  BY <1>1, <1>2, <1>4 DEF ThreadStep, Step

\* Whether an event is reset by hand stays as it was created.
LEMMA ManualKept ==
    ASSUME RInv, NEW t \in Threads, ThreadStep(t), NEW s \in Slots,
           slot[s].type = TYPE_EVENT
    PROVE  w0'[s].hi = w0[s].hi
<1>0. w0 \in [Slots -> Word] /\ w0[s] \in Word /\ w0[s].lo \in Nat /\ w0[s].hi \in Nat
  BY Typed DEF Word
<1>1. CASE Cas(t)
  <2> DEFINE x == req[t].h.idx
             o == OpOutcome(req[t], w0[x])
  <2>1. w0' = [w0 EXCEPT ![x] = o.w] /\ pc[t] = "cas"
    BY <1>1 DEF Cas
  <2>2. slot[x].type = OpType(req[t].op) /\ req[t].op \in SignalOps
    BY <2>1, Typed DEF RInv, WordInv, Calm, Aimed, ThreadOK, CallOK
  <2>3. CASE x # s
    BY <1>0, <2>1, <2>3
  <2>4. CASE x = s
    <3>1. req[t].op \in {"event_set", "event_reset"}
      BY <2>2, <2>4 DEF OpType, SignalOps, TYPE_SEM, TYPE_MUTEX, TYPE_EVENT
    <3>2. o.w.hi = w0[s].hi
      BY <1>0, <2>4, <3>1
      DEF OpOutcome, event_set, event_reset, Outcome, SetBit, ClearBit, Word
    <3>3. w0'[s] = o.w
      BY <1>0, <2>1, <2>4
    <3>4. QED
      BY <3>2, <3>3
  <2>5. QED
    BY <2>3, <2>4
<1>2. CASE PulseStore(t)
  <2> DEFINE x == req[t].h.idx
  <2>1. w0' = [w0 EXCEPT ![x] = ClearBit(old)] /\ pc[t] = "store"
    BY <1>2 DEF PulseStore
  <2>2. old.hi = w0[x].hi /\ ClearBit(old).hi = old.hi
    BY <2>1, Typed DEF Sound, Pulser, ClearBit, Word
  <2>3. QED
    BY <1>0, <2>1, <2>2
<1>3. CASE TryAny(t)
  <2> DEFINE x == hs(t)[cur[t]].idx
             a == Attempt(t, cur[t])
  <2>1. w0' = [w0 EXCEPT ![x] = a.w]
    BY <1>3 DEF TryAny
  <2>2. CASE x # s
    BY <1>0, <2>1, <2>2
  <2>3. CASE x = s
    <3>1. a = try_acquire(TYPE_EVENT, w0[s], t)
      BY <2>3 DEF Attempt
    <3>2. a.w \in {w0[s], ClearBit(w0[s])}
      BY <3>1 DEF try_acquire, Acquired, Busy, TYPE_SEM, TYPE_MUTEX, TYPE_EVENT
    <3>3. ClearBit(w0[s]).hi = w0[s].hi
      BY <1>0 DEF ClearBit, Word
    <3>4. QED
      BY <1>0, <2>1, <2>3, <3>2, <3>3
  <2>4. QED
    BY <2>2, <2>3
<1>4. QED
  BY <1>1, <1>2, <1>3, WordsOnly

\* Pulse counters only grow, and not under a wait's lock.
LEMMA CountersGrow ==
    ASSUME RInv, NEW t \in Threads, ThreadStep(t)
    PROVE  /\ d' \in [Slots -> Nat]
           /\ \A s \in Slots : d'[s] >= d[s]
           /\ \A u \in Threads \ {t} : lock = u => d' = d /\ old' = old
<1>1. \A u \in Threads \ {t} : lock = u => d' = d /\ old' = old
  <2>1. CASE PulseCount(t) \/ PulseLoad(t) \/ PulseStore(t)
    <3>1. pc[t] \in HeldLabels
      BY <2>1 DEF PulseCount, PulseLoad, PulseStore, HeldLabels
    <3>2. lock = t
      BY <3>1, Typed DEF ThreadOK, HoldOK
    <3>3. QED
      BY <3>2
  <2>2. QED
    BY <2>1, CountersOnly, LoadsOnly
<1>2. CASE d' = d
  BY <1>1, <1>2, Typed
<1>3. CASE PulseCount(t)
  <2> DEFINE x == req[t].h.idx
  <2>1. d \in [Slots -> Nat]
    BY Typed
  <2>2. d' = [d EXCEPT ![x] = d[x] + 1]
    BY <1>3 DEF PulseCount
  <2>3. x \in Slots
    BY <1>3, PulseAimed DEF PulseCount, RInv
  <2> HIDE DEF x
  <2>4. d' \in [Slots -> Nat]
    BY <2>1, <2>2, <2>3
  <2>5. \A s \in Slots : d'[s] >= d[s]
    BY <2>1, <2>2, <2>3
  <2>6. QED
    BY <1>1, <2>4, <2>5
<1>4. QED
  BY <1>2, <1>3, CountersOnly

\* The pool changes only in Register and Cleanup.
LEMMA PoolOnly ==
    ASSUME NEW t \in Threads, ThreadStep(t)
    PROVE  Register(t) \/ Cleanup(t) \/ UNCHANGED <<pool, nodes>>
<1>1. CASE Refuse(t) \/ Begin(t) \/ Interrupt(t) \/ Expire(t)
  BY <1>1 DEF Refuse, Begin, Interrupt, Expire, shared
<1>2. CASE SignalStep(t) \/ LockedStep(t)
  BY <1>2 DEF SignalStep, LockedStep, Resolve, Cas, ReadHead, Walk, event_pulse, PulseCount,
              PulseLoad, PulseStore, close, shared
<1>3. CASE WaitStep(t)
  BY <1>3 DEF WaitStep, FastValidate, AlertValid, AlertFast, FastMiss, TryAny, TryPulseAny,
              TryAll, TryPulseAll, Rollback, Lock, AlertCheck, Deadline, SpinAlert, Peek, SpinMiss,
              Wake, TailDone, Awake, shared
<1>4. QED
  BY <1>1, <1>2, <1>3 DEF ThreadStep, Step

\* Every step is one of a thread's, and leaves the others undisturbed.
LEMMA StepIsOK ==
    ASSUME RInv, NEW t \in Threads, ThreadStep(t)
    PROVE  StepOK(t)
<1>0. TypeInv
  BY DEF RInv, WordInv
<1>1. CASE Refuse(t) \/ Begin(t) \/ Interrupt(t) \/ Expire(t)
  BY <1>0, <1>1, RefuseOK, BeginOK, InterruptOK, ExpireOK
<1>2. CASE SignalStep(t) \/ LockedStep(t)
  BY <1>0, <1>2, ResolveOK, CasOK, ReadHeadOK, WalkOK, PulseOK, PulseCountOK, PulseLoadOK,
     PulseStoreOK, CloseOK
  DEF SignalStep, LockedStep
<1>3. CASE WaitStep(t)
  BY <1>0, <1>3, FastValidateOK, AlertValidOK, AlertFastOK, FastMissOK, TryAnyOK, TryPulseAnyOK,
     TryAllOK, TryPulseAllOK, RollbackOK, LockOK, AlertCheckOK, RegisterOK, DeadlineOK, SpinAlertOK, PeekOK,
     SpinMissOK, WakeOK, TailDoneOK, AwakeOK, CleanupOK
  DEF WaitStep
<1>4. QED
  BY <1>1, <1>2, <1>3 DEF ThreadStep, Step

\* The thread that takes the step stays sound.
LEMMA ActorSound ==
    ASSUME Promised, RInv, NEW t \in Threads, ThreadStep(t), slot' = slot
    PROVE  Sound(t)'
<1>1. CASE Refuse(t) \/ Begin(t) \/ Expire(t) \/ Interrupt(t)
  BY <1>1, RestSound, BeginSound, BlockSound
<1>2. CASE SignalStep(t) \/ LockedStep(t)
  <2>1. ~close(t)
    BY DEF RInv, Sound, InCall, close
  <2>2. QED
    BY <1>2, <2>1, SignalSound, PulseSound DEF LockedStep
<1>3. CASE WaitStep(t)
  <2>1. ~TryAll(t) /\ ~TryPulseAll(t) /\ ~Rollback(t)
    BY DEF RInv, WordInv, Calm, TryAll, TryPulseAll, Rollback
  <2>2. QED
    BY <1>3, <2>1, FastValidateSound, FastSound, TrySound, TryPulseSound, LockSound, HeldSound, BlockSound,
       CleanupStep
    DEF WaitStep
<1>4. QED
  BY <1>1, <1>2, <1>3 DEF ThreadStep, Step

\* The invariant is inductive.
LEMMA RStep == Promised /\ RInv /\ [Next]_vars => RInv'
<1> SUFFICES ASSUME Promised, RInv, [Next]_vars PROVE RInv'
  OBVIOUS
<1>0. WordInv'
  BY PromisedWords, WordStep DEF RInv
<1>1. CASE UNCHANGED vars
  <2>1. UNCHANGED <<slot, w0, d, old, lock, pool, pc, req, cur, eseq, nodes, expired, res>>
    BY <1>1 DEF vars, shared, local
  <2>2. \A u \in Threads : Undisturbed(u)
    BY <1>1 DEF vars, shared, local, Undisturbed
  <2>3. \A u \in Threads : Sound(u)'
    <3>1. d' \in [Slots -> Nat] /\ \A s \in Slots : d'[s] >= d[s]
      BY <2>1, Typed
    <3>2. QED
      BY <2>1, <2>2, <3>1, SoundFrame
  <2>4. PoolInv'
    BY <2>1 DEF RInv, PoolInv, Allocated
  <2>5. QED
    BY <1>0, <2>1, <2>3, <2>4 DEF RInv
<1>2. CASE Next
  <2>1. PICK t \in Threads : ThreadStep(t)
    BY <1>2 DEF Next, ThreadStep, Promised, Create
  <2>2. slot' = slot
    BY <1>2, SlotKept
  <2>3. Sound(t)'
    BY <2>1, <2>2, ActorSound
  <2>4. ASSUME NEW u \in Threads \ {t} PROVE Sound(u)'
    <3>1. Undisturbed(u)
      BY <2>1, StepIsOK DEF StepOK
    <3>2. expired'[u] = expired[u] /\ res'[u] = res[u]
      BY <2>1, LocalOnly
    <3>3. \A s \in Slots : slot[s].type = TYPE_EVENT => w0'[s].hi = w0[s].hi
      BY <2>1, ManualKept
    <3>4. QED
      BY <2>1, <2>2, <3>1, <3>2, <3>3, CountersGrow, SoundFrame
  <2>5. PoolInv'
    BY <2>1, PoolOnly, PoolStep
  <2>6. QED
    BY <1>0, <2>2, <2>3, <2>4, <2>5 DEF RInv
<1>3. QED
  BY <1>1, <1>2

-----------------------------------------------------------------------------
(* The objects, as NtSync sees them. *)

\* The handles of the objects are those that resolve.
LEMMA Live ==
    ASSUME RInv, NEW h \in Handles
    PROVE  /\ h \in LiveHandles <=> Waitable(h)
           /\ h \in LiveHandles => h.idx \in Slots /\ slot[h.idx].type \in WaitTypes
<1>0. h.idx \in Slots /\ h.gen \in Nat /\ h = [idx |-> h.idx, gen |-> h.gen]
  BY DEF Handles
<1>1. h \in LiveHandles <=> h.idx # 0 /\ slot[h.idx].used /\ slot[h.idx].gen = h.gen
  <2>1. ASSUME h \in LiveHandles
        PROVE  h.idx # 0 /\ slot[h.idx].used /\ slot[h.idx].gen = h.gen
    <3>1. PICK s \in Slots \ {0} : slot[s].used /\ h = [idx |-> s, gen |-> slot[s].gen]
      BY <2>1 DEF LiveHandles
    <3>2. h.idx = s /\ h.gen = slot[s].gen
      BY <3>1
    <3>3. QED
      BY <3>1, <3>2
  <2>2. ASSUME h.idx # 0, slot[h.idx].used, slot[h.idx].gen = h.gen
        PROVE  h \in LiveHandles
    BY <1>0, <2>2 DEF LiveHandles
  <2>3. QED
    BY <2>1, <2>2
<1>2. slot[h.idx].type = IF h.idx \in DOMAIN InitObjects
                         THEN InitObjects[h.idx].type ELSE TYPE_RESERVED
  BY <1>0 DEF RInv, InitSlot
<1>3. slot[h.idx].used <=> (h.idx = 0 \/ h.idx \in DOMAIN InitObjects)
  BY <1>0 DEF RInv, InitSlot
<1>4. h.idx \in DOMAIN InitObjects => h.idx # 0 /\ InitObjects[h.idx].type \in WaitTypes
  BY WorkloadAssumption DEF Objects
<1>5. TYPE_RESERVED \notin WaitTypes
  BY DEF TYPE_RESERVED, WaitTypes, TYPE_SEM, TYPE_MUTEX, TYPE_EVENT
<1>6. QED
  BY <1>0, <1>1, <1>2, <1>3, <1>4, <1>5 DEF Waitable, Valid

\* A slot in use has exactly one handle.
LEMMA LiveTyped ==
    ASSUME RInv
    PROVE  /\ LiveHandles \subseteq Handles
           /\ \A g, h \in LiveHandles : g.idx = h.idx => g = h
<1>1. \A h \in LiveHandles : h \in Handles /\ h = [idx |-> h.idx, gen |-> slot[h.idx].gen]
  <2>1. ASSUME NEW h \in LiveHandles
        PROVE  h \in Handles /\ h = [idx |-> h.idx, gen |-> slot[h.idx].gen]
    <3>1. PICK s \in Slots \ {0} : h = [idx |-> s, gen |-> slot[s].gen]
      BY DEF LiveHandles
    <3>2. slot[s].gen \in Nat
      BY Typed
    <3>3. QED
      BY <3>1, <3>2 DEF Handles
  <2>2. QED
    BY <2>1
<1>2. QED
  BY <1>1

\* An object of NtSync is what its word says.
LEMMA ObjAt ==
    ASSUME NEW h \in LiveHandles
    PROVE  h \in DOMAIN objB /\ objB[h] = Read(slot[h.idx].type, w0[h.idx])
  BY DEF objB

\* A handle resolves to an object of a type exactly if NtSync says so.
LEMMA IsAB ==
    ASSUME RInv, NEW h \in Handles, NEW type \in WaitTypes
    PROVE  (h \in DOMAIN objB /\ objB[h].type = type) <=> ValidOf(h, type)
<1>1. DOMAIN objB = LiveHandles
  BY DEF objB
<1>2. ASSUME h \in LiveHandles
      PROVE  objB[h].type = slot[h.idx].type
  <2>1. slot[h.idx].type \in WaitTypes
    BY <1>2, Live
  <2>2. objB[h] = Read(slot[h.idx].type, w0[h.idx])
    BY <1>2, ObjAt
  <2>3. QED
    BY <2>1, <2>2 DEF Read, WaitTypes, TYPE_SEM, TYPE_MUTEX, TYPE_EVENT
<1>3. QED
  BY <1>1, <1>2, Live DEF ValidOf, Waitable

\* No word changed, no object changed.
LEMMA ObjSame ==
    ASSUME slot' = slot, w0' = w0
    PROVE  objB' = objB
  BY DEF objB, LiveHandles

\* One word changed, one object changed.
LEMMA ObjPut ==
    ASSUME RInv, slot' = slot, NEW h \in LiveHandles, NEW w,
           w0' = [w0 EXCEPT ![h.idx] = w]
    PROVE  objB' = [objB EXCEPT ![h] = Read(slot[h.idx].type, w)]
<1>0. LiveHandles' = LiveHandles
  BY DEF LiveHandles
<1>1. \A g \in LiveHandles : g.idx \in Slots
  BY LiveTyped DEF Handles
<1>2. w0'[h.idx] = w /\ \A g \in LiveHandles : g # h => w0'[g.idx] = w0[g.idx]
  BY <1>1, LiveTyped, Typed
<1> DEFINE rd(g) == Read(slot[g.idx].type, w0'[g.idx])
           was(g) == Read(slot[g.idx].type, w0[g.idx])
           new == Read(slot[h.idx].type, w)
<1>3. objB' = [g \in LiveHandles |-> rd(g)]
  BY <1>0 DEF objB
<1>4. objB = [g \in LiveHandles |-> was(g)]
  BY DEF objB
<1>5. rd(h) = new /\ \A g \in LiveHandles : g # h => rd(g) = was(g)
  BY <1>2
<1> HIDE DEF rd, was, new
<1>6. objB' = [objB EXCEPT ![h] = new]
  BY <1>3, <1>4, <1>5
<1>7. QED
  BY <1>6 DEF new

\* The slot of an object that a wait names.
LEMMA NamedObject ==
    ASSUME RInv, NEW t \in Threads, NEW i \in 1 .. N(t), Waitable(hs(t)[i])
    PROVE  /\ hs(t)[i] \in LiveHandles /\ hs(t)[i].idx \in Slots
           /\ slot[hs(t)[i].idx].type \in WaitTypes
<1>1. hs(t)[i] \in Handles
  BY ReqType DEF RInv, WordInv, TypeInv
<1>2. QED
  BY <1>1, Live

-----------------------------------------------------------------------------
(* The initial states. *)

\* Initial states are initial states of NtSync.
LEMMA InitRefines == Promised /\ Init => Promise!Init
<1> SUFFICES ASSUME Promised, Init PROVE Promise!Init
  OBVIOUS
<1>0. RInv
  BY RInit
<1>1. objB = InitialObjects
  <2>1. LiveHandles = {[idx |-> s, gen |-> 0] : s \in DOMAIN InitObjects}
    <3>1. \A s \in Slots \ {0} : slot[s].used <=> s \in DOMAIN InitObjects
      BY DEF Init
    <3>2. \A s \in Slots : slot[s].gen = 0
      BY DEF Init
    <3>3. {s \in Slots \ {0} : slot[s].used} = DOMAIN InitObjects
      BY <3>1, WorkloadAssumption
    <3>4. QED
      BY <3>2, <3>3, WorkloadAssumption DEF LiveHandles
  <2>2. \A h \in LiveHandles : /\ h.idx \in DOMAIN InitObjects
                               /\ slot[h.idx].type = InitObjects[h.idx].type
                               /\ w0[h.idx] = InitObjects[h.idx].w
    BY <2>1, WorkloadAssumption DEF Init
  <2>3. QED
    BY <2>1, <2>2 DEF objB, InitialObjects
<1>2. \A t \in Threads : pc[t] = "idle" /\ res[t] = NoResult
  BY DEF Init
<1>3. \A t \in Threads : /\ CallOf(t) = NoReq /\ BlockedAt(t) = FALSE
                         /\ MissedAt(t) = {} /\ ReachedAt(t) = {} /\ ReleasedAt(t) = FALSE
  <2> SUFFICES ASSUME NEW t \in Threads
               PROVE  /\ CallOf(t) = NoReq /\ BlockedAt(t) = FALSE
                      /\ MissedAt(t) = {} /\ ReachedAt(t) = {} /\ ReleasedAt(t) = FALSE
    OBVIOUS
  <2>1. ~Undecided(t) /\ ~WaitUndecided(t)
    BY <1>2 DEF WaitUndecided, Undecided
  <2>2. ReleasedAt(t) = FALSE
    BY <1>2 DEF ReleasedAt
  <2>3. BlockedAt(t) = FALSE
    BY <2>1 DEF BlockedAt
  <2>4. QED
    BY <2>1, <2>2, <2>3 DEF CallOf, MissedAt, ReachedAt
<1>4. \A t \in Threads : ReplyOf(res[t]) = NoReply
  BY <1>2 DEF ReplyOf, NoResult, Result
<1>5. /\ callB = [t \in Threads |-> NoReq]
      /\ missedB = [t \in Threads |-> {}]
      /\ reachedB = [t \in Threads |-> {}]
      /\ outB = [t \in Threads |-> NoReply]
  BY <1>3, <1>4 DEF callB, missedB, reachedB, outB
<1>6. blockedB = [t \in Threads |-> FALSE]
  BY <1>3 DEF blockedB
<1>7. releasedB = [t \in Threads |-> FALSE]
  BY <1>3 DEF releasedB
<1>8. QED
  BY <1>1, <1>5, <1>6, <1>7
  DEF Promise!Init, objB, callB, blockedB, missedB, reachedB, releasedB, outB, CallOf,
      BlockedAt, MissedAt, ReachedAt, ReleasedAt, NoReply, Reply, Promise!NoReply, Promise!Reply

-----------------------------------------------------------------------------
(* Steps that NtSync does not see. *)

Silent == UNCHANGED Promise!vars

\* A thread that does nothing itself is seen as before, unless an event is
\* pulsed.
LEMMA ViewFrame ==
    ASSUME NEW u \in Threads, Undisturbed(u), slot' = slot, d' = d, res'[u] = res[u]
    PROVE  SameView(u)
<1>0. /\ pc'[u] = pc[u] /\ req'[u] = req[u] /\ cur'[u] = cur[u] /\ eseq'[u] = eseq[u]
      /\ nodes'[u] = nodes[u]
  BY DEF Undisturbed
<1>1. (Undecided(u)' <=> Undecided(u)) /\ (WaitUndecided(u)' <=> WaitUndecided(u))
  BY <1>0 DEF Undecided, WaitUndecided
<1>2. CallOf(u)' = CallOf(u)
  BY <1>0, <1>1 DEF CallOf
<1>3. BlockedAt(u)' = BlockedAt(u)
  BY <1>0, <1>1 DEF BlockedAt
<1>4. N(u)' = N(u) /\ hs(u)' = hs(u) /\ (AllValid(u)' <=> AllValid(u))
  BY <1>0, ReqSame
<1>5. MissedAt(u)' = MissedAt(u)
  <2>1. MissedBy(u)' = MissedBy(u)
    BY <1>0, <1>4 DEF MissedBy
  <2>2. QED
    BY <1>1, <2>1 DEF MissedAt
<1>6. ReachedAt(u)' = ReachedAt(u)
  <2>1. ReachedBy(u)' = ReachedBy(u)
    BY <1>0, <1>4 DEF ReachedBy
  <2>2. QED
    BY <1>1, <2>1 DEF ReachedAt
<1>7. ReleasedAt(u)' = ReleasedAt(u)
  BY <1>0 DEF ReleasedAt
<1>8. QED
  BY <1>2, <1>3, <1>5, <1>6, <1>7 DEF SameView

\* Without a pulse, a step shows nothing of the other threads.
LEMMA OthersSame ==
    ASSUME RInv, NEW t \in Threads, ThreadStep(t), slot' = slot, d' = d
    PROVE  \A u \in Threads \ {t} : SameView(u)
  BY StepIsOK, LocalOnly, ViewFrame DEF StepOK

\* The labels of a wait that is undecided and past its first validation.
OpenLabels == {"alertvalid", "alertfast", "try", "trypulse", "fastmiss", "lock", "alertchk",
               "register", "deadline"} \cup BlockLabels

\* A wait on its way is an undecided call of NtSync.
LEMMA OpenWait ==
    ASSUME RInv, NEW t \in Threads, pc[t] \in OpenLabels
    PROVE  /\ WaitUndecided(t) /\ Undecided(t)
           /\ CallOf(t) = req[t] /\ req[t].op = "wait" /\ ~req[t].all
           /\ req[t] \in Menu[t] /\ ~BadArgs(req[t])
           /\ MissedAt(t) = MissedBy(t) /\ ReachedAt(t) = ReachedBy(t)
           /\ BlockedAt(t) <=> nodes[t] > 0 \/ pc[t] \in {"alertchk", "register"}
           /\ ReachedBy(t) = {i \in 1 .. N(t) : AllValid(t) /\ Pulsed(t, i)}
<1>1. Undecided(t) /\ req[t].op = "wait" /\ ~req[t].all /\ req[t] \in Menu[t] /\ ~BadArgs(req[t])
  BY Typed
  DEF Undecided, OpenLabels, HeldLabels, BlockLabels, Sound, InCall, CallLabels, RInv, WordInv, Calm
<1>2. pc[t] # "validate"
  BY DEF OpenLabels, HeldLabels, BlockLabels
<1>3. ReachedBy(t) = {i \in 1 .. N(t) : AllValid(t) /\ Pulsed(t, i)}
  BY <1>2 DEF ReachedBy, Pulsed
<1>4. WaitUndecided(t)
  BY <1>1 DEF WaitUndecided
<1>5. QED
  BY <1>1, <1>3, <1>4 DEF CallOf, MissedAt, ReachedAt, BlockedAt

\* A wait that goes on, as it is seen after a step: RInv holds there too.
LEMMA SameWait ==
    ASSUME RInv, RInv', NEW t \in Threads, slot' = slot, d' = d,
           req'[t] = req[t], eseq'[t] = eseq[t], ReplyOf(res'[t]) = ReplyOf(res[t]),
           pc[t] \in OpenLabels, pc'[t] \in OpenLabels
    PROVE  /\ CallOf(t)' = CallOf(t) /\ ReachedAt(t)' = ReachedAt(t)
           /\ MissedAt(t)' = MissedBy(t)' /\ MissedAt(t) = MissedBy(t)
           /\ N(t)' = N(t) /\ ReleasedAt(t)' = ReleasedAt(t)
           /\ BlockedAt(t)' <=> (nodes'[t] > 0 \/ pc'[t] \in {"alertchk", "register"})
<1>1. WaitUndecided(t)' /\ Undecided(t)' /\ req[t].op = "wait"
  BY OpenWait DEF Undecided, WaitUndecided, OpenLabels, HeldLabels, BlockLabels
<1>2. CallOf(t)' = CallOf(t) /\ MissedAt(t)' = MissedBy(t)' /\ MissedAt(t) = MissedBy(t)
  BY <1>1, OpenWait DEF CallOf, MissedAt
<1>3. N(t)' = N(t) /\ (AllValid(t)' <=> AllValid(t)) /\ hs(t)' = hs(t)
  BY ReqSame
<1>4. ReachedBy(t)' = ReachedBy(t)
  <2>1. pc[t] # "validate" /\ pc'[t] # "validate"
    BY DEF OpenLabels, HeldLabels, BlockLabels
  <2>2. QED
    BY <1>3, <2>1 DEF ReachedBy
<1>5. ReleasedAt(t)' = ReleasedAt(t)
  BY DEF ReleasedAt, OpenLabels, BlockLabels
<1>6. QED
  BY <1>1, <1>2, <1>3, <1>4, <1>5, OpenWait DEF ReachedAt, BlockedAt

\* A step that is not seen at all.
LEMMA SilentWait ==
    ASSUME RInv, RInv', NEW t \in Threads, ThreadStep(t), slot' = slot, d' = d, w0' = w0,
           req'[t] = req[t], eseq'[t] = eseq[t], ReplyOf(res'[t]) = ReplyOf(res[t]),
           pc[t] \in OpenLabels, pc'[t] \in OpenLabels,
           MissedBy(t)' = MissedBy(t),
           (nodes'[t] > 0 \/ pc'[t] \in {"alertchk", "register"})
              <=> (nodes[t] > 0 \/ pc[t] \in {"alertchk", "register"})
    PROVE  Silent
<1>1. BlockedAt(t)' <=> BlockedAt(t)
  BY SameWait, OpenWait
<1>2. BlockedAt(t)' = BlockedAt(t)
  BY <1>1 DEF BlockedAt
<1>3. SameView(t)
  BY <1>2, SameWait DEF SameView
<1>4. QED
  BY <1>3, OthersSame, ObjSame, Stutter DEF Silent

\* Nothing is counted as missed outside a pass over the objects.
QuietLabels == {"alertvalid", "alertfast", "lock", "alertchk", "register"} \cup BlockLabels

\* Outside of a pass nothing counts as missed.
LEMMA NoneMissed ==
    ASSUME NEW t \in Threads, pc[t] \in QuietLabels \/ (pc[t] = "try" /\ cur[t] = 1)
    PROVE  MissedBy(t) = {}
  BY DEF MissedBy, QuietLabels, BlockLabels

LEMMA NoneMissedNext ==
    ASSUME NEW t \in Threads, pc'[t] \in QuietLabels \/ (pc'[t] = "try" /\ cur'[t] = 1)
    PROVE  MissedBy(t)' = {}
  BY DEF MissedBy, QuietLabels, BlockLabels

\* A step of a wait between two passes is invisible.
LEMMA SilentMove ==
    ASSUME RInv, RInv', NEW t \in Threads, ThreadStep(t),
           slot' = slot, d' = d, w0' = w0,
           req'[t] = req[t], eseq'[t] = eseq[t], res' = res,
           pc[t] \in QuietLabels,
           pc'[t] \in QuietLabels \/ (pc'[t] = "try" /\ cur'[t] = 1),
           (nodes'[t] > 0 \/ pc'[t] \in {"alertchk", "register"})
              <=> (nodes[t] > 0 \/ pc[t] \in {"alertchk", "register"})
    PROVE  Silent
<1>1. pc[t] \in OpenLabels /\ pc'[t] \in OpenLabels
  BY DEF QuietLabels, OpenLabels, HeldLabels
<1>2. QED
  BY <1>1, NoneMissed, NoneMissedNext, SilentWait

\* The sleep and the spin.
LEMMA BlockSilent ==
    ASSUME RInv, RInv', NEW t \in Threads, slot' = slot,
           \/ SpinAlert(t) /\ pc'[t] = "peek" /\ res' = res
           \/ Peek(t) \/ SpinMiss(t) \/ Wake(t) \/ Interrupt(t) \/ TailDone(t) \/ Awake(t)
    PROVE  Silent
<1>0. /\ ThreadStep(t) /\ UNCHANGED <<w0, d, req, eseq, cur, nodes>> /\ pc[t] \in BlockLabels
      /\ res' = res
  BY DEF SpinAlert, Peek, SpinMiss, Wake, Interrupt, TailDone, Awake, shared, BlockLabels,
         ThreadStep, Step, WaitStep
<1>1. cur[t] = 1 /\ nodes[t] > 0
  BY <1>0, Typed DEF ThreadOK, TryOK, HoldOK, BlockLabels
<1>2. pc'[t] \in {"peek", "try", "lock"} \cup BlockLabels
  <2>1. CASE SpinMiss(t)
    BY <2>1, Typed DEF SpinMiss, Goto, SleepLabels, BlockLabels
  <2>2. CASE Peek(t) \/ Wake(t) \/ Interrupt(t) \/ TailDone(t) \/ Awake(t)
    BY <2>2, Typed DEF Peek, Wake, Interrupt, TailDone, Awake, Goto, BlockLabels
  <2>3. QED
    BY <2>1, <2>2
<1>3. pc'[t] \in QuietLabels \/ (pc'[t] = "try" /\ cur'[t] = 1)
  BY <1>0, <1>1, <1>2 DEF QuietLabels, BlockLabels
<1>4. pc[t] \in QuietLabels
  BY <1>0 DEF QuietLabels
<1>5. QED
  BY <1>0, <1>1, <1>3, <1>4, SilentMove

\* Steps of a signaler after its effect, and of a waiter that cleans up.
LEMMA AfterSilent ==
    ASSUME RInv, NEW t \in Threads, slot' = slot,
           ReadHead(t) \/ Walk(t) \/ Cleanup(t)
    PROVE  Silent
<1>0. ThreadStep(t) /\ UNCHANGED <<w0, d>>
  BY DEF ReadHead, Walk, Cleanup, shared, ThreadStep, Step, SignalStep, WaitStep
<1>1. ~Undecided(t)
  BY DEF ReadHead, Walk, Cleanup, Undecided
<1>2. ~Undecided(t)' /\ res'[t] = res[t]
  <2>1. CASE Return(t, res[t])
    BY <2>1, Typed DEF Return, Undecided
  <2>2. CASE Goto(t, "walk") /\ UNCHANGED res
    BY <2>2, Typed DEF Goto, Undecided
  <2>3. QED
    BY <2>1, <2>2 DEF ReadHead, Walk, Cleanup
<1>3. SameView(t)
  <2>1. ReleasedAt(t) = FALSE /\ ReleasedAt(t)' = FALSE
    BY <1>1, <1>2 DEF ReleasedAt, Undecided
  <2>2. QED
    BY <1>1, <1>2, <2>1 DEF SameView, CallOf, BlockedAt, MissedAt, ReachedAt, WaitUndecided
<1>4. QED
  BY <1>0, <1>3, OthersSame, ObjSame, Stutter DEF Silent

\* A handle that resolves, and time.
LEMMA ResolveSilent ==
    ASSUME RInv, NEW t \in Threads, slot' = slot,
           Resolve(t) /\ pc'[t] = "cas" /\ res' = res /\ req' = req
    PROVE  Silent
<1>0. ThreadStep(t) /\ UNCHANGED <<w0, d>> /\ pc[t] = "resolve"
  BY DEF Resolve, shared, ThreadStep, Step, SignalStep
<1>1. req[t].op \in SignalOps
  BY <1>0, Typed DEF ThreadOK, CallOK
<1>2. ~WaitUndecided(t) /\ ~WaitUndecided(t)'
  BY <1>1 DEF WaitUndecided, SignalOps
<1>3. CallOf(t)' = CallOf(t)
  BY <1>0 DEF CallOf, Undecided
<1>4. SameView(t)
  <2>1. ReleasedAt(t) = FALSE /\ ReleasedAt(t)' = FALSE
    BY <1>0 DEF ReleasedAt
  <2>2. QED
    BY <1>2, <1>3, <2>1 DEF SameView, BlockedAt, MissedAt, ReachedAt
<1>5. QED
  BY <1>0, <1>4, OthersSame, ObjSame, Stutter DEF Silent

\* That a deadline passes is invisible until the wait looks.
LEMMA ExpireSilent ==
    ASSUME RInv, NEW t \in Threads, Expire(t)
    PROVE  Silent
<1>0. UNCHANGED <<slot, w0, d, lock, pc, req, cur, eseq, acq, nodes, spin, res>>
  BY DEF Expire, shared
<1>1. \A u \in Threads : Undisturbed(u)
  BY <1>0 DEF Undisturbed
<1>2. \A u \in Threads : SameView(u)
  BY <1>0, <1>1, ViewFrame
<1>3. QED
  BY <1>0, <1>2, ObjSame, Stutter DEF Silent

\* The validation of the fast path: the counter of the handle it has come to
\* is sampled at that moment, so no pulse has reached the wait through it yet.
LEMMA ValidateSilent ==
    ASSUME RInv, NEW t \in Threads, slot' = slot, FastValidate(t)
    PROVE  Silent
<1> DEFINE i == cur[t]
           h == hs(t)[i]
           good == Waitable(h)
           last == i = N(t)
<1>0. /\ ThreadStep(t) /\ UNCHANGED <<w0, d, req, nodes, res>> /\ pc[t] = "validate"
  BY DEF FastValidate, shared, ThreadStep, Step, WaitStep
<1>1. /\ nodes[t] = 0 /\ i \in 1 .. N(t) /\ N(t) \in Nat
      /\ Len(eseq[t]) = N(t) /\ eseq[t] \in Seq(Nat) /\ req[t].op = "wait"
  <2>1. TypeOK
    BY DEF RInv, WordInv, TypeInv
  <2>2. QED
    BY <1>0, <2>1, ReqType, Typed
    DEF ThreadOK, CallOK, HoldOK, TryOK, CallLabels, FastLabels, Sound, InCall
<1>2. \/ ~good /\ pc'[t] = "lock" /\ cur'[t] = 1
      \/ good /\ ~last /\ pc'[t] = "validate" /\ cur'[t] = i + 1
      \/ good /\ last /\ ~HasAlert(t) /\ pc'[t] = "try" /\ cur'[t] = 1
      \/ good /\ last /\ HasAlert(t) /\ pc'[t] = "alertvalid" /\ cur'[t] = 1
  <2>1. cur'[t] = IF good /\ ~last THEN i + 1 ELSE 1
    BY Typed DEF FastValidate
  <2>2. pc'[t] = CASE ~good -> "lock"
                   [] good /\ ~last -> "validate"
                   [] good /\ last /\ ~HasAlert(t) -> "try"
                   [] good /\ last /\ HasAlert(t) -> "alertvalid"
    BY Typed DEF FastValidate, Goto
  <2>3. QED
    BY <2>1, <2>2
<1>3. WaitUndecided(t) /\ WaitUndecided(t)' /\ Undecided(t) /\ Undecided(t)'
  BY <1>0, <1>1, <1>2 DEF WaitUndecided, Undecided
<1>4. CallOf(t)' = CallOf(t)
  BY <1>0, <1>3 DEF CallOf
<1>5. BlockedAt(t)' = BlockedAt(t)
  <2>1. BlockedAt(t)' = FALSE /\ BlockedAt(t) = FALSE
    BY <1>0, <1>1, <1>2 DEF BlockedAt
  <2>2. QED
    BY <2>1
<1>6. MissedAt(t)' = MissedAt(t)
  <2>1. MissedBy(t) = {} /\ MissedBy(t)' = {}
    BY <1>0, <1>2 DEF MissedBy
  <2>2. QED
    BY <1>3, <2>1 DEF MissedAt
<1>7. ReachedAt(t)' = ReachedAt(t)
  <2>0. N(t)' = N(t) /\ hs(t)' = hs(t) /\ (AllValid(t)' <=> AllValid(t))
    BY <1>0, ReqSame
  <2>1. \A k \in 1 .. N(t) :
          k # i \/ slot[h.idx].type # TYPE_EVENT => eseq'[t][k] = eseq[t][k]
    <3>1. CASE good /\ slot[h.idx].type = TYPE_EVENT
      <4>1. eseq' = [eseq EXCEPT ![t] = [eseq[t] EXCEPT ![i] = d[h.idx]]]
        BY <3>1 DEF FastValidate
      <4>2. eseq'[t] = [eseq[t] EXCEPT ![i] = d[h.idx]]
        BY <4>1, Typed
      <4>3. QED
        BY <1>1, <3>1, <4>2
    <3>2. CASE ~(good /\ slot[h.idx].type = TYPE_EVENT)
      BY <3>2 DEF FastValidate
    <3>3. QED
      BY <3>1, <3>2
  <2>2. good /\ slot[h.idx].type = TYPE_EVENT => eseq'[t][i] = d[h.idx]
    <3>1. ASSUME good, slot[h.idx].type = TYPE_EVENT PROVE eseq'[t][i] = d[h.idx]
      <4>1. eseq' = [eseq EXCEPT ![t] = [eseq[t] EXCEPT ![i] = d[h.idx]]]
        BY <3>1 DEF FastValidate
      <4>2. eseq'[t] = [eseq[t] EXCEPT ![i] = d[h.idx]]
        BY <4>1, Typed
      <4>3. QED
        BY <1>1, <4>2
    <3>2. QED
      BY <3>1
  <2>3. CASE ~good
    <3>1. ~AllValid(t)
      BY <1>1, <2>3 DEF AllValid
    <3>2. ReachedBy(t) = {} /\ ReachedBy(t)' = {}
      BY <2>0, <3>1 DEF ReachedBy
    <3>3. QED
      BY <1>3, <3>2 DEF ReachedAt
  <2>4. CASE good
    <3>1. ASSUME NEW k \in 1 .. N(t)
          PROVE  k \in ReachedBy(t)' <=> k \in ReachedBy(t)
      <4>1. k \in ReachedBy(t) <=>
              /\ AllValid(t) /\ slot[hs(t)[k].idx].type = TYPE_EVENT
              /\ k < i /\ d[hs(t)[k].idx] # eseq[t][k]
        BY <1>0 DEF ReachedBy
      <4>2. k \in ReachedBy(t)' <=>
              /\ AllValid(t) /\ slot[hs(t)[k].idx].type = TYPE_EVENT
              /\ pc'[t] = "validate" => k < cur'[t]
              /\ d[hs(t)[k].idx] # eseq'[t][k]
        BY <1>0, <2>0 DEF ReachedBy
      <4>3. (pc'[t] = "validate" => k < cur'[t]) <=> k <= i
        BY <1>1, <1>2, <2>4
      <4>4. QED
        BY <1>1, <2>1, <2>2, <2>4, <4>1, <4>2, <4>3
    <3>2. ReachedBy(t)' \subseteq 1 .. N(t) /\ ReachedBy(t) \subseteq 1 .. N(t)
      BY <2>0 DEF ReachedBy
    <3>3. QED
      BY <1>3, <3>1, <3>2 DEF ReachedAt
  <2>5. QED
    BY <2>3, <2>4
<1>8. SameView(t)
  <2>1. ReleasedAt(t) = FALSE /\ ReleasedAt(t)' = FALSE
    BY <1>0, <1>2 DEF ReleasedAt
  <2>2. QED
    BY <1>0, <1>4, <1>5, <1>6, <1>7, <2>1 DEF SameView
<1>9. QED
  BY <1>0, <1>8, OthersSame, ObjSame, Stutter DEF Silent

-----------------------------------------------------------------------------
(* The actions of NtSync, in terms of the mapped state. *)

LEMMA RefuseB ==
    ASSUME NEW t \in Threads, callB[t] = NoReq,
           \E r \in Menu[t] : BadArgs(r), Promise!Done(t, Error(-EINVAL))
    PROVE  Promise!Next
<1>1. \E r \in Menu[t] : Promise!Malformed(r)
  BY DEF BadArgs, Promise!Malformed
<1>2. Promise!Refuse(t)
  BY <1>1 DEF Promise!Refuse, callB, CallOf, Error, Reply, EINVAL, Promise!Error,
              Promise!Reply, Promise!EINVAL
<1>3. QED
  BY <1>2 DEF Promise!Next

LEMMA CallB ==
    ASSUME NEW t \in Threads, callB[t] = NoReq, NEW r \in Menu[t], ~BadArgs(r),
           callB' = [callB EXCEPT ![t] = r], outB' = [outB EXCEPT ![t] = NoReply],
           UNCHANGED <<objB, blockedB, missedB, reachedB, releasedB>>
    PROVE  Promise!Next
<1>1. ~Promise!Malformed(r)
  BY DEF BadArgs, Promise!Malformed
<1>2. Promise!Call(t)
  BY <1>1 DEF Promise!Call, objB, callB, blockedB, missedB, reachedB, releasedB, outB, CallOf,
              BlockedAt, MissedAt, ReachedAt, ReleasedAt, NoReply, Reply, Promise!NoReply, Promise!Reply
<1>3. QED
  BY <1>2 DEF Promise!Next

LEMMA OperationB ==
    ASSUME NEW t \in Threads, Promise!Operation(t)
    PROVE  Promise!Next
  BY DEF Promise!Next

LEMMA WaitB ==
    ASSUME NEW t \in Threads, Promise!Wait(t)
    PROVE  Promise!Next
  BY DEF Promise!Next

LEMMA SemB ==
    ASSUME NEW t \in Threads, NEW r, NEW o, callB[t] = r, objB[r.h] = o,
           r.op = "sem_release", r.h \in DOMAIN objB, o.type = "sem",
           IF o.count + r.n > o.max
           THEN Promise!Done(t, Error(-EOVERFLOW))
           ELSE Promise!Change(t, r.h,
                               [type |-> "sem", count |-> o.count + r.n, max |-> o.max],
                               Reply(0, o.count))
    PROVE  Promise!Next
<1>1. Promise!sem_release(t)
  BY DEF Promise!sem_release, Promise!IsA, Promise!Sem, objB, callB, CallOf, Error, Reply,
         EOVERFLOW, Promise!Error, Promise!Reply, Promise!EOVERFLOW
<1>2. QED
  BY <1>1, OperationB DEF Promise!Operation

LEMMA UnlockB ==
    ASSUME NEW t \in Threads, NEW r, NEW o, callB[t] = r, objB[r.h] = o,
           r.op = "mutex_unlock", r.h \in DOMAIN objB, o.type = "mutex", r.n # 0,
           IF o.owner # r.n
           THEN Promise!Done(t, Error(-EPERM))
           ELSE Promise!Change(t, r.h,
                               [type |-> "mutex",
                                owner |-> IF o.count = 1 THEN 0 ELSE o.owner,
                                count |-> o.count - 1, abandoned |-> FALSE],
                               Reply(0, o.count))
    PROVE  Promise!Next
<1>1. Promise!mutex_unlock(t)
  BY DEF Promise!mutex_unlock, Promise!IsA, Promise!Mutex, objB, callB, CallOf, Error, Reply,
         EPERM, Promise!Error, Promise!Reply, Promise!EPERM
<1>2. QED
  BY <1>1, OperationB DEF Promise!Operation

LEMMA KillB ==
    ASSUME NEW t \in Threads, NEW r, NEW o, callB[t] = r, objB[r.h] = o,
           r.op = "mutex_kill", r.h \in DOMAIN objB, o.type = "mutex", r.n # 0,
           IF o.owner # r.n
           THEN Promise!Done(t, Error(-EPERM))
           ELSE Promise!Change(t, r.h,
                               [type |-> "mutex", owner |-> 0, count |-> 0, abandoned |-> TRUE],
                               Reply(0, 0))
    PROVE  Promise!Next
<1>1. Promise!mutex_kill(t)
  BY DEF Promise!mutex_kill, Promise!IsA, Promise!Mutex, objB, callB, CallOf, Error, Reply,
         EPERM, Promise!Error, Promise!Reply, Promise!EPERM
<1>2. QED
  BY <1>1, OperationB DEF Promise!Operation

LEMMA SetB ==
    ASSUME NEW t \in Threads, NEW r, NEW o, callB[t] = r, objB[r.h] = o,
           r.op = "event_set", r.h \in DOMAIN objB, o.type = "event",
           Promise!Change(t, r.h,
                          [type |-> "event", signaled |-> TRUE, manual |-> o.manual],
                          Reply(0, IF o.signaled THEN 1 ELSE 0))
    PROVE  Promise!Next
<1>1. Promise!event_set(t)
  BY DEF Promise!event_set, Promise!IsA, Promise!Event, Promise!Flag, objB, callB, CallOf,
         Reply, Promise!Reply
<1>2. QED
  BY <1>1, OperationB DEF Promise!Operation

LEMMA ResetB ==
    ASSUME NEW t \in Threads, NEW r, NEW o, callB[t] = r, objB[r.h] = o,
           r.op = "event_reset", r.h \in DOMAIN objB, o.type = "event",
           Promise!Change(t, r.h,
                          [type |-> "event", signaled |-> FALSE, manual |-> o.manual],
                          Reply(0, IF o.signaled THEN 1 ELSE 0))
    PROVE  Promise!Next
<1>1. Promise!event_reset(t)
  BY DEF Promise!event_reset, Promise!IsA, Promise!Event, Promise!Flag, objB, callB, CallOf,
         Reply, Promise!Reply
<1>2. QED
  BY <1>1, OperationB DEF Promise!Operation

\* The kinds of refusal after the call has begun.
BadHandle(r) ==
    \/ r.op = "sem_release" /\ ~(r.h \in DOMAIN objB /\ objB[r.h].type = "sem")
    \/ /\ r.op \in {"mutex_unlock", "mutex_kill"}
       /\ r.n = 0 \/ ~(r.h \in DOMAIN objB /\ objB[r.h].type = "mutex")
    \/ /\ r.op \in {"event_set", "event_reset", "event_pulse"}
       /\ ~(r.h \in DOMAIN objB /\ objB[r.h].type = "event")
    \/ /\ r.op = "wait"
       /\ \/ \E i \in 1 .. Len(r.hs) : r.hs[i] \notin DOMAIN objB
          \/ /\ r.alert # NoHandle
             /\ ~(r.alert \in DOMAIN objB /\ objB[r.alert].type = "event")

\* A signal operation on a handle that names no object of its type.
LEMMA InvalidB ==
    ASSUME NEW t \in Threads, NEW r, callB[t] = r, BadHandle(r),
           Promise!Done(t, Error(-EINVAL))
    PROVE  Promise!Next
<1>1. Promise!Invalid(t)
  BY DEF Promise!Invalid, Promise!IsA, BadHandle, objB, callB, CallOf, Error, Reply, EINVAL,
         Promise!Error, Promise!Reply, Promise!EINVAL
<1>2. QED
  BY <1>1, OperationB DEF Promise!Operation

\* A wait-any is under way.
OpenB(t, r) == callB[t] = r /\ r.op = "wait" /\ ~r.all

CanTakeB(t, o) ==
    CASE o.type = "sem"   -> o.count > 0
      [] o.type = "mutex" -> o.owner \in {0, t} /\ o.count < MaxRec
      [] o.type = "event" -> o.signaled

TakenB(t, o) ==
    CASE o.type = "sem"   -> [type |-> "sem", count |-> o.count - 1, max |-> o.max]
      [] o.type = "mutex" -> [type |-> "mutex", owner |-> t, count |-> o.count + 1,
                              abandoned |-> FALSE]
      [] o.type = "event" -> [type |-> "event", signaled |-> o.manual, manual |-> o.manual]

\* A wait that NtSync has open.
LEMMA OpenIs ==
    ASSUME NEW t \in Threads, NEW r, OpenB(t, r)
    PROVE  Promise!Waiting(t)
  BY DEF OpenB, Promise!Waiting, callB, CallOf

\* The wait takes the first object that it can have.
LEMMA TakeB ==
    ASSUME NEW t \in Threads, NEW r, OpenB(t, r), NEW i \in 1 .. Len(r.hs), NEW o,
           r.hs[i] \in DOMAIN objB, objB[r.hs[i]] = o,
           1 .. i - 1 \subseteq missedB[t], CanTakeB(t, o),
           Promise!Change(t, r.hs[i], TakenB(t, o),
                          Reply(IF o.type = "mutex" /\ o.abandoned
                                THEN -EOWNERDEAD ELSE 0, i - 1))
    PROVE  Promise!Next
<1>1. Promise!CanTake(t, o) /\ Promise!Taken(t, o) = TakenB(t, o)
  BY DEF CanTakeB, TakenB, Promise!CanTake, Promise!Taken, Promise!Sem, Promise!Mutex,
         Promise!Event
<1>2. Promise!Take(t)
  <2>1. Promise!Waiting(t)
    BY OpenIs
  <2>2. callB[t].hs = r.hs
    BY DEF OpenB
  <2>3. Promise!Abandoned(o) <=> o.type = "mutex" /\ o.abandoned
    BY DEF Promise!Abandoned
  <2>4. Promise!Change(t, r.hs[i], Promise!Taken(t, o),
          Promise!Reply(IF Promise!Abandoned(o) THEN -Promise!EOWNERDEAD ELSE 0, i - 1))
    BY <1>1, <2>3 DEF Reply, Promise!Reply, EOWNERDEAD, Promise!EOWNERDEAD
  <2>5. QED
    BY <1>1, <2>1, <2>2, <2>4 DEF Promise!Take, objB, callB, missedB, CallOf, MissedAt
<1>3. QED
  BY <1>2, WaitB DEF Promise!Wait

\* The wait is let go by a pulse.
LEMMA TakePulseB ==
    ASSUME NEW t \in Threads, NEW r, OpenB(t, r), NEW i \in 1 .. Len(r.hs),
           r.hs[i] \in DOMAIN objB, 1 .. i - 1 \subseteq missedB[t], i \in reachedB[t],
           Promise!Done(t, Reply(0, i - 1))
    PROVE  Promise!Next
<1>1. Promise!Take(t)
  <2>1. Promise!Waiting(t)
    BY OpenIs
  <2>2. callB[t].hs = r.hs
    BY DEF OpenB
  <2>3. Promise!Done(t, Promise!Reply(0, i - 1))
    BY DEF Reply, Promise!Reply
  <2>4. QED
    BY <2>1, <2>2, <2>3
    DEF Promise!Take, objB, callB, missedB, reachedB, CallOf, MissedAt, ReachedAt
<1>2. QED
  BY <1>1, WaitB DEF Promise!Wait

\* Only what the wait has missed changes.
OnlyMissed(t, m) ==
    /\ missedB' = [missedB EXCEPT ![t] = m]
    /\ UNCHANGED <<objB, callB, blockedB, reachedB, releasedB, outB>>

\* The wait finds one more object unavailable.
LEMMA MissB ==
    ASSUME NEW t \in Threads, NEW r, OpenB(t, r), NEW i \in 1 .. Len(r.hs), NEW o,
           r.hs[i] \in DOMAIN objB, objB[r.hs[i]] = o,
           o.type \in {"sem", "mutex", "event"}, ~CanTakeB(t, o),
           OnlyMissed(t, missedB[t] \cup {i})
    PROVE  Promise!Next
<1>1. ~Promise!CanTake(t, o)
  BY DEF CanTakeB, Promise!CanTake
<1>2. Promise!Miss(t)
  <2>1. Promise!Waiting(t)
    BY OpenIs
  <2>2. callB[t].hs = r.hs
    BY DEF OpenB
  <2>3. QED
    BY <1>1, <2>1, <2>2
    DEF Promise!Miss, OnlyMissed, objB, callB, blockedB, missedB, reachedB, releasedB, outB,
        CallOf, BlockedAt, MissedAt, ReachedAt, ReleasedAt
<1>3. QED
  BY <1>2, WaitB DEF Promise!Wait

\* The wait starts over with its first object.
LEMMA AgainB ==
    ASSUME NEW t \in Threads, NEW r, OpenB(t, r), OnlyMissed(t, {})
    PROVE  Promise!Next
<1>1. Promise!Waiting(t)
  BY OpenIs
<1>2. Promise!Again(t)
  BY <1>1 DEF Promise!Again, OnlyMissed, objB, callB, blockedB, missedB, reachedB, releasedB,
              outB, CallOf, BlockedAt, MissedAt, ReachedAt, ReleasedAt
<1>3. QED
  BY <1>2, WaitB DEF Promise!Wait

\* The wait blocks; pulses reach it from now on.
LEMMA BlockB ==
    ASSUME NEW t \in Threads, NEW r, OpenB(t, r), blockedB[t] = FALSE, r.timeout # "zero",
           blockedB' = [blockedB EXCEPT ![t] = TRUE],
           missedB' = [missedB EXCEPT ![t] = {}],
           reachedB' = [reachedB EXCEPT ![t] = {}],
           UNCHANGED <<objB, callB, releasedB, outB>>
    PROVE  Promise!Next
<1>1. Promise!Block(t)
  BY DEF OpenB, Promise!Block, objB, callB, blockedB, missedB, reachedB, releasedB, outB,
         CallOf, BlockedAt, MissedAt, ReachedAt, ReleasedAt
<1>2. QED
  BY <1>1, WaitB DEF Promise!Wait

\* The wait gives up after a pass without success.
LEMMA TimeOutB ==
    ASSUME NEW t \in Threads, NEW r, OpenB(t, r), r.timeout # "inf",
           missedB[t] = 1 .. Len(r.hs), blockedB[t] = FALSE \/ reachedB[t] = {},
           Promise!Done(t, Error(-ETIMEDOUT))
    PROVE  Promise!Next
<1>1. Promise!Waiting(t)
  BY OpenIs
<1>2. Promise!Done(t, Promise!Error(-Promise!ETIMEDOUT))
  BY DEF Error, Reply, ETIMEDOUT, Promise!Error, Promise!Reply, Promise!ETIMEDOUT
<1>3. Promise!TimeOut(t)
  BY <1>1, <1>2 DEF OpenB, Promise!TimeOut, callB, blockedB, missedB, reachedB,
              CallOf, BlockedAt, MissedAt, ReachedAt
<1>4. QED
  BY <1>3, WaitB DEF Promise!Wait

\* The wait is ended by its alert event.
LEMMA AlertB ==
    ASSUME NEW t \in Threads, NEW r, OpenB(t, r), r.alert # NoHandle, NEW o,
           r.alert \in DOMAIN objB, objB[r.alert] = o, o.type = "event", o.signaled,
           Promise!Done(t, Reply(0, Len(r.hs)))
    PROVE  Promise!Next
<1>1. Promise!Waiting(t)
  BY OpenIs
<1>2. Promise!Done(t, Promise!Reply(0, Len(r.hs)))
  BY DEF Reply, Promise!Reply
<1>3. Promise!Alert(t)
  BY <1>1, <1>2 DEF OpenB, Promise!Alert, Promise!IsA, objB, callB, CallOf
<1>4. QED
  BY <1>3, WaitB DEF Promise!Wait

\* The wait is refused because the nodes have run out.
LEMMA ExhaustedB ==
    ASSUME NEW t \in Threads, NEW r, OpenB(t, r), blockedB[t] = TRUE,
           ~(NodeCount >= Cardinality(Threads) * (MaxWaitCount + 1)),
           Promise!Done(t, Error(-EINVAL))
    PROVE  Promise!Next
<1>1. Promise!Waiting(t)
  BY OpenIs
<1>2. Promise!Done(t, Promise!Error(-Promise!EINVAL))
  BY DEF Error, Reply, EINVAL, Promise!Error, Promise!Reply, Promise!EINVAL
<1>3. Promise!Exhausted(t)
  BY <1>1, <1>2 DEF Promise!Exhausted, blockedB, BlockedAt
<1>4. QED
  BY <1>3, WaitB DEF Promise!Wait

-----------------------------------------------------------------------------
(* Steps of WaitEngine that NtSync sees: the shapes they have. *)

\* The call of t is over and no object has changed ...
LEMMA FinishDone ==
    ASSUME RInv, NEW t \in Threads, ThreadStep(t), slot' = slot, d' = d, w0' = w0,
           NEW reply, ~Undecided(t)', ReplyOf(res'[t]) = reply
    PROVE  Promise!Done(t, reply)
<1>1. \A u \in Threads \ {t} : SameView(u)
  BY OthersSame
<1>2. Ended(t, reply) /\ reachedB' = [reachedB EXCEPT ![t] = {}]
  BY <1>1, EndedOK
<1>3. QED
  BY <1>2, ObjSame, DoneB

\* ... or one has.
LEMMA FinishChange ==
    ASSUME RInv, NEW t \in Threads, ThreadStep(t), slot' = slot, d' = d,
           NEW h \in LiveHandles, NEW w, w0' = [w0 EXCEPT ![h.idx] = w],
           NEW reply, ~Undecided(t)', ReplyOf(res'[t]) = reply
    PROVE  Promise!Change(t, h, Read(slot[h.idx].type, w), reply)
<1>1. \A u \in Threads \ {t} : SameView(u)
  BY OthersSame
<1>2. Ended(t, reply) /\ reachedB' = [reachedB EXCEPT ![t] = {}]
  BY <1>1, EndedOK
<1>3. objB' = [objB EXCEPT ![h] = Read(slot[h.idx].type, w)]
  BY ObjPut
<1>4. QED
  BY <1>2, <1>3, ChangeB

\* The wait of t goes on with other handles missed.
LEMMA MissedUpdate ==
    ASSUME RInv, NEW t \in Threads, ThreadStep(t), slot' = slot, d' = d, w0' = w0,
           CallOf(t)' = CallOf(t), BlockedAt(t)' = BlockedAt(t), ReachedAt(t)' = ReachedAt(t),
           ReleasedAt(t)' = ReleasedAt(t), ReplyOf(res'[t]) = ReplyOf(res[t]),
           NEW m, MissedAt(t)' = m
    PROVE  OnlyMissed(t, m)
<1>1. \A u \in Threads \ {t} : SameView(u)
  BY OthersSame
<1>2. callB' = callB
  BY <1>1 DEF callB, SameView
<1>3. blockedB' = blockedB
  BY <1>1 DEF blockedB, SameView
<1>4. reachedB' = reachedB
  BY <1>1 DEF reachedB, SameView
<1>5. outB' = outB
  BY <1>1 DEF outB, SameView
<1>6. missedB' = [missedB EXCEPT ![t] = m]
  BY <1>1 DEF missedB, SameView
<1>7. releasedB' = releasedB
  BY <1>1 DEF releasedB, SameView
<1>8. QED
  BY <1>2, <1>3, <1>4, <1>5, <1>6, <1>7, ObjSame DEF OnlyMissed

\* What the caller is told.
LEMMA Replies ==
    /\ ReplyOf(Invalid) = Error(-EINVAL)
    /\ ReplyOf(Timeout) = Error(-ETIMEDOUT)
    /\ \A n : ReplyOf(Result("ok", n, FALSE)) = Reply(0, n)
    /\ \A n : ReplyOf(Result("Perm", n, FALSE)) = Error(-EPERM)
    /\ \A n : ReplyOf(Result("Overflow", n, FALSE)) = Error(-EOVERFLOW)
    /\ \A n : \A od \in BOOLEAN :
         ReplyOf(Signaled(n, od)) = Reply(IF od THEN -EOWNERDEAD ELSE 0, n)
  BY DEF ReplyOf, Invalid, Timeout, Signaled, Result, OpReply, WaitReply, WaitCode, errno

\* A return ends the call, with the result it is given.
LEMMA ReturnEnds ==
    ASSUME RInv, NEW t \in Threads, NEW r, Return(t, r)
    PROVE  ~Undecided(t)' /\ res'[t] = r
  BY Typed DEF Return, Undecided

\* A decision decides the call.
LEMMA DecideEnds ==
    ASSUME RInv, NEW t \in Threads, NEW r, Decide(t, r)
    PROVE  ~Undecided(t)' /\ res'[t] = r
<1>1. CASE Owes(t)
  BY <1>1, Typed DEF Decide, Undecided
<1>2. CASE ~Owes(t)
  BY <1>2, ReturnEnds DEF Decide
<1>3. QED
  BY <1>1, <1>2

\* A wait whose arguments are refused.
LEMMA RefuseSim ==
    ASSUME RInv, NEW t \in Threads, Refuse(t)
    PROVE  Promise!Next
<1>1. ThreadStep(t) /\ slot' = slot /\ d' = d /\ w0' = w0 /\ pc[t] = "idle"
      /\ (\E r \in Menu[t] : BadArgs(r)) /\ pc' = pc
  BY DEF ThreadStep, Refuse, shared
<1>2. ~Undecided(t)' /\ res'[t] = Invalid
  BY <1>1, Typed DEF Undecided, Refuse
<1>3. Promise!Done(t, Error(-EINVAL))
  BY <1>1, <1>2, Replies, FinishDone
<1>4. callB[t] = NoReq
  BY <1>1, ThreadB DEF CallOf, Undecided
<1>5. QED
  BY <1>1, <1>3, <1>4, RefuseB

\* A call begins.
LEMMA BeginSim ==
    ASSUME RInv, NEW t \in Threads, Begin(t)
    PROVE  Promise!Next
<1>0. /\ ThreadStep(t) /\ slot' = slot /\ d' = d /\ w0' = w0 /\ pc[t] = "idle"
      /\ nodes' = nodes /\ cur' = cur
  BY DEF ThreadStep, Begin, shared
<1>1. PICK r \in Menu[t] :
        /\ ~BadArgs(r)
        /\ req' = [req EXCEPT ![t] = r]
        /\ Goto(t, CASE r.op \in SignalOps -> "resolve"
                     [] r.op \in LockedOps -> "locked"
                     [] r.op = "wait"      -> "validate")
        /\ res' = [res EXCEPT ![t] = NoResult]
  BY DEF Begin
<1>2. r.op \in SignalOps \cup LockedOps \cup {"wait"}
  BY WorkloadAssumption DEF Requests, Ops
<1>3. /\ req'[t] = r /\ res'[t] = NoResult
      /\ pc'[t] \in {"resolve", "locked", "validate"}
      /\ r.op = "wait" => pc'[t] = "validate"
  BY <1>1, <1>2, Typed DEF Goto, SignalOps, LockedOps
<1>4. nodes[t] = 0 /\ cur[t] = 1
  BY <1>0, Typed DEF ThreadOK, HoldOK, TryOK, CallLabels
<1>5. CallOf(t)' = r /\ ReplyOf(res'[t]) = NoReply
  BY <1>3 DEF CallOf, Undecided, ReplyOf, NoResult, Result
<1>6. /\ CallOf(t) = NoReq /\ BlockedAt(t) = FALSE /\ MissedAt(t) = {} /\ ReachedAt(t) = {}
  BY <1>0 DEF CallOf, BlockedAt, MissedAt, ReachedAt, WaitUndecided, Undecided
<1>7. BlockedAt(t)' = FALSE
  BY <1>0, <1>3, <1>4 DEF BlockedAt, WaitUndecided
<1>8. MissedAt(t)' = {}
  BY <1>3 DEF MissedAt, MissedBy, WaitUndecided
<1>9. ReachedAt(t)' = {}
  <2>1. ASSUME pc'[t] = "validate" PROVE ReachedBy(t)' = {}
    <3>1. cur'[t] = 1
      BY <1>0, <1>4
    <3>2. N(t)' \in Nat
      BY <1>3, WorkloadAssumption DEF N, Requests
    <3>3. QED
      BY <2>1, <3>1, <3>2 DEF ReachedBy
  <2>2. QED
    BY <1>3, <2>1 DEF ReachedAt, WaitUndecided
<1>10. \A u \in Threads \ {t} : SameView(u)
  BY <1>0, OthersSame
<1>11. callB' = [callB EXCEPT ![t] = r]
  BY <1>5, <1>10 DEF callB, SameView
<1>12. outB' = [outB EXCEPT ![t] = NoReply]
  BY <1>5, <1>10 DEF outB, SameView
<1>13. blockedB' = blockedB
  BY <1>6, <1>7, <1>10 DEF blockedB, SameView
<1>14. missedB' = missedB
  BY <1>6, <1>8, <1>10 DEF missedB, SameView
<1>15. reachedB' = reachedB
  BY <1>6, <1>9, <1>10 DEF reachedB, SameView
<1>16. objB' = objB
  BY <1>0, ObjSame
<1>17. callB[t] = NoReq
  BY <1>6, ThreadB
<1>18. ReleasedAt(t)' = FALSE /\ ReleasedAt(t) = FALSE
  BY <1>0, <1>3 DEF ReleasedAt
<1>19. releasedB' = releasedB
  BY <1>10, <1>18 DEF releasedB, SameView
<1>20. QED
  BY <1>1, <1>11, <1>12, <1>13, <1>14, <1>15, <1>16, <1>17, <1>19, CallB

\* A signal operation whose handle does not resolve, or whose owner is 0.
LEMMA ResolveSim ==
    ASSUME RInv, NEW t \in Threads, Resolve(t), slot' = slot
    PROVE  Promise!Next \/ Silent
<1> DEFINE r == req[t]
           good == /\ ValidOf(r.h, OpType(r.op))
                   /\ OpType(r.op) = TYPE_MUTEX => r.n # 0
<1>0. ThreadStep(t) /\ d' = d /\ w0' = w0 /\ pc[t] = "resolve"
  BY DEF ThreadStep, Step, SignalStep, Resolve, shared
<1>1. CASE good
  <2>1. pc'[t] = "cas" /\ res' = res /\ req' = req
    BY <1>1, Typed DEF Resolve, Goto
  <2>2. QED
    BY <2>1, ResolveSilent
<1>2. CASE ~good
  <2>1. Return(t, Invalid)
    BY <1>2 DEF Resolve
  <2>2. Promise!Done(t, Error(-EINVAL))
    BY <1>0, <2>1, ReturnEnds, Replies, FinishDone
  <2>3. r.op \in SignalOps /\ r.h \in Handles
    BY <1>0, Typed DEF ThreadOK, CallOK, Requests
  <2>4. \A type \in WaitTypes : (r.h \in DOMAIN objB /\ objB[r.h].type = type) <=> ValidOf(r.h, type)
    BY <2>3, IsAB
  <2>5. BadHandle(r)
    BY <1>2, <2>3, <2>4
    DEF BadHandle, OpType, SignalOps, WaitTypes, TYPE_SEM, TYPE_MUTEX, TYPE_EVENT
  <2>6. callB[t] = r
    BY <1>0, ThreadB DEF CallOf, Undecided
  <2>7. QED
    BY <2>2, <2>5, <2>6, InvalidB
<1>3. QED
  BY <1>1, <1>2

\* A signaler at its CAS: the object that it resolved is still there.
LEMMA AtCas ==
    ASSUME RInv, NEW t \in Threads, pc[t] = "cas"
    PROVE  /\ req[t] \in Requests /\ req[t].op \in SignalOps /\ req[t].n \in Nat
           /\ req[t].h \in LiveHandles /\ req[t].h.idx \in Slots
           /\ slot[req[t].h.idx].type = OpType(req[t].op)
           /\ OpType(req[t].op) = TYPE_MUTEX => req[t].n # 0
           /\ w0[req[t].h.idx] \in Word /\ WellFormed(OpType(req[t].op), w0[req[t].h.idx])
           /\ callB[t] = req[t]
           /\ req[t].h \in DOMAIN objB
           /\ objB[req[t].h] = Read(OpType(req[t].op), w0[req[t].h.idx])
<1> DEFINE h == req[t].h
<1>1. /\ req[t] \in Requests /\ req[t].op \in SignalOps
  BY Typed DEF ThreadOK, CallOK
<1>2. h \in Handles /\ req[t].n \in Nat
  BY <1>1 DEF Requests
<1>3. h.idx \in Slots /\ h.gen \in Nat
  BY <1>2 DEF Handles
<1>4. /\ Settled(h.idx) /\ h.gen <= slot[h.idx].gen
      /\ slot[h.idx].type = OpType(req[t].op)
      /\ OpType(req[t].op) = TYPE_MUTEX => req[t].n # 0
  BY DEF RInv, WordInv, Calm, Aimed
<1>5. slot[h.idx].gen = 0
  BY <1>3 DEF RInv, InitSlot
<1>6. Valid(h)
  BY <1>3, <1>4, <1>5 DEF Settled, Valid
<1>7. Waitable(h)
  BY <1>4, <1>6 DEF Waitable, OpType, WaitTypes
<1>8. h \in LiveHandles
  BY <1>2, <1>7, Live
<1>9. w0[h.idx] \in Word /\ WellFormed(OpType(req[t].op), w0[h.idx])
  <2>1. WellFormed(slot[h.idx].type, w0[h.idx])
    BY <1>3 DEF RInv, WordInv, WordsOK
  <2>2. QED
    BY <1>3, <1>4, <2>1, Typed
<1>10. callB[t] = req[t]
  BY ThreadB DEF CallOf, Undecided
<1>11. h \in DOMAIN objB /\ objB[h] = Read(OpType(req[t].op), w0[h.idx])
  BY <1>4, <1>8, ObjAt
<1>12. QED
  BY <1>1, <1>2, <1>3, <1>4, <1>8, <1>9, <1>10, <1>11

\* The effect of the CAS, and what the caller will be told.
LEMMA CasEffect ==
    ASSUME RInv, NEW t \in Threads, Cas(t), NEW w, NEW o,
           w = w0[req[t].h.idx], o = OpOutcome(req[t], w)
    PROVE  /\ Promise!Change(t, req[t].h, Read(OpType(req[t].op), o.w),
                             ReplyOf(Result(o.err, o.val, FALSE)))
           /\ o.w = w => Promise!Done(t, ReplyOf(Result(o.err, o.val, FALSE)))
<1> DEFINE h == req[t].h
           r == Result(o.err, o.val, FALSE)
<1>0. /\ ThreadStep(t) /\ slot' = slot /\ d' = d /\ pc[t] = "cas"
      /\ w0' = [w0 EXCEPT ![h.idx] = o.w]
  BY DEF ThreadStep, Step, SignalStep, Cas
<1>1. ~Undecided(t)' /\ res'[t] = r
  <2>1. CASE o.wake
    BY <2>1, Typed DEF Cas, Goto, Undecided
  <2>2. CASE ~o.wake
    BY <2>2, ReturnEnds DEF Cas
  <2>3. QED
    BY <2>1, <2>2
<1>2. h \in LiveHandles /\ slot[h.idx].type = OpType(req[t].op) /\ h.idx \in Slots
  BY <1>0, AtCas
<1>3. Promise!Change(t, h, Read(OpType(req[t].op), o.w), ReplyOf(r))
  <2>1. Promise!Change(t, h, Read(slot[h.idx].type, o.w), ReplyOf(r))
    BY <1>0, <1>1, <1>2, FinishChange
  <2>2. QED
    BY <1>2, <2>1
<1>4. ASSUME o.w = w PROVE Promise!Done(t, ReplyOf(r))
  <2>1. w0' = w0
    BY <1>0, <1>2, <1>4, Typed
  <2>2. QED
    BY <1>0, <1>1, <2>1, FinishDone
<1>5. QED
  BY <1>3, <1>4

\* What the read functions report, by type.
LEMMA ReadIs ==
    ASSUME NEW w
    PROVE  /\ Read(TYPE_SEM, w) = [type |-> "sem", count |-> w.lo, max |-> w.hi]
           /\ Read(TYPE_MUTEX, w) =
                [type |-> "mutex", owner |-> w.lo, count |-> w.hi, abandoned |-> w.top]
           /\ Read(TYPE_EVENT, w) =
                [type |-> "event", signaled |-> w.lo # 0, manual |-> w.hi # 0]
  BY DEF Read, TYPE_SEM, TYPE_MUTEX, TYPE_EVENT

\* sem_release takes effect at its CAS.
LEMMA CasSemSim ==
    ASSUME RInv, NEW t \in Threads, Cas(t), req[t].op = "sem_release"
    PROVE  Promise!Next
<1> DEFINE r == req[t]
           w == w0[r.h.idx]
           o == OpOutcome(r, w)
           ob == [type |-> "sem", count |-> w.lo, max |-> w.hi]
<1>0. pc[t] = "cas"
  BY DEF Cas
<1>1. OpType(r.op) = TYPE_SEM /\ o = sem_release(w, r.n)
  BY DEF OpType, OpOutcome
<1>2. w \in Word /\ r.n \in Nat /\ r.h \in DOMAIN objB /\ callB[t] = r
  BY <1>0, AtCas
<1>3. objB[r.h] = ob
  <2>1. objB[r.h] = Read(OpType(r.op), w)
    BY <1>0, AtCas
  <2>2. QED
    BY <1>1, <2>1, ReadIs
<1>4. ob.type = "sem" /\ ob.count = w.lo /\ ob.max = w.hi
  OBVIOUS
<1>5. /\ Promise!Change(t, r.h, Read(TYPE_SEM, o.w), ReplyOf(Result(o.err, o.val, FALSE)))
      /\ o.w = w => Promise!Done(t, ReplyOf(Result(o.err, o.val, FALSE)))
  BY <1>1, CasEffect
<1>6. r.op = "sem_release"
  OBVIOUS
<1>7. CASE w.lo + r.n > w.hi
  <2>1. o.w = w /\ o.err = "Overflow" /\ o.val = 0
    BY <1>1, <1>7 DEF sem_release, Outcome
  <2> HIDE DEF o, w, r, ob
  <2>2. Promise!Done(t, Error(-EOVERFLOW))
    BY <1>5, <2>1, Replies
  <2>3. QED
    BY <1>2, <1>3, <1>4, <1>6, <1>7, <2>2, SemB
<1>8. CASE ~(w.lo + r.n > w.hi)
  <2>1. o.w = pack_sem(w.lo + r.n, w.hi) /\ o.err = "ok" /\ o.val = w.lo
    BY <1>1, <1>8 DEF sem_release, Outcome
  <2>2. Read(TYPE_SEM, o.w) = [type |-> "sem", count |-> w.lo + r.n, max |-> w.hi]
    BY <2>1, ReadIs DEF pack_sem
  <2> HIDE DEF o, w, r, ob
  <2>3. Promise!Change(t, r.h, [type |-> "sem", count |-> w.lo + r.n, max |-> w.hi],
                       Reply(0, w.lo))
    BY <1>5, <2>1, <2>2, Replies
  <2>4. QED
    BY <1>2, <1>3, <1>4, <1>6, <1>8, <2>3, SemB
<1>9. QED
  BY <1>7, <1>8

\* mutex_unlock takes effect at its CAS.
LEMMA CasUnlockSim ==
    ASSUME RInv, NEW t \in Threads, Cas(t), req[t].op = "mutex_unlock"
    PROVE  Promise!Next
<1> DEFINE r == req[t]
           w == w0[r.h.idx]
           o == OpOutcome(r, w)
           ob == [type |-> "mutex", owner |-> w.lo, count |-> w.hi, abandoned |-> w.top]
<1>0. pc[t] = "cas"
  BY DEF Cas
<1>1. OpType(r.op) = TYPE_MUTEX /\ o = mutex_unlock(w, r.n)
  BY DEF OpType, OpOutcome
<1>2. /\ w \in Word /\ r.n \in Nat /\ r.h \in DOMAIN objB /\ callB[t] = r
      /\ WellFormed(TYPE_MUTEX, w) /\ r.n # 0
  BY <1>0, <1>1, AtCas
<1>3. objB[r.h] = ob
  <2>1. objB[r.h] = Read(OpType(r.op), w)
    BY <1>0, AtCas
  <2>2. QED
    BY <1>1, <2>1, ReadIs
<1>4. ob.type = "mutex" /\ ob.owner = w.lo /\ ob.count = w.hi
  OBVIOUS
<1>5. /\ Promise!Change(t, r.h, Read(TYPE_MUTEX, o.w), ReplyOf(Result(o.err, o.val, FALSE)))
      /\ o.w = w => Promise!Done(t, ReplyOf(Result(o.err, o.val, FALSE)))
  BY <1>1, CasEffect
<1>6. r.op = "mutex_unlock"
  OBVIOUS
<1>7. CASE w.lo # r.n
  <2>1. o.w = w /\ o.err = "Perm" /\ o.val = 0
    BY <1>1, <1>7 DEF mutex_unlock, Outcome
  <2> HIDE DEF o, w, r, ob
  <2>2. Promise!Done(t, Error(-EPERM))
    BY <1>5, <2>1, Replies
  <2>3. QED
    BY <1>2, <1>3, <1>4, <1>6, <1>7, <2>2, UnlockB
<1>8. CASE w.lo = r.n
  <2> DEFINE new == [type |-> "mutex", owner |-> IF w.hi = 1 THEN 0 ELSE w.lo,
                      count |-> w.hi - 1, abandoned |-> FALSE]
  <2>1. /\ o.w = pack_mutex(IF w.hi = 1 THEN 0 ELSE w.lo, w.hi - 1, w.top)
        /\ o.err = "ok" /\ o.val = w.hi
    BY <1>1, <1>8 DEF mutex_unlock, Outcome
  <2>2. w.hi \in 1 .. MaxRec /\ w.top = FALSE
    <3>1. w.lo \in Nat /\ w.hi \in Nat /\ w.top \in BOOLEAN
      BY <1>2 DEF Word
    <3>2. (w.lo = 0 <=> w.hi = 0) /\ (w.top => w.lo = 0) /\ w.hi <= MaxRec
      BY <1>2 DEF WellFormed, TYPE_SEM, TYPE_MUTEX, TYPE_EVENT
    <3>3. w.lo # 0
      BY <1>2, <1>8
    <3> HIDE DEF w
    <3>4. QED
      BY <3>1, <3>2, <3>3
  <2>3. (w.hi - 1) % (MaxRec + 1) = w.hi - 1
    BY <2>2, MaskFits
  <2>4. /\ o.w.lo = IF w.hi = 1 THEN 0 ELSE w.lo
        /\ o.w.hi = w.hi - 1 /\ o.w.top = FALSE
    BY <2>1, <2>2, <2>3 DEF pack_mutex
  <2> HIDE DEF o
  <2>6. Read(TYPE_MUTEX, o.w) = new
    BY <2>4, ReadIs
  <2>5. new = [type |-> "mutex", owner |-> IF ob.count = 1 THEN 0 ELSE ob.owner,
               count |-> ob.count - 1, abandoned |-> FALSE]
    BY <1>4
  <2> HIDE DEF o, w, r, ob, new
  <2>8. Promise!Change(t, r.h, [type |-> "mutex", owner |-> IF ob.count = 1 THEN 0 ELSE ob.owner,
               count |-> ob.count - 1, abandoned |-> FALSE], Reply(0, ob.count))
    BY <1>4, <1>5, <2>1, <2>6, <2>5, Replies
  <2>9. QED
    BY <1>2, <1>3, <1>4, <1>6, <1>8, <2>8, UnlockB
<1>9. QED
  BY <1>7, <1>8

\* mutex_kill takes effect at its CAS.
LEMMA CasKillSim ==
    ASSUME RInv, NEW t \in Threads, Cas(t), req[t].op = "mutex_kill"
    PROVE  Promise!Next
<1> DEFINE r == req[t]
           w == w0[r.h.idx]
           o == OpOutcome(r, w)
           ob == [type |-> "mutex", owner |-> w.lo, count |-> w.hi, abandoned |-> w.top]
<1>0. pc[t] = "cas"
  BY DEF Cas
<1>1. OpType(r.op) = TYPE_MUTEX /\ o = mutex_kill(w, r.n)
  BY DEF OpType, OpOutcome
<1>2. /\ w \in Word /\ r.n \in Nat /\ r.h \in DOMAIN objB /\ callB[t] = r
      /\ WellFormed(TYPE_MUTEX, w) /\ r.n # 0
  BY <1>0, <1>1, AtCas
<1>3. objB[r.h] = ob
  <2>1. objB[r.h] = Read(OpType(r.op), w)
    BY <1>0, AtCas
  <2>2. QED
    BY <1>1, <2>1, ReadIs
<1>4. ob.type = "mutex" /\ ob.owner = w.lo /\ ob.count = w.hi
  OBVIOUS
<1>5. /\ Promise!Change(t, r.h, Read(TYPE_MUTEX, o.w), ReplyOf(Result(o.err, o.val, FALSE)))
      /\ o.w = w => Promise!Done(t, ReplyOf(Result(o.err, o.val, FALSE)))
  BY <1>1, CasEffect
<1>6. r.op = "mutex_kill"
  OBVIOUS
<1>7. CASE w.lo # r.n
  <2>1. o.w = w /\ o.err = "Perm" /\ o.val = 0
    BY <1>1, <1>7 DEF mutex_kill, Outcome
  <2> HIDE DEF o, w, r, ob
  <2>2. Promise!Done(t, Error(-EPERM))
    BY <1>5, <2>1, Replies
  <2>3. QED
    BY <1>2, <1>3, <1>4, <1>6, <1>7, <2>2, KillB
<1>8. CASE w.lo = r.n
  <2>1. o.w = pack_mutex(0, 0, TRUE) /\ o.err = "ok" /\ o.val = 0
    BY <1>1, <1>8 DEF mutex_kill, Outcome
  <2>2. 0 % (MaxRec + 1) = 0
    BY MaskFits
  <2>4. o.w.lo = 0 /\ o.w.hi = 0 /\ o.w.top = TRUE
    BY <2>1, <2>2 DEF pack_mutex
  <2> HIDE DEF o
  <2>3. Read(TYPE_MUTEX, o.w) =
          [type |-> "mutex", owner |-> 0, count |-> 0, abandoned |-> TRUE]
    BY <2>4, ReadIs
  <2> HIDE DEF o, w, r, ob
  <2>8. Promise!Change(t, r.h,
          [type |-> "mutex", owner |-> 0, count |-> 0, abandoned |-> TRUE], Reply(0, 0))
    BY <1>5, <2>1, <2>3, Replies
  <2>9. QED
    BY <1>2, <1>3, <1>4, <1>6, <1>8, <2>8, KillB
<1>9. QED
  BY <1>7, <1>8

\* event_set takes effect at its CAS.
LEMMA CasSetSim ==
    ASSUME RInv, NEW t \in Threads, Cas(t), req[t].op = "event_set"
    PROVE  Promise!Next
<1> DEFINE r == req[t]
           w == w0[r.h.idx]
           o == OpOutcome(r, w)
           ob == [type |-> "event", signaled |-> w.lo # 0, manual |-> w.hi # 0]
           new == [type |-> "event", signaled |-> TRUE, manual |-> w.hi # 0]
<1>0. pc[t] = "cas"
  BY DEF Cas
<1>1. OpType(r.op) = TYPE_EVENT /\ o = event_set(w)
  BY DEF OpType, OpOutcome
<1>2. /\ w \in Word /\ r.h \in DOMAIN objB /\ callB[t] = r
      /\ WellFormed(TYPE_EVENT, w)
  BY <1>0, <1>1, AtCas
<1>3. objB[r.h] = ob
  <2>1. objB[r.h] = Read(OpType(r.op), w)
    BY <1>0, AtCas
  <2>2. QED
    BY <1>1, <2>1, ReadIs
<1>4. ob.type = "event" /\ ob.signaled = (w.lo # 0) /\ ob.manual = (w.hi # 0)
  OBVIOUS
<1>5. Promise!Change(t, r.h, Read(TYPE_EVENT, o.w), ReplyOf(Result(o.err, o.val, FALSE)))
  BY <1>1, CasEffect
<1>6. w.lo \in {0, 1} /\ w.hi \in {0, 1}
  BY <1>2 DEF WellFormed, TYPE_SEM, TYPE_MUTEX, TYPE_EVENT
<1>7. Read(TYPE_EVENT, o.w) = new /\ o.err = "ok" /\ o.val = w.lo
  <2>1. o.err = "ok" /\ o.val = w.lo
    BY <1>1, <1>6 DEF event_set, Outcome
  <2>2. o.w.hi = w.hi /\ (o.w.lo # 0) = TRUE
    BY <1>1, <1>2, <1>6 DEF event_set, Outcome, SetBit, Word
  <2> HIDE DEF o
  <2>3. QED
    BY <2>1, <2>2, ReadIs
<1>8. w.lo = (IF ob.signaled THEN 1 ELSE 0)
  BY <1>6
<1>9. new = [type |-> "event", signaled |-> TRUE, manual |-> ob.manual]
  BY <1>4
<1>10. r.op = "event_set"
  OBVIOUS
<1> HIDE DEF o, w, r, ob, new
<1>11. Promise!Change(t, r.h, [type |-> "event", signaled |-> TRUE, manual |-> ob.manual],
                      Reply(0, IF ob.signaled THEN 1 ELSE 0))
  BY <1>5, <1>7, <1>8, <1>9, Replies
<1>12. QED
  BY <1>2, <1>3, <1>4, <1>10, <1>11, SetB

\* event_reset takes effect at its CAS.
LEMMA CasResetSim ==
    ASSUME RInv, NEW t \in Threads, Cas(t), req[t].op = "event_reset"
    PROVE  Promise!Next
<1> DEFINE r == req[t]
           w == w0[r.h.idx]
           o == OpOutcome(r, w)
           ob == [type |-> "event", signaled |-> w.lo # 0, manual |-> w.hi # 0]
           new == [type |-> "event", signaled |-> FALSE, manual |-> w.hi # 0]
<1>0. pc[t] = "cas"
  BY DEF Cas
<1>1. OpType(r.op) = TYPE_EVENT /\ o = event_reset(w)
  BY DEF OpType, OpOutcome
<1>2. /\ w \in Word /\ r.h \in DOMAIN objB /\ callB[t] = r
      /\ WellFormed(TYPE_EVENT, w)
  BY <1>0, <1>1, AtCas
<1>3. objB[r.h] = ob
  <2>1. objB[r.h] = Read(OpType(r.op), w)
    BY <1>0, AtCas
  <2>2. QED
    BY <1>1, <2>1, ReadIs
<1>4. ob.type = "event" /\ ob.signaled = (w.lo # 0) /\ ob.manual = (w.hi # 0)
  OBVIOUS
<1>5. Promise!Change(t, r.h, Read(TYPE_EVENT, o.w), ReplyOf(Result(o.err, o.val, FALSE)))
  BY <1>1, CasEffect
<1>6. w.lo \in {0, 1} /\ w.hi \in {0, 1}
  BY <1>2 DEF WellFormed, TYPE_SEM, TYPE_MUTEX, TYPE_EVENT
<1>7. Read(TYPE_EVENT, o.w) = new /\ o.err = "ok" /\ o.val = w.lo
  <2>1. o.err = "ok" /\ o.val = w.lo
    BY <1>1, <1>6 DEF event_reset, Outcome
  <2>2. o.w.hi = w.hi /\ (o.w.lo # 0) = FALSE
    BY <1>1, <1>2, <1>6 DEF event_reset, Outcome, ClearBit, Word
  <2> HIDE DEF o
  <2>3. QED
    BY <2>1, <2>2, ReadIs
<1>8. w.lo = (IF ob.signaled THEN 1 ELSE 0)
  BY <1>6
<1>9. new = [type |-> "event", signaled |-> FALSE, manual |-> ob.manual]
  BY <1>4
<1>10. r.op = "event_reset"
  OBVIOUS
<1> HIDE DEF o, w, r, ob, new
<1>11. Promise!Change(t, r.h, [type |-> "event", signaled |-> FALSE, manual |-> ob.manual],
                      Reply(0, IF ob.signaled THEN 1 ELSE 0))
  BY <1>5, <1>7, <1>8, <1>9, Replies
<1>12. QED
  BY <1>2, <1>3, <1>4, <1>10, <1>11, ResetB

\* A signal operation takes effect at its CAS.
LEMMA CasSim ==
    ASSUME RInv, NEW t \in Threads, Cas(t)
    PROVE  Promise!Next
<1>1. req[t].op \in SignalOps
  BY AtCas DEF Cas
<1>2. QED
  BY <1>1, CasSemSim, CasUnlockSim, CasKillSim, CasSetSim, CasResetSim DEF SignalOps

-----------------------------------------------------------------------------
(* A pulse. *)

\* A pulse of NtSync that is under way.
LEMMA PulsingB ==
    ASSUME NEW t \in Threads, NEW r, callB[t] = r, r.op = "event_pulse",
           r.h \in DOMAIN objB, objB[r.h].type = "event"
    PROVE  Promise!Pulsing(t)
  BY DEF Promise!Pulsing, Promise!IsA, objB, callB, CallOf

\* It reads the state that it will report ...
LEMMA PulseReadsB ==
    ASSUME NEW t \in Threads, NEW r, callB[t] = r, r.op = "event_pulse",
           r.h \in DOMAIN objB, NEW o, objB[r.h] = o, o.type = "event",
           outB[t] = NoReply,
           outB' = [outB EXCEPT ![t] = Reply(0, IF o.signaled THEN 1 ELSE 0)],
           UNCHANGED <<objB, callB, blockedB, missedB, reachedB, releasedB>>
    PROVE  Promise!Next
<1>1. Promise!Pulsing(t)
  BY PulsingB
<1>2. outB[t] = Promise!NoReply
  BY DEF NoReply, Reply, Promise!NoReply, Promise!Reply
<1>3. outB' = [outB EXCEPT ![t] = Promise!Reply(0, Promise!Flag(objB[callB[t].h].signaled))]
  BY DEF Reply, Promise!Reply, Promise!Flag
<1>4. Promise!PulseReads(t)
  BY <1>1, <1>2, <1>3
  DEF Promise!PulseReads, objB, callB, blockedB, missedB, reachedB, releasedB, outB, CallOf,
      BlockedAt, MissedAt, ReachedAt, ReleasedAt
<1>5. QED
  BY <1>4, OperationB DEF Promise!Operation

\* ... lets go everyone who waits, and others if it may ...
LEMMA PulseReleasesB ==
    ASSUME NEW t \in Threads, NEW r, callB[t] = r, r.op = "event_pulse",
           r.h \in DOMAIN objB, objB[r.h].type = "event",
           outB[t] # NoReply, releasedB[t] = FALSE,
           \E who \in [Threads -> BOOLEAN] :
             /\ \A u \in Threads : blockedB[u] => who[u]
             /\ reachedB' = [u \in Threads |->
                  reachedB[u] \cup (IF who[u] THEN Promise!At(u, callB[t].h) ELSE {})],
           releasedB' = [releasedB EXCEPT ![t] = TRUE],
           UNCHANGED <<objB, callB, blockedB, missedB, outB>>
    PROVE  Promise!Next
<1>1. Promise!Pulsing(t)
  BY PulsingB
<1>2. outB[t] # Promise!NoReply
  BY DEF NoReply, Reply, Promise!NoReply, Promise!Reply
<1>3. Promise!PulseReleases(t)
  BY <1>1, <1>2
  DEF Promise!PulseReleases, objB, callB, blockedB, missedB, reachedB, releasedB, outB, CallOf,
      BlockedAt, MissedAt, ReachedAt, ReleasedAt
<1>4. QED
  BY <1>3, OperationB DEF Promise!Operation

\* ... and clears the event.
LEMMA PulseClearsB ==
    ASSUME NEW t \in Threads, NEW r, callB[t] = r, r.op = "event_pulse",
           r.h \in DOMAIN objB, NEW o, objB[r.h] = o, o.type = "event",
           releasedB[t] = TRUE, NEW reply, outB[t] = reply,
           Promise!Change(t, r.h, [type |-> "event", signaled |-> FALSE, manual |-> o.manual],
                          reply)
    PROVE  Promise!Next
<1>1. Promise!Pulsing(t)
  BY PulsingB
<1>2. Promise!Change(t, callB[t].h, Promise!Event(FALSE, objB[callB[t].h].manual), outB[t])
  BY DEF Promise!Event
<1>3. Promise!PulseClears(t)
  BY <1>1, <1>2
  DEF Promise!PulseClears, objB, callB, releasedB, outB, CallOf, ReleasedAt
<1>4. QED
  BY <1>3, OperationB DEF Promise!Operation

\* The waits that a pulse of h reaches: all but those whose validation has
\* not come to h yet.
Sees(u, h) ==
    /\ WaitUndecided(u) /\ AllValid(u)
    /\ pc[u] = "validate" => \A i \in 1 .. N(u) : hs(u)[i] = h => i < cur[u]

\* Every wait that has blocked is among them.
LEMMA BlockedSees ==
    ASSUME RInv, NEW u \in Threads, NEW h, BlockedAt(u)
    PROVE  Sees(u, h)
<1>1. WaitUndecided(u) /\ (nodes[u] > 0 \/ pc[u] \in {"alertchk", "register"})
  BY DEF BlockedAt
<1>2. pc[u] \in {"try", "trypulse", "lock", "alertchk", "register", "deadline"} \cup BlockLabels
  <2>1. pc[u] \notin {"cleanup", "panic", "rollback"} /\ pc[u] \in Labels
    BY <1>1, Typed DEF WaitUndecided, Undecided, RInv, WordInv, Calm
  <2>2. pc[u] \notin CallLabels \cup FastLabels
    <3>1. pc[u] \in CallLabels \cup FastLabels => nodes[u] = 0
      BY Typed DEF ThreadOK, HoldOK
    <3>2. QED
      BY <1>1, <3>1 DEF CallLabels, FastLabels
  <2>3. QED
    BY <2>1, <2>2 DEF CallLabels, FastLabels, BlockLabels, Labels
<1>3. AllValid(u)
  BY <1>1, <1>2, Typed DEF Sound, Validated, ValidLabels
<1>4. QED
  BY <1>1, <1>2, <1>3 DEF Sees, BlockLabels

\* What a pulse changes for another thread.
LEMMA PulseReached ==
    ASSUME RInv, NEW u \in Threads, Undisturbed(u), slot' = slot,
           NEW h \in LiveHandles, slot[h.idx].type = TYPE_EVENT,
           d' = [d EXCEPT ![h.idx] = d[h.idx] + 1]
    PROVE  ReachedAt(u)' = ReachedAt(u) \cup
             (IF Sees(u, h)
              THEN {i \in 1 .. Len(CallOf(u).hs) : CallOf(u).hs[i] = h} ELSE {})
<1>0. /\ pc'[u] = pc[u] /\ req'[u] = req[u] /\ cur'[u] = cur[u] /\ eseq'[u] = eseq[u]
  BY DEF Undisturbed
<1>1. WaitUndecided(u)' <=> WaitUndecided(u)
  BY <1>0 DEF Undecided, WaitUndecided
<1>2. N(u)' = N(u) /\ hs(u)' = hs(u) /\ (AllValid(u)' <=> AllValid(u))
  BY <1>0, ReqSame
<1>3. CASE ~WaitUndecided(u)
  BY <1>1, <1>3 DEF ReachedAt, Sees
<1>4. CASE WaitUndecided(u) /\ ~AllValid(u)
  <2>1. ReachedBy(u) = {} /\ ReachedBy(u)' = {}
    BY <1>2, <1>4 DEF ReachedBy
  <2>2. QED
    BY <1>1, <1>4, <2>1 DEF ReachedAt, Sees
<1>5. CASE WaitUndecided(u) /\ AllValid(u)
  <2> DEFINE early(i) == pc[u] = "validate" => i < cur[u]
             ev(i) == slot[hs(u)[i].idx].type = TYPE_EVENT
             A == {i \in 1 .. N(u) : hs(u)[i] = h}
  <2>1. pc[u] \notin CallLabels /\ req[u].op = "wait" /\ ~BadArgs(req[u])
    BY <1>5, Typed
    DEF WaitUndecided, Undecided, CallLabels, ThreadOK, CallOK, SignalOps, Sound, InCall
  <2>2. \A i, j \in 1 .. N(u) : hs(u)[i] = hs(u)[j] => i = j
    BY <2>1 DEF BadArgs, N, hs
  <2>3. CallOf(u).hs = hs(u) /\ Len(CallOf(u).hs) = N(u)
    BY <1>5 DEF CallOf, WaitUndecided, hs, N
  <2>4. \A i \in 1 .. N(u) : /\ hs(u)[i] \in LiveHandles /\ hs(u)[i].idx \in Slots
                             /\ hs(u)[i].idx = h.idx <=> hs(u)[i] = h
    <3>1. \A i \in 1 .. N(u) : hs(u)[i] \in LiveHandles /\ hs(u)[i].idx \in Slots
      BY <1>5, NamedObject DEF AllValid
    <3>2. QED
      BY <3>1, LiveTyped
  <2>5. \A i \in 1 .. N(u) : eseq[u][i] \in Nat /\ d[hs(u)[i].idx] \in Nat
                             /\ eseq[u][i] <= d[hs(u)[i].idx]
    <3>1. eseq[u] \in Seq(Nat) /\ Len(eseq[u]) = N(u)
      BY <2>1, Typed DEF ThreadOK, CallOK
    <3>2. QED
      <4>1. \A i \in 1 .. N(u) : eseq[u][i] \in Nat
        BY <3>1
      <4>2. \A i \in 1 .. N(u) : d[hs(u)[i].idx] \in Nat
        BY <2>4, Typed
      <4>3. \A i \in 1 .. N(u) : eseq[u][i] <= d[hs(u)[i].idx]
        BY <2>1, Typed DEF Sound, Sampled
      <4>4. QED
        BY <4>1, <4>2, <4>3
  <2>6. \A i \in 1 .. N(u) : d'[hs(u)[i].idx] = IF hs(u)[i] = h THEN d[hs(u)[i].idx] + 1
                                                ELSE d[hs(u)[i].idx]
    BY <2>4, Typed
  <2>7. ASSUME NEW i \in 1 .. N(u)
        PROVE  /\ i \in ReachedBy(u) <=> ev(i) /\ early(i) /\ d[hs(u)[i].idx] # eseq[u][i]
               /\ i \in ReachedBy(u)' <=> ev(i) /\ early(i) /\ d'[hs(u)[i].idx] # eseq[u][i]
    BY <1>0, <1>2, <1>5 DEF ReachedBy
  <2>8. Sees(u, h) <=> \A i \in A : early(i)
    BY <1>5 DEF Sees
  <2>9. ASSUME NEW i \in 1 .. N(u)
        PROVE  i \in ReachedBy(u)' <=>
                 i \in ReachedBy(u) \cup (IF Sees(u, h) THEN A ELSE {})
    <3>1. CASE hs(u)[i] # h
      <4>1. d'[hs(u)[i].idx] = d[hs(u)[i].idx]
        BY <2>6, <3>1
      <4>2. i \in ReachedBy(u)' <=> i \in ReachedBy(u)
        BY <2>7, <4>1
      <4>3. i \notin A
        BY <3>1
      <4>4. QED
        BY <4>2, <4>3
    <3>2. CASE hs(u)[i] = h
      <4>1. A = {i}
        BY <2>2, <3>2
      <4>2. Sees(u, h) <=> early(i)
        BY <2>8, <4>1
      <4>3. ev(i) /\ d'[hs(u)[i].idx] # eseq[u][i]
        BY <2>5, <2>6, <3>2
      <4>4. QED
        BY <2>7, <4>1, <4>2, <4>3
    <3>3. QED
      BY <3>1, <3>2
  <2>10. ReachedBy(u)' \subseteq 1 .. N(u) /\ ReachedBy(u) \subseteq 1 .. N(u)
    BY <1>2 DEF ReachedBy
  <2>11. ReachedBy(u)' = ReachedBy(u) \cup (IF Sees(u, h) THEN A ELSE {})
    BY <2>9, <2>10
  <2>12. ReachedAt(u)' = ReachedBy(u)' /\ ReachedAt(u) = ReachedBy(u)
    BY <1>1, <1>5 DEF ReachedAt
  <2>13. QED
    BY <2>3, <2>11, <2>12
<1>6. QED
  BY <1>3, <1>4, <1>5

\* All else that NtSync knows of another thread stays.
LEMMA PulseFrame ==
    ASSUME NEW u \in Threads, Undisturbed(u), slot' = slot
    PROVE  /\ CallOf(u)' = CallOf(u) /\ BlockedAt(u)' = BlockedAt(u)
           /\ MissedAt(u)' = MissedAt(u) /\ ReleasedAt(u)' = ReleasedAt(u)
<1>0. /\ pc'[u] = pc[u] /\ req'[u] = req[u] /\ cur'[u] = cur[u] /\ nodes'[u] = nodes[u]
  BY DEF Undisturbed
<1>1. (Undecided(u)' <=> Undecided(u)) /\ (WaitUndecided(u)' <=> WaitUndecided(u))
  BY <1>0 DEF Undecided, WaitUndecided
<1>2. CallOf(u)' = CallOf(u)
  BY <1>0, <1>1 DEF CallOf
<1>3. BlockedAt(u)' = BlockedAt(u)
  BY <1>0, <1>1 DEF BlockedAt
<1>4. N(u)' = N(u)
  BY <1>0 DEF N
<1>5. MissedBy(u)' = MissedBy(u)
  BY <1>0, <1>4 DEF MissedBy
<1>6. MissedAt(u)' = MissedAt(u)
  BY <1>1, <1>5 DEF MissedAt
<1>7. ReleasedAt(u)' = ReleasedAt(u)
  BY <1>0 DEF ReleasedAt
<1>8. QED
  BY <1>2, <1>3, <1>6, <1>7

\* A pulse that has found its event.
LEMMA AtPulse ==
    ASSUME RInv, NEW t \in Threads, pc[t] \in PulseLabels, NEW h, h = req[t].h
    PROVE  /\ callB[t] = req[t] /\ req[t].op = "event_pulse" /\ ~WaitUndecided(t)
           /\ h \in LiveHandles /\ h.idx \in Slots /\ slot[h.idx].type = TYPE_EVENT
           /\ h \in DOMAIN objB
<1>1. req[t].op = "event_pulse" /\ h.idx \in Slots /\ slot[h.idx].type = TYPE_EVENT
  BY Typed, PulseAimed DEF PulseLabels, RInv, ThreadOK, CallOK
<1>2. h \in Handles /\ h.gen \in Nat
  BY Typed DEF Requests, Handles
<1>3. Settled(h.idx) /\ h.gen <= slot[h.idx].gen
  BY DEF RInv, WordInv, Calm, Aimed, PulseLabels
<1>4. slot[h.idx].gen = 0
  BY <1>1 DEF RInv, InitSlot
<1>5. Waitable(h)
  BY <1>1, <1>2, <1>3, <1>4 DEF Settled, Valid, Waitable, WaitTypes
<1>6. h \in LiveHandles
  BY <1>2, <1>5, Live
<1>7. h \in DOMAIN objB
  BY <1>6, ObjAt
<1>8. callB[t] = req[t]
  BY ThreadB DEF CallOf, Undecided, PulseLabels
<1>9. ~WaitUndecided(t)
  BY <1>1 DEF WaitUndecided
<1>10. QED
  BY <1>1, <1>6, <1>7, <1>8, <1>9

\* The event it has found.
LEMMA PulsedEvent ==
    ASSUME RInv, NEW h \in LiveHandles, h.idx \in Slots, slot[h.idx].type = TYPE_EVENT,
           NEW w, w = w0[h.idx]
    PROVE  /\ w \in Word /\ w.lo \in {0, 1} /\ w.hi \in {0, 1}
           /\ objB[h] = [type |-> "event", signaled |-> w.lo # 0, manual |-> w.hi # 0]
<1>1. w \in Word /\ w.lo \in {0, 1} /\ w.hi \in {0, 1}
  <2>1. WellFormed(TYPE_EVENT, w) /\ w \in Word
    BY Typed DEF RInv, WordInv, WordsOK
  <2>2. QED
    BY <2>1 DEF WellFormed, TYPE_SEM, TYPE_MUTEX, TYPE_EVENT
<1>2. objB[h] = Read(TYPE_EVENT, w)
  BY ObjAt
<1>3. QED
  BY <1>1, <1>2, ReadIs

\* A step of a pulse that leaves the objects alone, seen by everyone else.
LEMMA PulseOthers ==
    ASSUME RInv, NEW t \in Threads, ThreadStep(t), slot' = slot,
           pc[t] \in {"locked"} \cup PulseLabels, pc'[t] \in PulseLabels,
           req[t].op = "event_pulse", req' = req
    PROVE  /\ callB' = callB /\ blockedB' = blockedB /\ missedB' = missedB
           /\ ReachedAt(t) = {} /\ ReachedAt(t)' = {}
           /\ \A u \in Threads \ {t} : Undisturbed(u) /\ res'[u] = res[u]
<1>1. \A u \in Threads \ {t} :
        /\ Undisturbed(u) /\ res'[u] = res[u] /\ CallOf(u)' = CallOf(u)
        /\ BlockedAt(u)' = BlockedAt(u) /\ MissedAt(u)' = MissedAt(u)
  BY StepIsOK, LocalOnly, PulseFrame DEF StepOK
<1>2. ~WaitUndecided(t) /\ ~WaitUndecided(t)'
  BY DEF WaitUndecided
<1>3. CallOf(t)' = CallOf(t)
  BY DEF CallOf, Undecided, PulseLabels
<1>4. /\ BlockedAt(t)' = FALSE /\ BlockedAt(t) = FALSE /\ MissedAt(t)' = {} /\ MissedAt(t) = {}
      /\ ReachedAt(t) = {} /\ ReachedAt(t)' = {}
  BY <1>2 DEF BlockedAt, MissedAt, ReachedAt
<1>5. callB' = callB
  BY <1>1, <1>3 DEF callB
<1>6. blockedB' = blockedB
  BY <1>1, <1>4 DEF blockedB
<1>7. missedB' = missedB
  BY <1>1, <1>4 DEF missedB
<1>8. QED
  BY <1>1, <1>4, <1>5, <1>6, <1>7

\* The first step of a pulse finds the event and reads what it will report.
LEMMA PulseReadsSim ==
    ASSUME RInv, NEW t \in Threads, event_pulse(t)
    PROVE  Promise!Next
<1> DEFINE r == req[t]
           h == req[t].h
           w == w0[h.idx]
           ob == [type |-> "event", signaled |-> w.lo # 0, manual |-> w.hi # 0]
<1>0. /\ ThreadStep(t) /\ pc[t] = "locked" /\ r.op = "event_pulse" /\ slot' = slot
      /\ w0' = w0 /\ d' = d
  BY DEF ThreadStep, Step, LockedStep, event_pulse
<1>1. h \in Handles
  BY Typed DEF Requests
<1>2. callB[t] = r
  BY <1>0, ThreadB DEF CallOf, Undecided
<1>3. (h \in DOMAIN objB /\ objB[h].type = "event") <=> ValidOf(h, TYPE_EVENT)
  BY <1>1, IsAB DEF WaitTypes, TYPE_EVENT
<1>4. CASE ~ValidOf(h, TYPE_EVENT)
  <2>1. Return(t, Invalid)
    BY <1>4 DEF event_pulse
  <2>2. Promise!Done(t, Error(-EINVAL))
    BY <1>0, <2>1, ReturnEnds, Replies, FinishDone
  <2>3. BadHandle(r)
    BY <1>0, <1>3, <1>4 DEF BadHandle
  <2>4. QED
    BY <1>2, <2>2, <2>3, InvalidB
<1>5. CASE ValidOf(h, TYPE_EVENT)
  <2>1. /\ pc'[t] = "pulse" /\ req' = req
        /\ res' = [res EXCEPT ![t] = Result("ok", w.lo, FALSE)]
    BY <1>5, Typed DEF event_pulse, Goto
  <2>2. h \in LiveHandles /\ h.idx \in Slots /\ slot[h.idx].type = TYPE_EVENT
    BY <1>1, <1>5, Live DEF ValidOf, Waitable, WaitTypes, Handles
  <2>3. w.lo \in {0, 1}
    <3>1. WellFormed(TYPE_EVENT, w)
      BY <2>2 DEF RInv, WordInv, WordsOK
    <3>2. QED
      BY <3>1 DEF WellFormed, TYPE_SEM, TYPE_MUTEX, TYPE_EVENT
  <2>4. h \in DOMAIN objB /\ objB[h] = ob
    BY <2>2, ObjAt, ReadIs
  <2>5. /\ callB' = callB /\ blockedB' = blockedB /\ missedB' = missedB
        /\ ReachedAt(t) = {} /\ ReachedAt(t)' = {}
    BY <1>0, <2>1, PulseOthers DEF PulseLabels
  <2>6. \A u \in Threads \ {t} : SameView(u)
    BY <1>0, OthersSame
  <2>7. reachedB' = reachedB
    BY <2>5, <2>6 DEF reachedB, SameView
  <2>8. ReleasedAt(t) = FALSE /\ ReleasedAt(t)' = FALSE
    BY <1>0, <2>1 DEF ReleasedAt
  <2>9. releasedB' = releasedB
    BY <2>6, <2>8 DEF releasedB, SameView
  <2>10. res[t] = NoResult
    BY <1>0, Typed DEF Sound, Pulser
  <2>11. outB[t] = NoReply
    <3>1. ReplyOf(NoResult) = NoReply
      BY DEF ReplyOf, NoResult, Result
    <3>2. QED
      BY <2>10, <3>1, ThreadB
  <2>12. ReplyOf(res'[t]) = Reply(0, w.lo)
    BY <2>1, Replies, Typed
  <2>13. w.lo = (IF ob.signaled THEN 1 ELSE 0) /\ ob.type = "event"
    BY <2>3
  <2>14. outB' = [outB EXCEPT ![t] = Reply(0, w.lo)]
    BY <2>6, <2>12 DEF outB, SameView
  <2>15. objB' = objB
    BY <1>0, ObjSame
  <2> HIDE DEF ob, w
  <2>16. outB' = [outB EXCEPT ![t] = Reply(0, IF ob.signaled THEN 1 ELSE 0)]
    BY <2>13, <2>14
  <2>17. QED
    BY <1>0, <1>2, <2>4, <2>5, <2>7, <2>9, <2>11, <2>13, <2>15, <2>16, PulseReadsB
<1>6. QED
  BY <1>4, <1>5

\* The counter lets go everyone who has sampled it.
LEMMA PulseReleasesSim ==
    ASSUME RInv, NEW t \in Threads, PulseCount(t)
    PROVE  Promise!Next
<1> DEFINE r == req[t]
           h == req[t].h
<1>0. /\ ThreadStep(t) /\ pc[t] = "pulse" /\ slot' = slot /\ w0' = w0 /\ res' = res
      /\ req' = req /\ d' = [d EXCEPT ![h.idx] = d[h.idx] + 1]
  BY DEF ThreadStep, Step, LockedStep, PulseCount
<1>1. pc'[t] = "clear"
  BY Typed DEF PulseCount, Goto
<1>2. pc[t] \in PulseLabels
  BY <1>0 DEF PulseLabels
<1>3. /\ callB[t] = r /\ r.op = "event_pulse" /\ h \in LiveHandles /\ ~WaitUndecided(t)
      /\ slot[h.idx].type = TYPE_EVENT /\ h \in DOMAIN objB /\ objB[h].type = "event"
  <2> DEFINE w == w0[h.idx]
             ob == [type |-> "event", signaled |-> w.lo # 0, manual |-> w.hi # 0]
  <2>1. ob.type = "event"
    OBVIOUS
  <2>2. /\ callB[t] = r /\ r.op = "event_pulse" /\ h \in LiveHandles /\ ~WaitUndecided(t)
        /\ h.idx \in Slots /\ slot[h.idx].type = TYPE_EVENT /\ h \in DOMAIN objB
    BY <1>2, AtPulse
  <2>3. objB[h] = ob
    BY <2>2, PulsedEvent
  <2> HIDE DEF ob
  <2>4. QED
    BY <2>1, <2>2, <2>3
<1>4. /\ callB' = callB /\ blockedB' = blockedB /\ missedB' = missedB
      /\ ReachedAt(t) = {} /\ ReachedAt(t)' = {}
      /\ \A u \in Threads \ {t} : Undisturbed(u) /\ res'[u] = res[u]
  BY <1>0, <1>1, <1>2, <1>3, PulseOthers DEF PulseLabels
<1>5. objB' = objB
  BY <1>0, ObjSame
<1>6. outB' = outB
  BY <1>0 DEF outB
<1>7. outB[t] # NoReply
  <2>1. res[t].kind = "ok" /\ res[t].val \in Nat
    BY <1>2, Typed DEF Sound, Pulser, Results
  <2>2. ReplyOf(res[t]) = Reply(0, res[t].val)
    BY <2>1 DEF ReplyOf, OpReply
  <2>3. ReplyOf(res[t]) # NoReply
    BY <2>1, <2>2 DEF NoReply, Reply
  <2>4. QED
    BY <2>3, ThreadB
<1>8. releasedB[t] = FALSE
  <2>1. ReleasedAt(t) = FALSE
    BY <1>0 DEF ReleasedAt
  <2>2. QED
    BY <2>1, ThreadB
<1>9. releasedB' = [releasedB EXCEPT ![t] = TRUE]
  <2>1. ReleasedAt(t)' = TRUE
    BY <1>1 DEF ReleasedAt
  <2>2. \A u \in Threads \ {t} : ReleasedAt(u)' = ReleasedAt(u)
    BY <1>0, <1>4, PulseFrame
  <2>3. QED
    BY <2>1, <2>2 DEF releasedB
<1> DEFINE who == [u \in Threads |-> Sees(u, h)]
           at(u) == Promise!At(u, callB[t].h)
<1>10. who \in [Threads -> BOOLEAN]
  BY DEF Sees
<1>11. \A u \in Threads : blockedB[u] => who[u]
  <2>1. ASSUME NEW u \in Threads, blockedB[u] PROVE who[u]
    BY <2>1, ThreadB, BlockedSees
  <2>2. QED
    BY <2>1
<1>12. reachedB' = [u \in Threads |-> reachedB[u] \cup (IF who[u] THEN at(u) ELSE {})]
  <2>1. ASSUME NEW u \in Threads
        PROVE  ReachedAt(u)' = reachedB[u] \cup (IF who[u] THEN at(u) ELSE {})
    <3>1. CASE u = t
      <4>1. who[u] = FALSE
        BY <1>3, <3>1 DEF Sees
      <4>2. reachedB[u] = {}
        BY <1>4, <3>1, ThreadB
      <4>3. QED
        BY <1>4, <3>1, <4>1, <4>2
    <3>2. CASE u # t
      <4>1. ReachedAt(u)' = ReachedAt(u) \cup
              (IF Sees(u, h)
               THEN {i \in 1 .. Len(CallOf(u).hs) : CallOf(u).hs[i] = h} ELSE {})
        BY <1>0, <1>3, <1>4, <3>2, PulseReached
      <4>2. reachedB[u] = ReachedAt(u) /\ callB[u] = CallOf(u)
        BY ThreadB
      <4>3. at(u) = {i \in 1 .. Len(callB[u].hs) : callB[u].hs[i] = h}
        BY <1>3 DEF Promise!At, callB, CallOf
      <4>4. QED
        BY <4>1, <4>2, <4>3
    <3>3. QED
      BY <3>1, <3>2
  <2> HIDE DEF who, at
  <2>2. reachedB' = [u \in Threads |-> ReachedAt(u)']
    BY DEF reachedB
  <2>3. QED
    BY <2>1, <2>2
<1> HIDE DEF who
<1>13. \E f \in [Threads -> BOOLEAN] :
         /\ \A u \in Threads : blockedB[u] => f[u]
         /\ reachedB' = [u \in Threads |->
              reachedB[u] \cup (IF f[u] THEN Promise!At(u, callB[t].h) ELSE {})]
  <2> HIDE DEF at
  <2> WITNESS who \in [Threads -> BOOLEAN]
  <2> QED
    BY <1>11, <1>12 DEF at
<1>14. QED
  BY <1>3, <1>4, <1>5, <1>6, <1>7, <1>8, <1>9, <1>13, PulseReleasesB

\* That the word is loaded is not seen ...
LEMMA PulseLoadSilent ==
    ASSUME RInv, NEW t \in Threads, PulseLoad(t)
    PROVE  Silent
<1>0. /\ ThreadStep(t) /\ pc[t] = "clear" /\ UNCHANGED <<slot, w0, d, req, res>>
  BY DEF ThreadStep, Step, LockedStep, PulseLoad
<1>1. pc'[t] = "store"
  BY Typed DEF PulseLoad, Goto
<1>2. req[t].op = "event_pulse"
  BY <1>0, Typed DEF ThreadOK, CallOK
<1>3. ~WaitUndecided(t) /\ ~WaitUndecided(t)'
  BY <1>0, <1>2 DEF WaitUndecided
<1>4. CallOf(t)' = CallOf(t)
  BY <1>0, <1>1 DEF CallOf, Undecided
<1>5. ReleasedAt(t) = TRUE /\ ReleasedAt(t)' = TRUE
  BY <1>0, <1>1 DEF ReleasedAt
<1>6. SameView(t)
  BY <1>0, <1>3, <1>4, <1>5 DEF SameView, BlockedAt, MissedAt, ReachedAt
<1>7. QED
  BY <1>0, <1>6, OthersSame, ObjSame, Stutter DEF Silent

\* ... and that it is stored clears the event, whatever it was by then.
LEMMA PulseClearsSim ==
    ASSUME RInv, NEW t \in Threads, PulseStore(t)
    PROVE  Promise!Next
<1> DEFINE r == req[t]
           h == req[t].h
           w == w0[h.idx]
           x == ClearBit(old)
           ob == [type |-> "event", signaled |-> w.lo # 0, manual |-> w.hi # 0]
           new == [type |-> "event", signaled |-> FALSE, manual |-> w.hi # 0]
           reply == ReplyOf(res[t])
<1>0. /\ ThreadStep(t) /\ pc[t] = "store" /\ slot' = slot /\ d' = d
      /\ w0' = [w0 EXCEPT ![h.idx] = x] /\ Return(t, res[t])
  BY DEF ThreadStep, Step, LockedStep, PulseStore
<1>1. pc[t] \in PulseLabels
  BY <1>0 DEF PulseLabels
<1>2. /\ callB[t] = r /\ r.op = "event_pulse" /\ h \in LiveHandles
      /\ slot[h.idx].type = TYPE_EVENT /\ h \in DOMAIN objB /\ objB[h] = ob
  <2>1. /\ callB[t] = r /\ r.op = "event_pulse" /\ h \in LiveHandles
        /\ h.idx \in Slots /\ slot[h.idx].type = TYPE_EVENT /\ h \in DOMAIN objB
    BY <1>1, AtPulse
  <2>2. objB[h] = ob
    BY <2>1, PulsedEvent
  <2> HIDE DEF ob
  <2>3. QED
    BY <2>1, <2>2
<1>3. x.hi = w.hi /\ x.lo = 0
  <2>1. old \in Word /\ old.hi = w.hi /\ old.lo \in {0, 1}
    <3>1. WellFormed(TYPE_EVENT, old)
      BY DEF RInv, WordInv, WordsOK
    <3>2. QED
      BY <1>0, <3>1, Typed DEF Sound, Pulser, WellFormed, TYPE_SEM, TYPE_MUTEX, TYPE_EVENT
  <2>2. QED
    BY <2>1 DEF ClearBit, Word
<1>4. ob.type = "event" /\ ob.manual = (w.hi # 0)
  OBVIOUS
<1>5. ~Undecided(t)' /\ res'[t] = res[t]
  BY <1>0, ReturnEnds
<1>6. releasedB[t] = TRUE /\ outB[t] = reply
  <2>1. ReleasedAt(t) = TRUE
    BY <1>0 DEF ReleasedAt
  <2>2. QED
    BY <2>1, ThreadB
<1>7. Promise!Change(t, h, Read(slot[h.idx].type, x), reply)
  <2>1. ReplyOf(res'[t]) = reply
    BY <1>5
  <2> HIDE DEF x, reply, h
  <2>2. QED
    BY <1>0, <1>2, <1>5, <2>1, FinishChange
<1> HIDE DEF x, reply, ob, w
<1>8. Read(slot[h.idx].type, x) = [type |-> "event", signaled |-> FALSE, manual |-> ob.manual]
  BY <1>2, <1>3, <1>4, ReadIs
<1>9. QED
  BY <1>2, <1>4, <1>6, <1>7, <1>8, PulseClearsB

-----------------------------------------------------------------------------
(* Waits. *)

\* The same, in the terms of NtSync.
LEMMA WaitOpen ==
    ASSUME RInv, NEW t \in Threads, pc[t] \in OpenLabels
    PROVE  /\ OpenB(t, req[t]) /\ Len(req[t].hs) = N(t) /\ req[t].hs = hs(t)
           /\ missedB[t] = MissedBy(t)
           /\ reachedB[t] = {i \in 1 .. N(t) : AllValid(t) /\ Pulsed(t, i)}
  BY OpenWait, ThreadB DEF OpenB, N, hs

\* The alert event is found set.
LEMMA AlertSim ==
    ASSUME RInv, NEW t \in Threads, ThreadStep(t), slot' = slot, d' = d, w0' = w0,
           pc[t] \in OpenLabels, HasAlert(t), AllValid(t), AlertSet(t),
           ~Undecided(t)', res'[t] = Signaled(N(t), FALSE)
    PROVE  Promise!Next
<1> DEFINE h == alert(t)
           w == w0[h.idx]
           o == [type |-> "event", signaled |-> w.lo # 0, manual |-> w.hi # 0]
<1>1. h \in Handles /\ ValidOf(h, TYPE_EVENT)
  <2>1. TypeOK
    BY DEF RInv, WordInv, TypeInv
  <2>2. QED
    BY <2>1, ReqType DEF AllValid
<1>2. h \in LiveHandles /\ slot[h.idx].type = TYPE_EVENT
  BY <1>1, Live DEF ValidOf, Waitable, WaitTypes
<1>3. h \in DOMAIN objB /\ objB[h] = o
  BY <1>2, ObjAt, ReadIs
<1>4. o.type = "event" /\ o.signaled
  BY DEF AlertSet
<1>5. Promise!Done(t, Reply(0, N(t)))
  BY Replies, FinishDone
<1>6. OpenB(t, req[t]) /\ Len(req[t].hs) = N(t) /\ req[t].alert = h /\ h # NoHandle
  BY WaitOpen DEF HasAlert, alert
<1> HIDE DEF o
<1>7. QED
  BY <1>3, <1>4, <1>5, <1>6, AlertB

\* Validating the alert event shows nothing.
LEMMA AlertValidSim ==
    ASSUME RInv, RInv', NEW t \in Threads, AlertValid(t), slot' = slot
    PROVE  Silent
<1>0. /\ ThreadStep(t) /\ d' = d /\ w0' = w0 /\ pc[t] = "alertvalid" /\ res' = res
      /\ req' = req /\ eseq' = eseq /\ nodes' = nodes
  BY DEF ThreadStep, Step, WaitStep, AlertValid, shared
<1>1. pc'[t] \in {"alertfast", "lock"}
  BY Typed DEF AlertValid, Goto
<1>2. QED
  BY <1>0, <1>1, SilentMove DEF QuietLabels

\* The alert event ends a wait on the fast path, or nothing shows.
LEMMA AlertFastSim ==
    ASSUME RInv, RInv', NEW t \in Threads, AlertFast(t), slot' = slot
    PROVE  Promise!Next \/ Silent
<1>0. /\ ThreadStep(t) /\ d' = d /\ w0' = w0 /\ pc[t] = "alertfast" /\ nodes' = nodes
  BY DEF ThreadStep, Step, WaitStep, AlertFast, shared
<1>1. AllValid(t) /\ HasAlert(t) /\ cur[t] = 1
  BY <1>0, Typed DEF Sound, Validated, ValidLabels, ThreadOK, TryOK
<1>2. Valid(alert(t))
  BY <1>1 DEF AllValid, ValidOf
<1>3. CASE AlertSet(t)
  <2>1. Return(t, Signaled(N(t), FALSE))
    BY <1>2, <1>3 DEF AlertFast
  <2>2. pc[t] \in OpenLabels
    BY <1>0 DEF OpenLabels
  <2>3. QED
    BY <1>0, <1>1, <1>3, <2>1, <2>2, ReturnEnds, AlertSim
<1>4. CASE ~AlertSet(t)
  <2>1. pc'[t] = "try" /\ cur' = cur /\ res' = res /\ req' = req /\ eseq' = eseq
    BY <1>2, <1>4, Typed DEF AlertFast, Goto
  <2>2. QED
    BY <1>0, <1>1, <2>1, SilentMove DEF QuietLabels
<1>5. QED
  BY <1>3, <1>4

\* The alert test under the lock, and the one of the spin.
LEMMA AlertCheckSim ==
    ASSUME RInv, RInv', NEW t \in Threads, AlertCheck(t), slot' = slot
    PROVE  Promise!Next \/ Silent
<1>0. /\ ThreadStep(t) /\ d' = d /\ w0' = w0 /\ pc[t] = "alertchk"
      /\ UNCHANGED <<req, eseq, nodes>>
  BY DEF ThreadStep, Step, WaitStep, AlertCheck, shared
<1>1. AllValid(t) /\ HasAlert(t)
  BY <1>0, Typed DEF Sound, Validated, ValidLabels
<1>2. CASE AlertSet(t)
  <2>1. pc'[t] = "cleanup" /\ res'[t] = Signaled(N(t), FALSE)
    BY <1>2, Typed DEF AlertCheck, Goto
  <2>2. ~Undecided(t)' /\ pc[t] \in OpenLabels
    BY <1>0, <2>1 DEF Undecided, OpenLabels, HeldLabels
  <2>3. QED
    BY <1>0, <1>1, <1>2, <2>1, <2>2, AlertSim
<1>3. CASE ~AlertSet(t)
  <2>1. pc'[t] = "register" /\ res' = res
    BY <1>3, Typed DEF AlertCheck, Goto
  <2>2. QED
    BY <1>0, <2>1, SilentMove DEF QuietLabels
<1>4. QED
  BY <1>2, <1>3

\* The alert event ends a wait in its spin, or nothing shows.
LEMMA SpinAlertSim ==
    ASSUME RInv, RInv', NEW t \in Threads, SpinAlert(t), slot' = slot
    PROVE  Promise!Next \/ Silent
<1>0. /\ ThreadStep(t) /\ d' = d /\ w0' = w0 /\ pc[t] = "spin"
  BY DEF ThreadStep, Step, WaitStep, SpinAlert, shared
<1>1. AllValid(t)
  BY <1>0, Typed DEF Sound, Validated, ValidLabels, BlockLabels
<1>2. HasAlert(t) => Valid(alert(t))
  BY <1>1 DEF AllValid, ValidOf
<1>3. CASE HasAlert(t) /\ AlertSet(t)
  <2>1. pc'[t] = "cleanup" /\ res'[t] = Signaled(N(t), FALSE)
    BY <1>2, <1>3, Typed DEF SpinAlert, Goto
  <2>2. ~Undecided(t)' /\ pc[t] \in OpenLabels
    BY <1>0, <2>1 DEF Undecided, OpenLabels, BlockLabels
  <2>3. QED
    BY <1>0, <1>1, <1>3, <2>1, <2>2, AlertSim
<1>4. CASE ~(HasAlert(t) /\ AlertSet(t))
  <2>1. pc'[t] = "peek" /\ res' = res
    BY <1>2, <1>4, Typed DEF SpinAlert, Goto
  <2>2. QED
    BY <2>1, BlockSilent
<1>5. QED
  BY <1>3, <1>4

\* What an attempt does, in terms of what it reads: it takes an object exactly
\* if the object can be had.
Gives(type, w, t, a) ==
    \/ /\ a.ok /\ CanTakeB(t, Read(type, w))
       /\ Read(type, a.w) = TakenB(t, Read(type, w))
       /\ a.od <=> (Read(type, w).type = "mutex" /\ Read(type, w).abandoned)
    \/ ~a.ok /\ ~CanTakeB(t, Read(type, w)) /\ a.w = w

\* try_acquire on a semaphore takes what NtSync would take.
LEMMA AttemptSem ==
    ASSUME NEW w \in Word, NEW t \in Threads
    PROVE  Gives(TYPE_SEM, w, t, try_acquire(TYPE_SEM, w, t))
<1> DEFINE a == try_acquire(TYPE_SEM, w, t)
           o == [type |-> "sem", count |-> w.lo, max |-> w.hi]
<1>0. w.lo \in Nat /\ w.hi \in Nat
  BY DEF Word
<1>1. Read(TYPE_SEM, w) = o
  BY ReadIs
<1>2. o.type = "sem" /\ o.count = w.lo /\ o.max = w.hi
  OBVIOUS
<1>3. CASE w.lo > 0
  <2>1. a.ok /\ a.w = pack_sem(w.lo - 1, w.hi) /\ a.od = FALSE
    BY <1>3 DEF try_acquire, Acquired, TYPE_SEM, TYPE_MUTEX, TYPE_EVENT
  <2>5. a.w.lo = w.lo - 1 /\ a.w.hi = w.hi
    BY <2>1 DEF pack_sem
  <2> HIDE DEF a, o
  <2>2. Read(TYPE_SEM, a.w) = [type |-> "sem", count |-> w.lo - 1, max |-> w.hi]
    BY <2>5, ReadIs
  <2>3. CanTakeB(t, o) /\ TakenB(t, o) = [type |-> "sem", count |-> w.lo - 1, max |-> w.hi]
    BY <1>2, <1>3 DEF CanTakeB, TakenB
  <2>4. QED
    <3>1. a.od <=> (Read(TYPE_SEM, w).type = "mutex" /\ Read(TYPE_SEM, w).abandoned)
      BY <1>1, <1>2, <2>1
    <3>2. Read(TYPE_SEM, a.w) = TakenB(t, Read(TYPE_SEM, w)) /\ CanTakeB(t, Read(TYPE_SEM, w))
      BY <1>1, <2>2, <2>3
    <3>3. Gives(TYPE_SEM, w, t, a)
      BY <2>1, <3>1, <3>2 DEF Gives
    <3>4. QED
      BY <3>3 DEF a
<1>4. CASE ~(w.lo > 0)
  <2>1. ~a.ok /\ a.w = w
    BY <1>4 DEF try_acquire, Busy, TYPE_SEM, TYPE_MUTEX, TYPE_EVENT
  <2> HIDE DEF a, o
  <2>2. ~CanTakeB(t, o)
    BY <1>2, <1>4 DEF CanTakeB
  <2>3. QED
    BY <1>1, <2>1, <2>2 DEF Gives, a
<1>5. QED
  BY <1>3, <1>4

\* try_acquire on a mutex takes what NtSync would take.
LEMMA AttemptMutex ==
    ASSUME NEW w \in Word, NEW t \in Threads, WellFormed(TYPE_MUTEX, w)
    PROVE  Gives(TYPE_MUTEX, w, t, try_acquire(TYPE_MUTEX, w, t))
<1> DEFINE a == try_acquire(TYPE_MUTEX, w, t)
           o == [type |-> "mutex", owner |-> w.lo, count |-> w.hi, abandoned |-> w.top]
           new == [type |-> "mutex", owner |-> t, count |-> w.hi + 1, abandoned |-> FALSE]
<1>0. w.lo \in Nat /\ w.hi \in Nat /\ w.top \in BOOLEAN /\ t # 0
  BY DEF Word
<1>1. Read(TYPE_MUTEX, w) = o
  BY ReadIs
<1>2. o.type = "mutex" /\ o.owner = w.lo /\ o.count = w.hi /\ o.abandoned = w.top
  OBVIOUS
<1>3. (w.lo = 0 <=> w.hi = 0) /\ (w.top => w.lo = 0) /\ w.hi <= MaxRec
  BY DEF WellFormed, TYPE_SEM, TYPE_MUTEX, TYPE_EVENT
<1>4. CASE w.hi < MaxRec /\ w.lo \in {0, t}
  <2>1. /\ a.ok /\ a.w.lo = t /\ a.w.hi = (w.hi + 1) % (MaxRec + 1) /\ a.w.top = FALSE
        /\ a.od <=> w.top
    <3>1. CASE w.lo = 0
      BY <1>0, <1>4, <3>1
      DEF try_acquire, Acquired, pack_mutex, TYPE_SEM, TYPE_MUTEX, TYPE_EVENT
    <3>2. CASE w.lo = t
      <4>1. w.top = FALSE /\ w.lo # 0
        BY <1>0, <1>3, <3>2
      <4>2. QED
        BY <1>0, <1>4, <3>2, <4>1
        DEF try_acquire, Acquired, pack_mutex, TYPE_SEM, TYPE_MUTEX, TYPE_EVENT
    <3>3. QED
      BY <1>4, <3>1, <3>2
  <2>2. (w.hi + 1) % (MaxRec + 1) = w.hi + 1
    <3>1. w.hi + 1 \in 0 .. MaxRec /\ w.hi + 1 \in Int
      BY <1>0, <1>4
    <3>2. QED
      BY <3>1, MaskFits
  <2> HIDE DEF a
  <2>6. a.w.lo = t /\ a.w.hi = w.hi + 1 /\ a.w.top = FALSE
    BY <2>1, <2>2
  <2>3. Read(TYPE_MUTEX, a.w) = new
    BY <2>6, ReadIs
  <2> HIDE DEF o
  <2>4. CanTakeB(t, o) /\ TakenB(t, o) = new
    BY <1>2, <1>4 DEF CanTakeB, TakenB
  <2> HIDE DEF new
  <2>5. QED
    <3>1. a.od <=> (Read(TYPE_MUTEX, w).type = "mutex" /\ Read(TYPE_MUTEX, w).abandoned)
      BY <1>1, <1>2, <2>1
    <3>2. /\ Read(TYPE_MUTEX, a.w) = TakenB(t, Read(TYPE_MUTEX, w))
          /\ CanTakeB(t, Read(TYPE_MUTEX, w))
      BY <1>1, <2>3, <2>4
    <3>3. Gives(TYPE_MUTEX, w, t, a)
      BY <2>1, <3>1, <3>2 DEF Gives
    <3>4. QED
      BY <3>3 DEF a
<1>5. CASE ~(w.hi < MaxRec /\ w.lo \in {0, t})
  <2>1. ~a.ok /\ a.w = w
    BY <1>5 DEF try_acquire, Busy, TYPE_SEM, TYPE_MUTEX, TYPE_EVENT
  <2> HIDE DEF a, o
  <2>2. ~CanTakeB(t, o)
    BY <1>2, <1>5 DEF CanTakeB
  <2>3. QED
    BY <1>1, <2>1, <2>2 DEF Gives, a
<1>6. QED
  BY <1>4, <1>5

\* try_acquire on the word of an event takes what NtSync would take.
LEMMA AttemptEvent ==
    ASSUME NEW w \in Word, NEW t \in Threads, WellFormed(TYPE_EVENT, w)
    PROVE  Gives(TYPE_EVENT, w, t, try_acquire(TYPE_EVENT, w, t))
<1> DEFINE a == try_acquire(TYPE_EVENT, w, t)
           o == [type |-> "event", signaled |-> w.lo # 0, manual |-> w.hi # 0]
<1>0. w.lo \in {0, 1} /\ w.hi \in {0, 1} /\ ~w.top
  BY DEF WellFormed, TYPE_SEM, TYPE_MUTEX, TYPE_EVENT
<1>1. Read(TYPE_EVENT, w) = o
  BY ReadIs
<1>2. o.type = "event" /\ o.signaled = (w.lo # 0) /\ o.manual = (w.hi # 0)
  OBVIOUS
<1>3. CASE w.lo # 0
  <2>1. a.ok /\ a.w = (IF HighZero(w) THEN ClearBit(w) ELSE w) /\ a.od = FALSE
    BY <1>3 DEF try_acquire, Acquired, TYPE_SEM, TYPE_MUTEX, TYPE_EVENT
  <2>2. a.w.hi = w.hi /\ (a.w.lo # 0) = (w.hi # 0)
    <3>1. CASE w.hi = 0
      <4>1. a.w = ClearBit(w)
        BY <1>0, <2>1, <3>1 DEF HighZero
      <4>2. ClearBit(w).hi = w.hi /\ ClearBit(w).lo = 0
        BY <1>0 DEF ClearBit, Word
      <4>3. QED
        BY <3>1, <4>1, <4>2
    <3>2. CASE w.hi # 0
      <4>1. a.w = w
        BY <2>1, <3>2 DEF HighZero
      <4>2. QED
        BY <1>3, <3>2, <4>1
    <3>3. QED
      BY <3>1, <3>2
  <2> HIDE DEF a
  <2>3. Read(TYPE_EVENT, a.w) =
          [type |-> "event", signaled |-> w.hi # 0, manual |-> w.hi # 0]
    BY <2>2, ReadIs
  <2> HIDE DEF o
  <2>4. TakenB(t, o) = [type |-> "event", signaled |-> w.hi # 0, manual |-> w.hi # 0]
    BY <1>2 DEF TakenB
  <2>5. CanTakeB(t, o)
    BY <1>2, <1>3 DEF CanTakeB
  <2>6. QED
    BY <1>1, <1>2, <2>1, <2>3, <2>4, <2>5 DEF Gives, a
<1>4. CASE w.lo = 0
  <2>1. ~a.ok /\ a.w = w
    BY <1>4 DEF try_acquire, Acquired, Busy, TYPE_SEM, TYPE_MUTEX, TYPE_EVENT
  <2> HIDE DEF a, o
  <2>2. ~CanTakeB(t, o)
    BY <1>2, <1>4 DEF CanTakeB
  <2>3. QED
    BY <1>1, <2>1, <2>2 DEF Gives, a
<1>5. QED
  BY <1>0, <1>3, <1>4

\* The attempt of a wait on its handle i.
LEMMA AttemptGives ==
    ASSUME RInv, NEW t \in Threads, NEW i \in 1 .. N(t), Waitable(hs(t)[i])
    PROVE  Gives(slot[hs(t)[i].idx].type, w0[hs(t)[i].idx], t, Attempt(t, i))
<1> DEFINE s == hs(t)[i].idx
           w == w0[s]
<1>1. s \in Slots /\ slot[s].type \in WaitTypes
  BY NamedObject
<1>2. w \in Word /\ WellFormed(slot[s].type, w)
  BY <1>1, Typed DEF RInv, WordInv, WordsOK
<1>3. Attempt(t, i) = try_acquire(slot[s].type, w, t)
  BY DEF Attempt
<1>4. CASE slot[s].type = TYPE_SEM
  BY <1>2, <1>3, <1>4, AttemptSem
<1>5. CASE slot[s].type = TYPE_MUTEX
  BY <1>2, <1>3, <1>5, AttemptMutex
<1>6. CASE slot[s].type = TYPE_EVENT
  BY <1>2, <1>3, <1>6, AttemptEvent
<1>7. QED
  BY <1>1, <1>4, <1>5, <1>6 DEF WaitTypes

\* The missed handles of a wait that goes on.
LEMMA MissedWait ==
    ASSUME RInv, RInv', NEW t \in Threads, ThreadStep(t), slot' = slot, d' = d, w0' = w0,
           req'[t] = req[t], eseq'[t] = eseq[t], res'[t] = res[t],
           pc[t] \in OpenLabels \ {"alertchk", "register"},
           pc'[t] \in OpenLabels \ {"alertchk", "register"},
           nodes'[t] = nodes[t]
    PROVE  OnlyMissed(t, MissedBy(t)')
<1>1. BlockedAt(t)' <=> BlockedAt(t)
  BY SameWait, OpenWait
<1>2. BlockedAt(t)' = BlockedAt(t)
  BY <1>1 DEF BlockedAt
<1>3. /\ CallOf(t)' = CallOf(t) /\ ReachedAt(t)' = ReachedAt(t) /\ MissedAt(t)' = MissedBy(t)'
      /\ ReleasedAt(t)' = ReleasedAt(t)
  BY SameWait
<1>4. QED
  BY <1>2, <1>3, MissedUpdate

\* An object has the type of its slot.
LEMMA ReadTypes ==
    ASSUME NEW type \in WaitTypes, NEW w
    PROVE  Read(type, w).type = type /\ type \in {"sem", "mutex", "event"}
<1>1. CASE type = TYPE_SEM
  BY <1>1, ReadIs DEF TYPE_SEM
<1>2. CASE type = TYPE_MUTEX
  BY <1>2, ReadIs DEF TYPE_MUTEX
<1>3. CASE type = TYPE_EVENT
  BY <1>3, ReadIs DEF TYPE_EVENT
<1>4. QED
  BY <1>1, <1>2, <1>3 DEF WaitTypes

\* Where a pass goes after handle i.
LEMMA PassMoves ==
    ASSUME RInv, NEW t \in Threads, PassAny(t), cur[t] \in 1 .. N(t), ~req[t].all
    PROVE  /\ req' = req /\ eseq' = eseq /\ res' = res
           /\ pc'[t] \in {"try", "deadline", "fastmiss", "spinmiss"}
           /\ pc'[t] = "spinmiss" => MissedBy(t)' = {}
           /\ pc'[t] # "spinmiss" => MissedBy(t)' = 1 .. cur[t]
<1>0. N(t) \in Nat
  BY ReqType DEF RInv, WordInv, TypeInv
<1>1. req' = req /\ eseq' = eseq /\ res' = res
  BY DEF PassAny, Miss
<1>2. \/ cur[t] < N(t) /\ pc'[t] = "try" /\ cur'[t] = cur[t] + 1
      \/ cur[t] = N(t) /\ pc'[t] \in {"deadline", "fastmiss", "spinmiss"}
  <2>1. CASE cur[t] < N(t)
    BY <2>1, Typed DEF PassAny, Goto
  <2>2. CASE ~(cur[t] < N(t))
    <3>1. Miss(t) /\ cur[t] = N(t)
      BY <1>0, <2>2 DEF PassAny
    <3>2. QED
      BY <3>1, Typed DEF Miss, Goto
  <2>3. QED
    BY <2>1, <2>2
<1>3. N(t)' = N(t) /\ ~req'[t].all
  BY <1>1 DEF N
<1>4. pc'[t] = "spinmiss" => MissedBy(t)' = {}
  BY DEF MissedBy
<1>5. pc'[t] # "spinmiss" => MissedBy(t)' = 1 .. cur[t]
  BY <1>0, <1>2, <1>3 DEF MissedBy
<1>6. QED
  BY <1>1, <1>2, <1>4, <1>5

\* A wait-any in its pass: its objects are there.
LEMMA AtTry ==
    ASSUME RInv, NEW t \in Threads, pc[t] \in {"try", "trypulse"}
    PROVE  /\ cur[t] \in 1 .. N(t) /\ N(t) \in Nat /\ pc[t] \in OpenLabels
           /\ Waitable(hs(t)[cur[t]]) /\ AllValid(t) /\ ~req[t].all
           /\ OpenB(t, req[t]) /\ Len(req[t].hs) = N(t) /\ req[t].hs = hs(t)
           /\ missedB[t] = 1 .. (IF pc[t] = "try" THEN cur[t] - 1 ELSE cur[t])
           /\ cur[t] \in reachedB[t] <=> Pulsed(t, cur[t])
<1>1. cur[t] \in 1 .. N(t) /\ N(t) \in Nat /\ AllValid(t) /\ pc[t] \in OpenLabels
  <2>1. TypeOK
    BY DEF RInv, WordInv, TypeInv
  <2>2. QED
    BY <2>1, ReqType, Typed DEF ThreadOK, TryOK, Sound, Validated, ValidLabels, OpenLabels
<1>2. ~req[t].all
  BY <1>1, OpenWait
<1>3. MissedBy(t) = 1 .. (IF pc[t] = "try" THEN cur[t] - 1 ELSE cur[t])
  BY <1>2 DEF MissedBy
<1>4. Waitable(hs(t)[cur[t]])
  BY <1>1 DEF AllValid
<1>5. QED
  BY <1>1, <1>2, <1>3, <1>4, WaitOpen

\* One attempt of a wait-any at a word: it takes the object, or misses it.
LEMMA TrySim ==
    ASSUME RInv, RInv', NEW t \in Threads, TryAny(t), slot' = slot
    PROVE  Promise!Next
<1> DEFINE i == cur[t]
           a == Attempt(t, i)
           r == req[t]
           h == hs(t)[i]
           type == slot[h.idx].type
           w == w0[h.idx]
           o == Read(type, w)
<1>0. /\ ThreadStep(t) /\ pc[t] = "try" /\ d' = d /\ nodes' = nodes /\ lock' = lock
      /\ w0' = [w0 EXCEPT ![h.idx] = a.w]
  BY DEF ThreadStep, Step, WaitStep, TryAny
<1>1. i \in 1 .. N(t) /\ N(t) \in Nat /\ pc[t] \in OpenLabels /\ Waitable(h) /\ ~r.all
  BY <1>0, AtTry
<1>3. h \in LiveHandles /\ h.idx \in Slots /\ type \in WaitTypes
  BY <1>1, NamedObject
<1>4. h \in DOMAIN objB /\ objB[h] = o
  BY <1>3, ObjAt
<1>5. Gives(type, w, t, a)
  BY <1>1, AttemptGives
<1>6. OpenB(t, r) /\ Len(r.hs) = N(t) /\ r.hs[i] = h /\ missedB[t] = 1 .. i - 1
  BY <1>0, AtTry
<1>7. o.type \in {"sem", "mutex", "event"}
  BY <1>3, ReadTypes
<1>8. CASE a.ok
  <2>1. /\ CanTakeB(t, o) /\ Read(type, a.w) = TakenB(t, o)
        /\ a.od <=> (o.type = "mutex" /\ o.abandoned)
    BY <1>5, <1>8 DEF Gives
  <2>2. Decide(t, Signaled(i - 1, a.od))
    BY <1>8 DEF TryAny
  <2>3. a.od \in BOOLEAN
    <3>1. w \in Word
      BY <1>3, Typed
    <3>2. QED
      BY <3>1 DEF Attempt, try_acquire, Acquired, Busy, Word
  <2>4. ReplyOf(Signaled(i - 1, a.od)) =
          Reply(IF o.type = "mutex" /\ o.abandoned THEN -EOWNERDEAD ELSE 0, i - 1)
    <3>1. ReplyOf(Signaled(i - 1, a.od)) = Reply(IF a.od THEN -EOWNERDEAD ELSE 0, i - 1)
      BY <2>3, Replies
    <3>2. QED
      BY <2>1, <3>1
  <2>5. Promise!Change(t, h, Read(type, a.w), ReplyOf(Signaled(i - 1, a.od)))
    <3> DEFINE reply == ReplyOf(Signaled(i - 1, a.od))
               x == a.w
    <3>1. ~Undecided(t)' /\ ReplyOf(res'[t]) = reply
      BY <2>2, DecideEnds
    <3>2. w0' = [w0 EXCEPT ![h.idx] = x]
      BY <1>0
    <3> HIDE DEF reply, x, h
    <3>3. Promise!Change(t, h, Read(slot[h.idx].type, x), reply)
      BY <1>0, <1>3, <3>1, <3>2, FinishChange
    <3>4. QED
      BY <3>3 DEF reply, x
  <2> HIDE DEF o, a, h, type, w
  <2>6. 1 .. i - 1 \subseteq missedB[t]
    BY <1>6
  <2>7. Promise!Change(t, r.hs[i], TakenB(t, o),
          Reply(IF o.type = "mutex" /\ o.abandoned THEN -EOWNERDEAD ELSE 0, i - 1))
    BY <1>6, <2>1, <2>4, <2>5
  <2>8. QED
    BY <1>1, <1>4, <1>6, <2>1, <2>6, <2>7, TakeB
<1>9. CASE ~a.ok
  <2>1. ~CanTakeB(t, o) /\ a.w = w
    BY <1>5, <1>9 DEF Gives
  <2>2. w0' = w0
    BY <1>0, <1>3, <2>1, Typed
  <2>3. /\ req' = req /\ eseq' = eseq /\ res' = res
        /\ pc'[t] \in {"try", "trypulse", "deadline", "fastmiss", "spinmiss"}
        /\ pc'[t] = "spinmiss" => MissedBy(t)' = {}
        /\ pc'[t] # "spinmiss" => MissedBy(t)' = 1 .. i
    <3>1. CASE IsEvent(t, i)
      <4>1. /\ req' = req /\ eseq' = eseq /\ res' = res /\ cur' = cur
            /\ pc'[t] = "trypulse"
        BY <1>9, <3>1, Typed DEF TryAny, Goto
      <4>2. MissedBy(t)' = 1 .. i
        BY <1>1, <4>1 DEF MissedBy
      <4>3. QED
        BY <4>1, <4>2
    <3>2. CASE ~IsEvent(t, i)
      <4>1. PassAny(t)
        BY <1>9, <3>2 DEF TryAny
      <4>2. QED
        BY <1>1, <4>1, PassMoves
    <3>3. QED
      BY <3>1, <3>2
  <2>4. OnlyMissed(t, MissedBy(t)')
    BY <1>0, <1>1, <2>2, <2>3, MissedWait DEF OpenLabels, BlockLabels
  <2>5. CASE pc'[t] = "spinmiss"
    BY <1>6, <2>3, <2>4, <2>5, AgainB
  <2>6. CASE pc'[t] # "spinmiss"
    <3>1. missedB[t] \cup {i} = 1 .. i
      BY <1>1, <1>6
    <3> HIDE DEF o, a, h, type, w
    <3>2. OnlyMissed(t, missedB[t] \cup {i})
      BY <2>3, <2>4, <2>6, <3>1
    <3>3. QED
      BY <1>1, <1>4, <1>6, <1>7, <2>1, <3>2, MissB
  <2>7. QED
    BY <2>5, <2>6
<1>10. QED
  BY <1>8, <1>9

\* One look of a wait-any at a pulse counter: the pulse lets it go, or the
\* event stays missed.
LEMMA TryPulseSim ==
    ASSUME RInv, RInv', NEW t \in Threads, TryPulseAny(t), slot' = slot
    PROVE  Promise!Next \/ Silent
<1> DEFINE i == cur[t]
           r == req[t]
           h == hs(t)[i]
<1>0. /\ ThreadStep(t) /\ pc[t] = "trypulse" /\ d' = d /\ nodes' = nodes /\ w0' = w0
  BY DEF ThreadStep, Step, WaitStep, TryPulseAny, shared
<1>1. /\ i \in 1 .. N(t) /\ N(t) \in Nat /\ pc[t] \in OpenLabels /\ Waitable(h) /\ ~r.all
      /\ OpenB(t, r) /\ Len(r.hs) = N(t) /\ r.hs[i] = h /\ missedB[t] = 1 .. i
  BY <1>0, AtTry
<1>2. CASE CounterMoved(t, i)
  <2>1. Decide(t, Signaled(i - 1, FALSE))
    BY <1>2 DEF TryPulseAny
  <2>2. Promise!Done(t, Reply(0, i - 1))
    BY <1>0, <2>1, DecideEnds, Replies, FinishDone
  <2>3. h \in DOMAIN objB
    BY <1>1, NamedObject, ObjAt
  <2>4. i \in reachedB[t]
    <3>1. slot[h.idx].type = TYPE_EVENT
      BY <1>0, Typed DEF Sound, Sampled
    <3>2. Pulsed(t, i)
      BY <1>2, <3>1 DEF CounterMoved, Pulsed
    <3>3. QED
      BY <1>0, <3>2, AtTry
  <2>5. 1 .. i - 1 \subseteq missedB[t]
    BY <1>1
  <2> HIDE DEF h
  <2>6. QED
    BY <1>1, <2>2, <2>3, <2>4, <2>5, TakePulseB
<1>3. CASE ~CounterMoved(t, i)
  <2>1. PassAny(t)
    BY <1>3 DEF TryPulseAny
  <2>2. /\ req' = req /\ eseq' = eseq /\ res' = res
        /\ pc'[t] \in {"try", "deadline", "fastmiss", "spinmiss"}
        /\ pc'[t] = "spinmiss" => MissedBy(t)' = {}
        /\ pc'[t] # "spinmiss" => MissedBy(t)' = 1 .. i
    BY <1>1, <2>1, PassMoves
  <2>3. pc'[t] \in OpenLabels
    BY <2>2 DEF OpenLabels, BlockLabels
  <2>4. CASE pc'[t] = "spinmiss"
    <3>1. OnlyMissed(t, MissedBy(t)')
      BY <1>0, <1>1, <2>2, <2>3, <2>4, MissedWait
    <3>2. QED
      BY <1>1, <2>2, <2>4, <3>1, AgainB
  <2>5. CASE pc'[t] # "spinmiss"
    <3>1. MissedBy(t)' = MissedBy(t)
      BY <1>0, <1>1, <2>2, <2>5 DEF MissedBy
    <3>2. QED
      BY <1>0, <1>1, <2>2, <2>3, <3>1, SilentWait
  <2>6. QED
    BY <2>4, <2>5
<1>4. QED
  BY <1>2, <1>3

\* The end of the fast path: a poll gives up, having found nothing in one pass.
LEMMA FastMissSim ==
    ASSUME RInv, RInv', NEW t \in Threads, FastMiss(t), slot' = slot
    PROVE  Promise!Next
<1>0. ThreadStep(t) /\ d' = d /\ w0' = w0 /\ pc[t] = "fastmiss" /\ nodes' = nodes
  BY DEF ThreadStep, Step, WaitStep, FastMiss, shared
<1>1. pc[t] \in OpenLabels /\ nodes[t] = 0 /\ ~req[t].all
  BY <1>0, Typed, OpenWait DEF OpenLabels, ThreadOK, HoldOK, FastLabels
<1>2. OpenB(t, req[t]) /\ Len(req[t].hs) = N(t) /\ missedB[t] = MissedBy(t)
  BY <1>1, WaitOpen
<1>3. CASE req[t].timeout = "zero"
  <2>1. Return(t, Timeout)
    BY <1>3 DEF FastMiss
  <2>2. Promise!Done(t, Error(-ETIMEDOUT))
    BY <1>0, <2>1, ReturnEnds, Replies, FinishDone
  <2>3. MissedBy(t) = 1 .. N(t)
    BY <1>0, <1>1 DEF MissedBy
  <2>4. blockedB[t] = FALSE
    <3>1. BlockedAt(t) = FALSE
      BY <1>0, <1>1 DEF BlockedAt
    <3>2. QED
      BY <3>1, ThreadB
  <2>5. QED
    BY <1>2, <1>3, <2>2, <2>3, <2>4, TimeOutB
<1>4. CASE req[t].timeout # "zero"
  <2>1. pc'[t] = "lock" /\ req' = req /\ eseq' = eseq /\ res' = res
    BY <1>4, Typed DEF FastMiss, Goto
  <2>2. OnlyMissed(t, MissedBy(t)')
    BY <1>0, <1>1, <2>1, MissedWait DEF OpenLabels
  <2>3. MissedBy(t)' = {}
    BY <2>1, NoneMissedNext DEF QuietLabels
  <2>4. QED
    BY <1>2, <2>2, <2>3, AgainB
<1>5. QED
  BY <1>3, <1>4

\* A handle that the validation under the lock does not find.
LEMMA LockInvalidSim ==
    ASSUME RInv, NEW t \in Threads, Lock(t), slot' = slot, ~AllValid(t)
    PROVE  Promise!Next
<1>0. ThreadStep(t) /\ d' = d /\ w0' = w0 /\ pc[t] = "lock"
  BY DEF ThreadStep, Step, WaitStep, Lock, shared
<1>1. pc[t] \in OpenLabels
  BY <1>0 DEF OpenLabels
<1>2. ~Undecided(t)' /\ res'[t] = Invalid
  BY Typed DEF Lock, Goto, Undecided
<1>3. Promise!Done(t, Error(-EINVAL))
  BY <1>0, <1>2, Replies, FinishDone
<1>4. DOMAIN objB = LiveHandles
  BY DEF objB
<1>5. BadHandle(req[t])
  <2>1. req[t].op = "wait" /\ Len(req[t].hs) = N(t) /\ req[t].hs = hs(t)
    BY <1>1, WaitOpen, OpenWait
  <2>2. CASE \E i \in 1 .. N(t) : ~Waitable(hs(t)[i])
    <3>1. PICK i \in 1 .. N(t) : ~Waitable(hs(t)[i])
      BY <2>2
    <3>2. hs(t)[i] \in Handles
      BY ReqType DEF RInv, WordInv, TypeInv
    <3>3. hs(t)[i] \notin DOMAIN objB
      BY <1>4, <3>1, <3>2, Live
    <3>4. QED
      BY <2>1, <3>3 DEF BadHandle
  <2>3. CASE HasAlert(t) /\ ~ValidOf(alert(t), TYPE_EVENT)
    <3>1. alert(t) \in Handles
      BY ReqType DEF RInv, WordInv, TypeInv
    <3>2. ~(alert(t) \in DOMAIN objB /\ objB[alert(t)].type = "event")
      BY <2>3, <3>1, IsAB DEF WaitTypes, TYPE_EVENT
    <3>3. QED
      BY <2>1, <2>3, <3>2 DEF BadHandle, HasAlert, alert
  <2>4. QED
    BY <2>2, <2>3 DEF AllValid
<1>6. callB[t] = req[t]
  BY <1>1, OpenWait, ThreadB
<1>7. QED
  BY <1>3, <1>5, <1>6, InvalidB

\* The wait blocks: it samples the pulse counters again, under the lock.
LEMMA LockBlockSim ==
    ASSUME RInv, RInv', NEW t \in Threads, Lock(t), slot' = slot, AllValid(t), nodes[t] = 0
    PROVE  Promise!Next
<1>0. /\ ThreadStep(t) /\ d' = d /\ w0' = w0 /\ pc[t] = "lock" /\ req' = req
      /\ nodes' = nodes
  BY DEF ThreadStep, Step, WaitStep, Lock, shared
<1>1. pc[t] \in OpenLabels
  BY <1>0 DEF OpenLabels
<1>2. /\ pc'[t] \in {"alertchk", "register"} /\ res' = res
      /\ eseq'[t] = [i \in 1 .. N(t) |->
                       IF FirstRound(t) /\ slot[hs(t)[i].idx].type = TYPE_EVENT
                       THEN d[hs(t)[i].idx] ELSE eseq[t][i]]
  BY Typed DEF Lock, Goto
<1>3. FirstRound(t) /\ req[t].timeout # "zero"
  BY <1>0, Typed DEF FirstRound, Sound, Validated
<1>4. OpenB(t, req[t]) /\ CallOf(t) = req[t] /\ req[t].op = "wait"
  BY <1>1, WaitOpen, OpenWait
<1>5. Undecided(t)' /\ WaitUndecided(t)'
  BY <1>0, <1>2, <1>4 DEF Undecided, WaitUndecided
<1>6. CallOf(t)' = CallOf(t)
  BY <1>0, <1>4, <1>5 DEF CallOf
<1>7. BlockedAt(t)' = TRUE
  BY <1>2, <1>5 DEF BlockedAt
<1>8. BlockedAt(t) = FALSE
  BY <1>0 DEF BlockedAt
<1>9. MissedAt(t)' = {}
  <2>1. MissedBy(t)' = {}
    BY <1>2, NoneMissedNext DEF QuietLabels
  <2>2. QED
    BY <1>5, <2>1 DEF MissedAt
<1>10. ReachedAt(t)' = {}
  <2>1. N(t)' = N(t) /\ hs(t)' = hs(t)
    BY <1>0, ReqSame
  <2>2. \A i \in 1 .. N(t) :
          slot[hs(t)[i].idx].type = TYPE_EVENT => eseq'[t][i] = d[hs(t)[i].idx]
    BY <1>2, <1>3
  <2>3. ReachedBy(t)' = {}
    BY <1>0, <2>1, <2>2 DEF ReachedBy
  <2>4. QED
    BY <1>5, <2>3 DEF ReachedAt
<1>11. \A u \in Threads \ {t} : SameView(u)
  BY <1>0, OthersSame
<1>12. callB' = callB
  BY <1>6, <1>11 DEF callB, SameView
<1>13. outB' = outB
  BY <1>2 DEF outB
<1>14. blockedB' = [blockedB EXCEPT ![t] = TRUE]
  BY <1>7, <1>11 DEF blockedB, SameView
<1>15. missedB' = [missedB EXCEPT ![t] = {}]
  BY <1>9, <1>11 DEF missedB, SameView
<1>16. reachedB' = [reachedB EXCEPT ![t] = {}]
  BY <1>10, <1>11 DEF reachedB, SameView
<1>17. objB' = objB /\ blockedB[t] = FALSE
  BY <1>0, <1>8, ObjSame, ThreadB
<1>18. ReleasedAt(t)' = FALSE /\ ReleasedAt(t) = FALSE
  BY <1>0, <1>2 DEF ReleasedAt
<1>19. releasedB' = releasedB
  BY <1>11, <1>18 DEF releasedB, SameView
<1>20. QED
  BY <1>3, <1>4, <1>12, <1>13, <1>14, <1>15, <1>16, <1>17, <1>19, BlockB

\* Validation under the lock blocks the wait or refuses it; later rounds show nothing.
LEMMA LockSim ==
    ASSUME RInv, RInv', NEW t \in Threads, Lock(t), slot' = slot
    PROVE  Promise!Next \/ Silent
<1>0. /\ ThreadStep(t) /\ d' = d /\ w0' = w0 /\ pc[t] = "lock" /\ req' = req
      /\ nodes' = nodes
  BY DEF ThreadStep, Step, WaitStep, Lock, shared
<1>1. CASE ~AllValid(t)
  BY <1>1, LockInvalidSim
<1>2. CASE AllValid(t) /\ nodes[t] = 0
  BY <1>2, LockBlockSim
<1>3. CASE AllValid(t) /\ nodes[t] # 0
  <2>1. /\ pc'[t] \in {"alertchk", "register"} /\ res' = res
        /\ eseq'[t] = [i \in 1 .. N(t) |->
                         IF FirstRound(t) /\ slot[hs(t)[i].idx].type = TYPE_EVENT
                         THEN d[hs(t)[i].idx] ELSE eseq[t][i]]
    BY <1>3, Typed DEF Lock, Goto
  <2>2. ~FirstRound(t) /\ nodes[t] > 0
    BY <1>3, Typed DEF FirstRound
  <2>3. eseq[t] \in Seq(Nat) /\ Len(eseq[t]) = N(t)
    BY <1>0, Typed DEF ThreadOK, CallOK, CallLabels
  <2>4. eseq'[t] = [i \in 1 .. N(t) |-> eseq[t][i]]
    BY <2>1, <2>2
  <2>5. eseq'[t] = eseq[t]
    BY <2>3, <2>4
  <2>6. QED
    BY <1>0, <2>1, <2>2, <2>5, SilentMove DEF QuietLabels
<1>4. QED
  BY <1>1, <1>2, <1>3

\* The nodes are there if the pool was made for everybody.
LEMMA RegisterSim ==
    ASSUME Promised, RInv, RInv', NEW t \in Threads, Register(t), slot' = slot
    PROVE  Promise!Next \/ Silent
<1>0. /\ ThreadStep(t) /\ d' = d /\ w0' = w0 /\ pc[t] = "register"
      /\ UNCHANGED <<req, eseq, cur>>
  BY DEF ThreadStep, Step, WaitStep, Register, shared
<1>1. pc[t] \in OpenLabels /\ cur[t] = 1
  BY <1>0, Typed DEF OpenLabels, HeldLabels, ThreadOK, TryOK
<1>2. n_nodes(t) \in 1 .. MaxWaitCount + 1
  BY <1>0, NodesNeeded DEF CallLabels
<1>3. CASE Exhausted(t)
  <2>1. ~Undecided(t)' /\ res'[t] = Invalid
    BY <1>3, Typed DEF Register, Goto, Undecided
  <2>2. Promise!Done(t, Error(-EINVAL))
    BY <1>0, <2>1, Replies, FinishDone
  <2>3. ~(NodeCount >= Cardinality(Threads) * (MaxWaitCount + 1))
    <3>1. nodes[t] = 0 /\ pool < n_nodes(t) /\ pool \in Nat
      BY <1>3 DEF Exhausted, RInv, WordInv, TypeInv, TypeOK
    <3>2. ~(pool >= MaxWaitCount + 1)
      BY <1>2, <3>1
    <3>3. QED
      BY <3>1, <3>2, RoomLeft
  <2>4. blockedB[t] = TRUE
    <3>1. BlockedAt(t) = TRUE
      BY <1>0, <1>1, OpenWait DEF BlockedAt
    <3>2. QED
      BY <3>1, ThreadB
  <2>5. QED
    BY <1>1, <2>2, <2>3, <2>4, WaitOpen, ExhaustedB
<1>4. CASE ~Exhausted(t)
  <2>1. pc'[t] = "try" /\ nodes'[t] = n_nodes(t) /\ res' = res
    BY <1>4, Typed DEF Register, Goto
  <2>2. QED
    BY <1>0, <1>1, <1>2, <2>1, SilentMove DEF QuietLabels
<1>5. QED
  BY <1>3, <1>4

\* The deadline test: no pulse has come since the pass that found nothing.
LEMMA DeadlineSim ==
    ASSUME RInv, RInv', NEW t \in Threads, Deadline(t), slot' = slot
    PROVE  Promise!Next
<1>0. /\ ThreadStep(t) /\ d' = d /\ w0' = w0 /\ pc[t] = "deadline"
      /\ UNCHANGED <<req, eseq, nodes>>
  BY DEF ThreadStep, Step, WaitStep, Deadline, shared
<1>1. pc[t] \in OpenLabels /\ ~req[t].all
  BY <1>0, OpenWait DEF OpenLabels, HeldLabels
<1>2. OpenB(t, req[t]) /\ Len(req[t].hs) = N(t) /\ missedB[t] = MissedBy(t)
  BY <1>1, WaitOpen
<1>3. CASE expired[t]
  <2>1. ~Undecided(t)' /\ res'[t] = Timeout
    BY <1>3, Typed DEF Deadline, Goto, Undecided
  <2>2. Promise!Done(t, Error(-ETIMEDOUT))
    BY <1>0, <2>1, Replies, FinishDone
  <2>3. MissedBy(t) = 1 .. N(t)
    BY <1>0, <1>1 DEF MissedBy
  <2>4. reachedB[t] = {}
    <3>1. \A i \in 1 .. N(t) : ~Pulsed(t, i)
      BY <1>0, Typed DEF Sound, Sampled
    <3>2. QED
      BY <1>1, <3>1, WaitOpen
  <2>5. req[t].timeout # "inf"
    BY <1>3, Typed DEF Sound, InCall
  <2>6. QED
    BY <1>2, <2>2, <2>3, <2>4, <2>5, TimeOutB
<1>4. CASE ~expired[t]
  <2>1. pc'[t] \in {"spin", "futex", "tail"} /\ res' = res
    BY <1>4, Typed DEF Deadline, Goto, SleepLabels
  <2>2. OnlyMissed(t, MissedBy(t)')
    BY <1>0, <1>1, <2>1, MissedWait DEF OpenLabels, HeldLabels, BlockLabels
  <2>3. MissedBy(t)' = {}
    BY <2>1, NoneMissedNext DEF QuietLabels, BlockLabels
  <2>4. QED
    BY <1>2, <2>2, <2>3, AgainB
<1>5. QED
  BY <1>3, <1>4

-----------------------------------------------------------------------------
(* The theorem. *)

\* Every step of WaitEngine is a step of NtSync or is not seen by it.
LEMMA StepRefines ==
    Promised /\ RInv /\ RInv' /\ [Next]_vars => [Promise!Next]_(Promise!vars)
<1> SUFFICES ASSUME Promised, RInv, RInv', [Next]_vars PROVE Promise!Next \/ Silent
  BY DEF Silent
<1>1. CASE UNCHANGED vars
  <2>1. UNCHANGED <<slot, w0, d, lock, pc, req, cur, eseq, acq, nodes, spin, res>>
    BY <1>1 DEF vars, shared, local
  <2>2. \A u \in Threads : SameView(u)
    BY <2>1, ViewFrame DEF Undisturbed
  <2>3. QED
    BY <2>1, <2>2, ObjSame, Stutter DEF Silent
<1>2. CASE Next
  <2>1. PICK t \in Threads : ThreadStep(t)
    BY <1>2 DEF Next, ThreadStep, Promised, Create
  <2>2. slot' = slot
    BY <1>2, SlotKept
  <2>3. CASE Refuse(t) \/ Begin(t) \/ Interrupt(t) \/ Expire(t)
    BY <2>2, <2>3, RefuseSim, BeginSim, BlockSilent, ExpireSilent
  <2>4. CASE SignalStep(t) \/ LockedStep(t)
    <3>1. ~close(t)
      BY DEF RInv, Sound, InCall, close
    <3>2. QED
      BY <2>2, <2>4, <3>1, ResolveSim, CasSim, AfterSilent, PulseReadsSim,
         PulseReleasesSim, PulseLoadSilent, PulseClearsSim
      DEF SignalStep, LockedStep
  <2>5. CASE WaitStep(t)
    <3>1. ~TryAll(t) /\ ~TryPulseAll(t) /\ ~Rollback(t)
      BY DEF RInv, WordInv, Calm, TryAll, TryPulseAll, Rollback
    <3>2. CASE \/ FastValidate(t) \/ AlertValid(t) \/ AlertFast(t) \/ FastMiss(t)
               \/ TryAny(t) \/ TryPulseAny(t) \/ Cleanup(t)
      BY <2>2, <3>2, ValidateSilent, AlertValidSim, AlertFastSim, FastMissSim, TrySim,
         TryPulseSim, AfterSilent
    <3>3. CASE \/ Lock(t) \/ AlertCheck(t) \/ Register(t) \/ Deadline(t) \/ SpinAlert(t)
               \/ Peek(t) \/ SpinMiss(t) \/ Wake(t) \/ TailDone(t) \/ Awake(t)
      BY <2>2, <3>3, LockSim, AlertCheckSim, RegisterSim, DeadlineSim, SpinAlertSim,
         BlockSilent
    <3>4. QED
      BY <2>5, <3>1, <3>2, <3>3 DEF WaitStep
  <2>6. QED
    BY <2>1, <2>3, <2>4, <2>5 DEF ThreadStep, Step
<1>3. QED
  BY <1>1, <1>2

\* WaitEngine implements NtSync.  For every number of threads, table of
\* objects, node pool and workload of signal operations, pulses, and waits for
\* any of several objects: each call but a pulse takes effect at one instant
\* between its start and its return, a pulse at three (it reads, it lets go, it
\* clears, and others may act in between), on objects that behave as the ntsync
\* driver defines them, and the caller is told the errno, the index and the
\* previous state that belong to those instants.  The CAS loops, the unlocked
\* loads and stores of a pulse, the unlocked validation and attempt, the
\* re-validation under the lock, registration, spin, sleep and cleanup of
\* wait() in core.rs cannot be told from it.
THEOREM WaitEngineRefines ==
    ASSUME Promised
    PROVE  Spec => Linearizable
<1>1. Init => RInv /\ Promise!Init
  BY RInit, InitRefines
<1>2. RInv /\ [Next]_vars => RInv'
  BY RStep
<1>3. RInv /\ RInv' /\ [Next]_vars => [Promise!Next]_(Promise!vars)
  BY StepRefines
<1>4. QED
  BY <1>1, <1>2, <1>3, PTL DEF Spec, Linearizable, Promise!Spec
=============================================================================
