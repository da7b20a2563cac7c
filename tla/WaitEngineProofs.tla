-------------------------- MODULE WaitEngineProofs --------------------------
(***************************************************************************)
(* Proofs about WaitEngine, for every set of threads, table, node pool and *)
(* workload.                                                               *)
(***************************************************************************)
EXTENDS WaitEngine, SequenceTheorems, TLAPS

USE MaxRecAssumption, ThreadsAssumption, SizesAssumption

-----------------------------------------------------------------------------
(* The operators of NtObject. *)

\* Masking a recursion count to 31 bits gives a count that fits, and leaves one
\* that fits already alone (pack_mutex).
LEMMA MaskFits ==
    ASSUME NEW x \in Int
    PROVE  /\ x % (MaxRec + 1) \in 0 .. MaxRec
           /\ x \in 0 .. MaxRec => x % (MaxRec + 1) = x
  OBVIOUS

\* Setting and clearing the low bit of a word gives a word.
LEMMA BitWords ==
    ASSUME NEW w \in Word
    PROVE  SetBit(w) \in Word /\ ClearBit(w) \in Word
  BY DEF SetBit, ClearBit, Word

\* A word made by a pack function is a word.
LEMMA PackSemWord ==
    ASSUME NEW a \in Nat, NEW b \in Nat
    PROVE  pack_sem(a, b) \in Word
  BY DEF pack_sem, Word

\* Every signal operation turns a word into a word and an answer.
LEMMA OutcomeType ==
    ASSUME NEW r \in Requests, r.op \in SignalOps, NEW w \in Word
    PROVE  /\ OpOutcome(r, w).w \in Word
           /\ OpOutcome(r, w).err \in Kinds
           /\ OpOutcome(r, w).val \in Nat
           /\ OpOutcome(r, w).wake \in BOOLEAN
<1>0. r.n \in Nat /\ w.lo \in Nat /\ w.hi \in Nat /\ w.top \in BOOLEAN
  BY DEF Requests, Word
<1>1. CASE r.op = "sem_release"
  <2>1. OpOutcome(r, w) = sem_release(w, r.n)
    BY <1>1 DEF OpOutcome
  <2>2. pack_sem(w.lo + r.n, w.hi) \in Word
    BY <1>0, PackSemWord
  <2>3. QED
    BY <1>0, <2>1, <2>2 DEF sem_release, Outcome, Kinds
<1>2. CASE r.op = "event_set"
  BY <1>0, <1>2, BitWords DEF OpOutcome, event_set, Outcome, Kinds
<1>3. CASE r.op = "event_reset"
  BY <1>0, <1>3, BitWords DEF OpOutcome, event_reset, Outcome, Kinds
<1>4. CASE r.op = "mutex_unlock"
  <2>1. OpOutcome(r, w) = mutex_unlock(w, r.n)
    BY <1>4 DEF OpOutcome
  <2>2. (w.hi - 1) % (MaxRec + 1) \in Nat
    BY <1>0, MaskFits
  <2>3. CASE w.lo # r.n
    BY <2>1, <2>3 DEF mutex_unlock, Outcome, Kinds
  <2>4. CASE w.lo = r.n /\ w.hi = 1
    BY <1>0, <2>1, <2>2, <2>4 DEF mutex_unlock, pack_mutex, Outcome, Kinds, Word
  <2>5. CASE w.lo = r.n /\ w.hi # 1
    BY <1>0, <2>1, <2>2, <2>5 DEF mutex_unlock, pack_mutex, Outcome, Kinds, Word
  <2>6. QED
    BY <2>3, <2>4, <2>5
<1>5. CASE r.op = "mutex_kill"
  <2>1. OpOutcome(r, w) = mutex_kill(w, r.n)
    BY <1>5 DEF OpOutcome
  <2>2. 0 % (MaxRec + 1) \in Nat
    BY MaskFits
  <2>3. QED
    BY <1>0, <2>1, <2>2 DEF mutex_kill, pack_mutex, Outcome, Kinds, Word
<1>6. QED
  BY <1>1, <1>2, <1>3, <1>4, <1>5 DEF SignalOps

\* An attempt turns a word into a word and an answer.
LEMMA AttemptType ==
    ASSUME NEW type, NEW w \in Word, NEW owner \in Nat
    PROVE  LET a == try_acquire(type, w, owner)
           IN  /\ a.w \in Word
               /\ a.ok \in BOOLEAN
               /\ a.od \in BOOLEAN
               /\ ~a.ok => a.w = w
<1>0. w.lo \in Nat /\ w.hi \in Nat /\ w.top \in BOOLEAN
  BY DEF Word
<1>1. CASE type = TYPE_SEM
  <2>1. w.lo > 0 => pack_sem(w.lo - 1, w.hi) \in Word
    BY <1>0, PackSemWord
  <2>2. QED
    BY <1>0, <1>1, <2>1
    DEF try_acquire, Acquired, Busy, TYPE_SEM, TYPE_MUTEX, TYPE_EVENT
<1>2. CASE type = TYPE_MUTEX
  <2>1. (w.hi + 1) % (MaxRec + 1) \in Nat
    BY <1>0, MaskFits
  <2>2. QED
    BY <1>0, <1>2, <2>1
    DEF try_acquire, pack_mutex, Word, Acquired, Busy, TYPE_SEM, TYPE_MUTEX, TYPE_EVENT
<1>3. CASE type = TYPE_EVENT
  BY <1>0, <1>3, BitWords
  DEF try_acquire, Acquired, Busy, TYPE_SEM, TYPE_MUTEX, TYPE_EVENT
<1>4. CASE type \notin {TYPE_SEM, TYPE_MUTEX, TYPE_EVENT}
  BY <1>0, <1>4 DEF try_acquire, Acquired, Busy
<1>5. QED
  BY <1>1, <1>2, <1>3, <1>4

\* It succeeds, by the word or else by the counter that an event has, exactly
\* when is_locked says that it can (the peek of the spin relies on that).
LEMMA AttemptLocked ==
    ASSUME NEW type, NEW w \in Word, NEW dd, NEW owner \in Nat, NEW seq
    PROVE  is_locked(type, w, dd, owner, seq)
             <=> try_acquire(type, w, owner).ok \/ (type = TYPE_EVENT /\ dd # seq)
<1>1. w.lo \in Nat /\ w.hi \in Nat
  BY DEF Word
<1>2. QED
  BY <1>1 DEF try_acquire, is_locked, Acquired, Busy, TYPE_SEM, TYPE_MUTEX, TYPE_EVENT

\* So does the undo of one.
LEMMA RollbackType ==
    ASSUME NEW type, NEW w \in Word, NEW owner \in Nat, NEW od \in BOOLEAN
    PROVE  rollback_acquire(type, w, owner, od) \in Word
<1>0. w.lo \in Nat /\ w.hi \in Nat /\ w.top \in BOOLEAN
  BY DEF Word
<1>1. CASE type = TYPE_SEM
  BY <1>0, <1>1 
  DEF rollback_acquire, pack_sem, Word, TYPE_SEM, TYPE_MUTEX, TYPE_EVENT
<1>2. CASE type = TYPE_MUTEX
  <2>1. /\ 0 % (MaxRec + 1) \in Nat
        /\ (w.hi - 1) % (MaxRec + 1) \in Nat
    BY <1>0, MaskFits
  <2>2. QED
    BY <1>0, <1>2, <2>1 DEF rollback_acquire, pack_mutex, Word, TYPE_SEM, TYPE_MUTEX, TYPE_EVENT
<1>3. CASE type = TYPE_EVENT
  BY <1>0, <1>3, BitWords DEF rollback_acquire, TYPE_SEM, TYPE_MUTEX, TYPE_EVENT
<1>4. CASE type \notin {TYPE_SEM, TYPE_MUTEX, TYPE_EVENT}
  BY <1>0, <1>4 DEF rollback_acquire
<1>5. QED
  BY <1>1, <1>2, <1>3, <1>4

-----------------------------------------------------------------------------
(***************************************************************************)
(* Type correctness.  It is not inductive by itself: that a handle index   *)
(* is in range, that the spin counter does not go below 0 and that the     *)
(* pool does not either depend on where each thread stands.                *)
(***************************************************************************)
CallLabels == {"idle", "resolve", "cas", "head", "walk", "locked", "pulse", "clear",
               "store"}
FastLabels == {"validate", "alertvalid", "alertfast", "fastmiss"}
HeldLabels == {"pulse", "clear", "store", "alertchk", "register", "deadline"}
BlockLabels == {"spin", "peek", "spinmiss", "futex", "tail", "awake"}

\* The call a thread is in, by its label.
CallOK(t) ==
    /\ pc[t] \in {"resolve", "cas", "head", "walk"} => req[t].op \in SignalOps
    /\ pc[t] \in {"pulse", "clear", "store"} => req[t].op = "event_pulse"
    /\ pc[t] \notin CallLabels => N(t) >= 1 /\ Len(eseq[t]) = N(t)

\* How far a try_satisfy has got.
TryOK(t) ==
    /\ pc[t] \in {"validate", "try", "trypulse"} => cur[t] \in 1 .. N(t)
    /\ pc[t] \notin {"validate", "try", "trypulse", "rollback"} => cur[t] = 1
    /\ pc[t] \notin {"try", "trypulse", "rollback"} => acq[t] = <<>>
    /\ pc[t] = "rollback" => acq[t] # <<>>
    /\ \A k \in 1 .. Len(acq[t]) : acq[t][k].i \in 1 .. N(t)

\* What a thread holds: nodes, the lock, spin iterations.
HoldOK(t) ==
    /\ pc[t] \in CallLabels \cup FastLabels => nodes[t] = 0
    /\ pc[t] \in BlockLabels \cup {"deadline"} => nodes[t] > 0
    /\ pc[t] \notin CallLabels => nodes[t] \in {0, n_nodes(t)}
    /\ pc[t] \in HeldLabels => lock = t
    /\ pc[t] \notin HeldLabels \cup {"try", "trypulse", "rollback", "cleanup"} => lock # t
    /\ pc[t] \in {"try", "trypulse", "rollback"} /\ lock = t => nodes[t] > 0
    /\ pc[t] \in {"try", "trypulse", "rollback"} /\ lock # t /\ nodes[t] > 0 => spin[t] > 0
    /\ pc[t] \in {"spin", "peek", "spinmiss"} => spin[t] > 0

ThreadOK(t) == CallOK(t) /\ TryOK(t) /\ HoldOK(t)

TypeInv == TypeOK /\ \A t \in Threads : ThreadOK(t)

\* A step leaves alone what another thread's invariant is about.
Undisturbed(u) ==
    /\ pc'[u] = pc[u] /\ req'[u] = req[u] /\ cur'[u] = cur[u] /\ eseq'[u] = eseq[u]
    /\ acq'[u] = acq[u] /\ nodes'[u] = nodes[u] /\ spin'[u] = spin[u]
    /\ lock' = u <=> lock = u

LEMMA Frame ==
    ASSUME NEW u \in Threads, ThreadOK(u), Undisturbed(u)
    PROVE  ThreadOK(u)'
<1>1. CallOK(u)'
  BY DEF ThreadOK, CallOK, Undisturbed, N, HasAlert
<1>2. TryOK(u)'
  BY DEF ThreadOK, TryOK, Undisturbed, N, HasAlert
<1>3. HoldOK(u)'
  <2>1. n_nodes(u)' = n_nodes(u)
    BY DEF Undisturbed, n_nodes, N, HasAlert
  <2>2. QED
    BY <2>1 DEF ThreadOK, HoldOK, Undisturbed
<1>4. QED
  BY <1>1, <1>2, <1>3 DEF ThreadOK

LEMMA TInit == Init => TypeInv
<1> SUFFICES ASSUME Init PROVE TypeInv
  OBVIOUS
<1>1. TypeOK
  <2>1. slot \in [Slots -> [used : BOOLEAN, gen : Nat, type : Types]]
    BY WorkloadAssumption DEF Init, Objects, WaitTypes, Types
  <2>2. w0 \in [Slots -> Word]
    BY WorkloadAssumption, PackSemWord DEF Init, Objects
  <2>3. NoReq \in Requests
    BY DEF NoReq, SignalReq, NoHandle, Requests, Handles, Slots, Ops, LockedOps
  <2>4. NoResult \in Results /\ NoWord \in Word
    BY PackSemWord DEF NoResult, NoWord, Result, Results, Kinds
  <2>5. QED
    BY <2>1, <2>2, <2>3, <2>4 DEF Init, TypeOK, NoThread, Labels
<1>2. ASSUME NEW t \in Threads PROVE ThreadOK(t)
  BY DEF Init, ThreadOK, CallOK, TryOK, HoldOK, NoThread, CallLabels, FastLabels,
         HeldLabels, BlockLabels, N, n_nodes
<1>3. QED
  BY <1>1, <1>2 DEF TypeInv

\* The result of a call is one of the results.
LEMMA ResultType ==
    ASSUME NEW kind \in Kinds, NEW val \in Nat, NEW od \in BOOLEAN
    PROVE  Result(kind, val, od) \in Results
  BY DEF Result, Results

LEMMA NamedResults ==
    /\ {NoResult, Invalid, Timeout, Panic} \subseteq Results
    /\ \A n \in Nat : \A od \in BOOLEAN : Signaled(n, od) \in Results
  BY DEF NoResult, Invalid, Timeout, Panic, Signaled, Result, Results, Kinds

\* The shape of the request of a thread, and how many handles it has.
LEMMA ReqType ==
    ASSUME TypeOK, NEW t \in Threads
    PROVE  /\ req[t] \in Requests
           /\ hs(t) \in Seq(Handles)
           /\ N(t) \in Nat
           /\ n_nodes(t) \in Nat
           /\ n_nodes(t) >= N(t)
           /\ \A i \in 1 .. N(t) : hs(t)[i] \in Handles /\ hs(t)[i].idx \in Slots
           /\ alert(t) \in Handles /\ alert(t).idx \in Slots
<1>1. req[t] \in Requests
  BY DEF TypeOK
<1>2. hs(t) \in Seq(Handles) /\ alert(t) \in Handles
  BY <1>1 DEF Requests, hs, alert
<1>3. N(t) \in Nat
  BY <1>2 DEF hs, N
<1>4. n_nodes(t) \in Nat /\ n_nodes(t) >= N(t)
  BY <1>3 DEF n_nodes
<1>5. \A i \in 1 .. N(t) : hs(t)[i] \in Handles
  BY <1>2 DEF hs, N
<1>6. QED
  BY <1>1, <1>2, <1>3, <1>4, <1>5 DEF Handles

\* Outside of a pass over the handles nothing has been tried yet.
LEMMA TryStart ==
    ASSUME NEW t \in Threads, cur'[t] = 1, acq'[t] = <<>>, pc'[t] # "rollback",
           N(t)' \in Nat,
           pc'[t] \in {"validate", "try", "trypulse"} => N(t)' >= 1
    PROVE  TryOK(t)'
<1>1. Len(acq'[t]) = 0
  OBVIOUS
<1>2. QED
  BY <1>1 DEF TryOK

\* What an action of thread t has to be shown to do.
StepOK(t) == TypeOK' /\ ThreadOK(t)' /\ \A u \in Threads \ {t} : Undisturbed(u)

LEMMA StepSuffices ==
    ASSUME TypeInv, NEW t \in Threads, StepOK(t)
    PROVE  TypeInv'
  BY Frame DEF TypeInv, StepOK

\* The variables that a return does not settle.
RestOK ==
    /\ slot \in [Slots -> [used : BOOLEAN, gen : Nat, type : Types]]
    /\ w0 \in [Slots -> Word]
    /\ d \in [Slots -> Nat]
    /\ old \in Word
    /\ lock \in Threads \cup {NoThread}
    /\ pool \in Nat
    /\ reg \in [Threads -> SUBSET Slots]
    /\ nodes \in [Threads -> Nat]
    /\ bumped \in [Threads -> BOOLEAN]

\* Every return leaves the returning thread as an idle thread should be.
LEMMA ReturnOK ==
    ASSUME TypeInv, NEW t \in Threads, NEW r \in Results, Return(t, r), RestOK',
           nodes'[t] = 0, lock' # t,
           \A u \in Threads \ {t} : nodes'[u] = nodes[u] /\ (lock' = u <=> lock = u)
    PROVE  StepOK(t)
<1>1. NoReq \in Requests
  BY DEF NoReq, SignalReq, NoHandle, Requests, Handles, Slots, Ops, LockedOps
<1>2. ThreadOK(t)'
  BY DEF TypeInv, TypeOK, Return, ThreadOK, CallOK, TryOK, HoldOK, CallLabels, FastLabels,
         HeldLabels, BlockLabels
<1>3. /\ pc' \in [Threads -> Labels]
      /\ req' \in [Threads -> Requests]
      /\ cur' \in [Threads -> Nat \ {0}]
  BY <1>1 DEF TypeInv, TypeOK, Return, Labels
<1>4. /\ eseq' \in [Threads -> Seq(Nat)]
      /\ acq' \in [Threads -> Seq([i : Nat \ {0}, od : BOOLEAN])]
  BY DEF TypeInv, TypeOK, Return
<1>5. /\ spin' \in [Threads -> Nat]
      /\ expired' \in [Threads -> BOOLEAN]
      /\ res' \in [Threads -> Results]
  BY DEF TypeInv, TypeOK, Return
<1>6. TypeOK'
  BY <1>3, <1>4, <1>5 DEF TypeOK, RestOK
<1>7. \A u \in Threads \ {t} : Undisturbed(u)
  BY DEF TypeInv, TypeOK, Return, Undisturbed
<1>8. QED
  BY <1>2, <1>6, <1>7 DEF StepOK

\* The same for a step that changes nothing but where the thread stands, and
\* maybe what it is going to return.
LEMMA GotoOK ==
    ASSUME TypeInv, NEW t \in Threads, NEW l \in Labels, Goto(t, l),
           UNCHANGED <<shared, req, cur, eseq, acq, reg, nodes, bumped, spin, expired>>,
           res' \in [Threads -> Results],
           ThreadOK(t)'
    PROVE  StepOK(t)
<1>1. TypeOK'
  BY DEF TypeInv, TypeOK, Goto, shared
<1>2. \A u \in Threads \ {t} : Undisturbed(u)
  BY DEF TypeInv, TypeOK, Goto, shared, Undisturbed
<1>3. QED
  BY <1>1, <1>2 DEF StepOK

LEMMA AlertValidOK ==
    ASSUME TypeInv, NEW t \in Threads, AlertValid(t)
    PROVE  StepOK(t)
<1>1. ThreadOK(t)'
  BY DEF TypeInv, TypeOK, AlertValid, Goto, shared, ThreadOK, CallOK, TryOK, HoldOK,
         CallLabels, FastLabels, HeldLabels, BlockLabels, N, n_nodes, HasAlert
<1>2. QED
  BY <1>1, GotoOK DEF TypeInv, TypeOK, AlertValid, Labels

LEMMA WakeOK ==
    ASSUME TypeInv, NEW t \in Threads, Wake(t)
    PROVE  StepOK(t)
<1>1. ThreadOK(t)'
  BY DEF TypeInv, TypeOK, Wake, Goto, shared, ThreadOK, CallOK, TryOK, HoldOK,
         CallLabels, FastLabels, HeldLabels, BlockLabels, N, n_nodes, HasAlert
<1>2. QED
  BY <1>1, GotoOK DEF TypeInv, TypeOK, Wake, Labels

LEMMA InterruptOK ==
    ASSUME TypeInv, NEW t \in Threads, Interrupt(t)
    PROVE  StepOK(t)
<1>1. ThreadOK(t)'
  BY DEF TypeInv, TypeOK, Interrupt, Goto, shared, ThreadOK, CallOK, TryOK, HoldOK,
         CallLabels, FastLabels, HeldLabels, BlockLabels, N, n_nodes, HasAlert
<1>2. QED
  BY <1>1, GotoOK DEF TypeInv, TypeOK, Interrupt, Labels

LEMMA TailDoneOK ==
    ASSUME TypeInv, NEW t \in Threads, TailDone(t)
    PROVE  StepOK(t)
<1>1. ThreadOK(t)'
  BY DEF TypeInv, TypeOK, TailDone, Goto, shared, ThreadOK, CallOK, TryOK, HoldOK,
         CallLabels, FastLabels, HeldLabels, BlockLabels, N, n_nodes, HasAlert
<1>2. QED
  BY <1>1, GotoOK DEF TypeInv, TypeOK, TailDone, Labels

LEMMA AwakeOK ==
    ASSUME TypeInv, NEW t \in Threads, Awake(t)
    PROVE  StepOK(t)
<1>1. TypeOK'
  BY DEF TypeInv, TypeOK, Awake, Goto, shared, Labels
<1>2. ThreadOK(t)'
  BY DEF TypeInv, TypeOK, Awake, Goto, shared, ThreadOK, CallOK, TryOK, HoldOK,
         CallLabels, FastLabels, HeldLabels, BlockLabels, N, n_nodes, HasAlert
<1>3. \A u \in Threads \ {t} : Undisturbed(u)
  BY DEF TypeInv, TypeOK, Awake, Goto, shared, Undisturbed
<1>4. QED
  BY <1>1, <1>2, <1>3 DEF StepOK

LEMMA ExpireOK ==
    ASSUME TypeInv, NEW t \in Threads, Expire(t)
    PROVE  StepOK(t)
<1>1. TypeOK'
  BY DEF TypeInv, TypeOK, Expire, Goto, shared, Labels
<1>2. ThreadOK(t)'
  BY DEF TypeInv, TypeOK, Expire, Goto, shared, ThreadOK, CallOK, TryOK, HoldOK,
         CallLabels, FastLabels, HeldLabels, BlockLabels, N, n_nodes, HasAlert
<1>3. \A u \in Threads \ {t} : Undisturbed(u)
  BY DEF TypeInv, TypeOK, Expire, Goto, shared, Undisturbed
<1>4. QED
  BY <1>1, <1>2, <1>3 DEF StepOK

LEMMA RestSame ==
    ASSUME TypeInv, UNCHANGED <<shared, reg, nodes, bumped>>
    PROVE  RestOK'
  BY DEF TypeInv, TypeOK, RestOK, shared

LEMMA RefuseOK ==
    ASSUME TypeInv, NEW t \in Threads, Refuse(t)
    PROVE  StepOK(t)
<1>1. TypeOK'
  <2>1. res' \in [Threads -> Results]
    BY NamedResults DEF TypeInv, TypeOK, Refuse
  <2>2. QED
    BY <2>1 DEF TypeInv, TypeOK, Refuse, shared
<1>2. ThreadOK(t)' /\ \A u \in Threads \ {t} : Undisturbed(u)
  BY DEF TypeInv, TypeOK, Refuse, shared, Undisturbed, ThreadOK, CallOK, TryOK, HoldOK,
         CallLabels, FastLabels, HeldLabels, BlockLabels, N, n_nodes, HasAlert
<1>3. QED
  BY <1>1, <1>2 DEF StepOK

LEMMA FastMissOK ==
    ASSUME TypeInv, NEW t \in Threads, FastMiss(t)
    PROVE  StepOK(t)
<1>1. nodes[t] = 0 /\ lock # t
  BY DEF FastMiss, TypeInv, ThreadOK, HoldOK, CallLabels, FastLabels, HeldLabels, BlockLabels
<1>2. CASE req[t].timeout = "zero"
  BY <1>1, <1>2, ReturnOK, RestSame, NamedResults DEF FastMiss, shared
<1>3. CASE req[t].timeout # "zero"
  <2>1. ThreadOK(t)'
    BY <1>3, ZenonT(30) DEF TypeInv, TypeOK, FastMiss, Goto, shared, ThreadOK, CallOK, TryOK, HoldOK,
         CallLabels, FastLabels, HeldLabels, BlockLabels, N, n_nodes, HasAlert
  <2>2. QED
    BY <1>3, <2>1, GotoOK DEF TypeInv, TypeOK, FastMiss, Labels
<1>4. QED
  BY <1>2, <1>3

LEMMA ResolveOK ==
    ASSUME TypeInv, NEW t \in Threads, Resolve(t)
    PROVE  StepOK(t)
<1>1. nodes[t] = 0 /\ lock # t
  BY DEF Resolve, TypeInv, ThreadOK, HoldOK, CallLabels, FastLabels, HeldLabels, BlockLabels
<1>2. CASE Return(t, Invalid)
  BY <1>1, <1>2, ReturnOK, RestSame, NamedResults DEF Resolve, shared
<1>3. CASE Goto(t, "cas") /\ UNCHANGED <<req, cur, eseq, acq, spin, expired, res>>
  <2>1. ThreadOK(t)'
    BY <1>3 DEF TypeInv, TypeOK, Resolve, Goto, shared, ThreadOK, CallOK, TryOK, HoldOK,
         CallLabels, FastLabels, HeldLabels, BlockLabels, N, n_nodes, HasAlert
  <2>2. QED
    BY <1>3, <2>1, GotoOK DEF TypeInv, TypeOK, Resolve, Labels
<1>4. QED
  BY <1>2, <1>3 DEF Resolve

LEMMA ReadHeadOK ==
    ASSUME TypeInv, NEW t \in Threads, ReadHead(t)
    PROVE  StepOK(t)
<1>1. nodes[t] = 0 /\ lock # t /\ res[t] \in Results
  BY DEF ReadHead, TypeInv, TypeOK, ThreadOK, HoldOK, CallLabels, FastLabels, HeldLabels, BlockLabels
<1>2. CASE Return(t, res[t])
  BY <1>1, <1>2, ReturnOK, RestSame DEF ReadHead, shared
<1>3. CASE Goto(t, "walk") /\ UNCHANGED <<req, cur, eseq, acq, spin, expired, res>>
  <2>1. ThreadOK(t)'
    BY <1>3 DEF TypeInv, TypeOK, ReadHead, Goto, shared, ThreadOK, CallOK, TryOK, HoldOK,
         CallLabels, FastLabels, HeldLabels, BlockLabels, N, n_nodes, HasAlert
  <2>2. QED
    BY <1>3, <2>1, GotoOK DEF TypeInv, TypeOK, ReadHead, Labels
<1>4. QED
  BY <1>2, <1>3 DEF ReadHead

LEMMA AlertFastOK ==
    ASSUME TypeInv, NEW t \in Threads, AlertFast(t)
    PROVE  StepOK(t)
<1>1. nodes[t] = 0 /\ lock # t /\ N(t) \in Nat
  BY ReqType DEF AlertFast, TypeInv, ThreadOK, HoldOK, CallLabels, FastLabels,
                 HeldLabels, BlockLabels
<1>2. CASE Return(t, Signaled(N(t), FALSE))
  BY <1>1, <1>2, ReturnOK, RestSame, NamedResults DEF AlertFast, shared
<1>3. CASE Goto(t, "try") /\ UNCHANGED <<req, cur, eseq, acq, spin, expired, res>>
  <2>1. ThreadOK(t)'
    <3>1. CallOK(t)'
      BY <1>1, <1>3 DEF TypeInv, TypeOK, AlertFast, Goto, shared, ThreadOK, CallOK, CallLabels, N
    <3>2. TryOK(t)'
      <4>1. cur'[t] = 1 /\ acq'[t] = <<>> /\ pc'[t] = "try" /\ N(t)' = N(t) /\ N(t) >= 1
        BY <1>3 DEF TypeInv, TypeOK, AlertFast, Goto, ThreadOK, TryOK, CallOK, CallLabels, N
      <4>2. QED
        BY <1>1, <4>1, TryStart
    <3>3. HoldOK(t)'
      BY <1>1, <1>3 DEF TypeInv, TypeOK, AlertFast, Goto, shared, ThreadOK, HoldOK, CallLabels,
             FastLabels, HeldLabels, BlockLabels, N, n_nodes, HasAlert
    <3>4. QED
      BY <3>1, <3>2, <3>3 DEF ThreadOK
  <2>2. QED
    BY <1>3, <2>1, GotoOK DEF TypeInv, TypeOK, AlertFast, Labels
<1>4. CASE /\ Goto(t, "panic")
           /\ res' = [res EXCEPT ![t] = Panic]
           /\ UNCHANGED <<req, cur, eseq, acq, spin, expired>>
  <2>1. ThreadOK(t)'
    BY <1>4 DEF TypeInv, TypeOK, AlertFast, Goto, shared, ThreadOK, CallOK, TryOK, HoldOK,
         CallLabels, FastLabels, HeldLabels, BlockLabels, N, n_nodes, HasAlert
  <2>2. res' \in [Threads -> Results]
    BY <1>4, NamedResults DEF TypeInv, TypeOK
  <2>3. QED
    BY <1>4, <2>1, <2>2, GotoOK DEF AlertFast, Labels
<1>5. QED
  BY <1>2, <1>3, <1>4 DEF AlertFast

LEMMA AlertCheckOK ==
    ASSUME TypeInv, NEW t \in Threads, AlertCheck(t)
    PROVE  StepOK(t)
<1>1. N(t) \in Nat
  BY ReqType DEF TypeInv
<1>2. PICK l \in {"cleanup", "register"} : Goto(t, l)
  BY DEF AlertCheck
<1>3. ThreadOK(t)'
  BY <1>2 DEF TypeInv, TypeOK, AlertCheck, Goto, shared, ThreadOK, CallOK, TryOK, HoldOK,
         CallLabels, FastLabels, HeldLabels, BlockLabels, N, n_nodes, HasAlert
<1>4. res' \in [Threads -> Results]
  <2>1. res \in [Threads -> Results]
    BY DEF TypeInv, TypeOK
  <2>2. res' = res \/ res' = [res EXCEPT ![t] = Signaled(N(t), FALSE)]
    BY DEF AlertCheck
  <2>3. QED
    BY <1>1, <2>1, <2>2, NamedResults
<1>5. QED
  BY <1>2, <1>3, <1>4, GotoOK DEF AlertCheck, Labels

LEMMA SpinAlertOK ==
    ASSUME TypeInv, NEW t \in Threads, SpinAlert(t)
    PROVE  StepOK(t)
<1>1. N(t) \in Nat
  BY ReqType DEF TypeInv
<1>2. PICK l \in {"peek", "panic", "cleanup"} : Goto(t, l)
  BY DEF SpinAlert
<1>3. ThreadOK(t)'
  BY <1>2 DEF TypeInv, TypeOK, SpinAlert, Goto, shared, ThreadOK, CallOK, TryOK, HoldOK,
         CallLabels, FastLabels, HeldLabels, BlockLabels, N, n_nodes, HasAlert
<1>4. res' \in [Threads -> Results]
  <2>1. \/ res' = res
        \/ res' = [res EXCEPT ![t] = Panic]
        \/ res' = [res EXCEPT ![t] = Signaled(N(t), FALSE)]
    BY DEF SpinAlert
  <2>2. Panic \in Results /\ Signaled(N(t), FALSE) \in Results
    BY <1>1, NamedResults
  <2>3. QED
    BY <2>1, <2>2, ZenonT(30) DEF TypeInv, TypeOK
<1>5. QED
  BY <1>2, <1>3, <1>4, GotoOK DEF SpinAlert, Labels

LEMMA PeekOK ==
    ASSUME TypeInv, NEW t \in Threads, Peek(t)
    PROVE  StepOK(t)
<1>1. PICK l \in {"try", "spinmiss"} : Goto(t, l)
  BY DEF Peek
<1>2. ThreadOK(t)'
  <2>1. /\ pc[t] = "peek" /\ pc'[t] = l
        /\ UNCHANGED <<shared, req, cur, eseq, acq, reg, nodes, bumped, spin, expired, res>>
    BY <1>1 DEF Peek, Goto, TypeInv, TypeOK
  <2>2. N(t) \in Nat
    BY ReqType DEF TypeInv
  <2>3. CallOK(t)'
    BY <2>1, <2>2 DEF TypeInv, TypeOK, shared, ThreadOK, CallOK, CallLabels, N
  <2>4. TryOK(t)'
    <3>1. cur'[t] = 1 /\ acq'[t] = <<>> /\ N(t)' = N(t) /\ N(t) >= 1
      BY <2>1 DEF TypeInv, ThreadOK, TryOK, CallOK, CallLabels, N
    <3>2. QED
      BY <2>1, <2>2, <3>1, TryStart
  <2>5. HoldOK(t)'
    BY <2>1, <2>2 DEF TypeInv, TypeOK, shared, ThreadOK, HoldOK, CallLabels,
           FastLabels, HeldLabels, BlockLabels, N, n_nodes, HasAlert
  <2>6. QED
    BY <2>3, <2>4, <2>5 DEF ThreadOK
<1>3. QED
  BY <1>1, <1>2, GotoOK DEF TypeInv, TypeOK, Peek, Labels

LEMMA SpinMissOK ==
    ASSUME TypeInv, NEW t \in Threads, SpinMiss(t)
    PROVE  StepOK(t)
<1>1. PICK l \in {"spin", "futex", "tail"} : Goto(t, l) /\ (l = "spin" => spin[t] > 1)
  BY DEF SpinMiss, SleepLabels
<1>2. spin[t] > 0 /\ spin' \in [Threads -> Nat]
  BY DEF TypeInv, TypeOK, SpinMiss, ThreadOK, HoldOK
<1>3. TypeOK'
  BY <1>1, <1>2 DEF TypeInv, TypeOK, SpinMiss, Goto, shared, Labels
<1>4. ThreadOK(t)'
  <2>1. CallOK(t)'
    BY <1>1, <1>2 DEF TypeInv, TypeOK, SpinMiss, Goto, shared, ThreadOK, CallOK, CallLabels, N
  <2>2. TryOK(t)'
    BY <1>1, <1>2 DEF TypeInv, TypeOK, SpinMiss, Goto, shared, ThreadOK, TryOK, N
  <2>3. HoldOK(t)'
    <3>1. /\ pc[t] = "spinmiss" /\ pc'[t] = l /\ spin'[t] = spin[t] - 1
          /\ nodes' = nodes /\ req' = req /\ lock' = lock
      BY <1>1 DEF TypeInv, TypeOK, SpinMiss, Goto, shared
    <3>2. HoldOK(t) /\ spin[t] \in Nat
      BY DEF TypeInv, TypeOK, ThreadOK
    <3>3. /\ nodes[t] > 0 /\ nodes[t] \in {0, n_nodes(t)} /\ lock # t
          /\ n_nodes(t)' = n_nodes(t)
      BY <3>1, <3>2 DEF HoldOK, CallLabels, HeldLabels, BlockLabels, N, n_nodes, HasAlert
    <3>4. QED
      BY <1>1, <3>1, <3>2, <3>3 DEF HoldOK, CallLabels, FastLabels, HeldLabels, BlockLabels
  <2>4. QED
    BY <2>1, <2>2, <2>3 DEF ThreadOK
<1>5. \A u \in Threads \ {t} : Undisturbed(u)
  BY <1>1 DEF TypeInv, TypeOK, SpinMiss, Goto, shared, Undisturbed
<1>6. QED
  BY <1>3, <1>4, <1>5 DEF StepOK

\* Building and changing entry_seqs.
LEMMA SeqBuild ==
    ASSUME NEW n \in Nat, NEW f \in [1 .. n -> Nat]
    PROVE  f \in Seq(Nat) /\ Len(f) = n
  BY SeqDef, LenProperties

LEMMA SeqUpdate ==
    ASSUME NEW q \in Seq(Nat), NEW i \in 1 .. Len(q), NEW v \in Nat
    PROVE  [q EXCEPT ![i] = v] \in Seq(Nat) /\ Len([q EXCEPT ![i] = v]) = Len(q)
  OBVIOUS

LEMMA CasOK ==
    ASSUME TypeInv, NEW t \in Threads, Cas(t)
    PROVE  StepOK(t)
<1> DEFINE s == req[t].h.idx
           o == OpOutcome(req[t], w0[s])
           r == Result(o.err, o.val, FALSE)
<1>1. nodes[t] = 0 /\ lock # t /\ req[t].op \in SignalOps
  BY DEF Cas, TypeInv, ThreadOK, HoldOK, CallOK, CallLabels, FastLabels, HeldLabels
<1>2. req[t] \in Requests /\ s \in Slots /\ w0[s] \in Word
  BY DEF TypeInv, TypeOK, Requests, Handles
<1>3. o.w \in Word /\ o.err \in Kinds /\ o.val \in Nat
  BY <1>1, <1>2, OutcomeType
<1>4. r \in Results
  BY <1>3 DEF Result, Results
<1>5. w0' = [w0 EXCEPT ![s] = o.w]
  BY DEF Cas
<1>6. RestOK'
  BY <1>3, <1>5 DEF Cas, TypeInv, TypeOK, RestOK
<1>7. CASE Return(t, r)
  BY <1>1, <1>4, <1>6, <1>7, ReturnOK DEF Cas
<1>8. CASE /\ Goto(t, "head")
           /\ res' = [res EXCEPT ![t] = r]
           /\ UNCHANGED <<req, cur, eseq, acq, spin, expired>>
  <2>1. TypeOK'
    BY <1>4, <1>6, <1>8 DEF TypeInv, TypeOK, RestOK, Goto, Labels
  <2>2. ThreadOK(t)'
    BY <1>8 DEF TypeInv, TypeOK, Cas, Goto, ThreadOK, CallOK, TryOK, HoldOK,
           CallLabels, FastLabels, HeldLabels, BlockLabels, N
  <2>3. \A u \in Threads \ {t} : Undisturbed(u)
    BY <1>8 DEF TypeInv, TypeOK, Cas, Goto, Undisturbed
  <2>4. QED
    BY <2>1, <2>2, <2>3 DEF StepOK
<1>9. QED
  BY <1>7, <1>8 DEF Cas

LEMMA WakeType ==
    ASSUME TypeOK, NEW s \in Slots, wake_object(s)
    PROVE  /\ reg' \in [Threads -> SUBSET Slots]
           /\ bumped' \in [Threads -> BOOLEAN]
  BY DEF TypeOK, wake_object

LEMMA WalkOK ==
    ASSUME TypeInv, NEW t \in Threads, Walk(t)
    PROVE  StepOK(t)
<1>1. nodes[t] = 0 /\ lock # t /\ res[t] \in Results
  BY DEF Walk, TypeInv, TypeOK, ThreadOK, HoldOK, CallLabels, FastLabels, HeldLabels
<1>2. req[t].h.idx \in Slots
  BY DEF TypeInv, TypeOK, Requests, Handles
<1>3. RestOK'
  BY <1>2, WakeType DEF Walk, TypeInv, TypeOK, RestOK, shared
<1>4. QED
  BY <1>1, <1>3, ReturnOK DEF Walk, shared

\* A step of a pulse that goes on with the lock in hand.
LEMMA PulseGotoOK ==
    ASSUME TypeInv, NEW t \in Threads, NEW l \in {"pulse", "clear", "store"}, Goto(t, l),
           req[t].op = "event_pulse", pc[t] \in {"locked", "pulse", "clear", "store"},
           RestOK', lock' = t, lock \in {t, NoThread}, res' \in [Threads -> Results],
           UNCHANGED <<req, cur, eseq, acq, nodes, spin, expired>>
    PROVE  StepOK(t)
<1>1. TypeOK'
  BY DEF TypeInv, TypeOK, RestOK, Goto, Labels
<1>2. pc'[t] = l /\ nodes'[t] = 0 /\ cur'[t] = 1 /\ acq'[t] = <<>>
  BY DEF TypeInv, TypeOK, Goto, ThreadOK, TryOK, HoldOK, CallLabels
<1>3. CallOK(t)'
  BY <1>2 DEF CallOK, CallLabels
<1>4. TryOK(t)'
  BY <1>2 DEF TryOK
<1>5. HoldOK(t)'
  BY <1>2 DEF HoldOK, CallLabels, FastLabels, HeldLabels, BlockLabels
<1>6. \A u \in Threads \ {t} : Undisturbed(u)
  BY DEF TypeInv, TypeOK, Goto, Undisturbed, NoThread
<1>7. QED
  BY <1>1, <1>3, <1>4, <1>5, <1>6 DEF StepOK, ThreadOK

\* Where a pulse is when it has the lock.
LEMMA PulseHolds ==
    ASSUME TypeInv, NEW t \in Threads, pc[t] \in {"pulse", "clear", "store"}
    PROVE  /\ nodes[t] = 0 /\ lock = t /\ req[t].op = "event_pulse"
           /\ req[t].h.idx \in Slots /\ res[t] \in Results
<1>1. nodes[t] = 0 /\ lock = t /\ req[t].op = "event_pulse"
  BY DEF TypeInv, ThreadOK, CallOK, HoldOK, CallLabels, HeldLabels
<1>2. QED
  BY <1>1 DEF TypeInv, TypeOK, Requests, Handles

LEMMA PulseOK ==
    ASSUME TypeInv, NEW t \in Threads, event_pulse(t)
    PROVE  StepOK(t)
<1> DEFINE s == req[t].h.idx
<1>1. nodes[t] = 0 /\ lock # t
  BY DEF event_pulse, TypeInv, TypeOK, ThreadOK, HoldOK, CallLabels, FastLabels, HeldLabels
<1>2. s \in Slots /\ w0[s] \in Word /\ w0[s].lo \in Nat /\ d[s] \in Nat
  BY DEF TypeInv, TypeOK, Requests, Handles, Word
<1>3. CASE ValidOf(req[t].h, TYPE_EVENT)
  <2>1. /\ pc[t] = "locked" /\ req[t].op = "event_pulse" /\ lock = NoThread
        /\ lock' = t /\ Goto(t, "pulse")
        /\ res' = [res EXCEPT ![t] = Result("ok", w0[s].lo, FALSE)]
        /\ UNCHANGED <<req, cur, eseq, acq, spin, expired, slot, w0, d, old, pool, reg,
                       nodes, bumped>>
    BY <1>3 DEF event_pulse
  <2>2. RestOK'
    BY <2>1 DEF TypeInv, TypeOK, RestOK
  <2>3. Result("ok", w0[s].lo, FALSE) \in Results
    BY <1>2 DEF Result, Results, Kinds
  <2>4. res' \in [Threads -> Results]
    BY <2>1, <2>3 DEF TypeInv, TypeOK
  <2>5. QED
    BY <2>1, <2>2, <2>4, PulseGotoOK
<1>4. CASE ~ValidOf(req[t].h, TYPE_EVENT)
  <2>1. Return(t, Invalid) /\ UNCHANGED <<shared, reg, nodes, bumped>>
    BY <1>4 DEF event_pulse, shared
  <2>2. QED
    BY <1>1, <2>1, ReturnOK, RestSame, NamedResults DEF shared
<1>5. QED
  BY <1>3, <1>4

LEMMA PulseCountOK ==
    ASSUME TypeInv, NEW t \in Threads, PulseCount(t)
    PROVE  StepOK(t)
<1> DEFINE s == req[t].h.idx
<1>1. /\ pc[t] = "pulse" /\ Goto(t, "clear") /\ d' = [d EXCEPT ![s] = d[s] + 1]
      /\ UNCHANGED <<slot, w0, old, lock, pool, req, cur, eseq, acq, reg, nodes, bumped,
                     spin, expired, res>>
  BY DEF PulseCount
<1>2. lock = t /\ req[t].op = "event_pulse" /\ s \in Slots
  BY <1>1, PulseHolds
<1>3. d' \in [Slots -> Nat]
  <2>1. d \in [Slots -> Nat]
    BY DEF TypeInv, TypeOK
  <2> HIDE DEF s
  <2>2. QED
    BY <1>1, <1>2, <2>1
<1>4. RestOK' /\ res' \in [Threads -> Results]
  BY <1>1, <1>3 DEF TypeInv, TypeOK, RestOK
<1>5. QED
  BY <1>1, <1>2, <1>4, PulseGotoOK

LEMMA PulseLoadOK ==
    ASSUME TypeInv, NEW t \in Threads, PulseLoad(t)
    PROVE  StepOK(t)
<1> DEFINE s == req[t].h.idx
<1>1. /\ pc[t] = "clear" /\ Goto(t, "store") /\ old' = w0[s]
      /\ UNCHANGED <<slot, w0, d, lock, pool, req, cur, eseq, acq, reg, nodes, bumped,
                     spin, expired, res>>
  BY DEF PulseLoad
<1>2. lock = t /\ req[t].op = "event_pulse" /\ s \in Slots
  BY <1>1, PulseHolds
<1>3. old' \in Word
  BY <1>1, <1>2 DEF TypeInv, TypeOK
<1>4. RestOK' /\ res' \in [Threads -> Results]
  BY <1>1, <1>3 DEF TypeInv, TypeOK, RestOK
<1>5. QED
  BY <1>1, <1>2, <1>4, PulseGotoOK

LEMMA PulseStoreOK ==
    ASSUME TypeInv, NEW t \in Threads, PulseStore(t)
    PROVE  StepOK(t)
<1> DEFINE s == req[t].h.idx
<1>1. /\ pc[t] = "store" /\ w0' = [w0 EXCEPT ![s] = ClearBit(old)] /\ wake_object(s)
      /\ old' = NoWord /\ lock' = NoThread /\ Return(t, res[t])
      /\ UNCHANGED <<slot, d, pool, nodes>>
  BY DEF PulseStore
<1>2. nodes[t] = 0 /\ lock = t /\ s \in Slots /\ res[t] \in Results
  BY <1>1, PulseHolds
<1>3. ClearBit(old) \in Word /\ NoWord \in Word
  BY BitWords, PackSemWord DEF TypeInv, TypeOK, NoWord
<1>4. reg' \in [Threads -> SUBSET Slots] /\ bumped' \in [Threads -> BOOLEAN]
  BY <1>1, <1>2, WakeType DEF TypeInv
<1>5. w0' \in [Slots -> Word]
  BY <1>1, <1>2, <1>3 DEF TypeInv, TypeOK
<1>6. RestOK'
  BY <1>1, <1>3, <1>4, <1>5 DEF TypeInv, TypeOK, RestOK
<1>7. /\ lock' # t /\ nodes'[t] = 0
      /\ \A u \in Threads \ {t} : nodes'[u] = nodes[u] /\ (lock' = u <=> lock = u)
  BY <1>1, <1>2 DEF NoThread
<1>8. QED
  BY <1>1, <1>2, <1>6, <1>7, ReturnOK

LEMMA CloseOK ==
    ASSUME TypeInv, NEW t \in Threads, close(t)
    PROVE  StepOK(t)
<1> DEFINE s == req[t].h.idx
<1>1. nodes[t] = 0 /\ lock # t
  BY DEF close, TypeInv, TypeOK, ThreadOK, HoldOK, CallLabels, FastLabels, HeldLabels
<1>2. s \in Slots
  BY DEF TypeInv, TypeOK, Requests, Handles
<1>3. CASE s # 0 /\ Valid(req[t].h)
  <2>1. /\ slot' = [slot EXCEPT ![s] = [used |-> FALSE, gen |-> slot[s].gen + 1,
                                       type |-> slot[s].type]]
        /\ wake_object(s)
        /\ Return(t, Result("ok", 0, FALSE))
        /\ UNCHANGED <<w0, d, old, lock, pool, nodes>>
    BY <1>3 DEF close
  <2>2. slot' \in [Slots -> [used : BOOLEAN, gen : Nat, type : Types]]
    <3>1. slot \in [Slots -> [used : BOOLEAN, gen : Nat, type : Types]]
      BY DEF TypeInv, TypeOK
    <3>2. slot[s].gen + 1 \in Nat /\ slot[s].type \in Types
      BY <1>2, <3>1
    <3>3. [used |-> FALSE, gen |-> slot[s].gen + 1, type |-> slot[s].type]
            \in [used : BOOLEAN, gen : Nat, type : Types]
      BY <3>2
    <3>4. QED
      BY <1>2, <2>1, <3>1, <3>3, Zenon
  <2>3. RestOK'
    BY <1>2, <2>1, <2>2, WakeType DEF TypeInv, TypeOK, RestOK
  <2>4. Result("ok", 0, FALSE) \in Results
    BY DEF Result, Results, Kinds
  <2>5. QED
    BY <1>1, <2>1, <2>3, <2>4, ReturnOK
<1>4. CASE ~(s # 0 /\ Valid(req[t].h))
  <2>1. Return(t, Invalid) /\ UNCHANGED <<shared, reg, nodes, bumped>>
    BY <1>4 DEF close, shared
  <2>2. QED
    BY <1>1, <2>1, ReturnOK, RestSame, NamedResults DEF shared
<1>5. QED
  BY <1>3, <1>4

LEMMA CreateOK ==
    ASSUME TypeInv, NEW t \in Threads, Create(t)
    PROVE  StepOK(t)
<1>1. PICK o \in Fresh, s \in Slots :
        /\ slot' = [slot EXCEPT ![s] = [used |-> TRUE, gen |-> slot[s].gen, type |-> o.type]]
        /\ w0' = [w0 EXCEPT ![s] = o.w]
        /\ d' = [d EXCEPT ![s] = 0]
  BY DEF Create
<1>2. o.type \in Types /\ o.w \in Word /\ slot[s].gen \in Nat
  BY WorkloadAssumption DEF Objects, WaitTypes, Types, TypeInv, TypeOK
<1>4. slot' \in [Slots -> [used : BOOLEAN, gen : Nat, type : Types]]
  BY <1>1, <1>2 DEF TypeInv, TypeOK
<1>5. TypeOK'
  BY <1>1, <1>2, <1>4 DEF Create, TypeInv, TypeOK, local
<1>6. \A u \in Threads : Undisturbed(u)
  BY DEF Create, Undisturbed, local
<1>7. QED
  BY <1>5, <1>6, Frame DEF StepOK, TypeInv

LEMMA BeginOK ==
    ASSUME TypeInv, NEW t \in Threads, Begin(t)
    PROVE  StepOK(t)
<1>1. PICK r \in Menu[t] :
         /\ ~BadArgs(r)
         /\ req' = [req EXCEPT ![t] = r]
         /\ Goto(t, CASE r.op \in SignalOps -> "resolve"
                      [] r.op \in LockedOps -> "locked"
                      [] r.op = "wait"      -> "validate")
         /\ eseq' = [eseq EXCEPT ![t] = [i \in 1 .. Len(r.hs) |-> 0]]
         /\ expired' = [expired EXCEPT ![t] = r.op = "wait" /\ r.timeout = "zero"]
         /\ res' = [res EXCEPT ![t] = NoResult]
  BY DEF Begin
<1>2. r \in Requests /\ r.hs \in Seq(Handles) /\ Len(r.hs) \in Nat /\ r.op \in Ops
  BY WorkloadAssumption DEF Requests
<1>3. PICK l \in {"resolve", "locked", "validate"} :
         /\ Goto(t, l)
         /\ l = "resolve" => r.op \in SignalOps
         /\ l = "validate" => r.op = "wait"
  BY <1>1, <1>2 DEF Ops, SignalOps, LockedOps
<1>4. l = "validate" => Len(r.hs) >= 1
  BY <1>1, <1>2, <1>3 DEF BadArgs
<1>5. [i \in 1 .. Len(r.hs) |-> 0] \in Seq(Nat) /\ Len([i \in 1 .. Len(r.hs) |-> 0]) = Len(r.hs)
  BY <1>2, SeqBuild
<1>6. /\ pc[t] = "idle" /\ pc'[t] = l /\ req'[t] = r
      /\ eseq'[t] = [i \in 1 .. Len(r.hs) |-> 0]
      /\ UNCHANGED <<shared, cur, acq, reg, nodes, bumped, spin>>
  BY <1>1, <1>3 DEF Begin, Goto, TypeInv, TypeOK
<1>7. TypeOK'
  <2>1. pc' \in [Threads -> Labels] /\ req' \in [Threads -> Requests]
    BY <1>1, <1>2, <1>3 DEF TypeInv, TypeOK, Goto, Labels
  <2>2. eseq' \in [Threads -> Seq(Nat)]
    BY <1>1, <1>5 DEF TypeInv, TypeOK
  <2>3. expired' \in [Threads -> BOOLEAN] /\ res' \in [Threads -> Results]
    BY <1>1, NamedResults DEF TypeInv, TypeOK
  <2>4. QED
    BY <1>6, <2>1, <2>2, <2>3 DEF TypeInv, TypeOK, shared
<1>8. ThreadOK(t)'
  <2>1. N(t)' = Len(r.hs)
    BY <1>6 DEF N
  <2>2. CallOK(t)'
    BY <1>2, <1>3, <1>4, <1>5, <1>6, <2>1 DEF CallOK, CallLabels
  <2>3. TryOK(t)'
    <3>1. cur'[t] = 1 /\ acq'[t] = <<>>
      BY <1>6 DEF TypeInv, ThreadOK, TryOK
    <3>2. QED
      BY <1>2, <1>4, <1>6, <2>1, <3>1, TryStart
  <2>4. HoldOK(t)'
    <3>1. nodes'[t] = 0 /\ lock' # t
      BY <1>6 DEF TypeInv, ThreadOK, HoldOK, CallLabels, HeldLabels, shared
    <3>2. QED
      BY <1>6, <3>1 DEF HoldOK, CallLabels, FastLabels, HeldLabels, BlockLabels
  <2>5. QED
    BY <2>2, <2>3, <2>4 DEF ThreadOK
<1>9. \A u \in Threads \ {t} : Undisturbed(u)
  BY <1>1, <1>3, <1>6 DEF TypeInv, TypeOK, Goto, shared, Undisturbed
<1>10. QED
  BY <1>7, <1>8, <1>9 DEF StepOK

LEMMA FastValidateOK ==
    ASSUME TypeInv, NEW t \in Threads, FastValidate(t)
    PROVE  StepOK(t)
<1> DEFINE i == cur[t]
           h == hs(t)[i]
<1>1. /\ pc[t] = "validate" /\ i \in 1 .. N(t) /\ N(t) \in Nat /\ acq[t] = <<>>
      /\ Len(eseq[t]) = N(t) /\ nodes[t] = 0 /\ lock # t /\ N(t) >= 1
  BY ReqType DEF FastValidate, TypeInv, ThreadOK, CallOK, TryOK, HoldOK, CallLabels,
                 FastLabels, HeldLabels
<1>2. h.idx \in Slots /\ d[h.idx] \in Nat /\ eseq[t] \in Seq(Nat)
  BY <1>1, ReqType DEF TypeInv, TypeOK
<1>3. PICK l \in {"lock", "validate", "try", "alertvalid"} : Goto(t, l)
  BY DEF FastValidate
<1>4. PICK c \in 1 .. N(t) : cur' = [cur EXCEPT ![t] = c] /\ (l # "validate" => c = 1)
  <2>1. CASE Waitable(h) /\ i # N(t)
    <3>1. cur' = [cur EXCEPT ![t] = i + 1]
      BY <2>1 DEF FastValidate
    <3>2. l = "validate"
      BY <1>1, <1>3, <2>1 DEF FastValidate, Goto, TypeInv, TypeOK
    <3>3. i + 1 \in 1 .. N(t)
      BY <1>1, <2>1
    <3>4. QED
      BY <3>1, <3>2, <3>3
  <2>2. CASE ~(Waitable(h) /\ i # N(t))
    <3>1. cur' = [cur EXCEPT ![t] = 1]
      BY <2>2 DEF FastValidate
    <3>2. 1 \in 1 .. N(t)
      BY <1>1
    <3>3. QED
      BY <3>1, <3>2
  <2>3. QED
    BY <2>1, <2>2
<1>5. PICK q \in Seq(Nat) : eseq' = [eseq EXCEPT ![t] = q] /\ Len(q) = N(t)
  <2>1. CASE eseq' = eseq
    BY <1>1, <1>2, <2>1 DEF TypeInv, TypeOK
  <2>2. CASE eseq' = [eseq EXCEPT ![t][i] = d[h.idx]]
    <3>1. eseq' = [eseq EXCEPT ![t] = [eseq[t] EXCEPT ![i] = d[h.idx]]]
      BY <2>2
    <3>2. i \in 1 .. Len(eseq[t])
      BY <1>1
    <3>3. /\ [eseq[t] EXCEPT ![i] = d[h.idx]] \in Seq(Nat)
          /\ Len([eseq[t] EXCEPT ![i] = d[h.idx]]) = Len(eseq[t])
      BY <1>2, <3>2, SeqUpdate
    <3>4. QED
      BY <1>1, <3>1, <3>3
  <2>3. QED
    BY <2>1, <2>2 DEF FastValidate
<1>6. UNCHANGED <<shared, req, acq, reg, nodes, bumped, spin, expired, res>>
  BY DEF FastValidate
<1>7. TypeOK'
  <2>1. pc' \in [Threads -> Labels] /\ eseq' \in [Threads -> Seq(Nat)]
    BY <1>3, <1>5 DEF TypeInv, TypeOK, Goto, Labels
  <2>2. cur' \in [Threads -> Nat \ {0}]
    BY <1>1, <1>4 DEF TypeInv, TypeOK
  <2>3. QED
    BY <1>6, <2>1, <2>2 DEF TypeInv, TypeOK, shared
<1>8. ThreadOK(t)'
  <2>1. /\ pc'[t] = l /\ cur'[t] = c /\ eseq'[t] = q /\ acq'[t] = <<>>
        /\ N(t)' = N(t) /\ nodes'[t] = 0 /\ lock' # t
    BY <1>1, <1>3, <1>4, <1>5, <1>6 DEF TypeInv, TypeOK, Goto, N, shared
  <2>2. CallOK(t)'
    BY <1>1, <1>5, <2>1 DEF CallOK, CallLabels
  <2>3. TryOK(t)'
    BY <1>1, <1>4, <2>1 DEF TryOK
  <2>4. HoldOK(t)'
    BY <2>1 DEF HoldOK, CallLabels, FastLabels, HeldLabels, BlockLabels
  <2>5. QED
    BY <2>2, <2>3, <2>4 DEF ThreadOK
<1>9. \A u \in Threads \ {t} : Undisturbed(u)
  BY <1>3, <1>4, <1>5, <1>6 DEF TypeInv, TypeOK, Goto, shared, Undisturbed
<1>10. QED
  BY <1>7, <1>8, <1>9 DEF StepOK

\* What a step of try_satisfy leaves to its continuation: only a word changed.
TryRest == w0' \in [Slots -> Word] /\ UNCHANGED <<slot, d, old, lock, pool, reg, nodes, bumped>>

LEMMA TryRestOK ==
    ASSUME TypeInv, TryRest
    PROVE  RestOK'
  BY DEF TypeInv, TypeOK, TryRest, RestOK

\* A step inside try_satisfy that does not end it.
LEMMA TryGotoOK ==
    ASSUME TypeInv, NEW t \in Threads, TryRest, pc[t] \in {"try", "trypulse", "rollback"},
           NEW l \in {"try", "trypulse", "rollback"}, pc' = [pc EXCEPT ![t] = l],
           NEW c \in Nat \ {0}, cur' = [cur EXCEPT ![t] = c],
           NEW q \in Seq([i : Nat \ {0}, od : BOOLEAN]), acq' = [acq EXCEPT ![t] = q],
           UNCHANGED <<req, eseq, spin, expired, res>>,
           l # "rollback" => c \in 1 .. N(t),
           l = "rollback" => q # <<>>,
           \A k \in 1 .. Len(q) : q[k].i \in 1 .. N(t)
    PROVE  StepOK(t)
<1>1. TypeOK'
  <2>1. /\ pc' \in [Threads -> Labels]
        /\ cur' \in [Threads -> Nat \ {0}]
        /\ acq' \in [Threads -> Seq([i : Nat \ {0}, od : BOOLEAN])]
    BY DEF TypeInv, TypeOK, Labels
  <2>2. QED
    BY <2>1 DEF TypeInv, TypeOK, TryRest
<1>2. /\ pc'[t] = l /\ cur'[t] = c /\ acq'[t] = q /\ N(t)' = N(t)
      /\ n_nodes(t)' = n_nodes(t)
  BY DEF TypeInv, TypeOK, N, n_nodes, HasAlert
<1>3. CallOK(t)'
  BY <1>2 DEF TypeInv, ThreadOK, CallOK, CallLabels
<1>4. TryOK(t)'
  BY <1>2 DEF TryOK
<1>5. HoldOK(t)'
  <2>1. HoldOK(t)
    BY DEF TypeInv, ThreadOK
  <2>2. QED
    BY <1>2, <2>1 DEF TryRest, HoldOK, CallLabels, FastLabels, HeldLabels, BlockLabels
<1>6. \A u \in Threads \ {t} : Undisturbed(u)
  BY DEF TypeInv, TypeOK, TryRest, Undisturbed
<1>7. QED
  BY <1>1, <1>3, <1>4, <1>5, <1>6 DEF StepOK, ThreadOK

\* try_satisfy said None.
LEMMA MissOK ==
    ASSUME TypeInv, NEW t \in Threads, TryRest, pc[t] \in {"try", "trypulse", "rollback"}, Miss(t)
    PROVE  StepOK(t)
<1>1. PICK l \in {"deadline", "spinmiss", "fastmiss"} :
        /\ Goto(t, l)
        /\ l = "deadline" <=> lock = t
        /\ l = "spinmiss" => nodes[t] > 0
        /\ l = "fastmiss" => ~(nodes[t] > 0)
  BY DEF Miss
<1>2. /\ cur' = [cur EXCEPT ![t] = 1]
      /\ acq' = [acq EXCEPT ![t] = <<>>]
      /\ UNCHANGED <<req, eseq, spin, expired, res>>
  BY DEF Miss
<1>3. TypeOK'
  <2>1. /\ pc' \in [Threads -> Labels]
        /\ cur' \in [Threads -> Nat \ {0}]
        /\ acq' \in [Threads -> Seq([i : Nat \ {0}, od : BOOLEAN])]
    BY <1>1, <1>2 DEF TypeInv, TypeOK, Labels, Goto
  <2>2. QED
    BY <1>2, <2>1 DEF TypeInv, TypeOK, TryRest
<1>4. /\ pc'[t] = l /\ cur'[t] = 1 /\ acq'[t] = <<>> /\ N(t)' = N(t)
      /\ n_nodes(t)' = n_nodes(t) /\ N(t) \in Nat /\ nodes[t] \in Nat
  BY <1>1, <1>2, ReqType DEF TypeInv, TypeOK, Goto, N, n_nodes, HasAlert
<1>5. CallOK(t)'
  BY <1>2, <1>4 DEF TypeInv, ThreadOK, CallOK, CallLabels
<1>6. TryOK(t)'
  BY <1>4, TryStart
<1>7. HoldOK(t)'
  <2>1. HoldOK(t)
    BY DEF TypeInv, ThreadOK
  <2>2. QED
    BY <1>1, <1>2, <1>4, <2>1
    DEF TryRest, HoldOK, CallLabels, FastLabels, HeldLabels, BlockLabels
<1>8. \A u \in Threads \ {t} : Undisturbed(u)
  BY <1>1, <1>2 DEF TypeInv, TypeOK, TryRest, Undisturbed, Goto
<1>9. QED
  BY <1>3, <1>5, <1>6, <1>7, <1>8 DEF StepOK, ThreadOK

\* try_satisfy decided the wait.
LEMMA DecideOK ==
    ASSUME TypeInv, NEW t \in Threads, TryRest, pc[t] \in {"try", "trypulse", "rollback"},
           NEW r \in Results, Decide(t, r)
    PROVE  StepOK(t)
<1>1. CASE Owes(t)
  <2>1. /\ pc' = [pc EXCEPT ![t] = "cleanup"]
        /\ res' = [res EXCEPT ![t] = r]
        /\ acq' = [acq EXCEPT ![t] = <<>>]
        /\ cur' = [cur EXCEPT ![t] = 1]
        /\ UNCHANGED <<req, eseq, spin, expired>>
    BY <1>1 DEF Decide
  <2>2. TypeOK'
    <3>1. /\ pc' \in [Threads -> Labels]
          /\ cur' \in [Threads -> Nat \ {0}]
          /\ acq' \in [Threads -> Seq([i : Nat \ {0}, od : BOOLEAN])]
          /\ res' \in [Threads -> Results]
      BY <2>1, SMTT(30) DEF TypeInv, TypeOK, Labels
    <3>2. QED
      BY <2>1, <3>1 DEF TypeInv, TypeOK, TryRest
  <2>3. /\ pc'[t] = "cleanup" /\ cur'[t] = 1 /\ acq'[t] = <<>> /\ N(t)' = N(t)
        /\ n_nodes(t)' = n_nodes(t) /\ N(t) \in Nat /\ nodes'[t] = nodes[t]
    BY <2>1, ReqType DEF TypeInv, TypeOK, N, n_nodes, HasAlert, TryRest
  <2>4. CallOK(t)'
    BY <2>1, <2>3 DEF TypeInv, ThreadOK, CallOK, CallLabels
  <2>5. TryOK(t)'
    BY <2>3, TryStart
  <2>6. HoldOK(t)'
    BY <2>3 DEF TypeInv, ThreadOK, HoldOK, CallLabels, FastLabels, HeldLabels, BlockLabels
  <2>7. \A u \in Threads \ {t} : Undisturbed(u)
    BY <2>1 DEF TypeInv, TypeOK, TryRest, Undisturbed
  <2>8. QED
    BY <2>2, <2>4, <2>5, <2>6, <2>7 DEF StepOK, ThreadOK
<1>2. CASE ~Owes(t)
  <2>1. nodes[t] = 0 /\ lock # t /\ Return(t, r)
    BY <1>2 DEF Owes, Decide, TypeInv, TypeOK
  <2>2. QED
    BY <2>1, ReturnOK, TryRestOK DEF TryRest
<1>3. QED
  BY <1>1, <1>2

\* What one attempt of try_satisfy does to the words.
LEMMA AttemptWord ==
    ASSUME TypeInv, NEW t \in Threads, NEW i \in 1 .. N(t)
    PROVE  /\ Attempt(t, i).w \in Word
           /\ Attempt(t, i).od \in BOOLEAN
           /\ Attempt(t, i).ok \in BOOLEAN
           /\ hs(t)[i].idx \in Slots
           /\ [w0 EXCEPT ![hs(t)[i].idx] = Attempt(t, i).w] \in [Slots -> Word]
<1> DEFINE s == hs(t)[i].idx
<1>1. s \in Slots
  BY ReqType DEF TypeInv
<1>2. w0[s] \in Word /\ d[s] \in Nat /\ t \in Nat /\ w0 \in [Slots -> Word]
  BY <1>1 DEF TypeInv, TypeOK
<1>3. Attempt(t, i) = try_acquire(slot[s].type, w0[s], t)
  BY DEF Attempt
<1>4. Attempt(t, i).w \in Word /\ Attempt(t, i).od \in BOOLEAN /\ Attempt(t, i).ok \in BOOLEAN
  BY <1>2, <1>3, AttemptType
<1>5. QED
  BY <1>1, <1>2, <1>4

\* The position and the list of a try_satisfy that is under way.
LEMMA TryAt ==
    ASSUME TypeInv, NEW t \in Threads, pc[t] \in {"try", "trypulse"}
    PROVE  /\ cur[t] \in 1 .. N(t) /\ cur[t] \in Nat \ {0} /\ N(t) \in Nat
           /\ acq[t] \in Seq([i : Nat \ {0}, od : BOOLEAN])
           /\ \A k \in 1 .. Len(acq[t]) : acq[t][k].i \in 1 .. N(t)
<1>1. N(t) \in Nat
  BY ReqType DEF TypeInv
<1>2. QED
  BY <1>1 DEF TypeInv, TypeOK, ThreadOK, TryOK

\* A step of try_satisfy to the counter of the same object, or to its rollback.
LEMMA TryStayOK ==
    ASSUME TypeInv, NEW t \in Threads, TryRest, pc[t] \in {"try", "trypulse"},
           NEW l \in {"trypulse", "rollback"}, Goto(t, l),
           UNCHANGED <<req, cur, eseq, acq, spin, expired, res>>,
           l = "rollback" => acq[t] # <<>>
    PROVE  StepOK(t)
<1>1. cur' = [cur EXCEPT ![t] = cur[t]] /\ acq' = [acq EXCEPT ![t] = acq[t]]
  BY DEF TypeInv, TypeOK
<1>2. /\ cur[t] \in 1 .. N(t) /\ cur[t] \in Nat \ {0}
      /\ acq[t] \in Seq([i : Nat \ {0}, od : BOOLEAN])
      /\ \A k \in 1 .. Len(acq[t]) : acq[t][k].i \in 1 .. N(t)
  BY TryAt
<1>3. pc' = [pc EXCEPT ![t] = l] /\ UNCHANGED <<req, eseq, spin, expired, res>>
  BY DEF Goto
<1>4. QED
  BY <1>1, <1>2, <1>3, TryGotoOK

LEMMA PassAnyOK ==
    ASSUME TypeInv, NEW t \in Threads, TryRest, pc[t] \in {"try", "trypulse"}, PassAny(t)
    PROVE  StepOK(t)
<1>1. CASE cur[t] < N(t)
  <2>1. /\ pc' = [pc EXCEPT ![t] = "try"]
        /\ cur' = [cur EXCEPT ![t] = cur[t] + 1]
        /\ UNCHANGED <<req, eseq, acq, spin, expired, res>>
    BY <1>1 DEF PassAny, Goto
  <2>2. cur[t] + 1 \in 1 .. N(t) /\ cur[t] + 1 \in Nat \ {0}
    BY <1>1, TryAt
  <2>3. acq' = [acq EXCEPT ![t] = acq[t]]
    BY <2>1 DEF TypeInv, TypeOK
  <2>4. /\ acq[t] \in Seq([i : Nat \ {0}, od : BOOLEAN])
        /\ \A k \in 1 .. Len(acq[t]) : acq[t][k].i \in 1 .. N(t)
    BY TryAt
  <2>5. QED
    BY <2>1, <2>2, <2>3, <2>4, TryGotoOK
<1>2. CASE ~(cur[t] < N(t))
  BY <1>2, MissOK DEF PassAny
<1>3. QED
  BY <1>1, <1>2

LEMMA GotAllOK ==
    ASSUME TypeInv, NEW t \in Threads, TryRest, pc[t] \in {"try", "trypulse"},
           NEW b \in BOOLEAN, GotAll(t, b)
    PROVE  StepOK(t)
<1> DEFINE i == cur[t]
           got == Append(acq[t], [i |-> i, od |-> b])
           dead == \E k \in 1 .. Len(got) : got[k].od
<1>1. i \in 1 .. N(t) /\ N(t) \in Nat /\ i \in Nat \ {0}
  BY TryAt
<1>3. /\ acq[t] \in Seq([i : Nat \ {0}, od : BOOLEAN])
      /\ \A k \in 1 .. Len(acq[t]) : acq[t][k].i \in 1 .. N(t)
  BY TryAt
<1>4. CASE i = N(t)
  <2>1. Decide(t, Signaled(0, dead))
    BY <1>4 DEF GotAll
  <2>2. Signaled(0, dead) \in Results
    BY NamedResults
  <2>3. QED
    BY <2>1, <2>2, DecideOK
<1>6. CASE i # N(t)
  <2>0. /\ pc' = [pc EXCEPT ![t] = "try"]
        /\ cur' = [cur EXCEPT ![t] = i + 1]
        /\ acq' = [acq EXCEPT ![t] = got]
        /\ UNCHANGED <<req, eseq, spin, expired, res>>
    BY <1>6 DEF GotAll, Goto
  <2>1. i + 1 \in 1 .. N(t) /\ i + 1 \in Nat \ {0}
    BY <1>1, <1>6
  <2>2. [i |-> i, od |-> b] \in [i : Nat \ {0}, od : BOOLEAN]
    BY <1>1
  <2>3. /\ got \in Seq([i : Nat \ {0}, od : BOOLEAN])
        /\ \A k \in 1 .. Len(got) : got[k].i \in 1 .. N(t)
    <3>1. /\ got \in Seq([i : Nat \ {0}, od : BOOLEAN])
          /\ Len(got) = Len(acq[t]) + 1
          /\ got[Len(got)] = [i |-> i, od |-> b]
          /\ \A k \in 1 .. Len(acq[t]) : got[k] = acq[t][k]
      BY <1>3, <2>2, AppendProperties
    <3>2. Len(acq[t]) \in Nat
      BY <1>3, LenProperties
    <3>3. QED
      BY <1>1, <1>3, <3>1, <3>2
  <2>5. QED
    BY <2>0, <2>1, <2>3, TryGotoOK
<1>8. QED
  BY <1>4, <1>6

LEMMA BusyAllOK ==
    ASSUME TypeInv, NEW t \in Threads, TryRest, pc[t] \in {"try", "trypulse"}, BusyAll(t)
    PROVE  StepOK(t)
<1>1. CASE acq[t] # <<>>
  BY <1>1, TryStayOK DEF BusyAll
<1>2. CASE acq[t] = <<>>
  BY <1>2, MissOK DEF BusyAll
<1>3. QED
  BY <1>1, <1>2

LEMMA TryAnyOK ==
    ASSUME TypeInv, NEW t \in Threads, TryAny(t)
    PROVE  StepOK(t)
<1> DEFINE i == cur[t]
           a == Attempt(t, i)
<1>1. pc[t] = "try" /\ i \in 1 .. N(t) /\ N(t) \in Nat
  BY TryAt DEF TryAny
<1>2. a.od \in BOOLEAN /\ TryRest
  BY <1>1, AttemptWord DEF TryAny, TryRest
<1>3. CASE Decide(t, Signaled(i - 1, a.od))
  <2>1. Signaled(i - 1, a.od) \in Results
    BY <1>1, <1>2, NamedResults
  <2>2. QED
    BY <1>1, <1>2, <1>3, <2>1, DecideOK
<1>4. CASE PassAny(t)
  BY <1>1, <1>2, <1>4, PassAnyOK
<1>5. CASE Goto(t, "trypulse") /\ UNCHANGED <<req, cur, eseq, acq, spin, expired, res>>
  BY <1>1, <1>2, <1>5, TryStayOK
<1>6. QED
  BY <1>3, <1>4, <1>5 DEF TryAny

LEMMA TryAllOK ==
    ASSUME TypeInv, NEW t \in Threads, TryAll(t)
    PROVE  StepOK(t)
<1> DEFINE i == cur[t]
           a == Attempt(t, i)
<1>1. pc[t] = "try" /\ i \in 1 .. N(t) /\ N(t) \in Nat
  BY TryAt DEF TryAll
<1>2. a.od \in BOOLEAN /\ TryRest
  BY <1>1, AttemptWord DEF TryAll, TryRest
<1>3. CASE GotAll(t, a.od)
  BY <1>1, <1>2, <1>3, GotAllOK
<1>4. CASE BusyAll(t)
  BY <1>1, <1>2, <1>4, BusyAllOK
<1>5. CASE Goto(t, "trypulse") /\ UNCHANGED <<req, cur, eseq, acq, spin, expired, res>>
  BY <1>1, <1>2, <1>5, TryStayOK
<1>6. QED
  BY <1>3, <1>4, <1>5 DEF TryAll

\* The look at the counter changes nothing shared.
LEMMA TryPulseRest ==
    ASSUME TypeInv, UNCHANGED <<shared, reg, nodes, bumped>>
    PROVE  TryRest
  BY DEF TypeInv, TypeOK, TryRest, shared

LEMMA TryPulseAnyOK ==
    ASSUME TypeInv, NEW t \in Threads, TryPulseAny(t)
    PROVE  StepOK(t)
<1>1. pc[t] = "trypulse" /\ TryRest /\ cur[t] - 1 \in Nat
  BY TryPulseRest, TryAt DEF TryPulseAny
<1>2. CASE Decide(t, Signaled(cur[t] - 1, FALSE))
  <2>1. Signaled(cur[t] - 1, FALSE) \in Results
    BY <1>1, NamedResults
  <2>2. QED
    BY <1>1, <1>2, <2>1, DecideOK
<1>3. CASE PassAny(t)
  BY <1>1, <1>3, PassAnyOK
<1>4. QED
  BY <1>2, <1>3 DEF TryPulseAny

LEMMA TryPulseAllOK ==
    ASSUME TypeInv, NEW t \in Threads, TryPulseAll(t)
    PROVE  StepOK(t)
<1>1. pc[t] = "trypulse" /\ TryRest
  BY TryPulseRest DEF TryPulseAll
<1>2. CASE GotAll(t, FALSE)
  BY <1>1, <1>2, GotAllOK
<1>3. CASE BusyAll(t)
  BY <1>1, <1>3, BusyAllOK
<1>4. QED
  BY <1>2, <1>3 DEF TryPulseAll

LEMMA RollbackOK ==
    ASSUME TypeInv, NEW t \in Threads, Rollback(t)
    PROVE  StepOK(t)
<1> DEFINE a == Head(acq[t])
           s == hs(t)[a.i].idx
           R == [i : Nat \ {0}, od : BOOLEAN]
<1>1. pc[t] = "rollback" /\ acq[t] # <<>> /\ acq[t] \in Seq(R)
  BY DEF Rollback, TypeInv, TypeOK, ThreadOK, TryOK
<1>2. \A k \in 1 .. Len(acq[t]) : acq[t][k].i \in 1 .. N(t)
  BY DEF TypeInv, ThreadOK, TryOK
<1>3. Len(acq[t]) \in Nat /\ Len(acq[t]) >= 1 /\ a = acq[t][1] /\ a \in R
  <2> HIDE DEF R
  <2>1. Len(acq[t]) \in Nat /\ Len(acq[t]) # 0
    BY <1>1
  <2>2. acq[t][1] \in R
    BY <1>1, <2>1
  <2>3. QED
    BY <2>1, <2>2
<1>4. a.i \in 1 .. N(t) /\ a.od \in BOOLEAN
  BY <1>2, <1>3
<1>5. s \in Slots
  BY <1>4, ReqType DEF TypeInv
<1>6. TryRest
  <2>1. w0[s] \in Word /\ t \in Nat /\ w0 \in [Slots -> Word]
    BY <1>5 DEF TypeInv, TypeOK
  <2>2. rollback_acquire(slot[s].type, w0[s], t, a.od) \in Word
    BY <1>4, <2>1, RollbackType
  <2>3. w0' = [w0 EXCEPT ![s] = rollback_acquire(slot[s].type, w0[s], t, a.od)]
    BY DEF Rollback
  <2>4. QED
    BY <1>5, <2>1, <2>2, <2>3 DEF Rollback, TryRest
<1>7. CASE Len(acq[t]) = 1
  BY <1>1, <1>6, <1>7, MissOK DEF Rollback
<1>8. CASE Len(acq[t]) # 1
  <2>1. /\ acq' = [acq EXCEPT ![t] = Tail(acq[t])]
        /\ UNCHANGED <<pc, req, cur, eseq, spin, expired, res>>
    BY <1>8 DEF Rollback
  <2>2. /\ Tail(acq[t]) \in Seq(R)
        /\ Len(Tail(acq[t])) = Len(acq[t]) - 1
        /\ \A k \in 1 .. Len(Tail(acq[t])) : Tail(acq[t])[k] = acq[t][k + 1]
    BY <1>1, HeadTailProperties
  <2>3. /\ Tail(acq[t]) # <<>>
        /\ \A k \in 1 .. Len(Tail(acq[t])) : Tail(acq[t])[k].i \in 1 .. N(t)
    <3>1. Tail(acq[t]) # <<>>
      <4>1. Len(Tail(acq[t])) # 0
        BY <1>3, <1>8, <2>2
      <4>2. QED
        BY <4>1, EmptySeq
    <3>2. \A k \in 1 .. Len(Tail(acq[t])) : k + 1 \in 1 .. Len(acq[t])
      BY <1>3, <2>2
    <3>3. \A k \in 1 .. Len(Tail(acq[t])) : Tail(acq[t])[k].i \in 1 .. N(t)
      BY <1>2, <2>2, <3>2
    <3>4. QED
      BY <3>1, <3>3
  <2>4. /\ pc' = [pc EXCEPT ![t] = "rollback"] /\ cur' = [cur EXCEPT ![t] = cur[t]]
        /\ cur[t] \in Nat \ {0}
    BY <1>1, <2>1 DEF TypeInv, TypeOK
  <2>5. QED
    BY <1>1, <1>6, <2>1, <2>2, <2>3, <2>4, TryGotoOK
<1>9. QED
  BY <1>7, <1>8

LEMMA LockOK ==
    ASSUME TypeInv, NEW t \in Threads, Lock(t)
    PROVE  StepOK(t)
<1>1. /\ pc[t] = "lock" /\ lock = NoThread /\ lock' = t
      /\ UNCHANGED <<slot, w0, d, old, pool, req, cur, acq, reg, nodes, bumped, spin, expired>>
  BY DEF Lock
<1>2. /\ N(t) \in Nat /\ N(t) >= 1 /\ Len(eseq[t]) = N(t) /\ eseq[t] \in Seq(Nat)
      /\ cur[t] = 1 /\ acq[t] = <<>> /\ nodes[t] \in {0, n_nodes(t)}
  BY <1>1, ReqType DEF TypeInv, TypeOK, ThreadOK, CallOK, TryOK, HoldOK, CallLabels
<1>3. PICK q \in Seq(Nat) : eseq' = [eseq EXCEPT ![t] = q] /\ Len(q) = N(t)
  <2>1. CASE AllValid(t)
    <3> DEFINE q == [i \in 1 .. N(t) |->
                       IF FirstRound(t) /\ slot[hs(t)[i].idx].type = TYPE_EVENT
                       THEN d[hs(t)[i].idx] ELSE eseq[t][i]]
    <3>1. eseq' = [eseq EXCEPT ![t] = q]
      BY <2>1 DEF Lock
    <3>2. \A i \in 1 .. N(t) : d[hs(t)[i].idx] \in Nat /\ eseq[t][i] \in Nat
      <4>1. \A i \in 1 .. N(t) : hs(t)[i].idx \in Slots
        BY ReqType DEF TypeInv
      <4>2. d \in [Slots -> Nat]
        BY DEF TypeInv, TypeOK
      <4>3. \A i \in 1 .. N(t) : eseq[t][i] \in Nat
        BY <1>2
      <4>4. QED
        BY <4>1, <4>2, <4>3
    <3>3. q \in [1 .. N(t) -> Nat]
      BY <3>2
    <3>4. q \in Seq(Nat) /\ Len(q) = N(t)
      BY <1>2, <3>3, SeqBuild
    <3>5. QED
      BY <3>1, <3>4
  <2>2. CASE ~AllValid(t)
    <3>1. eseq' = [eseq EXCEPT ![t] = eseq[t]]
      BY <2>2 DEF Lock, TypeInv, TypeOK
    <3>2. QED
      BY <1>2, <3>1
  <2>3. QED
    BY <2>1, <2>2
<1>4. PICK l \in {"alertchk", "register", "cleanup"} : Goto(t, l)
  BY DEF Lock
<1>5. res' \in [Threads -> Results]
  BY NamedResults DEF Lock, TypeInv, TypeOK
<1>6. TypeOK'
  <2>1. pc' \in [Threads -> Labels] /\ eseq' \in [Threads -> Seq(Nat)]
    BY <1>3, <1>4 DEF TypeInv, TypeOK, Goto, Labels
  <2>2. QED
    BY <1>1, <1>5, <2>1 DEF TypeInv, TypeOK
<1>7. ThreadOK(t)'
  <2>1. /\ pc'[t] = l /\ eseq'[t] = q /\ cur'[t] = 1 /\ acq'[t] = <<>>
        /\ N(t)' = N(t) /\ n_nodes(t)' = n_nodes(t) /\ nodes'[t] = nodes[t]
    BY <1>1, <1>2, <1>3, <1>4 DEF TypeInv, TypeOK, Goto, N, n_nodes, HasAlert
  <2>2. CallOK(t)'
    BY <1>2, <1>3, <2>1 DEF CallOK, CallLabels
  <2>3. TryOK(t)'
    BY <1>2, <2>1, TryStart
  <2>4. HoldOK(t)'
    BY <1>1, <1>2, <2>1 DEF HoldOK, CallLabels, FastLabels, HeldLabels, BlockLabels
  <2>5. QED
    BY <2>2, <2>3, <2>4 DEF ThreadOK
<1>8. \A u \in Threads \ {t} : Undisturbed(u)
  BY <1>1, <1>3, <1>4 DEF TypeInv, TypeOK, Goto, Undisturbed, NoThread
<1>9. QED
  BY <1>6, <1>7, <1>8 DEF StepOK

LEMMA RegisterOK ==
    ASSUME TypeInv, NEW t \in Threads, Register(t)
    PROVE  StepOK(t)
<1>1. /\ pc[t] = "register" /\ lock = t
      /\ UNCHANGED <<slot, w0, d, old, lock, req, cur, eseq, acq, bumped, spin, expired>>
  BY DEF Register, TypeInv, ThreadOK, HoldOK, HeldLabels
<1>2. /\ N(t) \in Nat /\ N(t) >= 1 /\ n_nodes(t) \in Nat /\ n_nodes(t) >= N(t)
      /\ cur[t] = 1 /\ acq[t] = <<>> /\ nodes[t] \in {0, n_nodes(t)}
      /\ nodes[t] \in Nat /\ pool \in Nat
  BY <1>1, ReqType DEF TypeInv, TypeOK, ThreadOK, CallOK, TryOK, HoldOK, CallLabels
<1>3. CASE Exhausted(t)
  <2>1. /\ Goto(t, "cleanup")
        /\ res' = [res EXCEPT ![t] = Invalid]
        /\ UNCHANGED <<pool, nodes, reg>>
    BY <1>3 DEF Register
  <2>2. ThreadOK(t)'
    BY <1>1, <2>1 DEF TypeInv, TypeOK, Goto, ThreadOK, CallOK, TryOK, HoldOK,
           CallLabels, FastLabels, HeldLabels, BlockLabels, N, n_nodes, HasAlert
  <2>3. res' \in [Threads -> Results]
    BY <2>1, NamedResults DEF TypeInv, TypeOK
  <2>4. QED
    BY <1>1, <2>1, <2>2, <2>3, GotoOK DEF shared, Labels
<1>4. CASE ~Exhausted(t)
  <2>1. /\ pc' = [pc EXCEPT ![t] = "try"]
        /\ nodes' = [nodes EXCEPT ![t] = n_nodes(t)]
        /\ pool' = pool + nodes[t] - n_nodes(t)
        /\ reg' = [reg EXCEPT ![t] = WaitSlots(t)]
        /\ UNCHANGED res
    BY <1>4 DEF Register, Goto
  <2>2. pool' \in Nat
    BY <1>2, <1>4, <2>1 DEF Exhausted
  <2>3. WaitSlots(t) \subseteq Slots
    BY ReqType DEF TypeInv, WaitSlots
  <2>4. TypeOK'
    BY <1>1, <1>2, <2>1, <2>2, <2>3 DEF TypeInv, TypeOK, Labels
  <2>5. ThreadOK(t)'
    <3>1. /\ pc'[t] = "try" /\ nodes'[t] = n_nodes(t) /\ N(t)' = N(t)
          /\ n_nodes(t)' = n_nodes(t) /\ cur'[t] = 1 /\ acq'[t] = <<>>
          /\ eseq'[t] = eseq[t] /\ lock' = t
      BY <1>1, <1>2, <2>1 DEF TypeInv, TypeOK, N, n_nodes, HasAlert
    <3>2. CallOK(t)'
      BY <1>1, <3>1 DEF TypeInv, ThreadOK, CallOK, CallLabels
    <3>3. TryOK(t)'
      BY <1>2, <3>1, TryStart
    <3>4. HoldOK(t)'
      BY <1>2, <3>1 DEF HoldOK, CallLabels, FastLabels, HeldLabels, BlockLabels
    <3>5. QED
      BY <3>2, <3>3, <3>4 DEF ThreadOK
  <2>6. \A u \in Threads \ {t} : Undisturbed(u)
    BY <1>1, <2>1 DEF TypeInv, TypeOK, Undisturbed
  <2>7. QED
    BY <2>4, <2>5, <2>6 DEF StepOK
<1>5. QED
  BY <1>3, <1>4

LEMMA DeadlineOK ==
    ASSUME TypeInv, NEW t \in Threads, Deadline(t)
    PROVE  StepOK(t)
<1>1. /\ pc[t] = "deadline" /\ lock = t /\ nodes[t] > 0 /\ nodes[t] \in {0, n_nodes(t)}
      /\ UNCHANGED <<slot, w0, d, old, pool, req, cur, eseq, acq, reg, nodes, expired>>
  BY DEF Deadline, TypeInv, ThreadOK, HoldOK, HeldLabels, CallLabels
<1>2. CASE expired[t]
  <2>1. /\ Goto(t, "cleanup")
        /\ res' = [res EXCEPT ![t] = Timeout]
        /\ UNCHANGED <<lock, bumped, spin>>
    BY <1>2 DEF Deadline
  <2>2. ThreadOK(t)'
    BY <1>1, <2>1 DEF TypeInv, TypeOK, Goto, ThreadOK, CallOK, TryOK, HoldOK,
           CallLabels, FastLabels, HeldLabels, BlockLabels, N, n_nodes, HasAlert
  <2>3. res' \in [Threads -> Results]
    BY <2>1, NamedResults DEF TypeInv, TypeOK
  <2>4. QED
    BY <1>1, <2>1, <2>2, <2>3, GotoOK DEF shared, Labels
<1>3. CASE ~expired[t]
  <2>1. lock' = NoThread /\ bumped' = [bumped EXCEPT ![t] = FALSE] /\ UNCHANGED res
    BY <1>3 DEF Deadline
  <2>2. PICK b \in 0 .. SpinIters, l \in {"spin", "futex", "tail"} :
          spin' = [spin EXCEPT ![t] = b] /\ Goto(t, l) /\ (l = "spin" => b > 0)
    BY <1>3 DEF Deadline, SleepLabels
  <2>3. TypeOK'
    <3>1. b \in Nat /\ l \in Labels
      BY SizesAssumption DEF Labels
    <3>2. pc' \in [Threads -> Labels] /\ spin' \in [Threads -> Nat]
      BY <2>2, <3>1 DEF TypeInv, TypeOK, Goto
    <3>3. bumped' \in [Threads -> BOOLEAN] /\ lock' \in Threads \cup {NoThread} /\ res' = res
      BY <2>1 DEF TypeInv, TypeOK
    <3>4. QED
      BY <1>1, <3>2, <3>3 DEF TypeInv, TypeOK
  <2>4. ThreadOK(t)'
    <3>1. /\ pc'[t] = l /\ spin'[t] = b /\ nodes'[t] = nodes[t] /\ N(t)' = N(t)
          /\ n_nodes(t)' = n_nodes(t) /\ lock' # t
      BY <1>1, <2>1, <2>2 DEF TypeInv, TypeOK, Goto, N, n_nodes, HasAlert, NoThread
    <3>2. CallOK(t)'
      BY <1>1, <3>1 DEF TypeInv, ThreadOK, CallOK, CallLabels
    <3>3. TryOK(t)'
      BY <1>1, <3>1 DEF TypeInv, ThreadOK, TryOK
    <3>4. HoldOK(t)'
      BY <1>1, <2>2, <3>1 DEF HoldOK, CallLabels, FastLabels, HeldLabels, BlockLabels
    <3>5. QED
      BY <3>2, <3>3, <3>4 DEF ThreadOK
  <2>5. \A u \in Threads \ {t} : Undisturbed(u)
    BY <1>1, <2>1, <2>2 DEF TypeInv, TypeOK, Goto, Undisturbed, NoThread
  <2>6. QED
    BY <2>3, <2>4, <2>5 DEF StepOK
<1>4. QED
  BY <1>2, <1>3

LEMMA CleanupOK ==
    ASSUME TypeInv, NEW t \in Threads, Cleanup(t)
    PROVE  StepOK(t)
<1>1. /\ lock \in {t, NoThread} /\ lock' = NoThread
      /\ reg' = [reg EXCEPT ![t] = {}]
      /\ pool' = pool + nodes[t]
      /\ nodes' = [nodes EXCEPT ![t] = 0]
      /\ bumped' = [bumped EXCEPT ![t] = FALSE]
      /\ Return(t, res[t])
      /\ UNCHANGED <<slot, w0, d, old>>
  BY DEF Cleanup
<1>2. RestOK'
  BY <1>1, SMTT(30) DEF TypeInv, TypeOK, RestOK
<1>3. res[t] \in Results /\ nodes'[t] = 0 /\ lock' # t
  BY <1>1 DEF TypeInv, TypeOK, NoThread
<1>4. \A u \in Threads \ {t} : nodes'[u] = nodes[u] /\ (lock' = u <=> lock = u)
  BY <1>1 DEF TypeInv, TypeOK, NoThread
<1>5. QED
  BY <1>1, <1>2, <1>3, <1>4, ReturnOK

\* Every step of every thread keeps every thread and every variable in order.
LEMMA TypeStep == TypeInv /\ [Next]_vars => TypeInv'
<1> SUFFICES ASSUME TypeInv, [Next]_vars PROVE TypeInv'
  OBVIOUS
<1>1. CASE UNCHANGED vars
  <2>1. TypeOK'
    BY <1>1 DEF TypeInv, TypeOK, vars, shared, local
  <2>2. \A u \in Threads : Undisturbed(u)
    BY <1>1 DEF vars, shared, local, Undisturbed
  <2>3. QED
    BY <2>1, <2>2, Frame DEF TypeInv
<1>2. CASE Next
  <2>1. PICK t \in Threads :
          Refuse(t) \/ Begin(t) \/ Create(t) \/ Step(t) \/ Interrupt(t) \/ Expire(t)
    BY <1>2 DEF Next
  <2>2. CASE Refuse(t) \/ Begin(t) \/ Create(t) \/ Interrupt(t) \/ Expire(t)
    BY <2>2, RefuseOK, BeginOK, CreateOK, InterruptOK, ExpireOK, StepSuffices
  <2>3. CASE SignalStep(t)
    BY <2>3, ResolveOK, CasOK, ReadHeadOK, WalkOK, StepSuffices DEF SignalStep
  <2>4. CASE LockedStep(t)
    BY <2>4, PulseOK, PulseCountOK, PulseLoadOK, PulseStoreOK, CloseOK, StepSuffices
    DEF LockedStep
  <2>5. CASE WaitStep(t)
    <3>1. CASE FastValidate(t) \/ AlertValid(t) \/ AlertFast(t) \/ FastMiss(t)
      BY <3>1, FastValidateOK, AlertValidOK, AlertFastOK, FastMissOK, StepSuffices
    <3>2. CASE TryAny(t) \/ TryPulseAny(t) \/ TryAll(t) \/ TryPulseAll(t) \/ Rollback(t)
      BY <3>2, TryAnyOK, TryPulseAnyOK, TryAllOK, TryPulseAllOK, RollbackOK, StepSuffices
    <3>3. CASE Lock(t) \/ AlertCheck(t) \/ Register(t) \/ Deadline(t)
      BY <3>3, LockOK, AlertCheckOK, RegisterOK, DeadlineOK, StepSuffices
    <3>4. CASE SpinAlert(t) \/ Peek(t) \/ SpinMiss(t)
      BY <3>4, SpinAlertOK, PeekOK, SpinMissOK, StepSuffices
    <3>5. CASE Wake(t) \/ TailDone(t) \/ Awake(t) \/ Cleanup(t)
      BY <3>5, WakeOK, TailDoneOK, AwakeOK, CleanupOK, StepSuffices
    <3>6. QED
      BY <2>5, <3>1, <3>2, <3>3, <3>4, <3>5 DEF WaitStep
  <2>6. QED
    BY <2>1, <2>2, <2>3, <2>4, <2>5 DEF Step
<1>3. QED
  BY <1>1, <1>2

LEMMA TypeInvariant == Spec => []TypeInv
<1>1. QED
  BY TInit, TypeStep, PTL DEF Spec

\* For every table, pool, workload and number of threads: no handle index runs
\* out of range, no count below zero and no node pool into debt, whatever the
\* interleaving of the calls of core.rs.
THEOREM TypeCorrect == Spec => []TypeOK
<1>1. TypeInv => TypeOK
  BY DEF TypeInv
<1>2. QED
  BY <1>1, TypeInvariant, PTL

-----------------------------------------------------------------------------
(***************************************************************************)
(* The words of the objects stay well formed under every interleaving of   *)
(* signal operations, pulses, creates, closes and waits for any of several *)
(* objects: for every number of threads, table, node pool and workload.    *)
(* Two things would break it, and NoReuseNoAll leaves both out: the        *)
(* rollback of a wait-all puts back a semaphore count that a release may   *)
(* have replaced already, and a signal operation works on its slot by      *)
(* pointer, so that after a close and a create it changes a word of        *)
(* another type.                                                           *)
(***************************************************************************)

\* A slot is used once (it may be closed, but not taken again), nobody waits
\* for all of several objects, and the objects are created well formed.
NoReuseNoAll ==
    /\ MaxGen <= 1 \/ Fresh = {}
    /\ \A t \in Threads : \A r \in Menu[t] : ~r.all
    /\ \A o \in Fresh : WellFormed(o.type, o.w)
    /\ \A s \in DOMAIN InitObjects : WellFormed(InitObjects[s].type, InitObjects[s].w)

\* The slot has, or had, the object that it will ever have.
Settled(s) == slot[s].used \/ slot[s].gen >= 1

\* A signaler or a pulse that has resolved its handle is on a slot of the right
\* type, and its handle is not one of a future object.
Aimed(t) ==
    pc[t] \in {"cas", "pulse", "clear", "store"} =>
      /\ Settled(req[t].h.idx) /\ req[t].h.gen <= slot[req[t].h.idx].gen
      /\ slot[req[t].h.idx].type = OpType(req[t].op)
      /\ OpType(req[t].op) = TYPE_MUTEX => req[t].n # 0

Calm(t) == ~req[t].all /\ pc[t] # "rollback" /\ Aimed(t)

\* What a pulse has loaded is a word of an event too.
WordsOK ==
    /\ \A s \in Slots : WellFormed(slot[s].type, w0[s])
    /\ WellFormed(TYPE_EVENT, old)

WordInv == TypeInv /\ WordsOK /\ \A t \in Threads : Calm(t)

-----------------------------------------------------------------------------
(* The operators of NtObject keep a word well formed. *)

\* A signal operation, applied to a word of its type.
LEMMA OutcomeWF ==
    ASSUME NEW r \in Requests, r.op \in SignalOps, NEW w \in Word,
           WellFormed(OpType(r.op), w),
           OpType(r.op) = TYPE_MUTEX => r.n # 0
    PROVE  WellFormed(OpType(r.op), OpOutcome(r, w).w)
<1>0. r.n \in Nat /\ w.lo \in Nat /\ w.hi \in Nat /\ w.top \in BOOLEAN
  BY DEF Requests, Word
<1>1. CASE r.op = "sem_release"
  <2>1. OpType(r.op) = TYPE_SEM /\ OpOutcome(r, w) = sem_release(w, r.n)
    BY <1>1 DEF OpType, OpOutcome
  <2>2. CASE w.lo + r.n > w.hi
    BY <2>1, <2>2 DEF sem_release, Outcome
  <2>3. CASE ~(w.lo + r.n > w.hi)
    <3>1. OpOutcome(r, w).w = pack_sem(w.lo + r.n, w.hi)
      BY <2>1, <2>3 DEF sem_release, Outcome
    <3>2. QED
      BY <1>0, <2>1, <2>3, <3>1 DEF pack_sem, WellFormed, TYPE_SEM, TYPE_MUTEX, TYPE_EVENT
  <2>4. QED
    BY <2>2, <2>3
<1>2. CASE r.op = "event_set"
  <2>1. OpType(r.op) = TYPE_EVENT /\ OpOutcome(r, w) = event_set(w)
    BY <1>2 DEF OpType, OpOutcome
  <2>2. CASE w.lo # 0
    BY <2>1, <2>2 DEF event_set, Outcome
  <2>3. CASE w.lo = 0
    <3>1. OpOutcome(r, w).w = SetBit(w)
      BY <2>1, <2>3 DEF event_set, Outcome
    <3>2. SetBit(w).lo = 1 /\ SetBit(w).hi = w.hi /\ SetBit(w).top = w.top
      BY <1>0, <2>3 DEF SetBit, Word
    <3>3. QED
      BY <2>1, <3>1, <3>2 DEF WellFormed, TYPE_SEM, TYPE_MUTEX, TYPE_EVENT
  <2>4. QED
    BY <2>2, <2>3
<1>3. CASE r.op = "event_reset"
  <2>1. OpType(r.op) = TYPE_EVENT /\ OpOutcome(r, w) = event_reset(w)
    BY <1>3 DEF OpType, OpOutcome
  <2>2. CASE w.lo = 0
    BY <2>1, <2>2 DEF event_reset, Outcome
  <2>3. CASE w.lo # 0
    <3>1. OpOutcome(r, w).w = ClearBit(w)
      BY <2>1, <2>3 DEF event_reset, Outcome
    <3>2. w.lo = 1 /\ w.hi \in {0, 1} /\ ~w.top
      BY <2>1, <2>3 DEF WellFormed, TYPE_SEM, TYPE_MUTEX, TYPE_EVENT
    <3>3. ClearBit(w).lo = 0 /\ ClearBit(w).hi = w.hi /\ ClearBit(w).top = w.top
      BY <1>0, <3>2 DEF ClearBit, Word
    <3>4. QED
      BY <2>1, <3>1, <3>2, <3>3 DEF WellFormed, TYPE_SEM, TYPE_MUTEX, TYPE_EVENT
  <2>4. QED
    BY <2>2, <2>3
<1>4. CASE r.op = "mutex_unlock"
  <2>1. OpType(r.op) = TYPE_MUTEX /\ OpOutcome(r, w) = mutex_unlock(w, r.n) /\ r.n # 0
    BY <1>4 DEF OpType, OpOutcome
  <2>2. (w.lo = 0 <=> w.hi = 0) /\ (w.top => w.lo = 0) /\ w.hi <= MaxRec
    BY <2>1 DEF WellFormed, TYPE_SEM, TYPE_MUTEX, TYPE_EVENT
  <2>3. CASE w.lo # r.n
    BY <2>1, <2>3 DEF mutex_unlock, Outcome
  <2>4. CASE w.lo = r.n /\ w.hi = 1
    <3>1. OpOutcome(r, w).w = pack_mutex(0, w.hi - 1, w.top)
      BY <2>1, <2>4 DEF mutex_unlock, Outcome
    <3>2. (w.hi - 1) % (MaxRec + 1) = 0
      BY <2>4, MaskFits
    <3>3. ~w.top
      BY <2>1, <2>2, <2>4
    <3>4. QED
      BY <2>1, <3>1, <3>2, <3>3 DEF pack_mutex, WellFormed, TYPE_SEM, TYPE_MUTEX, TYPE_EVENT
  <2>5. CASE w.lo = r.n /\ w.hi # 1
    <3>1. OpOutcome(r, w).w = pack_mutex(w.lo, w.hi - 1, w.top)
      BY <2>1, <2>5 DEF mutex_unlock, Outcome
    <3>2. w.hi - 1 \in 1 .. MaxRec
      BY <1>0, <2>1, <2>2, <2>5
    <3>3. (w.hi - 1) % (MaxRec + 1) = w.hi - 1
      BY <3>2, MaskFits
    <3>4. ~w.top
      BY <2>1, <2>2, <2>5
    <3>5. QED
      BY <2>1, <2>5, <3>1, <3>2, <3>3, <3>4
      DEF pack_mutex, WellFormed, TYPE_SEM, TYPE_MUTEX, TYPE_EVENT
  <2>6. QED
    BY <2>3, <2>4, <2>5
<1>5. CASE r.op = "mutex_kill"
  <2>1. OpType(r.op) = TYPE_MUTEX /\ OpOutcome(r, w) = mutex_kill(w, r.n)
    BY <1>5 DEF OpType, OpOutcome
  <2>2. CASE w.lo # r.n
    BY <2>1, <2>2 DEF mutex_kill, Outcome
  <2>3. CASE w.lo = r.n
    <3>1. OpOutcome(r, w).w = pack_mutex(0, 0, TRUE)
      BY <2>1, <2>3 DEF mutex_kill, Outcome
    <3>2. 0 % (MaxRec + 1) = 0
      BY MaskFits
    <3>3. QED
      BY <2>1, <3>1, <3>2 DEF pack_mutex, WellFormed, TYPE_SEM, TYPE_MUTEX, TYPE_EVENT
  <2>4. QED
    BY <2>2, <2>3
<1>6. QED
  BY <1>1, <1>2, <1>3, <1>4, <1>5 DEF SignalOps

\* Clearing the signal of an event.
LEMMA ClearWF ==
    ASSUME NEW w \in Word, WellFormed(TYPE_EVENT, w)
    PROVE  WellFormed(TYPE_EVENT, ClearBit(w))
<1>1. w.lo \in {0, 1} /\ w.hi \in {0, 1} /\ ~w.top
  BY DEF WellFormed, TYPE_SEM, TYPE_MUTEX, TYPE_EVENT
<1>2. ClearBit(w).lo = 0 /\ ClearBit(w).hi = w.hi /\ ClearBit(w).top = w.top
  BY <1>1 DEF ClearBit, Word
<1>3. QED
  BY <1>1, <1>2 DEF WellFormed, TYPE_SEM, TYPE_MUTEX, TYPE_EVENT

\* An attempt, whether it succeeds or not.
LEMMA AttemptWF ==
    ASSUME NEW type, NEW w \in Word, NEW owner \in Nat \ {0}, WellFormed(type, w)
    PROVE  WellFormed(type, try_acquire(type, w, owner).w)
<1> DEFINE a == try_acquire(type, w, owner)
<1>0. w.lo \in Nat /\ w.hi \in Nat /\ w.top \in BOOLEAN
  BY DEF Word
<1>1. CASE type = TYPE_SEM
  <2>1. CASE w.lo > 0
    <3>1. a.w = pack_sem(w.lo - 1, w.hi)
      BY <1>1, <2>1 DEF try_acquire, Acquired, TYPE_SEM, TYPE_MUTEX, TYPE_EVENT
    <3>2. QED
      BY <1>0, <1>1, <2>1, <3>1 DEF pack_sem, WellFormed, TYPE_SEM, TYPE_MUTEX, TYPE_EVENT
  <2>2. CASE ~(w.lo > 0)
    <3>1. a.w = w
      BY <1>1, <2>2 DEF try_acquire, Busy, TYPE_SEM, TYPE_MUTEX, TYPE_EVENT
    <3>2. QED
      BY <3>1
  <2>3. QED
    BY <2>1, <2>2
<1>2. CASE type = TYPE_MUTEX
  <2>1. (w.lo = 0 <=> w.hi = 0) /\ (w.top => w.lo = 0) /\ w.hi <= MaxRec
    BY <1>2 DEF WellFormed, TYPE_SEM, TYPE_MUTEX, TYPE_EVENT
  <2>2. CASE w.hi < MaxRec /\ w.lo = 0
    <3>1. a.w = pack_mutex(owner, w.hi + 1, FALSE)
      BY <1>2, <2>2 DEF try_acquire, Acquired, TYPE_SEM, TYPE_MUTEX, TYPE_EVENT
    <3>2. (w.hi + 1) % (MaxRec + 1) = 1
      BY <2>1, <2>2, MaskFits
    <3>3. QED
      BY <1>2, <3>1, <3>2 DEF pack_mutex, WellFormed, TYPE_SEM, TYPE_MUTEX, TYPE_EVENT
  <2>3. CASE w.hi < MaxRec /\ w.lo # 0 /\ w.lo = owner
    <3>1. a.w = pack_mutex(owner, w.hi + 1, w.top)
      BY <1>2, <2>3 DEF try_acquire, Acquired, TYPE_SEM, TYPE_MUTEX, TYPE_EVENT
    <3>2. w.hi + 1 \in 1 .. MaxRec
      BY <1>0, <2>3
    <3>3. (w.hi + 1) % (MaxRec + 1) = w.hi + 1
      BY <3>2, MaskFits
    <3>4. ~w.top
      BY <2>1, <2>3
    <3>5. QED
      BY <1>2, <3>1, <3>2, <3>3, <3>4
      DEF pack_mutex, WellFormed, TYPE_SEM, TYPE_MUTEX, TYPE_EVENT
  <2>4. CASE ~(w.hi < MaxRec) \/ (w.lo # 0 /\ w.lo # owner)
    <3>1. a.w = w
      BY <1>2, <2>4 DEF try_acquire, Busy, TYPE_SEM, TYPE_MUTEX, TYPE_EVENT
    <3>2. QED
      BY <3>1
  <2>5. QED
    BY <2>2, <2>3, <2>4
<1>3. CASE type = TYPE_EVENT
  <2>1. a.w \in {w, ClearBit(w)}
    BY <1>3 DEF try_acquire, Acquired, Busy, TYPE_SEM, TYPE_MUTEX, TYPE_EVENT
  <2>2. QED
    BY <1>3, <2>1, ClearWF
<1>4. CASE type \notin {TYPE_SEM, TYPE_MUTEX, TYPE_EVENT}
  BY <1>4 DEF WellFormed
<1>5. QED
  BY <1>1, <1>2, <1>3, <1>4

-----------------------------------------------------------------------------
LEMMA NoWordWF == WellFormed(TYPE_EVENT, NoWord)
  BY DEF NoWord, pack_sem, WellFormed, TYPE_SEM, TYPE_MUTEX, TYPE_EVENT

LEMMA WordInit == NoReuseNoAll /\ Init => WordInv
<1> SUFFICES ASSUME NoReuseNoAll, Init PROVE WordInv
  OBVIOUS
<1>1. ASSUME NEW s \in Slots PROVE WellFormed(slot[s].type, w0[s])
  <2>1. CASE s \in DOMAIN InitObjects
    <3>1. slot[s].type = InitObjects[s].type /\ w0[s] = InitObjects[s].w
      BY <2>1 DEF Init
    <3>2. QED
      BY <2>1, <3>1 DEF NoReuseNoAll
  <2>2. CASE s \notin DOMAIN InitObjects
    <3>1. slot[s].type = TYPE_RESERVED
      BY <2>2 DEF Init
    <3>2. QED
      BY <3>1 DEF WellFormed, TYPE_SEM, TYPE_MUTEX, TYPE_EVENT, TYPE_RESERVED
  <2>3. QED
    BY <2>1, <2>2
<1>2. \A t \in Threads : Calm(t)
  BY DEF Init, Calm, Aimed, NoReq, SignalReq
<1>3. WellFormed(TYPE_EVENT, old)
  BY NoWordWF DEF Init
<1>4. QED
  BY <1>1, <1>2, <1>3, TInit DEF WordInv, WordsOK

\* The object of a slot keeps its type, whatever becomes of the slot.
TypesSettled ==
    \A s \in Slots :
      /\ slot'[s].gen >= slot[s].gen /\ slot'[s].gen \in Nat
      /\ Settled(s) => Settled(s)' /\ slot'[s].type = slot[s].type

LEMMA SettledStep ==
    ASSUME NoReuseNoAll, TypeInv, Next
    PROVE  TypesSettled
<1>0. slot \in [Slots -> [used : BOOLEAN, gen : Nat, type : Types]]
  BY DEF TypeInv, TypeOK
<1>1. PICK t \in Threads :
          Refuse(t) \/ Begin(t) \/ Create(t) \/ Step(t) \/ Interrupt(t) \/ Expire(t)
  BY DEF Next
<1>2. CASE Create(t)
  <2>1. PICK o \in Fresh, s \in Slots :
          /\ ~slot[s].used /\ slot[s].gen < MaxGen
          /\ slot' = [slot EXCEPT ![s] = [used |-> TRUE, gen |-> @.gen, type |-> o.type]]
    BY <1>2 DEF Create
  <2>2. ~Settled(s)
    BY <1>0, <2>1 DEF Settled, NoReuseNoAll
  <2>3. \A x \in Slots \ {s} : slot'[x] = slot[x]
    BY <1>0, <2>1
  <2>4. s \in Slots /\ slot'[s].gen = slot[s].gen
    BY <1>0, <2>1
  <2>5. QED
    BY <1>0, <2>2, <2>3, <2>4 DEF TypesSettled, Settled
<1>3. CASE close(t)
  <2> DEFINE s == req[t].h.idx
  <2>1. \/ slot' = slot
        \/ slot' = [slot EXCEPT ![s] = [used |-> FALSE, gen |-> slot[s].gen + 1,
                                       type |-> slot[s].type]]
    BY <1>3 DEF close
  <2>2. CASE slot' = slot
    BY <1>0, <2>2 DEF TypesSettled, Settled
  <2>3. CASE slot' = [slot EXCEPT ![s] = [used |-> FALSE, gen |-> slot[s].gen + 1,
                                         type |-> slot[s].type]]
    <3>1. \A x \in Slots \ {s} : slot'[x] = slot[x]
      BY <1>0, <2>3
    <3>2. s \in Slots => slot'[s].type = slot[s].type /\ slot'[s].gen = slot[s].gen + 1
      BY <1>0, <2>3
    <3>3. QED
      BY <1>0, <3>1, <3>2 DEF TypesSettled, Settled
  <2>4. QED
    BY <2>1, <2>2, <2>3
<1>4. CASE slot' = slot
  BY <1>0, <1>4 DEF TypesSettled, Settled
<1>5. CASE SignalStep(t) \/ event_pulse(t) \/ PulseCount(t) \/ PulseLoad(t) \/ PulseStore(t)
  BY <1>4, <1>5 DEF SignalStep, Resolve, Cas, ReadHead, Walk, event_pulse, PulseCount,
              PulseLoad, PulseStore, shared
<1>6. CASE WaitStep(t)
  BY <1>4, <1>6 DEF WaitStep, FastValidate, AlertValid, AlertFast, FastMiss, TryAny, TryPulseAny,
              TryAll, TryPulseAll, Rollback, Lock, AlertCheck, Register, Deadline, SpinAlert, Peek, SpinMiss,
              Wake, TailDone, Awake, Cleanup, shared
<1>7. CASE Refuse(t) \/ Begin(t) \/ Interrupt(t) \/ Expire(t)
  BY <1>4, <1>7 DEF Refuse, Begin, Interrupt, Expire, shared
<1>8. QED
  BY <1>1, <1>2, <1>3, <1>5, <1>6, <1>7 DEF Step, LockedStep

\* What a step of thread t owes: its own label, and every word.
LEMMA WordSuffices ==
    ASSUME WordInv, TypesSettled, NEW t \in Threads, StepOK(t), Calm(t)', WordsOK'
    PROVE  WordInv'
<1>1. ASSUME NEW u \in Threads \ {t} PROVE Calm(u)'
  <2>1. Undisturbed(u)
    BY DEF StepOK
  <2>2. /\ req[u].h.idx \in Slots /\ req[u].h.gen \in Nat
        /\ slot[req[u].h.idx].gen \in Nat
    BY DEF WordInv, TypeInv, TypeOK, Requests, Handles
  <2>3. QED
    BY <2>1, <2>2 DEF WordInv, Calm, Aimed, Undisturbed, TypesSettled
<1>2. TypeInv'
  BY StepSuffices DEF WordInv
<1>3. QED
  BY <1>1, <1>2 DEF WordInv

\* A thread that does not start or aim a call stays calm.
LEMMA CalmOK ==
    ASSUME WordInv, NEW t \in Threads,
           req'[t] \in {req[t], NoReq}, pc'[t] \notin {"cas", "pulse", "clear", "store", "rollback"}
    PROVE  Calm(t)'
<1>1. ~req[t].all /\ ~NoReq.all
  BY DEF WordInv, Calm, NoReq, SignalReq
<1>2. ~req'[t].all
  BY <1>1
<1>3. QED
  BY <1>2 DEF Calm, Aimed

\* Words and types that a step leaves alone.
LEMMA WordsSame ==
    ASSUME WordInv, slot' = slot, w0' = w0, old' = old
    PROVE  WordsOK'
  BY DEF WordInv, WordsOK

\* One word changes and stays well formed.
LEMMA WordPut ==
    ASSUME WordInv, slot' = slot, NEW s \in Slots, NEW w, WellFormed(TYPE_EVENT, old)',
           w0' = [w0 EXCEPT ![s] = w], WellFormed(slot[s].type, w)
    PROVE  WordsOK'
<1>1. w0 \in [Slots -> Word]
  BY DEF WordInv, TypeInv, TypeOK
<1>2. w0'[s] = w /\ \A x \in Slots \ {s} : w0'[x] = w0[x]
  BY <1>1
<1>3. QED
  BY <1>2 DEF WordInv, WordsOK

-----------------------------------------------------------------------------
(* The steps. *)

\* A call begins.
LEMMA BeginWord ==
    ASSUME NoReuseNoAll, WordInv, NEW t \in Threads, Begin(t)
    PROVE  Calm(t)' /\ WordsOK'
<1>1. PICK r \in Menu[t] :
        /\ req' = [req EXCEPT ![t] = r]
        /\ Goto(t, CASE r.op \in SignalOps -> "resolve"
                     [] r.op \in LockedOps -> "locked"
                     [] r.op = "wait"      -> "validate")
  BY DEF Begin
<1>2. r.op \in SignalOps \cup LockedOps \cup {"wait"}
  BY WorkloadAssumption DEF Requests, Ops
<1>3. req'[t] = r /\ pc'[t] \in {"resolve", "locked", "validate"}
  BY <1>1, <1>2 DEF Goto, WordInv, TypeInv, TypeOK
<1>4. slot' = slot /\ w0' = w0 /\ old' = old
  BY DEF Begin, shared
<1>5. QED
  BY <1>3, <1>4, WordsSame DEF Calm, Aimed, NoReuseNoAll

\* A signaler looks its handle up.
LEMMA ResolveWord ==
    ASSUME WordInv, NEW t \in Threads, Resolve(t)
    PROVE  Calm(t)' /\ WordsOK'
<1>1. slot' = slot /\ w0' = w0 /\ old' = old
  BY DEF Resolve, shared
<1>2. CASE Return(t, Invalid)
  BY <1>1, <1>2, CalmOK, WordsSame DEF Return, WordInv, TypeInv, TypeOK
<1>3. CASE /\ ValidOf(req[t].h, OpType(req[t].op))
           /\ OpType(req[t].op) = TYPE_MUTEX => req[t].n # 0
           /\ UNCHANGED req /\ Goto(t, "cas")
  <2>1. pc'[t] = "cas" /\ req' = req
    BY <1>3 DEF Goto, WordInv, TypeInv, TypeOK
  <2>2. req[t].h.gen \in Nat
    BY DEF WordInv, TypeInv, TypeOK, Requests, Handles
  <2>3. slot[req[t].h.idx].gen = req[t].h.gen
    BY <1>3 DEF ValidOf, Valid
  <2>4. req[t].h.gen <= slot[req[t].h.idx].gen
    BY <2>2, <2>3
  <2>5. Aimed(t)'
    BY <1>1, <1>3, <2>1, <2>4 DEF Aimed, Settled, ValidOf, Valid
  <2>6. QED
    BY <1>1, <2>1, <2>5, WordsSame DEF WordInv, Calm
<1>4. QED
  BY <1>2, <1>3 DEF Resolve

\* The CAS of a signal operation.
LEMMA CasWord ==
    ASSUME WordInv, NEW t \in Threads, Cas(t)
    PROVE  Calm(t)' /\ WordsOK'
<1> DEFINE s == req[t].h.idx
           o == OpOutcome(req[t], w0[s])
<1>1. pc[t] = "cas" /\ slot' = slot /\ w0' = [w0 EXCEPT ![s] = o.w]
  BY DEF Cas
<1>2. req[t] \in Requests /\ s \in Slots /\ w0[s] \in Word /\ req[t].op \in SignalOps
  BY <1>1 DEF WordInv, TypeInv, TypeOK, Requests, Handles, ThreadOK, CallOK
<1>3. /\ slot[s].type = OpType(req[t].op)
      /\ OpType(req[t].op) = TYPE_MUTEX => req[t].n # 0
      /\ WellFormed(slot[s].type, w0[s])
  BY <1>1, <1>2 DEF WordInv, Calm, Aimed, WordsOK
<1>4. WellFormed(slot[s].type, o.w)
  BY <1>2, <1>3, OutcomeWF
<1>5. WordsOK'
  <2>1. WellFormed(TYPE_EVENT, old)'
    BY DEF Cas, WordInv, WordsOK
  <2>2. QED
    BY <1>1, <1>2, <1>4, <2>1, WordPut
<1>6. req'[t] \in {req[t], NoReq} /\ pc'[t] \in {"head", "idle"}
  BY DEF Cas, Goto, Return, WordInv, TypeInv, TypeOK
<1>7. QED
  BY <1>5, <1>6, CalmOK

\* The steps of a pulse.
LEMMA PulseWord ==
    ASSUME WordInv, NEW t \in Threads, event_pulse(t)
    PROVE  Calm(t)' /\ WordsOK'
<1>1. slot' = slot /\ w0' = w0 /\ old' = old
  BY DEF event_pulse
<1>2. CASE ~ValidOf(req[t].h, TYPE_EVENT)
  <2>1. req'[t] = NoReq /\ pc'[t] = "idle"
    BY <1>2 DEF event_pulse, Return, WordInv, TypeInv, TypeOK
  <2>2. QED
    BY <1>1, <2>1, CalmOK, WordsSame
<1>3. CASE ValidOf(req[t].h, TYPE_EVENT)
  <2>1. pc'[t] = "pulse" /\ req' = req /\ req[t].op = "event_pulse"
    BY <1>3 DEF event_pulse, Goto, WordInv, TypeInv, TypeOK
  <2>2. OpType(req[t].op) = TYPE_EVENT /\ TYPE_EVENT # TYPE_MUTEX
    BY <2>1 DEF OpType, TYPE_EVENT, TYPE_MUTEX
  <2>3. req[t].h.gen \in Nat /\ slot[req[t].h.idx].gen = req[t].h.gen
    BY <1>3 DEF WordInv, TypeInv, TypeOK, Requests, Handles, ValidOf, Valid
  <2>4. req[t].h.gen <= slot[req[t].h.idx].gen
    BY <2>3
  <2>5. Aimed(t)'
    BY <1>1, <1>3, <2>1, <2>2, <2>4 DEF Aimed, Settled, ValidOf, Valid
  <2>6. QED
    BY <1>1, <2>1, <2>5, WordsSame DEF WordInv, Calm
<1>4. QED
  BY <1>2, <1>3

\* A pulse under way is on an event.
LEMMA PulseAimed ==
    ASSUME WordInv, NEW t \in Threads, pc[t] \in {"pulse", "clear", "store"}
    PROVE  /\ req[t].h.idx \in Slots /\ slot[req[t].h.idx].type = TYPE_EVENT
           /\ w0[req[t].h.idx] \in Word /\ old \in Word
           /\ WellFormed(TYPE_EVENT, w0[req[t].h.idx]) /\ WellFormed(TYPE_EVENT, old)
<1>1. req[t].op = "event_pulse" /\ req[t].h.idx \in Slots
  BY PulseHolds DEF WordInv
<1>2. slot[req[t].h.idx].type = TYPE_EVENT
  BY <1>1 DEF WordInv, Calm, Aimed, OpType
<1>3. w0[req[t].h.idx] \in Word /\ old \in Word
  BY <1>1 DEF WordInv, TypeInv, TypeOK
<1>4. QED
  BY <1>1, <1>2, <1>3 DEF WordInv, WordsOK

LEMMA PulseStepWord ==
    ASSUME WordInv, NEW t \in Threads, PulseCount(t) \/ PulseLoad(t)
    PROVE  Calm(t)' /\ WordsOK'
<1>1. /\ slot' = slot /\ w0' = w0 /\ req' = req
      /\ pc[t] \in {"pulse", "clear"} /\ pc'[t] \in {"clear", "store"}
      /\ old' \in {old, w0[req[t].h.idx]}
  BY DEF PulseCount, PulseLoad, Goto, WordInv, TypeInv, TypeOK
<1>2. WellFormed(TYPE_EVENT, old)'
  BY <1>1, PulseAimed
<1>3. WordsOK'
  BY <1>1, <1>2 DEF WordInv, WordsOK
<1>4. Calm(t)'
  BY <1>1 DEF WordInv, Calm, Aimed, Settled
<1>5. QED
  BY <1>3, <1>4

LEMMA PulseStoreWord ==
    ASSUME WordInv, NEW t \in Threads, PulseStore(t)
    PROVE  Calm(t)' /\ WordsOK'
<1> DEFINE s == req[t].h.idx
<1>1. /\ slot' = slot /\ w0' = [w0 EXCEPT ![s] = ClearBit(old)] /\ old' = NoWord
      /\ pc[t] = "store"
  BY DEF PulseStore
<1>2. s \in Slots /\ WellFormed(slot[s].type, ClearBit(old))
  BY <1>1, PulseAimed, ClearWF
<1>3. WordsOK'
  BY <1>1, <1>2, WordPut, NoWordWF
<1>4. req'[t] = NoReq /\ pc'[t] = "idle"
  BY DEF PulseStore, Return, WordInv, TypeInv, TypeOK
<1>5. QED
  BY <1>3, <1>4, CalmOK

\* close: a closed slot keeps its type and its word.
LEMMA CloseWord ==
    ASSUME NoReuseNoAll, WordInv, NEW t \in Threads, close(t)
    PROVE  Calm(t)' /\ WordsOK'
<1> DEFINE s == req[t].h.idx
<1>0. slot \in [Slots -> [used : BOOLEAN, gen : Nat, type : Types]]
  BY DEF WordInv, TypeInv, TypeOK
<1>1. \/ slot' = slot
      \/ slot' = [slot EXCEPT ![s] = [used |-> FALSE, gen |-> slot[s].gen + 1,
                                     type |-> slot[s].type]]
  BY DEF close
<1>2. \A x \in Slots : slot'[x].type = slot[x].type
  BY <1>0, <1>1
<1>3. w0' = w0 /\ old' = old
  BY DEF close
<1>4. req'[t] = NoReq /\ pc'[t] = "idle"
  <2>1. PICK r : Return(t, r)
    BY DEF close
  <2>2. DOMAIN req = Threads /\ DOMAIN pc = Threads
    BY DEF WordInv, TypeInv, TypeOK
  <2>3. QED
    BY <2>1, <2>2 DEF Return
<1>5. QED
  BY <1>2, <1>3, <1>4, CalmOK DEF WordInv, WordsOK

\* A new object.
LEMMA CreateWord ==
    ASSUME NoReuseNoAll, WordInv, NEW t \in Threads, Create(t)
    PROVE  Calm(t)' /\ WordsOK'
<1>0. slot \in [Slots -> [used : BOOLEAN, gen : Nat, type : Types]] /\ w0 \in [Slots -> Word]
  BY DEF WordInv, TypeInv, TypeOK
<1>1. PICK o \in Fresh, s \in Slots :
        /\ slot' = [slot EXCEPT ![s] = [used |-> TRUE, gen |-> @.gen, type |-> o.type]]
        /\ w0' = [w0 EXCEPT ![s] = o.w]
  BY DEF Create
<1>2. slot'[s].type = o.type /\ w0'[s] = o.w
  BY <1>0, <1>1
<1>3. \A x \in Slots \ {s} : slot'[x] = slot[x] /\ w0'[x] = w0[x]
  BY <1>0, <1>1
<1>4. pc[t] = "idle" /\ pc' = pc /\ req' = req
  BY DEF Create, local
<1>5. WordsOK'
  <2>1. old' = old
    BY DEF Create
  <2>2. QED
    BY <1>2, <1>3, <2>1 DEF NoReuseNoAll, WordInv, WordsOK
<1>6. QED
  BY <1>4, <1>5, CalmOK

\* An attempt of a wait.
LEMMA PassQuiet ==
    ASSUME WordInv, NEW t \in Threads, PassAny(t)
    PROVE  req'[t] = req[t] /\ pc'[t] \in {"try", "deadline", "spinmiss", "fastmiss"}
  BY DEF PassAny, Miss, Goto, WordInv, TypeInv, TypeOK

LEMMA TryWord ==
    ASSUME WordInv, NEW t \in Threads, TryAny(t)
    PROVE  Calm(t)' /\ WordsOK'
<1> DEFINE i == cur[t]
           s == hs(t)[i].idx
           a == Attempt(t, i)
<1>1. slot' = slot /\ w0' = [w0 EXCEPT ![s] = a.w]
  BY DEF TryAny
<1>2. i \in 1 .. N(t)
  BY DEF WordInv, TypeInv, ThreadOK, TryOK, TryAny
<1>3. s \in Slots
  BY <1>2, ReqType DEF WordInv, TypeInv
<1>4. w0[s] \in Word /\ WellFormed(slot[s].type, w0[s]) /\ t \in Nat \ {0}
  BY <1>3 DEF WordInv, WordsOK, TypeInv, TypeOK
<1>5. WellFormed(slot[s].type, a.w)
  BY <1>4, AttemptWF DEF Attempt
<1>6. WordsOK'
  <2>1. WellFormed(TYPE_EVENT, old)'
    BY DEF TryAny, WordInv, WordsOK
  <2>2. QED
    BY <1>1, <1>3, <1>5, <2>1, WordPut
<1>7. req'[t] \in {req[t], NoReq} /\ pc'[t] \notin {"cas", "pulse", "clear", "store", "rollback"}
  <2>1. CASE Decide(t, Signaled(i - 1, a.od))
    BY <2>1 DEF Decide, Return, WordInv, TypeInv, TypeOK
  <2>2. CASE PassAny(t)
    BY <2>2, PassQuiet
  <2>3. CASE Goto(t, "trypulse") /\ UNCHANGED req
    BY <2>3 DEF Goto, WordInv, TypeInv, TypeOK
  <2>4. QED
    BY <2>1, <2>2, <2>3 DEF TryAny
<1>8. QED
  BY <1>6, <1>7, CalmOK

\* Everything else leaves the table and the words alone, starts no call and
\* aims no signal.
LEMMA OtherWord ==
    ASSUME WordInv, NEW t \in Threads,
           slot' = slot, w0' = w0, old' = old,
           req'[t] \in {req[t], NoReq}, pc'[t] \notin {"cas", "pulse", "clear", "store", "rollback"}
    PROVE  Calm(t)' /\ WordsOK'
  BY CalmOK, WordsSame

\* The fast path of a wait.
LEMMA FastQuiet ==
    ASSUME WordInv, NEW t \in Threads,
           FastValidate(t) \/ AlertValid(t) \/ AlertFast(t) \/ FastMiss(t)
    PROVE  /\ slot' = slot /\ w0' = w0 /\ old' = old
           /\ req'[t] \in {req[t], NoReq} /\ pc'[t] \notin {"cas", "pulse", "clear", "store", "rollback"}
<1>1. slot' = slot /\ w0' = w0 /\ old' = old
  BY DEF FastValidate, AlertValid, AlertFast, FastMiss, shared
<1>2. CASE FastValidate(t)
  <2>1. N(t) \in Nat
    BY ReqType DEF WordInv, TypeInv
  <2>2. pc'[t] \in {"lock", "validate", "try", "alertvalid"} /\ req' = req
    BY <1>2, <2>1 DEF FastValidate, Goto, WordInv, TypeInv, TypeOK
  <2>3. QED
    BY <1>1, <2>2
<1>3. CASE AlertValid(t)
  BY <1>1, <1>3 DEF AlertValid, Goto, WordInv, TypeInv, TypeOK
<1>4. CASE AlertFast(t)
  BY <1>1, <1>4 DEF AlertFast, Goto, Return, WordInv, TypeInv, TypeOK
<1>5. CASE FastMiss(t)
  BY <1>1, <1>5 DEF FastMiss, Goto, Return, WordInv, TypeInv, TypeOK
<1>6. QED
  BY <1>2, <1>3, <1>4, <1>5

\* The look at the counter.
LEMMA TryPulseQuiet ==
    ASSUME WordInv, NEW t \in Threads, TryPulseAny(t)
    PROVE  /\ slot' = slot /\ w0' = w0 /\ old' = old
           /\ req'[t] \in {req[t], NoReq}
           /\ pc'[t] \notin {"cas", "pulse", "clear", "store", "rollback"}
<1>1. slot' = slot /\ w0' = w0 /\ old' = old
  BY DEF TryPulseAny, shared
<1>2. CASE PassAny(t)
  BY <1>1, <1>2, PassQuiet
<1>3. CASE Decide(t, Signaled(cur[t] - 1, FALSE))
  <2>1. \/ pc' = [pc EXCEPT ![t] = "cleanup"] /\ req' = req
        \/ pc' = [pc EXCEPT ![t] = "idle"] /\ req' = [req EXCEPT ![t] = NoReq]
    BY <1>3 DEF Decide, Return
  <2>2. QED
    BY <1>1, <2>1 DEF WordInv, TypeInv, TypeOK
<1>4. QED
  BY <1>2, <1>3 DEF TryPulseAny

\* The locked path of a wait, and the spin.
LEMMA LockQuiet ==
    ASSUME WordInv, NEW t \in Threads,
           Lock(t) \/ AlertCheck(t) \/ Register(t) \/ Deadline(t) \/ SpinAlert(t)
             \/ Peek(t) \/ SpinMiss(t)
    PROVE  /\ slot' = slot /\ w0' = w0 /\ old' = old
           /\ req'[t] \in {req[t], NoReq} /\ pc'[t] \notin {"cas", "pulse", "clear", "store", "rollback"}
<1>1. slot' = slot /\ w0' = w0 /\ old' = old /\ req' = req
  BY DEF Lock, AlertCheck, Register, Deadline, SpinAlert, Peek, SpinMiss, shared
<1>2. CASE Lock(t) \/ AlertCheck(t) \/ Register(t) \/ Peek(t)
  BY <1>1, <1>2 DEF Lock, AlertCheck, Register, Peek, Goto, WordInv, TypeInv, TypeOK
<1>3. CASE Deadline(t)
  BY <1>1, <1>3 DEF Deadline, SleepLabels, Goto, WordInv, TypeInv, TypeOK
<1>4. CASE SpinAlert(t)
  BY <1>1, <1>4 DEF SpinAlert, Goto, WordInv, TypeInv, TypeOK
<1>5. CASE SpinMiss(t)
  BY <1>1, <1>5 DEF SpinMiss, SleepLabels, Goto, WordInv, TypeInv, TypeOK
<1>6. QED
  BY <1>2, <1>3, <1>4, <1>5

\* The sleep, the way out, and what goes on between and around calls.
LEMMA RestQuiet ==
    ASSUME WordInv, NEW t \in Threads,
           Wake(t) \/ TailDone(t) \/ Awake(t) \/ Cleanup(t) \/ Refuse(t)
             \/ Interrupt(t) \/ ReadHead(t) \/ Walk(t)
    PROVE  /\ slot' = slot /\ w0' = w0 /\ old' = old
           /\ req'[t] \in {req[t], NoReq} /\ pc'[t] \notin {"cas", "pulse", "clear", "store", "rollback"}
<1>1. slot' = slot /\ w0' = w0 /\ old' = old
  BY DEF Wake, TailDone, Awake, Cleanup, Refuse, Interrupt, ReadHead, Walk, shared
<1>2. CASE Wake(t) \/ TailDone(t) \/ Awake(t) \/ Interrupt(t)
  BY <1>1, <1>2 DEF Wake, TailDone, Awake, Interrupt, Goto, WordInv, TypeInv, TypeOK
<1>3. CASE Cleanup(t) \/ Walk(t)
  BY <1>1, <1>3 DEF Cleanup, Walk, Return, WordInv, TypeInv, TypeOK
<1>4. CASE ReadHead(t)
  <2>1. \/ Goto(t, "walk") /\ UNCHANGED req
        \/ Return(t, res[t])
    BY <1>4 DEF ReadHead
  <2>2. QED
    BY <1>1, <2>1 DEF Goto, Return, WordInv, TypeInv, TypeOK
<1>5. CASE Refuse(t)
  BY <1>1, <1>5 DEF Refuse
<1>6. QED
  BY <1>2, <1>3, <1>4, <1>5

\* Time passes.
LEMMA ExpireWord ==
    ASSUME WordInv, NEW t \in Threads, Expire(t)
    PROVE  Calm(t)' /\ WordsOK'
<1>1. slot' = slot /\ w0' = w0 /\ old' = old /\ pc' = pc /\ req' = req
  BY DEF Expire, shared
<1>2. QED
  BY <1>1, WordsSame DEF WordInv, Calm, Aimed, Settled

\* Every step keeps every word well formed.
LEMMA WordStep == NoReuseNoAll /\ WordInv /\ [Next]_vars => WordInv'
<1> SUFFICES ASSUME NoReuseNoAll, WordInv, [Next]_vars PROVE WordInv'
  OBVIOUS
<1>1. CASE UNCHANGED vars
  <2>1. TypeInv'
    BY <1>1, TypeStep DEF WordInv
  <2>2. UNCHANGED <<slot, w0, old, pc, req>>
    BY <1>1 DEF vars, shared, local
  <2>3. QED
    BY <2>1, <2>2 DEF WordInv, WordsOK, Calm, Aimed, Settled
<1>2. CASE Next
  <2>0. TypesSettled /\ TypeInv
    BY <1>2, SettledStep DEF WordInv
  <2>1. PICK t \in Threads :
          Refuse(t) \/ Begin(t) \/ Create(t) \/ Step(t) \/ Interrupt(t) \/ Expire(t)
    BY <1>2 DEF Next
  <2>2. CASE Begin(t)
    BY <2>0, <2>2, BeginOK, BeginWord, WordSuffices
  <2>3. CASE Create(t)
    BY <2>0, <2>3, CreateOK, CreateWord, WordSuffices
  <2>4. CASE Expire(t)
    BY <2>0, <2>4, ExpireOK, ExpireWord, WordSuffices
  <2>5. CASE Resolve(t)
    BY <2>0, <2>5, ResolveOK, ResolveWord, WordSuffices
  <2>6. CASE Cas(t)
    BY <2>0, <2>6, CasOK, CasWord, WordSuffices
  <2>7. CASE event_pulse(t) \/ PulseCount(t) \/ PulseLoad(t) \/ PulseStore(t)
    <3>1. StepOK(t)
      BY <2>0, <2>7, PulseOK, PulseCountOK, PulseLoadOK, PulseStoreOK
    <3>2. Calm(t)' /\ WordsOK'
      BY <2>7, PulseWord, PulseStepWord, PulseStoreWord
    <3>3. QED
      BY <2>0, <3>1, <3>2, WordSuffices
  <2>8. CASE close(t)
    BY <2>0, <2>8, CloseOK, CloseWord, WordSuffices
  <2>9. CASE TryAny(t)
    BY <2>0, <2>9, TryAnyOK, TryWord, WordSuffices
  <2>10. ~TryAll(t) /\ ~TryPulseAll(t) /\ ~Rollback(t)
    BY DEF WordInv, Calm, TryAll, TryPulseAll, Rollback
  <2>15. CASE TryPulseAny(t)
    BY <2>0, <2>15, TryPulseAnyOK, TryPulseQuiet, OtherWord, WordSuffices
  <2>11. CASE FastValidate(t) \/ AlertValid(t) \/ AlertFast(t) \/ FastMiss(t)
    <3>1. StepOK(t)
      BY <2>0, <2>11, FastValidateOK, AlertValidOK, AlertFastOK, FastMissOK
    <3>2. QED
      BY <2>0, <2>11, <3>1, FastQuiet, OtherWord, WordSuffices
  <2>12. CASE Lock(t) \/ AlertCheck(t) \/ Register(t) \/ Deadline(t) \/ SpinAlert(t)
                \/ Peek(t) \/ SpinMiss(t)
    <3>1. StepOK(t)
      BY <2>0, <2>12, LockOK, AlertCheckOK, RegisterOK, DeadlineOK, SpinAlertOK, PeekOK,
         SpinMissOK
    <3>2. QED
      BY <2>0, <2>12, <3>1, LockQuiet, OtherWord, WordSuffices
  <2>13. CASE Wake(t) \/ TailDone(t) \/ Awake(t) \/ Cleanup(t) \/ Refuse(t)
                \/ Interrupt(t) \/ ReadHead(t) \/ Walk(t)
    <3>1. StepOK(t)
      BY <2>0, <2>13, WakeOK, TailDoneOK, AwakeOK, CleanupOK, RefuseOK, InterruptOK,
         ReadHeadOK, WalkOK
    <3>2. QED
      BY <2>0, <2>13, <3>1, RestQuiet, OtherWord, WordSuffices
  <2>14. QED
    BY <2>1, <2>2, <2>3, <2>4, <2>5, <2>6, <2>7, <2>8, <2>9, <2>10, <2>11, <2>12, <2>13,
       <2>15
    DEF Step, SignalStep, LockedStep, WaitStep
<1>3. QED
  BY <1>1, <1>2

\* For every number of threads, table, node pool and workload without slot
\* reuse and wait-all: whatever sem_release, mutex_unlock, mutex_kill, the event
\* operations and the attempts of waits race with, a word in use stays one that
\* its type allows.
THEOREM WordsStayWellFormed ==
    ASSUME NoReuseNoAll
    PROVE  Spec => []WordsWellFormed
<1>1. Init => WordInv
  BY WordInit
<1>2. WordInv /\ [Next]_vars => WordInv'
  BY WordStep
<1>3. WordInv => WordsWellFormed
  BY DEF WordInv, WordsOK, WordsWellFormed
<1>4. QED
  BY <1>1, <1>2, <1>3, PTL DEF Spec
=============================================================================
