------------------------------ MODULE NtObject ------------------------------
(***************************************************************************)
(* The NT synchronization objects of src/core.rs: the packed state word    *)
(* w0 of a slot and the pure part of every operation that changes it.      *)
(*                                                                         *)
(* The code keeps an object's state in one u64 that it changes only by     *)
(* compare-and-swap.  An operator below is the function from the loaded    *)
(* word to the outcome of one pass of such a CAS loop: the word to store   *)
(* and what the caller is told.  A failed CAS only retries with a newer    *)
(* word, so a pass takes effect at the instant of the load that the CAS    *)
(* confirmed.                                                              *)
(***************************************************************************)
EXTENDS Integers

CONSTANT MaxRec      \* largest recursion count a mutex word holds: 0x7fff_ffff

ASSUME MaxRecAssumption == MaxRec \in Nat \ {0}

\* obj_type of a slot.  Nothing is ever acquirable on a reserved slot.
TYPE_SEM      == "sem"
TYPE_MUTEX    == "mutex"
TYPE_EVENT    == "event"
TYPE_RESERVED == "reserved"
Types         == {TYPE_SEM, TYPE_MUTEX, TYPE_EVENT, TYPE_RESERVED}

(***************************************************************************)
(* A word: the low 32 bits, the low 31 of the high 32 bits, and the top    *)
(* bit.  What the parts mean depends on the type of the slot:              *)
(*   sem     lo = count      hi = max                                      *)
(*   mutex   lo = owner tid  hi = recursion count  top = abandoned         *)
(*   event   lo = signaled   hi = manual-reset                             *)
(***************************************************************************)
Word == [lo : Nat, hi : Nat, top : BOOLEAN]

pack_sem(count, max) == [lo |-> count, hi |-> max, top |-> FALSE]

\* The count is masked to 31 bits, so a decrement of 0 wraps to MaxRec.
pack_mutex(owner, count, ownerdead) ==
    [lo |-> owner, hi |-> count % (MaxRec + 1), top |-> ownerdead]

pack_event(signaled, manual) ==
    [lo  |-> IF signaled THEN 1 ELSE 0,
     hi  |-> IF manual THEN 1 ELSE 0,
     top |-> FALSE]

\* w | 1 and w & !1, whatever kind of word w is.
SetBit(w)   == [w EXCEPT !.lo = @ + 1 - (@ % 2)]
ClearBit(w) == [w EXCEPT !.lo = @ - (@ % 2)]

-----------------------------------------------------------------------------
(***************************************************************************)
(* Signal operations.  `val' is what the caller is told (the previous      *)
(* state) and `wake' whether the operation goes on to wake the waiters on  *)
(* the object's list.                                                      *)
(***************************************************************************)
Outcome(err, w, val, wake) ==
    [err |-> err, w |-> w, val |-> val, wake |-> wake]

sem_release(w, count) ==
    IF w.lo + count > w.hi
    THEN Outcome("Overflow", w, 0, FALSE)
    ELSE Outcome("ok", pack_sem(w.lo + count, w.hi), w.lo, TRUE)

event_set(w) ==
    IF w.lo # 0 THEN Outcome("ok", w, w.lo, FALSE)
                ELSE Outcome("ok", SetBit(w), 0, TRUE)

event_reset(w) ==
    IF w.lo = 0 THEN Outcome("ok", w, 0, FALSE)
                ELSE Outcome("ok", ClearBit(w), w.lo, FALSE)

\* Faulty: the owner stays in the word when the last level is released.
mutex_unlock_keep_owner(w, owner) ==
    IF w.lo # owner
    THEN Outcome("Perm", w, 0, FALSE)
    ELSE Outcome("ok", pack_mutex(owner, w.hi - 1, w.top), w.hi, w.hi = 1)

mutex_unlock(w, owner) ==
    IF w.lo # owner
    THEN Outcome("Perm", w, 0, FALSE)
    ELSE LET freed == w.hi = 1
         IN  Outcome("ok",
                     pack_mutex(IF freed THEN 0 ELSE owner, w.hi - 1, w.top),
                     w.hi,
                     freed)

mutex_kill(w, owner) ==
    IF w.lo # owner
    THEN Outcome("Perm", w, 0, FALSE)
    ELSE Outcome("ok", pack_mutex(0, 0, TRUE), 0, TRUE)

-----------------------------------------------------------------------------
\* (w >> 32) == 0: an auto-reset event, if w is an event's word.
HighZero(w) == w.hi = 0 /\ ~w.top

(***************************************************************************)
(* Waits.  `d' is the slot's pulse counter and `seq' the waiter's snapshot *)
(* of it (entry_seqs): a changed counter means the event was pulsed while  *)
(* the caller waited.                                                      *)
(***************************************************************************)
is_locked(type, w, d, owner, seq) ==
    CASE type = TYPE_SEM   -> w.lo > 0
      [] type = TYPE_MUTEX -> w.lo \in {0, owner} /\ w.hi < MaxRec
      [] type = TYPE_EVENT -> w.lo # 0 \/ d # seq
      [] OTHER             -> FALSE

Acquired(w, od) == [ok |-> TRUE, w |-> w, od |-> od]
Busy(w)         == [ok |-> FALSE, w |-> w, od |-> FALSE]

\* What try_acquire does with the word.  For an event that is not signaled it
\* goes on to look whether `d' still is `seq'.
try_acquire(type, w, owner) ==
    CASE type = TYPE_SEM /\ w.lo > 0 ->
           Acquired(pack_sem(w.lo - 1, w.hi), FALSE)
      [] type = TYPE_MUTEX /\ w.hi < MaxRec /\ w.lo = 0 ->
           Acquired(pack_mutex(owner, w.hi + 1, FALSE), w.top)
      [] type = TYPE_MUTEX /\ w.hi < MaxRec /\ w.lo # 0 /\ w.lo = owner ->
           Acquired(pack_mutex(owner, w.hi + 1, w.top), FALSE)
      [] type = TYPE_EVENT /\ w.lo # 0 ->
           Acquired(IF HighZero(w) THEN ClearBit(w) ELSE w, FALSE)
      [] OTHER -> Busy(w)

\* Undo of one try_acquire when a wait-all finds a later object busy.
rollback_acquire(type, w, owner, od) ==
    CASE type = TYPE_SEM -> pack_sem(w.lo + 1, w.hi)
      [] type = TYPE_MUTEX /\ w.hi = 1 -> pack_mutex(0, 0, od)
      [] type = TYPE_MUTEX /\ w.hi # 1 -> pack_mutex(owner, w.hi - 1, w.top)
      [] type = TYPE_EVENT /\ HighZero(w) /\ w.lo = 0 -> SetBit(w)
      [] OTHER -> w

(***************************************************************************)
(* A word is well formed for its type: a semaphore's count is within its   *)
(* maximum; a mutex has an owner exactly when it has a recursion count,    *)
(* and is abandoned only while unowned; an event is signaled or not.       *)
(***************************************************************************)
WellFormed(type, w) ==
    CASE type = TYPE_SEM   -> w.lo <= w.hi /\ ~w.top
      [] type = TYPE_MUTEX -> (w.lo = 0 <=> w.hi = 0) /\ (w.top => w.lo = 0)
                              /\ w.hi <= MaxRec
      [] type = TYPE_EVENT -> w.lo \in {0, 1} /\ w.hi \in {0, 1} /\ ~w.top
      [] OTHER             -> TRUE
=============================================================================
