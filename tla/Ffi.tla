-------------------------------- MODULE Ffi ---------------------------------
(***************************************************************************)
(* The C ABI of src/ffi.rs: what a caller of the ntsync_* functions is     *)
(* told.  (For what becomes of the timeout of a wait see SpinBudget.)      *)
(***************************************************************************)
EXTENDS Integers

EPERM      == 1
EINVAL     == 22
EOVERFLOW  == 75
ETIMEDOUT  == 110
EOWNERDEAD == 130

\* fn errno, for the errors an operation on an object can meet.
errno(e) == CASE e = "Invalid"  -> -EINVAL
              [] e = "Perm"     -> -EPERM
              [] e = "Overflow" -> -EOVERFLOW

\* Faulty: an abandoned mutex looks like any other.
WaitCodeNoOwnerDead(kind, owner_dead) ==
    CASE kind = "Signaled" -> 0
      [] kind = "Timeout"  -> -ETIMEDOUT
      [] kind = "Invalid"  -> -EINVAL

\* The end of do_wait: a wait that got an abandoned mutex did get it.
WaitCode(kind, owner_dead) ==
    CASE kind = "Signaled" -> IF owner_dead THEN -EOWNERDEAD ELSE 0
      [] kind = "Timeout"  -> -ETIMEDOUT
      [] kind = "Invalid"  -> -EINVAL

-----------------------------------------------------------------------------
(***************************************************************************)
(* A reply: the return value and what is stored for the caller (the        *)
(* previous count, recursion count or state; the index of a wait).  A call *)
(* that fails stores nothing.                                              *)
(***************************************************************************)
Reply(code, val) == [code |-> code, val |-> val]
NoReply          == Reply(0, -1)
Error(code)      == Reply(code, -1)

\* ntsync_sem_release, _mutex_unlock, _event_set, _event_reset, _event_pulse;
\* ntsync_mutex_kill and ntsync_close have nothing to store.
OpReply(res) == IF res.kind = "ok" THEN Reply(0, res.val) ELSE Error(errno(res.kind))

WaitReply(res) ==
    IF res.kind = "Signaled"
    THEN Reply(WaitCode(res.kind, res.od), res.val)
    ELSE Error(WaitCode(res.kind, res.od))
=============================================================================
