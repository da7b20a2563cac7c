--------------------------- MODULE WaitRefinement ---------------------------
(***************************************************************************)
(* WaitEngine implements NtSync, as long as no object is closed.  The      *)
(* state of an object is what the read functions would report at that      *)
(* moment, and a call takes effect at the CAS or the load that decides it. *)
(***************************************************************************)
EXTENDS WaitEngine, Ffi

\* read_sem, read_mutex, read_event: the state of slot s as they report it.
Read(type, w) ==
    CASE type = TYPE_SEM   -> [type |-> type, count |-> w.lo, max |-> w.hi]
      [] type = TYPE_MUTEX -> [type |-> type, owner |-> w.lo, count |-> w.hi, abandoned |-> w.top]
      [] type = TYPE_EVENT -> [type |-> type, signaled |-> w.lo # 0, manual |-> w.hi # 0]

LiveHandles == {[idx |-> s, gen |-> slot[s].gen] : s \in {s \in Slots \ {0} : slot[s].used}}

\* The call is still to have its effect.
Undecided(t) == pc[t] \notin {"idle", "head", "walk", "cleanup", "panic"}

WaitUndecided(t) == Undecided(t) /\ req[t].op = "wait"

\* Handles of a pass that gave nothing; an event whose counter is still to be
\* looked at was not signaled.
MissedBy(t) ==
    CASE pc[t] = "try" /\ ~req[t].all -> 1 .. cur[t] - 1
      [] pc[t] = "trypulse" /\ ~req[t].all -> 1 .. cur[t]
      [] pc[t] \in {"fastmiss", "deadline"} /\ ~req[t].all -> 1 .. N(t)
      [] OTHER -> {}

\* A pulse has reached t if the counter is not the one that t sampled.
ReachedBy(t) ==
    {i \in 1 .. N(t) : /\ AllValid(t) /\ slot[hs(t)[i].idx].type = TYPE_EVENT
                       /\ pc[t] = "validate" => i < cur[t]
                       /\ d[hs(t)[i].idx] # eseq[t][i]}

ReplyOf(r) ==
    CASE r.kind = "none" -> NoReply
      [] r.kind \in {"ok", "Perm", "Overflow"} -> OpReply(r)
      [] OTHER -> WaitReply(r)

InitialObjects ==
    [h \in {[idx |-> s, gen |-> 0] : s \in DOMAIN InitObjects} |->
       Read(InitObjects[h.idx].type, InitObjects[h.idx].w)]

Promise ==
    INSTANCE NtSync WITH
      Objects    <- InitialObjects,
      Calls      <- Menu,
      NoCall     <- NoReq,
      NoAlert    <- NoHandle,
      RoomForAll <- NodeCount >= Cardinality(Threads) * (MaxWaitCount + 1),
      obj        <- [h \in LiveHandles |-> Read(slot[h.idx].type, w0[h.idx])],
      call       <- [t \in Threads |-> IF Undecided(t) THEN req[t] ELSE NoReq],
      blocked    <- [t \in Threads |-> WaitUndecided(t) /\
                       (nodes[t] > 0 \/ pc[t] \in {"alertchk", "register"})],
      missed     <- [t \in Threads |-> IF WaitUndecided(t) THEN MissedBy(t) ELSE {}],
      reached    <- [t \in Threads |-> IF WaitUndecided(t) THEN ReachedBy(t) ELSE {}],
      released   <- [t \in Threads |-> pc[t] \in {"clear", "store"}],
      out        <- [t \in Threads |-> ReplyOf(res[t])]

\* Every call takes effect at one instant, and a pulse at three, on objects as
\* the ntsync driver defines them, with the errno it reports: whatever loads,
\* stores, CASes, sleeps, wakes and retries it goes through, the caller of a
\* signal operation, a pulse or a wait-any cannot tell the library from NtSync.
Linearizable == Promise!Spec
=============================================================================
