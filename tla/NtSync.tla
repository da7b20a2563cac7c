------------------------------- MODULE NtSync -------------------------------
(***************************************************************************)
(* What the library promises its callers: the objects of the ntsync driver *)
(* (see the head of src/ffi.rs and src/include/ntsync_user.h), on which    *)
(* every call but a pulse takes effect at one instant between its start    *)
(* and its return.                                                         *)
(*                                                                         *)
(* A wait-any looks at its objects in the order in which they were given   *)
(* and takes the first that it can have.  It gives up only after a pass in *)
(* which it found none, each at its own instant.  A wait that has blocked  *)
(* is reached by every pulse of its events until it ends, and does not     *)
(* time out then; one that has not may miss a pulse.                       *)
(*                                                                         *)
(* A pulse takes effect at three instants: it reads the state that it will *)
(* report, it lets go those who wait, and it clears the event.  Others may *)
(* act in between.  A set that comes before the last of the three is taken *)
(* away by it, even if its caller knows that the pulse is past the second. *)
(*                                                                         *)
(* Of a wait-all, of which the head of src/core.rs says that it is not     *)
(* atomic, nothing is promised but which objects it may touch and what it  *)
(* may reply.  Objects stay: close is not part of this specification.      *)
(***************************************************************************)
EXTENDS Ffi, Sequences

CONSTANTS
    Threads,
    Objects,       \* the objects at the beginning: handle |-> object
    Calls,         \* Calls[t]: the calls thread t may make
    NoCall, NoAlert,
    MaxRec, MaxWaitCount,
    RoomForAll     \* the pool of waiter nodes cannot run out

VARIABLES
    obj,      \* handle |-> object
    call,     \* the call whose effect is still to come
    blocked,  \* the call is a wait that has blocked
    missed,   \* objects that it found not to be had in the pass it is in
    reached,  \* objects whose pulse has reached it
    released, \* the call is a pulse that has let go those who wait
    out       \* the reply of the thread's last call, or what its pulse has read

vars == <<obj, call, blocked, missed, reached, released, out>>

Sem(count, max)                == [type |-> "sem", count |-> count, max |-> max]
Mutex(owner, count, abandoned) ==
    [type |-> "mutex", owner |-> owner, count |-> count, abandoned |-> abandoned]
Event(signaled, manual)        ==
    [type |-> "event", signaled |-> signaled, manual |-> manual]

Init ==
    /\ obj = Objects
    /\ call = [t \in Threads |-> NoCall]
    /\ blocked = [t \in Threads |-> FALSE]
    /\ missed = [t \in Threads |-> {}]
    /\ reached = [t \in Threads |-> {}]
    /\ released = [t \in Threads |-> FALSE]
    /\ out = [t \in Threads |-> NoReply]

IsA(h, type) == h \in DOMAIN obj /\ obj[h].type = type
Flag(b)      == IF b THEN 1 ELSE 0

-----------------------------------------------------------------------------
\* The call has had its effect and its reply.
End(t, reply) ==
    /\ call' = [call EXCEPT ![t] = NoCall]
    /\ blocked' = [blocked EXCEPT ![t] = FALSE]
    /\ missed' = [missed EXCEPT ![t] = {}]
    /\ released' = [released EXCEPT ![t] = FALSE]
    /\ out' = [out EXCEPT ![t] = reply]

\* The effect is that object h becomes o, or nothing.
Change(t, h, o, reply) ==
    /\ End(t, reply)
    /\ obj' = [obj EXCEPT ![h] = o]
    /\ reached' = [reached EXCEPT ![t] = {}]

Done(t, reply) ==
    /\ End(t, reply)
    /\ reached' = [reached EXCEPT ![t] = {}]
    /\ UNCHANGED obj

Malformed(r) ==
    r.op = "wait" /\ \/ Len(r.hs) \notin 1 .. MaxWaitCount
                     \/ \E i, j \in 1 .. Len(r.hs) : i # j /\ r.hs[i] = r.hs[j]

Refuse(t) ==
    /\ call[t] = NoCall
    /\ \E r \in Calls[t] : Malformed(r)
    /\ Done(t, Error(-EINVAL))

Call(t) ==
    /\ call[t] = NoCall
    /\ \E r \in Calls[t] : ~Malformed(r) /\ call' = [call EXCEPT ![t] = r]
    /\ out' = [out EXCEPT ![t] = NoReply]
    /\ UNCHANGED <<obj, blocked, missed, reached, released>>

-----------------------------------------------------------------------------
(* Operations on one object. *)

sem_release(t) ==
    LET r == call[t]
        o == obj[r.h]
    IN  /\ r.op = "sem_release" /\ IsA(r.h, "sem")
        /\ IF o.count + r.n > o.max
           THEN Done(t, Error(-EOVERFLOW))
           ELSE Change(t, r.h, Sem(o.count + r.n, o.max), Reply(0, o.count))

mutex_unlock(t) ==
    LET r == call[t]
        o == obj[r.h]
    IN  /\ r.op = "mutex_unlock" /\ IsA(r.h, "mutex") /\ r.n # 0
        /\ IF o.owner # r.n
           THEN Done(t, Error(-EPERM))
           ELSE Change(t, r.h,
                       Mutex(IF o.count = 1 THEN 0 ELSE o.owner, o.count - 1, FALSE),
                       Reply(0, o.count))

mutex_kill(t) ==
    LET r == call[t]
    IN  /\ r.op = "mutex_kill" /\ IsA(r.h, "mutex") /\ r.n # 0
        /\ IF obj[r.h].owner # r.n
           THEN Done(t, Error(-EPERM))
           ELSE Change(t, r.h, Mutex(0, 0, TRUE), Reply(0, 0))

event_set(t) ==
    LET r == call[t]
        o == obj[r.h]
    IN  /\ r.op = "event_set" /\ IsA(r.h, "event")
        /\ Change(t, r.h, Event(TRUE, o.manual), Reply(0, Flag(o.signaled)))

event_reset(t) ==
    LET r == call[t]
        o == obj[r.h]
    IN  /\ r.op = "event_reset" /\ IsA(r.h, "event")
        /\ Change(t, r.h, Event(FALSE, o.manual), Reply(0, Flag(o.signaled)))

\* The handles of u's wait that name h.
At(u, h) == {i \in 1 .. Len(call[u].hs) : call[u].hs[i] = h}

Pulsing(t) == call[t].op = "event_pulse" /\ IsA(call[t].h, "event")

PulseReads(t) ==
    /\ Pulsing(t) /\ out[t] = NoReply
    /\ out' = [out EXCEPT ![t] = Reply(0, Flag(obj[call[t].h].signaled))]
    /\ UNCHANGED <<obj, call, blocked, missed, reached, released>>

PulseReleases(t) ==
    /\ Pulsing(t) /\ out[t] # NoReply /\ ~released[t]
    /\ \E who \in [Threads -> BOOLEAN] :
         /\ \A u \in Threads : blocked[u] => who[u]
         /\ reached' = [u \in Threads |->
                          reached[u] \cup (IF who[u] THEN At(u, call[t].h) ELSE {})]
    /\ released' = [released EXCEPT ![t] = TRUE]
    /\ UNCHANGED <<obj, call, blocked, missed, out>>

PulseClears(t) ==
    /\ Pulsing(t) /\ released[t]
    /\ Change(t, call[t].h, Event(FALSE, obj[call[t].h].manual), out[t])

\* The wrong kind of object, none at all, or an owner that cannot be.
Invalid(t) ==
    LET r == call[t]
    IN  /\ \/ r.op = "sem_release" /\ ~IsA(r.h, "sem")
           \/ r.op \in {"mutex_unlock", "mutex_kill"} /\ (r.n = 0 \/ ~IsA(r.h, "mutex"))
           \/ r.op \in {"event_set", "event_reset", "event_pulse"} /\ ~IsA(r.h, "event")
           \/ /\ r.op = "wait"
              /\ \/ \E i \in 1 .. Len(r.hs) : r.hs[i] \notin DOMAIN obj
                 \/ r.alert # NoAlert /\ ~IsA(r.alert, "event")
        /\ Done(t, Error(-EINVAL))

-----------------------------------------------------------------------------
(* Waits. *)

Waiting(t) == call[t].op = "wait" /\ ~call[t].all
WaitingForAll(t) == call[t].op = "wait" /\ call[t].all

\* What t gets if it takes o, pulses aside.
CanTake(t, o) ==
    CASE o.type = "sem"   -> o.count > 0
      [] o.type = "mutex" -> o.owner \in {0, t} /\ o.count < MaxRec
      [] o.type = "event" -> o.signaled

Taken(t, o) ==
    CASE o.type = "sem"   -> Sem(o.count - 1, o.max)
      [] o.type = "mutex" -> Mutex(t, o.count + 1, FALSE)
      [] o.type = "event" -> Event(o.manual, o.manual)

Abandoned(o) == o.type = "mutex" /\ o.abandoned

Take(t) ==
    /\ Waiting(t)
    /\ \E i \in 1 .. Len(call[t].hs) :
         LET h == call[t].hs[i]
             o == obj[h]
         IN  /\ h \in DOMAIN obj
             /\ 1 .. i - 1 \subseteq missed[t]
             /\ \/ /\ CanTake(t, o)
                   /\ Change(t, h, Taken(t, o),
                             Reply(IF Abandoned(o) THEN -EOWNERDEAD ELSE 0, i - 1))
                \/ i \in reached[t] /\ Done(t, Reply(0, i - 1))

Miss(t) ==
    /\ Waiting(t)
    /\ \E i \in 1 .. Len(call[t].hs) :
         /\ call[t].hs[i] \in DOMAIN obj /\ ~CanTake(t, obj[call[t].hs[i]])
         /\ missed' = [missed EXCEPT ![t] = @ \cup {i}]
    /\ UNCHANGED <<obj, call, blocked, reached, released, out>>

\* Another pass.
Again(t) ==
    /\ Waiting(t)
    /\ missed' = [missed EXCEPT ![t] = {}]
    /\ UNCHANGED <<obj, call, blocked, reached, released, out>>

\* The wait blocks, and forgets the pulses it has seen so far.
Block(t) ==
    /\ call[t].op = "wait" /\ ~blocked[t] /\ call[t].timeout # "zero"
    /\ blocked' = [blocked EXCEPT ![t] = TRUE]
    /\ missed' = [missed EXCEPT ![t] = {}]
    /\ reached' = [reached EXCEPT ![t] = {}]
    /\ UNCHANGED <<obj, call, released, out>>

TimeOut(t) ==
    /\ Waiting(t) /\ call[t].timeout # "inf"
    /\ missed[t] = 1 .. Len(call[t].hs)
    /\ blocked[t] => reached[t] = {}
    /\ Done(t, Error(-ETIMEDOUT))

\* The alert event is tested, not taken; the index is one past the objects.
Alert(t) ==
    /\ Waiting(t) /\ call[t].alert # NoAlert
    /\ IsA(call[t].alert, "event") /\ obj[call[t].alert].signaled
    /\ Done(t, Reply(0, Len(call[t].hs)))

\* Only a wait that blocks needs nodes.
Exhausted(t) ==
    /\ Waiting(t) /\ blocked[t] /\ ~RoomForAll
    /\ Done(t, Error(-EINVAL))

\* Objects that t does not name stay as they are.
TouchesItsOwn(t) ==
    /\ DOMAIN obj' = DOMAIN obj
    /\ \A h \in DOMAIN obj : At(t, h) = {} => obj'[h] = obj[h]

\* A wait-all takes some, or puts them back ...
Juggle(t) ==
    /\ WaitingForAll(t) /\ TouchesItsOwn(t)
    /\ UNCHANGED <<call, blocked, missed, reached, released, out>>

\* ... and ends.
EndAll(t) ==
    /\ WaitingForAll(t) /\ TouchesItsOwn(t)
    /\ \/ \E code \in {0, -EOWNERDEAD} : End(t, Reply(code, 0))
       \/ call[t].alert # NoAlert /\ End(t, Reply(0, Len(call[t].hs)))
       \/ call[t].timeout # "inf" /\ End(t, Error(-ETIMEDOUT))
       \/ blocked[t] /\ ~RoomForAll /\ End(t, Error(-EINVAL))
    /\ reached' = [reached EXCEPT ![t] = {}]

Operation(t) ==
    \/ sem_release(t) \/ mutex_unlock(t) \/ mutex_kill(t)
    \/ event_set(t) \/ event_reset(t) \/ Invalid(t)
    \/ PulseReads(t) \/ PulseReleases(t) \/ PulseClears(t)

Wait(t) ==
    \/ Take(t) \/ Miss(t) \/ Again(t) \/ Block(t) \/ TimeOut(t) \/ Alert(t) \/ Exhausted(t)
    \/ Juggle(t) \/ EndAll(t)

Next == \E t \in Threads : Refuse(t) \/ Call(t) \/ Operation(t) \/ Wait(t)

Spec == Init /\ [][Next]_vars
=============================================================================
