------------------------------ MODULE NodeList ------------------------------
(***************************************************************************)
(* The waiter nodes of src/core.rs in memory: one intrusive doubly linked  *)
(* list per object and the free list, store by store.                      *)
(*                                                                         *)
(* Only the holder of the region lock writes here.  A process may die      *)
(* between any two stores; the lock is robust, so the next one gets it and *)
(* goes on with what it finds.  `todo' are the calls that the holder still *)
(* has to make, `stores' what is left to store of the one it is in.  A     *)
(* pointer made from NIL is outside of the region: whoever uses it dies.   *)
(***************************************************************************)
EXTENDS Integers, Sequences, FiniteSets

CONSTANTS
    Procs,       \* processes, each with one thread
    Signalers,   \* the ones that signal, close, create and sweep
    NodeCount,   \* NODE_COUNT
    Slots,       \* objects
    Waits,       \* Waits[p]: the lists of objects p may wait on; the alert event is
                 \* the last of its list, and may be one of the others
    NoProc,
    Mortal       \* processes that may die

NIL   == -1
Nodes == 0 .. NodeCount - 1

ASSUME NodeListAssumption ==
    /\ NodeCount \in Nat \ {0} /\ NoProc \notin Procs /\ NIL \notin Slots
    /\ Mortal \subseteq Procs /\ Signalers \subseteq Procs
    /\ \A p \in Procs : \A w \in Waits[p] : w \in Seq(Slots) /\ w # <<>>

VARIABLES
    node,            \* WaitNode: the fields below, seq left out
    waiter_head,     \* Slot::waiter_head
    used,            \* Slot::state is SLOT_USED
    node_free_head, node_fresh,
    lock, stores, todo,
    want,            \* the objects of p's wait, <<>> if it is in none
    mine,            \* the NodeSet of p's wait
    alive,
    torn             \* history: somebody died in the middle of a critical section

memory == <<node, waiter_head, used, node_free_head, node_fresh>>
vars   == <<memory, lock, stores, todo, want, mine, alive, torn>>

NodeRecord == [registered : BOOLEAN, obj : Slots \cup {NIL}, wait_word : Nodes \cup {NIL},
               obj_prev : Nodes \cup {NIL}, obj_next : Nodes \cup {NIL},
               waiter_next : Nodes \cup {NIL}, pid : Procs \cup {NoProc}]

\* A node that was never handed out: a zero page, of which only registered
\* and seq matter.
Untouched == [registered |-> FALSE, obj |-> NIL, wait_word |-> NIL, obj_prev |-> NIL,
              obj_next |-> NIL, waiter_next |-> NIL, pid |-> NoProc]

Init ==
    /\ node = [n \in Nodes |-> Untouched]
    /\ waiter_head = [s \in Slots |-> NIL]
    /\ used = [s \in Slots |-> TRUE]
    /\ node_free_head = NIL /\ node_fresh = 0
    /\ lock = NoProc /\ stores = <<>> /\ todo = <<>>
    /\ want = [p \in Procs |-> <<>>]
    /\ mine = [p \in Procs |-> <<>>]
    /\ alive = Procs /\ torn = FALSE

-----------------------------------------------------------------------------
(***************************************************************************)
(* Stores, and calls.  What a call stores it works out when it is reached. *)
(***************************************************************************)
Set(n, field, v)  == [do |-> "set", n |-> n, field |-> field, v |-> v]
SetHead(s, v)     == [do |-> "head", n |-> s, v |-> v]
SetFree(v)        == [do |-> "free_head", v |-> v]
SetFresh(v)       == [do |-> "fresh", v |-> v]
SetUsed(s, v)     == [do |-> "used", n |-> s, v |-> v]
Call(f, n)        == [do |-> f, n |-> n]

\* The same call for each node of a sequence.
ForEach(f, ns) == [i \in 1 .. Len(ns) |-> Call(f, ns[i])]

\* Faulty: freed while it is registered, for a sweep to free again.
waiter_cleanup_free_first(p) ==
    ForEach("node_free", mine[p]) \o ForEach("node_detach", mine[p]) \o <<Call("clear", p)>>

waiter_cleanup(p) ==
    ForEach("node_detach", mine[p]) \o ForEach("node_free", mine[p]) \o <<Call("clear", p)>>

node_free(n) == <<Set(n, "waiter_next", node_free_head), SetFree(n)>>

\* Faulty: the next node keeps its link back.
node_detach_no_back(n) ==
    LET prev == node[n].obj_prev
        next == node[n].obj_next
    IN  IF ~node[n].registered THEN <<>>
        ELSE <<IF prev = NIL THEN SetHead(node[n].obj, next) ELSE Set(prev, "obj_next", next),
               Set(n, "registered", FALSE), Set(n, "obj", NIL),
               Set(n, "obj_prev", NIL), Set(n, "obj_next", NIL)>>

node_detach(n) ==
    LET prev == node[n].obj_prev
        next == node[n].obj_next
    IN  IF ~node[n].registered THEN <<>>
        ELSE <<IF prev = NIL THEN SetHead(node[n].obj, next) ELSE Set(prev, "obj_next", next)>>
               \o (IF next = NIL THEN <<>> ELSE <<Set(next, "obj_prev", prev)>>)
               \o <<Set(n, "registered", FALSE), Set(n, "obj", NIL),
                    Set(n, "obj_prev", NIL), Set(n, "obj_next", NIL)>>

\* Faulty: it is not noted whose word to bump.
node_register_no_word(n, s, wait_word) ==
    LET old == waiter_head[s]
    IN  <<Set(n, "registered", TRUE), Set(n, "obj", s),
          Set(n, "obj_prev", NIL), Set(n, "obj_next", old)>>
          \o (IF old = NIL THEN <<>> ELSE <<Set(old, "obj_prev", n)>>)
          \o <<SetHead(s, n)>>

node_register(n, s, wait_word) ==
    LET old == waiter_head[s]
    IN  <<Set(n, "registered", TRUE), Set(n, "obj", s), Set(n, "wait_word", wait_word),
          Set(n, "obj_prev", NIL), Set(n, "obj_next", old)>>
          \o (IF old = NIL THEN <<>> ELSE <<Set(old, "obj_prev", n)>>)
          \o <<SetHead(s, n)>>

\* The free list first, then a node never used before.
NextNode == IF node_free_head # NIL THEN node_free_head ELSE node_fresh

node_alloc(p) ==
    LET n   == NextNode
        pop == IF node_free_head # NIL THEN SetFree(node[n].waiter_next) ELSE SetFresh(n + 1)
    IN  <<pop, Set(n, "registered", FALSE), Set(n, "obj", NIL), Set(n, "wait_word", NIL),
          Set(n, "obj_prev", NIL), Set(n, "obj_next", NIL), Set(n, "waiter_next", NIL),
          Set(n, "pid", p)>>

\* Faulty: one node too many.
ExhaustedOffByOne == node_free_head = NIL /\ node_fresh > NodeCount

\* The pool has nothing left.
Exhausted == node_free_head = NIL /\ node_fresh >= NodeCount

\* Faulty: looks at the head of the list again instead of following the link,
\* and a node that node_detach leaves alone is still there.
wake_object_pop(n) ==
    IF n = NIL THEN <<>>
    ELSE <<Call("node_detach", n), Call("bump", node[n].wait_word),
           Call("wake_object", IF node[n].registered /\ node[n].obj_prev = NIL
                               THEN node[n].obj_next ELSE n)>>

\* One round of wake_object: the link and the word are read before the detach.
wake_object(n) ==
    IF n = NIL THEN <<>>
    ELSE <<Call("node_detach", n), Call("bump", node[n].wait_word),
           Call("wake_object", node[n].obj_next)>>

\* The nodes that are not on a list.
Unlisted(p) == {i \in 1 .. Len(mine[p]) : ~node[mine[p][i]].registered}

\* Registers the first of them.
RegisterNext(p) ==
    LET i == CHOOSE i \in Unlisted(p) : \A j \in Unlisted(p) : i <= j
    IN  node_register(mine[p][i], want[p][i], mine[p][1])

\* What a sweep takes for the node of a dead waiter.
DeadNode(n) == node[n].registered /\ node[n].pid \notin alive

reap(n) == IF DeadNode(n) THEN <<Call("node_detach", n), Call("node_free", n)>> ELSE <<>>

-----------------------------------------------------------------------------
(* Critical sections. *)

Do(first, calls) == stores' = first /\ todo' = calls

Enter(p, first, calls) == lock = NoProc /\ p \in alive /\ lock' = p /\ Do(first, calls)

\* A wait blocks: validation, node_alloc for each object, registration.  The
\* attempt that follows in the same section touches no list; if it succeeds,
\* Cleanup is next.
Block(p) ==
    /\ mine[p] = <<>> /\ want[p] = <<>>
    /\ \E w \in Waits[p] :
         /\ \A i \in 1 .. Len(w) : used[w[i]]
         /\ want' = [want EXCEPT ![p] = w]
         /\ Enter(p, <<>>, [i \in 1 .. Len(w) |-> Call("node_alloc", p)] \o <<Call("register", p)>>)
    /\ UNCHANGED <<memory, mine, alive, torn>>

\* It goes round and registers again what a walk has detached.
Again(p) ==
    /\ Unlisted(p) # {} /\ \A i \in 1 .. Len(want[p]) : used[want[p][i]]
    /\ Enter(p, <<>>, <<Call("register", p)>>)
    /\ UNCHANGED <<memory, want, mine, alive, torn>>

\* A sleep that was not ended by a signal: its nodes are still registered.
Detach(p) ==
    /\ \E i \in 1 .. Len(mine[p]) : node[mine[p][i]].registered
    /\ Enter(p, <<>>, ForEach("node_detach", mine[p]))
    /\ UNCHANGED <<memory, want, mine, alive, torn>>

\* The wait ends: an attempt succeeded, time is up, an object is gone.
Cleanup(p) ==
    /\ mine[p] # <<>>
    /\ Enter(p, <<>>, waiter_cleanup(p))
    /\ UNCHANGED <<memory, want, mine, alive, torn>>

\* wake_waiters_if_any and event_pulse.
Signal(p) ==
    /\ \E s \in Slots : waiter_head[s] # NIL /\ Enter(p, <<>>, <<Call("wake_object", waiter_head[s])>>)
    /\ UNCHANGED <<memory, want, mine, alive, torn>>

close(p) ==
    /\ \E s \in Slots : /\ used[s]
                        /\ Enter(p, <<SetUsed(s, FALSE)>>, <<Call("wake_object", waiter_head[s])>>)
    /\ UNCHANGED <<memory, want, mine, alive, torn>>

\* alloc_slot and slot_publish.
create(p) ==
    /\ \E s \in Slots : ~used[s] /\ Enter(p, <<SetHead(s, NIL), SetUsed(s, TRUE)>>, <<>>)
    /\ UNCHANGED <<memory, want, mine, alive, torn>>

\* sweep_dead_locked: every node that was ever handed out, if there is one
\* for it to reap.  (Of the objects of dead creators see Sweep; for the lists,
\* freeing one is a close.)
sweep_dead(p) ==
    /\ \E n \in 0 .. node_fresh - 1 : DeadNode(n)
    /\ Enter(p, <<>>, [i \in 1 .. node_fresh |-> Call("reap", i - 1)])
    /\ UNCHANGED <<memory, want, mine, alive, torn>>

-----------------------------------------------------------------------------
(* The holder works on. *)

Rest == Tail(todo)

\* p is gone, and the lock it may have held is free for the next.
Gone(p) ==
    /\ alive' = alive \ {p}
    /\ want' = [want EXCEPT ![p] = <<>>]
    /\ mine' = [mine EXCEPT ![p] = <<>>]
    /\ torn' = (torn \/ lock = p)
    /\ lock' = IF lock = p THEN NoProc ELSE lock
    /\ IF lock = p THEN Do(<<>>, <<>>) ELSE UNCHANGED <<stores, todo>>
    /\ UNCHANGED memory

Store(p) ==
    /\ lock = p /\ stores # <<>>
    /\ LET c == Head(stores)
       IN  \/ /\ c.do = "set"
              /\ node' = [node EXCEPT ![c.n] = [@ EXCEPT ![c.field] = c.v]]
              /\ UNCHANGED <<waiter_head, used, node_free_head, node_fresh>>
           \/ /\ c.do = "head" /\ c.n # NIL
              /\ waiter_head' = [waiter_head EXCEPT ![c.n] = c.v]
              /\ UNCHANGED <<node, used, node_free_head, node_fresh>>
           \/ /\ c.do = "used" /\ used' = [used EXCEPT ![c.n] = c.v]
              /\ UNCHANGED <<node, waiter_head, node_free_head, node_fresh>>
           \/ /\ c.do = "free_head" /\ node_free_head' = c.v
              /\ UNCHANGED <<node, waiter_head, used, node_fresh>>
           \/ /\ c.do = "fresh" /\ node_fresh' = c.v
              /\ UNCHANGED <<node, waiter_head, used, node_free_head>>
    /\ Do(Tail(stores), todo)
    /\ UNCHANGED <<lock, want, mine, alive, torn>>

\* p is about to make the call f.
At(p, f) == lock = p /\ stores = <<>> /\ todo # <<>> /\ Head(todo).do = f

\* Calls that store, or call others, and touch nothing else.
Step(p) ==
    /\ LET n == Head(todo).n
       IN  \/ At(p, "node_detach") /\ Do(node_detach(n), Rest)
           \/ At(p, "node_free") /\ Do(node_free(n), Rest)
           \/ At(p, "wake_object") /\ Do(<<>>, wake_object(n) \o Rest)
           \/ At(p, "bump") /\ n # NIL /\ Do(<<>>, Rest)
           \/ At(p, "reap") /\ Do(<<>>, reap(n) \o Rest)
           \/ At(p, "register") /\ Unlisted(p) # {} /\ Do(RegisterNext(p), todo)
           \/ At(p, "register") /\ Unlisted(p) = {} /\ Do(<<>>, Rest)
    /\ UNCHANGED <<memory, lock, want, mine, alive, torn>>

\* wait allocates one more node, or gives back what it has if there is none.
Alloc(p) ==
    /\ At(p, "node_alloc")
    /\ IF Exhausted THEN Do(<<>>, waiter_cleanup(p))
       ELSE Do(node_alloc(p), <<Call("push", NextNode)>> \o Rest)
    /\ UNCHANGED <<memory, lock, want, mine, alive, torn>>

\* The node is one of the wait's NodeSet.
Push(p) ==
    /\ At(p, "push") /\ Do(<<>>, Rest)
    /\ mine' = [mine EXCEPT ![p] = Append(@, Head(todo).n)]
    /\ UNCHANGED <<memory, lock, want, alive, torn>>

\* The wait has given back its nodes and is over.
Clear(p) ==
    /\ At(p, "clear") /\ Do(<<>>, Rest)
    /\ mine' = [mine EXCEPT ![p] = <<>>]
    /\ want' = [want EXCEPT ![p] = <<>>]
    /\ UNCHANGED <<memory, lock, alive, torn>>

Unlock(p) ==
    /\ lock = p /\ stores = <<>> /\ todo = <<>>
    /\ lock' = NoProc
    /\ UNCHANGED <<memory, stores, todo, want, mine, alive, torn>>

\* A pointer from NIL: a write to slot NIL or to the seq of node NIL.
Wild(p) ==
    \/ lock = p /\ stores # <<>> /\ Head(stores).do = "head" /\ Head(stores).n = NIL
    \/ At(p, "bump") /\ Head(todo).n = NIL

Fault(p) == Wild(p) /\ Gone(p)

Die(p) == p \in Mortal \cap alive /\ Gone(p)

Work(p) == Store(p) \/ Step(p) \/ Alloc(p) \/ Push(p) \/ Clear(p) \/ Unlock(p) \/ Fault(p)

Next ==
    \/ \E p \in Procs : Block(p) \/ Again(p) \/ Detach(p) \/ Cleanup(p)
    \/ \E p \in Signalers : Signal(p) \/ close(p) \/ create(p) \/ sweep_dead(p)
    \/ \E p \in Procs : Work(p) \/ Die(p)

Spec == Init /\ [][Next]_vars

\* Whoever has the lock works on, unless it dies.
FairSpec == Spec /\ \A p \in Procs : WF_vars(Work(p))

-----------------------------------------------------------------------------
\* Values of the variables: in particular a link never leads out of the pool,
\* and node_alloc never hands out a node past its end.
TypeOK ==
    /\ node \in [Nodes -> NodeRecord]
    /\ waiter_head \in [Slots -> Nodes \cup {NIL}]
    /\ used \in [Slots -> BOOLEAN]
    /\ node_free_head \in Nodes \cup {NIL} /\ node_fresh \in 0 .. NodeCount
    /\ lock \in Procs \cup {NoProc} /\ (lock # NoProc => lock \in alive)
    /\ \A p \in Procs : /\ want[p] \in Waits[p] \cup {<<>>}
                        /\ mine[p] \in Seq(Nodes) /\ Len(mine[p]) <= Len(want[p])
    /\ alive \subseteq Procs /\ torn \in BOOLEAN

Settled == lock = NoProc /\ ~torn

\* The nodes reached from n along a link within NodeCount steps.
Along(n, link) ==
    LET at[k \in 0 .. NodeCount] ==
          IF k = 0 THEN n ELSE IF at[k - 1] = NIL THEN NIL ELSE node[at[k - 1]][link]
    IN  at
Chain(n, link) == {Along(n, link)[k] : k \in 0 .. NodeCount} \ {NIL}
Ends(n, link)  == Along(n, link)[NodeCount] = NIL

Listed(s) == Chain(waiter_head[s], "obj_next")
FreeList  == Chain(node_free_head, "waiter_next")
Owned(p)  == {mine[p][i] : i \in 1 .. Len(mine[p])}

\* As long as nobody has died inside a critical section, and whatever dies
\* outside of one: between two of them every waiter list ends, is linked both
\* ways, and holds exactly the nodes that are registered on its object, as
\* node_register, node_detach, wake_object and the sweep leave it; and the free
\* list of node_alloc and node_free ends and holds none of them.
ListsSound ==
    Settled =>
      /\ \A s \in Slots :
           /\ Ends(waiter_head[s], "obj_next")
           /\ Listed(s) = {n \in Nodes : node[n].registered /\ node[n].obj = s}
           /\ \A n \in Listed(s) :
                /\ node[n].obj_prev = NIL <=> waiter_head[s] = n
                /\ node[n].obj_next # NIL => node[node[n].obj_next].obj_prev = n
      /\ Ends(node_free_head, "waiter_next")
      /\ \A n \in FreeList : ~node[n].registered

\* As long as nobody has died inside a critical section, node_detach never
\* computes slot_ptr(NIL) and wake_object never bumps the seq of node NIL.
NoWildPointer == ~torn => \A p \in Procs : ~Wild(p)

\* Whoever dies and wherever: node_alloc, waiter_cleanup and the sweep never
\* have a node of a waiting process on the free list, give it to another one,
\* or count it among those that were never handed out.
NoDoubleUse ==
    lock = NoProc =>
      \A p \in alive :
        /\ Owned(p) \cap FreeList = {}
        /\ \A n \in Owned(p) : n < node_fresh /\ node[n].pid = p
        /\ \A q \in alive \ {p} : Owned(p) \cap Owned(q) = {}

\* Whoever dies and wherever: who takes the lock over gives it back, or dies of
\* a wild pointer.  No walk of wake_object goes round in a list that a dead
\* process left half linked.
SectionEnds == \A p \in Procs : (lock = p) ~> (lock # p)
=============================================================================
