--------------------------- MODULE NodeLinkProofs ---------------------------
(***************************************************************************)
(* NodeList for every number of processes, nodes and objects: the lists,   *)
(* as long as nobody dies inside a critical section.                       *)
(*                                                                         *)
(* ListInv, on top of the UseInv of NodeListProofs, says that the lists    *)
(* are sound in the memory as it will be once the pending stores are done. *)
(* A store does not disturb it, and a call can be taken as one step.       *)
(***************************************************************************)
EXTENDS NodeListProofs

Pending == {stores[i] : i \in 1 .. Len(stores)}

ListFields == {"registered", "obj", "wait_word", "obj_prev", "obj_next"}

\* V, hd and us are the nodes, the heads and the states of the slots once the
\* pending stores are done; nothing is stored twice.
Done(V, hd, us) ==
    /\ \A n \in Nodes : \A f \in ListFields : V[n][f] = node[n][f] \/ Set(n, f, V[n][f]) \in Pending
    /\ \A s \in Slots : hd[s] = waiter_head[s] \/ SetHead(s, hd[s]) \in Pending
    /\ \A s \in Slots : us[s] = used[s] \/ SetUsed(s, us[s]) \in Pending
    /\ \A c \in Pending :
         /\ c.do = "set" /\ c.field \in ListFields => V[c.n][c.field] = c.v
         /\ c.do = "head" => c.n # NIL /\ hd[c.n] = c.v
         /\ c.do = "used" => us[c.n] = c.v

\* The lists are linked both ways and hold what is registered.
Linked(V, hd) ==
    /\ \A s \in Slots : hd[s] # NIL =>
         V[hd[s]].registered /\ V[hd[s]].obj = s /\ V[hd[s]].obj_prev = NIL
    /\ \A n \in Nodes : V[n].registered =>
         /\ V[n].obj \in Slots /\ V[n].wait_word # NIL
         /\ V[n].obj_prev = NIL => hd[V[n].obj] = n
         /\ V[n].obj_prev # NIL => LET m == V[n].obj_prev
                                   IN  V[m].registered /\ V[m].obj = V[n].obj /\ V[m].obj_next = n
         /\ V[n].obj_next # NIL => LET m == V[n].obj_next
                                   IN  V[m].registered /\ V[m].obj = V[n].obj /\ V[m].obj_prev = n

\* No list goes round: r rises along it.
Rises(V, r) ==
    \A n \in Nodes : V[n].registered /\ V[n].obj_next # NIL => r[n] < r[V[n].obj_next]

\* wake_object, and the node and the word it has read ahead.
Walk(V, t) == Wakes(t) =>
    /\ Len(t) >= 2 => t[Len(t) - 1].n # NIL
    /\ LET m == t[Len(t)].n
       IN  m # NIL => V[m].registered /\ (Len(t) = 3 => t[1].n # m)

\* A slot that is free, or about to be, has no waiters, or those that the walk
\* of its close is still to meet.
Drains(V, hd, us, t) == \A s \in Slots :
    \/ us[s] \/ hd[s] = NIL
    \/ /\ Wakes(t)
       /\ IF Len(t) = 3 THEN hd[s] = t[1].n /\ V[t[1].n].obj_next = t[Len(t)].n
          ELSE hd[s] = t[Len(t)].n

\* A wait registers on objects that are there.
Targets(us, t, w) == t # <<>> /\ t[Len(t)].do = "register" => \A i \in 1 .. Len(w) : us[w[i]]

Lists(V, hd, us, r) ==
    Linked(V, hd) /\ Rises(V, r) /\ Walk(V, todo) /\ Drains(V, hd, us, todo) /\ Targets(us, todo, want[lock])

ListInv ==
    /\ UseInv
    /\ ~torn =>
         \E V \in [Nodes -> NodeRecord] : \E hd \in [Slots -> Opt] : \E us \in [Slots -> BOOLEAN] :
           Done(V, hd, us) /\ \E r \in [Nodes -> Nat] : Lists(V, hd, us, r)

-----------------------------------------------------------------------------
(* What the calls make of sound lists. *)

LEMMA RecordFields ==
    ASSUME NEW V \in [Nodes -> NodeRecord], NEW n \in Nodes
    PROVE  /\ V[n].registered \in BOOLEAN /\ V[n].obj \in Slots \cup {NIL} /\ V[n].wait_word \in Opt
           /\ V[n].obj_prev \in Opt /\ V[n].obj_next \in Opt
  BY DEF NodeRecord, Opt

\* node_detach: W and gd are V and hd without n.
Unlinked(V, hd, n, W, gd) ==
    LET prev == V[n].obj_prev
        next == V[n].obj_next
    IN  /\ W[n].registered = FALSE
        /\ \A m \in Nodes \ {n} :
             /\ W[m].registered = V[m].registered /\ W[m].obj = V[m].obj /\ W[m].wait_word = V[m].wait_word
             /\ m = prev => W[m].obj_next = next
             /\ m # prev => W[m].obj_next = V[m].obj_next
             /\ m = next => W[m].obj_prev = prev
             /\ m # next => W[m].obj_prev = V[m].obj_prev
        /\ prev = NIL => gd[V[n].obj] = next
        /\ \A s \in Slots : prev # NIL \/ s # V[n].obj => gd[s] = hd[s]

LEMMA UnlinkedSound ==
    ASSUME NEW V \in [Nodes -> NodeRecord], NEW hd \in [Slots -> Opt], NEW r \in [Nodes -> Nat],
           NEW W \in [Nodes -> NodeRecord], NEW gd \in [Slots -> Opt], NEW n \in Nodes,
           V[n].registered, Linked(V, hd), Rises(V, r), Unlinked(V, hd, n, W, gd)
    PROVE  Linked(W, gd) /\ Rises(W, r)
<1>0. PICK prev \in Opt, next \in Opt, t \in Slots : prev = V[n].obj_prev /\ next = V[n].obj_next /\ t = V[n].obj
  BY RecordFields DEF Linked
<1>1. /\ W[n].registered = FALSE
      /\ \A m \in Nodes \ {n} :
           /\ W[m].registered = V[m].registered /\ W[m].obj = V[m].obj /\ W[m].wait_word = V[m].wait_word
           /\ m = prev => W[m].obj_next = next
           /\ m # prev => W[m].obj_next = V[m].obj_next
           /\ m = next => W[m].obj_prev = prev
           /\ m # next => W[m].obj_prev = V[m].obj_prev
      /\ prev = NIL => gd[t] = next
      /\ \A s \in Slots : prev # NIL \/ s # t => gd[s] = hd[s]
  BY <1>0 DEF Unlinked
<1>2. NIL \notin Nodes /\ \A m \in Opt : m # NIL => m \in Nodes
  BY NodeSet DEF Opt
<1>3. /\ prev = NIL => hd[t] = n
      /\ prev # NIL => prev \in Nodes /\ V[prev].registered /\ V[prev].obj = t /\ V[prev].obj_next = n
      /\ next # NIL => next \in Nodes /\ V[next].registered /\ V[next].obj = t /\ V[next].obj_prev = n
  BY <1>0, <1>2 DEF Linked
<1>4. /\ next # NIL => r[n] < r[next]
      /\ prev # NIL => r[prev] < r[n]
  BY <1>0, <1>2, <1>3 DEF Rises
<1>5. prev # n /\ next # n
  <2>1. r[n] \in Nat /\ ~(r[n] < r[n])
    OBVIOUS
  <2> QED
    BY <1>2, <1>4, <2>1
<1>6. ASSUME NEW s \in Slots, gd[s] # NIL
      PROVE  W[gd[s]].registered /\ W[gd[s]].obj = s /\ W[gd[s]].obj_prev = NIL
  <2>1. CASE prev = NIL /\ s = t
    BY <1>1, <1>3, <1>5, <1>6, <2>1
  <2>2. CASE prev # NIL \/ s # t
    <3>1. PICK m \in Nodes : m = hd[s] /\ m = gd[s]
      BY <1>1, <1>2, <1>6, <2>2
    <3>2. V[m].registered /\ V[m].obj = s /\ V[m].obj_prev = NIL
      <4>1. hd[s] # NIL
        BY <1>2, <3>1
      <4>2. V[hd[s]].registered /\ V[hd[s]].obj = s /\ V[hd[s]].obj_prev = NIL
        BY <4>1 DEF Linked
      <4> QED
        BY <3>1, <4>2
    <3>3. m # n /\ m # next
      BY <1>0, <1>2, <1>3, <2>2, <3>2
    <3> QED
      BY <1>1, <3>1, <3>2, <3>3
  <2> QED
    BY <2>1, <2>2
<1>7. ASSUME NEW m \in Nodes, W[m].registered
      PROVE  /\ m # n /\ V[m].registered /\ W[m].obj \in Slots /\ W[m].wait_word # NIL
             /\ W[m].obj_prev = NIL => gd[W[m].obj] = m
             /\ W[m].obj_prev # NIL =>
                  W[W[m].obj_prev].registered /\ W[W[m].obj_prev].obj = W[m].obj /\ W[W[m].obj_prev].obj_next = m
             /\ W[m].obj_next # NIL =>
                  /\ W[W[m].obj_next].registered /\ W[W[m].obj_next].obj = W[m].obj /\ W[W[m].obj_next].obj_prev = m
                  /\ r[m] < r[W[m].obj_next]
  <2>1. /\ m # n /\ V[m].registered /\ W[m].obj = V[m].obj /\ V[m].obj \in Slots
        /\ W[m].wait_word = V[m].wait_word /\ V[m].wait_word # NIL
        /\ V[m].obj_prev = NIL => hd[V[m].obj] = m
        /\ V[m].obj_prev # NIL =>
             V[V[m].obj_prev].registered /\ V[V[m].obj_prev].obj = V[m].obj /\ V[V[m].obj_prev].obj_next = m
        /\ V[m].obj_next # NIL =>
             V[V[m].obj_next].registered /\ V[V[m].obj_next].obj = V[m].obj /\ V[V[m].obj_next].obj_prev = m
    BY <1>1, <1>7 DEF Linked
  <2>2. V[m].obj_prev \in Opt /\ V[m].obj_next \in Opt
    BY RecordFields
  <2>3. W[m].obj_prev = NIL => gd[W[m].obj] = m
    <3>1. CASE m = next
      BY <1>1, <1>2, <1>3, <2>1, <3>1
    <3>2. CASE m # next
      BY <1>1, <1>3, <2>1, <3>2
    <3> QED
      BY <3>1, <3>2
  <2>4. ASSUME W[m].obj_prev # NIL
        PROVE  W[W[m].obj_prev].registered /\ W[W[m].obj_prev].obj = W[m].obj /\ W[W[m].obj_prev].obj_next = m
    <3>1. CASE m = next
      BY <1>1, <1>2, <1>3, <1>5, <2>1, <2>4, <3>1
    <3>2. CASE m # next
      <4>1. PICK k \in Nodes : k = V[m].obj_prev /\ k = W[m].obj_prev
        BY <1>1, <1>2, <2>1, <2>2, <2>4, <3>2
      <4>2. V[k].registered /\ V[k].obj = V[m].obj /\ V[k].obj_next = m
        BY <1>2, <2>1, <4>1
      <4>3. k # n /\ k # prev
        BY <1>0, <1>2, <1>3, <2>1, <3>2, <4>2
      <4> QED
        BY <1>1, <2>1, <4>1, <4>2, <4>3
    <3> QED
      BY <3>1, <3>2
  <2>5. ASSUME W[m].obj_next # NIL
        PROVE  /\ W[W[m].obj_next].registered /\ W[W[m].obj_next].obj = W[m].obj /\ W[W[m].obj_next].obj_prev = m
               /\ r[m] < r[W[m].obj_next]
    <3>1. CASE m = prev
      <4>1. W[m].obj_next = next /\ next # NIL /\ prev # NIL
        BY <1>1, <1>2, <2>1, <2>5, <3>1
      <4>2. r[prev] \in Nat /\ r[n] \in Nat /\ r[next] \in Nat /\ r[prev] < r[n] /\ r[n] < r[next]
        BY <1>3, <1>4, <4>1
      <4>3. r[prev] < r[next]
        BY <4>2
      <4> QED
        BY <1>1, <1>3, <1>5, <2>1, <3>1, <4>1, <4>3
    <3>2. CASE m # prev
      <4>1. PICK k \in Nodes : k = V[m].obj_next /\ k = W[m].obj_next
        BY <1>1, <1>2, <2>1, <2>2, <2>5, <3>2
      <4>2. V[k].registered /\ V[k].obj = V[m].obj /\ V[k].obj_prev = m /\ r[m] < r[k]
        BY <1>2, <2>1, <4>1 DEF Rises
      <4>3. k # n /\ k # next
        BY <1>0, <1>2, <1>3, <2>1, <3>2, <4>2
      <4> QED
        BY <1>1, <2>1, <4>1, <4>2, <4>3
    <3> QED
      BY <3>1, <3>2
  <2> QED
    BY <2>1, <2>3, <2>4, <2>5
<1> QED
  BY <1>6, <1>7 DEF Linked, Rises

\* node_register: W and gd are V and hd with n in front of the list of t.
Inserted(V, hd, n, t, W, gd) ==
    /\ W[n].registered = TRUE /\ W[n].obj = t /\ W[n].wait_word # NIL
    /\ W[n].obj_prev = NIL /\ W[n].obj_next = hd[t]
    /\ \A m \in Nodes \ {n} :
         /\ W[m].registered = V[m].registered /\ W[m].obj = V[m].obj /\ W[m].wait_word = V[m].wait_word
         /\ W[m].obj_next = V[m].obj_next
         /\ m = hd[t] => W[m].obj_prev = n
         /\ m # hd[t] => W[m].obj_prev = V[m].obj_prev
    /\ gd[t] = n
    /\ \A s \in Slots \ {t} : gd[s] = hd[s]

LEMMA InsertedSound ==
    ASSUME NEW V \in [Nodes -> NodeRecord], NEW hd \in [Slots -> Opt], NEW r \in [Nodes -> Nat],
           NEW W \in [Nodes -> NodeRecord], NEW gd \in [Slots -> Opt], NEW n \in Nodes, NEW t \in Slots,
           ~V[n].registered, Linked(V, hd), Rises(V, r), Inserted(V, hd, n, t, W, gd)
    PROVE  Linked(W, gd) /\ \E q \in [Nodes -> Nat] : Rises(W, q)
<1>0. PICK old \in Opt : old = hd[t]
  OBVIOUS
<1>1. /\ W[n].registered = TRUE /\ W[n].obj = t /\ W[n].wait_word # NIL
      /\ W[n].obj_prev = NIL /\ W[n].obj_next = old
      /\ \A m \in Nodes \ {n} :
           /\ W[m].registered = V[m].registered /\ W[m].obj = V[m].obj /\ W[m].wait_word = V[m].wait_word
           /\ W[m].obj_next = V[m].obj_next
           /\ m = old => W[m].obj_prev = n
           /\ m # old => W[m].obj_prev = V[m].obj_prev
      /\ gd[t] = n
      /\ \A s \in Slots \ {t} : gd[s] = hd[s]
  BY <1>0 DEF Inserted
<1>2. NIL \notin Nodes /\ n # NIL /\ \A m \in Opt : m # NIL => m \in Nodes
  BY NodeSet DEF Opt
<1>3. old # NIL => old \in Nodes /\ V[old].registered /\ V[old].obj = t /\ V[old].obj_prev = NIL
  BY <1>0, <1>2 DEF Linked
<1>4. old # n
  BY <1>2, <1>3
<1>5. ASSUME NEW s \in Slots, gd[s] # NIL
      PROVE  W[gd[s]].registered /\ W[gd[s]].obj = s /\ W[gd[s]].obj_prev = NIL
  <2>1. CASE s = t
    BY <1>1, <2>1
  <2>2. CASE s # t
    <3>1. PICK m \in Nodes : m = hd[s] /\ m = gd[s]
      BY <1>1, <1>2, <1>5, <2>2
    <3>2. V[m].registered /\ V[m].obj = s /\ V[m].obj_prev = NIL
      <4>1. hd[s] # NIL
        BY <1>2, <3>1
      <4>2. V[hd[s]].registered /\ V[hd[s]].obj = s /\ V[hd[s]].obj_prev = NIL
        BY <4>1 DEF Linked
      <4> QED
        BY <3>1, <4>2
    <3>3. m # n /\ m # old
      BY <1>2, <1>3, <2>2, <3>2
    <3> QED
      BY <1>1, <3>1, <3>2, <3>3
  <2> QED
    BY <2>1, <2>2
<1>6. ASSUME NEW m \in Nodes, m # n, W[m].registered
      PROVE  /\ V[m].registered /\ W[m].obj \in Slots /\ W[m].wait_word # NIL
             /\ W[m].obj_prev = NIL => gd[W[m].obj] = m
             /\ W[m].obj_prev # NIL =>
                  W[W[m].obj_prev].registered /\ W[W[m].obj_prev].obj = W[m].obj /\ W[W[m].obj_prev].obj_next = m
             /\ W[m].obj_next # NIL =>
                  W[W[m].obj_next].registered /\ W[W[m].obj_next].obj = W[m].obj /\ W[W[m].obj_next].obj_prev = m
  <2>1. /\ V[m].registered /\ W[m].obj = V[m].obj /\ V[m].obj \in Slots /\ W[m].obj_next = V[m].obj_next
        /\ W[m].wait_word = V[m].wait_word /\ V[m].wait_word # NIL
        /\ V[m].obj_prev = NIL => hd[V[m].obj] = m
        /\ V[m].obj_prev # NIL =>
             V[V[m].obj_prev].registered /\ V[V[m].obj_prev].obj = V[m].obj /\ V[V[m].obj_prev].obj_next = m
        /\ V[m].obj_next # NIL =>
             V[V[m].obj_next].registered /\ V[V[m].obj_next].obj = V[m].obj /\ V[V[m].obj_next].obj_prev = m
    BY <1>1, <1>6 DEF Linked
  <2>2. V[m].obj_prev \in Opt /\ V[m].obj_next \in Opt
    BY RecordFields
  <2>3. W[m].obj_prev = NIL => gd[W[m].obj] = m
    <3>1. CASE m = old
      BY <1>1, <1>2, <1>6, <3>1
    <3>2. CASE m # old
      BY <1>0, <1>1, <1>6, <2>1, <3>2
    <3> QED
      BY <3>1, <3>2
  <2>4. ASSUME W[m].obj_prev # NIL
        PROVE  W[W[m].obj_prev].registered /\ W[W[m].obj_prev].obj = W[m].obj /\ W[W[m].obj_prev].obj_next = m
    <3>1. CASE m = old
      BY <1>1, <1>2, <1>3, <1>6, <2>1, <3>1
    <3>2. CASE m # old
      <4>1. PICK k \in Nodes : k = V[m].obj_prev /\ k = W[m].obj_prev
        BY <1>1, <1>2, <1>6, <2>1, <2>2, <2>4, <3>2
      <4>2. V[k].registered /\ V[k].obj = V[m].obj /\ V[k].obj_next = m
        BY <1>2, <2>1, <4>1
      <4>3. k # n
        BY <4>2
      <4> QED
        BY <1>1, <2>1, <4>1, <4>2, <4>3
    <3> QED
      BY <3>1, <3>2
  <2>5. ASSUME W[m].obj_next # NIL
        PROVE  W[W[m].obj_next].registered /\ W[W[m].obj_next].obj = W[m].obj /\ W[W[m].obj_next].obj_prev = m
    <3>1. PICK k \in Nodes : k = V[m].obj_next /\ k = W[m].obj_next
      BY <1>2, <2>1, <2>2, <2>5
    <3>2. V[k].registered /\ V[k].obj = V[m].obj /\ V[k].obj_prev = m
      BY <1>2, <2>1, <3>1
    <3>3. k # n /\ k # old
      BY <1>2, <1>3, <3>2
    <3> QED
      BY <1>1, <2>1, <3>1, <3>2, <3>3
  <2> QED
    BY <2>1, <2>3, <2>4, <2>5
<1>7. ASSUME W[n].obj_next # NIL
      PROVE  W[W[n].obj_next].registered /\ W[W[n].obj_next].obj = t /\ W[W[n].obj_next].obj_prev = n
  BY <1>1, <1>3, <1>4, <1>7
<1>8. Linked(W, gd)
  <2>1. ASSUME NEW m \in Nodes, W[m].registered
        PROVE  /\ W[m].obj \in Slots /\ W[m].wait_word # NIL
               /\ W[m].obj_prev = NIL => gd[W[m].obj] = m
               /\ W[m].obj_prev # NIL =>
                    W[W[m].obj_prev].registered /\ W[W[m].obj_prev].obj = W[m].obj /\ W[W[m].obj_prev].obj_next = m
               /\ W[m].obj_next # NIL =>
                    W[W[m].obj_next].registered /\ W[W[m].obj_next].obj = W[m].obj /\ W[W[m].obj_next].obj_prev = m
    <3>1. CASE m = n
      BY <1>1, <1>7, <3>1
    <3>2. CASE m # n
      BY <1>6, <2>1, <3>2
    <3> QED
      BY <3>1, <3>2
  <2> QED
    BY <1>5, <2>1 DEF Linked
<1> DEFINE q == [m \in Nodes |-> IF m = n THEN 0 ELSE r[m] + 1]
<1>9. q \in [Nodes -> Nat] /\ q[n] = 0 /\ \A m \in Nodes \ {n} : q[m] = r[m] + 1
  OBVIOUS
<1> HIDE DEF q
<1>10. ASSUME NEW m \in Nodes, W[m].registered, W[m].obj_next # NIL PROVE q[m] < q[W[m].obj_next]
  <2>1. CASE m = n
    <3>1. q[old] = r[old] + 1 /\ r[old] \in Nat
      BY <1>1, <1>3, <1>4, <1>9, <1>10, <2>1
    <3> QED
      BY <1>1, <1>9, <2>1, <3>1
  <2>2. CASE m # n
    <3>1. V[m].registered /\ W[m].obj_next = V[m].obj_next /\ V[m].obj_next \in Opt
      BY <1>1, <1>10, <2>2, RecordFields
    <3>2. PICK k \in Nodes : k = V[m].obj_next
      BY <1>2, <1>10, <3>1
    <3>3. V[k].registered /\ r[m] < r[k]
      BY <1>2, <3>1, <3>2 DEF Linked, Rises
    <3>4. q[m] = r[m] + 1 /\ q[k] = r[k] + 1 /\ r[m] \in Nat /\ r[k] \in Nat
      BY <1>9, <2>2, <3>3
    <3>5. q[m] < q[k]
      BY <3>3, <3>4
    <3> QED
      BY <3>1, <3>2, <3>5
  <2> QED
    BY <2>1, <2>2
<1>11. Rises(W, q)
  BY <1>10 DEF Rises
<1> QED
  BY <1>8, <1>9, <1>11

\* node_alloc: the fields of a node that is on no list.
LEMMA ClearedSound ==
    ASSUME NEW V \in [Nodes -> NodeRecord], NEW hd \in [Slots -> Opt], NEW r \in [Nodes -> Nat],
           NEW W \in [Nodes -> NodeRecord], NEW n \in Nodes, ~V[n].registered, W[n].registered = FALSE,
           \A m \in Nodes \ {n} : W[m] = V[m], Linked(V, hd), Rises(V, r)
    PROVE  Linked(W, hd) /\ Rises(W, r)
<1>1. NIL \notin Nodes /\ \A m \in Opt : m # NIL => m \in Nodes
  BY NodeSet DEF Opt
<1>2. ASSUME NEW s \in Slots, hd[s] # NIL
      PROVE  W[hd[s]].registered /\ W[hd[s]].obj = s /\ W[hd[s]].obj_prev = NIL
  <2>1. hd[s] \in Nodes /\ V[hd[s]].registered /\ V[hd[s]].obj = s /\ V[hd[s]].obj_prev = NIL
    BY <1>1, <1>2 DEF Linked
  <2>2. W[hd[s]] = V[hd[s]]
    BY <2>1
  <2> QED
    BY <2>1, <2>2
<1>3. ASSUME NEW m \in Nodes, W[m].registered
      PROVE  /\ W[m].obj \in Slots /\ W[m].wait_word # NIL
             /\ W[m].obj_prev = NIL => hd[W[m].obj] = m
             /\ W[m].obj_prev # NIL =>
                  W[W[m].obj_prev].registered /\ W[W[m].obj_prev].obj = W[m].obj /\ W[W[m].obj_prev].obj_next = m
             /\ W[m].obj_next # NIL =>
                  /\ W[W[m].obj_next].registered /\ W[W[m].obj_next].obj = W[m].obj /\ W[W[m].obj_next].obj_prev = m
                  /\ r[m] < r[W[m].obj_next]
  <2>1. W[m] = V[m] /\ V[m].registered
    BY <1>3
  <2>2. /\ V[m].obj \in Slots /\ V[m].wait_word # NIL
        /\ V[m].obj_prev = NIL => hd[V[m].obj] = m
        /\ V[m].obj_prev # NIL =>
             V[V[m].obj_prev].registered /\ V[V[m].obj_prev].obj = V[m].obj /\ V[V[m].obj_prev].obj_next = m
        /\ V[m].obj_next # NIL =>
             V[V[m].obj_next].registered /\ V[V[m].obj_next].obj = V[m].obj /\ V[V[m].obj_next].obj_prev = m
    BY <2>1 DEF Linked
  <2>3. V[m].obj_prev \in Opt /\ V[m].obj_next \in Opt
    BY RecordFields
  <2>4. V[m].obj_prev # NIL => W[V[m].obj_prev] = V[V[m].obj_prev]
    BY <1>1, <2>2, <2>3
  <2>5. V[m].obj_next # NIL => W[V[m].obj_next] = V[V[m].obj_next] /\ r[m] < r[V[m].obj_next]
    BY <1>1, <2>1, <2>2, <2>3 DEF Rises
  <2> QED
    BY <2>1, <2>2, <2>4, <2>5
<1> QED
  BY <1>2, <1>3 DEF Linked, Rises

-----------------------------------------------------------------------------
(* ListInv is inductive: stores, deaths and steps that leave the lists alone. *)

LEMMA Pends ==
    ASSUME UseInv', NEW V \in [Nodes -> NodeRecord], NEW hd \in [Slots -> Opt], NEW us \in [Slots -> BOOLEAN],
           NEW r \in [Nodes -> Nat], Done(V, hd, us)', Lists(V, hd, us, r)'
    PROVE  ListInv'
  BY DEF ListInv

LEMMA PendingTail ==
    ASSUME UseInv, NEW p \in Procs, Store(p)
    PROVE  /\ stores[1] \in Pending
           /\ \A d \in Pending : d = stores[1] \/ d \in Pending'
           /\ \A d \in Pending' : d \in Pending
<1>1. /\ Len(stores) \in Nat /\ Len(stores) >= 1 /\ Len(stores') \in Nat /\ Len(stores') = Len(stores) - 1
      /\ \A i \in 1 .. Len(stores') : i + 1 \in 1 .. Len(stores) /\ stores'[i] = stores[i + 1]
  BY StoreKeeps
<1>2. 1 \in 1 .. Len(stores)
  BY <1>1
<1>3. ASSUME NEW i \in 1 .. Len(stores), i # 1 PROVE stores[i] \in Pending'
  <2>1. i - 1 \in 1 .. Len(stores') /\ (i - 1) + 1 = i
    BY <1>1, <1>3
  <2>2. stores'[i - 1] = stores[i]
    BY <1>1, <2>1
  <2> QED
    BY <2>1, <2>2 DEF Pending
<1> QED
  BY <1>1, <1>2, <1>3 DEF Pending

\* A store makes the memory more like what it will be.
LEMMA DoneStore ==
    ASSUME UseInv, NEW p \in Procs, Store(p), NEW V, NEW hd, NEW us, Done(V, hd, us)
    PROVE  Done(V, hd, us)'
<1> DEFINE c == stores[1]
<1>1. Types /\ c \in StoreRecord /\ Puts(c)
  BY StoreKeeps
<1>2. /\ c \in Pending
      /\ \A d \in Pending : d = c \/ d \in Pending'
      /\ \A d \in Pending' : d \in Pending
  BY PendingTail
<1> HIDE DEF c
<1>3. /\ \A n \in Nodes : \A f \in ListFields : V[n][f] = node[n][f] \/ Set(n, f, V[n][f]) \in Pending
      /\ \A s \in Slots : hd[s] = waiter_head[s] \/ SetHead(s, hd[s]) \in Pending
      /\ \A s \in Slots : us[s] = used[s] \/ SetUsed(s, us[s]) \in Pending
      /\ \A d \in Pending :
           /\ d.do = "set" /\ d.field \in ListFields => V[d.n][d.field] = d.v
           /\ d.do = "head" => d.n # NIL /\ hd[d.n] = d.v
           /\ d.do = "used" => us[d.n] = d.v
  BY DEF Done
<1>4. waiter_head \in [Slots -> Opt] /\ used \in [Slots -> BOOLEAN] /\ ListFields \subseteq Fields
  BY <1>1 DEF Types, TypeOK, Opt, ListFields, Fields, LinkFields
<1>5. ASSUME NEW n \in Nodes, NEW f \in ListFields
      PROVE  V[n][f] = node'[n][f] \/ Set(n, f, V[n][f]) \in Pending'
  <2>1. CASE c.do = "set" /\ c.n = n /\ c.field = f
    <3>1. node'[n][f] = c.v
      BY <1>1, <2>1, PutNode
    <3>2. V[n][f] = c.v
      BY <1>2, <1>3, <2>1
    <3> QED
      BY <3>1, <3>2
  <2>2. CASE ~(c.do = "set" /\ c.n = n /\ c.field = f)
    <3>1. node'[n][f] = node[n][f]
      <4>1. CASE c.do = "set"
        BY <1>1, <1>4, <2>2, <4>1, PutNode
      <4>2. CASE c.do # "set"
        BY <1>1, <4>2 DEF Puts
      <4> QED
        BY <4>1, <4>2
    <3>2. c # Set(n, f, V[n][f])
      BY <2>2, SetFields
    <3> QED
      BY <1>2, <1>3, <3>1, <3>2
  <2> QED
    BY <2>1, <2>2
<1>6. ASSUME NEW s \in Slots
      PROVE  hd[s] = waiter_head'[s] \/ SetHead(s, hd[s]) \in Pending'
  <2>1. CASE c.do = "head" /\ c.n = s
    <3>1. waiter_head'[s] = c.v
      BY <1>1, <1>4, <2>1 DEF Puts
    <3>2. hd[s] = c.v
      BY <1>2, <1>3, <2>1
    <3> QED
      BY <3>1, <3>2
  <2>2. CASE ~(c.do = "head" /\ c.n = s)
    <3>1. waiter_head'[s] = waiter_head[s]
      BY <1>1, <1>4, <2>2 DEF Puts
    <3>2. c # SetHead(s, hd[s])
      BY <2>2, SetFields
    <3> QED
      BY <1>2, <1>3, <3>1, <3>2
  <2> QED
    BY <2>1, <2>2
<1>7. ASSUME NEW s \in Slots
      PROVE  us[s] = used'[s] \/ SetUsed(s, us[s]) \in Pending'
  <2>1. CASE c.do = "used" /\ c.n = s
    <3>1. used'[s] = c.v
      BY <1>1, <1>4, <2>1 DEF Puts
    <3>2. us[s] = c.v
      BY <1>2, <1>3, <2>1
    <3> QED
      BY <3>1, <3>2
  <2>2. CASE ~(c.do = "used" /\ c.n = s)
    <3>1. used'[s] = used[s]
      BY <1>1, <1>4, <2>2 DEF Puts
    <3>2. c # SetUsed(s, us[s])
      BY <2>2, SetFields
    <3> QED
      BY <1>2, <1>3, <3>1, <3>2
  <2> QED
    BY <2>1, <2>2
<1>8. \A d \in Pending' :
        /\ d.do = "set" /\ d.field \in ListFields => V[d.n][d.field] = d.v
        /\ d.do = "head" => d.n # NIL /\ hd[d.n] = d.v
        /\ d.do = "used" => us[d.n] = d.v
  BY <1>2, <1>3
<1> QED
  BY <1>5, <1>6, <1>7, <1>8 DEF Done

LEMMA ListStore ==
    ASSUME ListInv, UseInv', NEW p \in Procs, Store(p)
    PROVE  ListInv'
<1>1. UseInv /\ Types
  BY UseTypes DEF ListInv
<1>2. UNCHANGED <<todo, lock, want, torn>>
  BY <1>1, StoreIs
<1> SUFFICES ASSUME ~torn PROVE ListInv'
  BY <1>2 DEF ListInv
<1>3. PICK V \in [Nodes -> NodeRecord], hd \in [Slots -> Opt], us \in [Slots -> BOOLEAN] :
        Done(V, hd, us) /\ \E r \in [Nodes -> Nat] : Lists(V, hd, us, r)
  BY DEF ListInv
<1>4. PICK r \in [Nodes -> Nat] : Lists(V, hd, us, r)
  BY <1>3
<1>5. Done(V, hd, us)'
  BY <1>1, <1>3, DoneStore
<1>6. Lists(V, hd, us, r)'
  BY <1>2, <1>4 DEF Lists
<1> QED
  BY <1>5, <1>6, Pends

LEMMA ListGone ==
    ASSUME ListInv, UseInv', NEW p \in Procs, Gone(p)
    PROVE  ListInv'
<1>1. UseInv /\ Types
  BY UseTypes DEF ListInv
<1>2. /\ want' = [want EXCEPT ![p] = <<>>] /\ torn' = (torn \/ lock = p)
      /\ UNCHANGED <<node, waiter_head, used, node_free_head, node_fresh>>
      /\ lock # p => lock' = lock /\ stores' = stores /\ todo' = todo
  BY DEF Gone, Do, memory
<1> SUFFICES ASSUME ~torn' PROVE ListInv'
  BY DEF ListInv
<1>3. ~torn /\ lock # p /\ lock' = lock /\ stores' = stores /\ todo' = todo
  BY <1>2
<1>4. PICK V \in [Nodes -> NodeRecord], hd \in [Slots -> Opt], us \in [Slots -> BOOLEAN] :
        Done(V, hd, us) /\ \E r \in [Nodes -> Nat] : Lists(V, hd, us, r)
  BY <1>3 DEF ListInv
<1>5. PICK r \in [Nodes -> Nat] : Lists(V, hd, us, r)
  BY <1>4
<1>6. Done(V, hd, us)'
  BY <1>2, <1>3, <1>4 DEF Done, Pending
<1>7. Targets(us, todo', want'[lock'])
  <2>1. CASE lock = NoProc
    BY <1>1, <1>3, <2>1 DEF Types, Targets
  <2>2. CASE lock # NoProc
    <3>1. lock \in Procs /\ want \in [Procs -> Seq(Slots)]
      BY <1>1, <2>2 DEF Types, TypeOK
    <3>2. want'[lock'] = want[lock]
      BY <1>2, <1>3, <3>1
    <3> QED
      BY <1>3, <1>5, <3>2 DEF Lists
  <2> QED
    BY <2>1, <2>2
<1>8. Lists(V, hd, us, r)'
  BY <1>3, <1>5, <1>7 DEF Lists
<1> QED
  BY <1>6, <1>8, Pends

\* Between calls the memory is what it will be.
LEMMA Calm ==
    ASSUME ListInv, ~torn, stores = <<>>
    PROVE  \E r \in [Nodes -> Nat] : Lists(node, waiter_head, used, r)
<1>1. PICK V \in [Nodes -> NodeRecord], hd \in [Slots -> Opt], us \in [Slots -> BOOLEAN] :
        Done(V, hd, us) /\ \E r \in [Nodes -> Nat] : Lists(V, hd, us, r)
  BY DEF ListInv
<1>2. PICK r \in [Nodes -> Nat] : Lists(V, hd, us, r)
  BY <1>1
<1>3. Pending = {}
  <2>1. 1 .. Len(stores) = {}
    OBVIOUS
  <2> QED
    BY <2>1 DEF Pending
<1>4. Types /\ waiter_head \in [Slots -> Opt] /\ used \in [Slots -> BOOLEAN]
  BY UseTypes DEF ListInv, Types, TypeOK, Opt
<1>5. hd = waiter_head /\ us = used
  <2>1. \A s \in Slots : hd[s] = waiter_head[s] /\ us[s] = used[s]
    BY <1>1, <1>3 DEF Done
  <2> QED
    BY <1>4, <2>1
<1>6. \A n \in Nodes : /\ V[n].registered = node[n].registered /\ V[n].obj = node[n].obj
                       /\ V[n].wait_word = node[n].wait_word
                       /\ V[n].obj_prev = node[n].obj_prev /\ V[n].obj_next = node[n].obj_next
  BY <1>1, <1>3 DEF Done, ListFields
<1>7. \A n \in Nodes : node[n].obj_prev \in Opt /\ node[n].obj_next \in Opt
  BY <1>4, NodeFields
<1>8. \A m \in Opt : m # NIL => m \in Nodes
  BY DEF Opt
<1>9. Linked(V, hd) /\ Rises(V, r) /\ Walk(V, todo) /\ Drains(V, hd, us, todo) /\ Targets(us, todo, want[lock])
  BY <1>2 DEF Lists
<1>10. Linked(node, waiter_head)
  BY <1>4, <1>5, <1>6, <1>7, <1>8, <1>9 DEF Linked
<1>11. Rises(node, r)
  BY <1>6, <1>9 DEF Rises
<1>12. Wakes(todo) => todo[Len(todo)].n \in Opt /\ (Len(todo) = 3 => todo[1].n \in Nodes)
  <2> SUFFICES ASSUME Wakes(todo) PROVE todo[Len(todo)].n \in Opt /\ (Len(todo) = 3 => todo[1].n \in Nodes)
    OBVIOUS
  <2>1. Len(todo) \in Nat /\ \A j \in 1 .. Len(todo) : todo[j] \in CallRecord
    BY <1>4, Items DEF Types
  <2>2. Len(todo) >= 1 /\ Len(todo) \in 1 .. Len(todo) /\ 1 \in 1 .. Len(todo)
    BY <2>1 DEF Wakes
  <2> QED
    BY <2>1, <2>2, CallFields DEF Wakes
<1>13. Walk(node, todo)
  BY <1>6, <1>8, <1>9, <1>12 DEF Walk
<1>14. Drains(node, waiter_head, used, todo)
  BY <1>5, <1>6, <1>9, <1>12 DEF Drains
<1> QED
  BY <1>5, <1>9, <1>10, <1>11, <1>13, <1>14 DEF Lists

\* A step that stores to no list.
Leaves ==
    /\ stores = <<>> /\ UNCHANGED <<node, waiter_head, used, torn>>
    /\ \A c \in Pending' : c.do \notin {"head", "used"} /\ (c.do = "set" => c.field \notin ListFields)

LEMMA ListLeaves ==
    ASSUME ListInv, UseInv', Leaves,
           \A r \in [Nodes -> Nat] : Lists(node, waiter_head, used, r) =>
             /\ Walk(node, todo') /\ Drains(node, waiter_head, used, todo')
             /\ Targets(used, todo', want'[lock'])
    PROVE  ListInv'
<1>1. Types /\ stores = <<>> /\ UNCHANGED <<node, waiter_head, used, torn>>
  BY UseTypes DEF ListInv, Leaves
<1> SUFFICES ASSUME ~torn PROVE ListInv'
  BY <1>1 DEF ListInv
<1>2. PICK V \in [Nodes -> NodeRecord], hd \in [Slots -> Opt], us \in [Slots -> BOOLEAN] :
        V = node /\ hd = waiter_head /\ us = used
  <2>1. node \in [Nodes -> NodeRecord] /\ waiter_head \in [Slots -> Opt] /\ used \in [Slots -> BOOLEAN]
    BY <1>1 DEF Types, TypeOK, Opt
  <2> QED
    BY <2>1, Zenon
<1>3. PICK r \in [Nodes -> Nat] : Lists(V, hd, us, r)
  BY <1>1, <1>2, Calm
<1>4. Linked(V, hd) /\ Rises(V, r)
  BY <1>3 DEF Lists
<1>5. Walk(V, todo') /\ Drains(V, hd, us, todo') /\ Targets(us, todo', want'[lock'])
  BY <1>2, <1>3
<1>6. Lists(V, hd, us, r)'
  BY <1>4, <1>5 DEF Lists
<1>7. Done(V, hd, us)'
  BY <1>1, <1>2 DEF Leaves, Done
<1> QED
  BY <1>6, <1>7, Pends

LEMMA ListPlain ==
    ASSUME ListInv, UseInv', Leaves, ~Wakes(todo), ~Wakes(todo'),
           Targets(used, todo, want[lock]) => Targets(used, todo', want'[lock'])
    PROVE  ListInv'
<1>1. \A r \in [Nodes -> Nat] : Lists(node, waiter_head, used, r) =>
        /\ Walk(node, todo') /\ Drains(node, waiter_head, used, todo')
        /\ Targets(used, todo', want'[lock'])
  BY DEF Lists, Walk, Drains
<1> QED
  BY <1>1, ListLeaves

LEMMA NotWakes ==
    ASSUME NEW t, t = <<>> \/ t[Len(t)].do # "wake_object"
    PROVE  ~Wakes(t)
<1>1. CASE t = <<>>
  BY <1>1, NoStores DEF Wakes
<1> QED
  BY <1>1 DEF Wakes

LEMMA NoPending ==
    ASSUME stores' = <<>>
    PROVE  Pending' = {}
<1>1. 1 .. Len(stores') = {}
  OBVIOUS
<1> QED
  BY <1>1 DEF Pending

-----------------------------------------------------------------------------
(* ListInv is inductive: sections begin. *)

LEMMA ListEnters ==
    ASSUME ListInv, NEW p \in Procs, NEW first, NEW calls, Enters(p, first, calls)
    PROVE  /\ UseInv /\ Types /\ stores = <<>> /\ todo = <<>> /\ ~Wakes(todo) /\ lock' = p
           /\ stores' = first /\ todo' = calls /\ UNCHANGED <<node, waiter_head, used, torn>>
           /\ first = <<>> => Leaves
<1>1. UseInv /\ Types
  BY UseTypes DEF ListInv
<1>2. /\ lock = NoProc /\ lock' = p /\ stores' = first /\ todo' = calls
      /\ UNCHANGED <<node, waiter_head, used, torn>>
  BY DEF Enters, Enter, Do, memory
<1>3. stores = <<>> /\ todo = <<>>
  BY <1>1, <1>2 DEF Types
<1> QED
  BY <1>1, <1>2, <1>3, NotWakes, NoPending DEF Leaves

\* A section with no walk in it.
LEMMA ListBegins ==
    ASSUME ListInv, UseInv', NEW p \in Procs, NEW calls, Enters(p, <<>>, calls), ~Wakes(calls),
           Targets(used, calls, want'[p])
    PROVE  ListInv'
<1>1. Leaves /\ ~Wakes(todo) /\ todo' = calls /\ lock' = p
  BY ListEnters
<1> QED
  BY <1>1, ListPlain

LEMMA ListBlock ==
    ASSUME ListInv, UseInv', NEW p \in Procs, Block(p)
    PROVE  ListInv'
<1>1. PICK w \in Waits[p] : /\ Enters(p, <<>>, AllocSeq(w, p)) /\ want' = [want EXCEPT ![p] = w]
                            /\ \A i \in 1 .. Len(w) : used[w[i]]
  BY DEF Block, Enters, AllocSeq
<1>2. w \in Seq(Slots) /\ w # <<>>
  BY NodeListAssumption
<1>3. PICK t : t = AllocSeq(w, p)
  OBVIOUS
<1>4. t \in Seq(CallRecord) /\ Allocates(t, 0, Len(w))
  BY <1>2, <1>3, AllocCalls
<1>5. ~Wakes(t)
  BY <1>4, NotWakes DEF Allocates
<1>6. want'[p] = w
  BY <1>1, UseTypes DEF ListInv, Types
<1>7. Targets(used, t, want'[p])
  BY <1>1, <1>6 DEF Targets
<1> QED
  BY <1>1, <1>3, <1>5, <1>7, ListBegins

LEMMA ListAgain ==
    ASSUME ListInv, UseInv', NEW p \in Procs, Again(p)
    PROVE  ListInv'
<1>1. PICK t : t = <<Call("register", p)>>
  OBVIOUS
<1>2. Enters(p, <<>>, t) /\ want' = want /\ \A i \in 1 .. Len(want[p]) : used[want[p][i]]
  BY <1>1 DEF Again, Enters
<1>3. Len(t) = 1 /\ t[1] = Call("register", p)
  BY <1>1
<1>4. ~Wakes(t)
  BY <1>3, Calls, NotWakes
<1>5. Targets(used, t, want'[p])
  BY <1>2 DEF Targets
<1> QED
  BY <1>2, <1>4, <1>5, ListBegins

LEMMA ListDetach ==
    ASSUME ListInv, UseInv', NEW p \in Procs, Detach(p)
    PROVE  ListInv'
<1>1. PICK t : t = ForEach("node_detach", mine[p])
  OBVIOUS
<1>2. Enters(p, <<>>, t)
  BY <1>1 DEF Detach, Enters
<1>3. mine[p] \in Seq(Nodes)
  BY UseTypes DEF ListInv
<1>4. /\ t \in Seq(CallRecord) /\ Len(t) = Len(mine[p]) /\ Len(mine[p]) \in Nat
      /\ \A i \in 1 .. Len(mine[p]) : t[i] = Call("node_detach", mine[p][i])
  BY <1>1, <1>3, ForEachCalls
<1>5. t # <<>> => t[Len(t)].do = "node_detach"
  <2>1. t # <<>> => Len(t) \in 1 .. Len(mine[p])
    BY <1>4, Items
  <2> QED
    BY <1>4, <2>1, Calls
<1> QED
  BY <1>2, <1>5, NotWakes, ListBegins DEF Targets

LEMMA ListCleanup ==
    ASSUME ListInv, UseInv', NEW p \in Procs, Cleanup(p)
    PROVE  ListInv'
<1>1. PICK t : t = CleanSeq(mine[p], p)
  OBVIOUS
<1>2. Enters(p, <<>>, t)
  BY <1>1 DEF Cleanup, Enters, waiter_cleanup, CleanSeq
<1>3. Cleans(t, mine[p])
  BY <1>1, UseTypes, CleanCalls DEF ListInv
<1>4. t[Len(t)].do = "clear"
  BY <1>3 DEF Cleans
<1> QED
  BY <1>2, <1>4, NotWakes, ListBegins DEF Targets

LEMMA ListSweep ==
    ASSUME ListInv, UseInv', NEW p \in Procs, sweep_dead(p)
    PROVE  ListInv'
<1>1. PICK t : t = [i \in 1 .. node_fresh |-> Call("reap", i - 1)]
  OBVIOUS
<1>2. Enters(p, <<>>, t)
  BY <1>1 DEF sweep_dead, Enters
<1>3. t \in Seq(CallRecord) /\ (\A j \in 1 .. Len(t) : t[j].do = "reap") /\ Len(t) \in Nat
  BY <1>1, UseTypes, ReapCalls DEF ListInv
<1>4. t # <<>> => t[Len(t)].do = "reap"
  <2>1. t # <<>> => Len(t) \in 1 .. Len(t)
    BY <1>3, Items
  <2> QED
    BY <1>3, <2>1
<1> QED
  BY <1>2, <1>4, NotWakes, ListBegins DEF Targets

\* A walk of the list of s begins.
LEMMA WalkBegins ==
    ASSUME Types, NEW s \in Slots, NEW t, t = <<Call("wake_object", waiter_head[s])>>
    PROVE  /\ t \in Seq(CallRecord) /\ Wakes(t) /\ Len(t) = 1 /\ t[1].do = "wake_object" /\ t[1].n = waiter_head[s]
           /\ Linked(node, waiter_head) => Walk(node, t)
           /\ \A us, w : Targets(us, t, w)
<1>1. waiter_head[s] \in Opt
  BY DEF Types, TypeOK, Opt
<1>2. t \in Seq(CallRecord) /\ Wakes(t) /\ Len(t) = 1 /\ t[1] = Call("wake_object", waiter_head[s])
  BY <1>1, WakeOne
<1>3. t[1].do = "wake_object" /\ t[1].n = waiter_head[s]
  BY <1>2, Calls
<1>4. ASSUME Linked(node, waiter_head) PROVE Walk(node, t)
  <2>1. waiter_head[s] # NIL => node[waiter_head[s]].registered
    BY <1>4 DEF Linked
  <2> QED
    BY <1>2, <1>3, <2>1 DEF Walk
<1>5. \A us, w : Targets(us, t, w)
  BY <1>2, <1>3 DEF Targets
<1> QED
  BY <1>2, <1>3, <1>4, <1>5

LEMMA ListSignal ==
    ASSUME ListInv, UseInv', NEW p \in Procs, Signal(p)
    PROVE  ListInv'
<1>1. PICK s \in Slots : Enters(p, <<>>, <<Call("wake_object", waiter_head[s])>>)
  BY DEF Signal, Enters
<1>2. PICK t : t = <<Call("wake_object", waiter_head[s])>>
  OBVIOUS
<1>3. Types /\ Leaves /\ ~Wakes(todo) /\ todo' = t
  BY <1>1, <1>2, ListEnters
<1>4. ASSUME NEW r \in [Nodes -> Nat], Lists(node, waiter_head, used, r)
      PROVE  /\ Walk(node, todo') /\ Drains(node, waiter_head, used, todo')
             /\ Targets(used, todo', want'[lock'])
  <2>1. Walk(node, t) /\ Targets(used, t, want'[lock'])
    BY <1>2, <1>3, <1>4, WalkBegins DEF Lists
  <2>2. Drains(node, waiter_head, used, t)
    BY <1>3, <1>4 DEF Lists, Drains
  <2> QED
    BY <1>3, <2>1, <2>2
<1> QED
  BY <1>3, <1>4, ListLeaves

LEMMA ListClose ==
    ASSUME ListInv, UseInv', NEW p \in Procs, close(p)
    PROVE  ListInv'
<1>1. PICK s \in Slots : Enters(p, <<SetUsed(s, FALSE)>>, <<Call("wake_object", waiter_head[s])>>)
  BY DEF close, Enters
<1>2. PICK t : t = <<Call("wake_object", waiter_head[s])>>
  OBVIOUS
<1>0. PICK c : c = SetUsed(s, FALSE)
  OBVIOUS
<1>3. PICK st : st = <<c>>
  OBVIOUS
<1>4. /\ Types /\ stores = <<>> /\ ~Wakes(todo) /\ todo' = t /\ stores' = st
      /\ UNCHANGED <<node, waiter_head, used, torn>>
  BY <1>0, <1>1, <1>2, <1>3, ListEnters
<1>5. Pending' = {c}
  <2>1. Len(st) = 1 /\ st[1] = c
    BY <1>3
  <2>2. 1 .. Len(st) = {1}
    BY <2>1
  <2> QED
    BY <1>4, <2>1, <2>2 DEF Pending
<1> SUFFICES ASSUME ~torn PROVE ListInv'
  BY <1>4 DEF ListInv
<1>6. PICK V \in [Nodes -> NodeRecord], hd \in [Slots -> Opt], us \in [Slots -> BOOLEAN] :
        V = node /\ hd = waiter_head /\ us = [used EXCEPT ![s] = FALSE]
  <2>1. node \in [Nodes -> NodeRecord] /\ waiter_head \in [Slots -> Opt] /\ used \in [Slots -> BOOLEAN]
    BY <1>4 DEF Types, TypeOK, Opt
  <2>2. [used EXCEPT ![s] = FALSE] \in [Slots -> BOOLEAN]
    BY <2>1
  <2> QED
    BY <2>1, <2>2, Zenon
<1>7. us[s] = FALSE /\ \A x \in Slots \ {s} : us[x] = used[x]
  BY <1>4, <1>6 DEF Types, TypeOK
<1>8. PICK r \in [Nodes -> Nat] : Lists(node, waiter_head, used, r)
  BY <1>4, Calm
<1>9. Done(V, hd, us)'
  <2>1. c.do = "used" /\ c.n = s /\ c.v = FALSE
    BY <1>0 DEF SetUsed
  <2>2. c = SetUsed(s, us[s])
    BY <1>0, <1>7
  <2>3. \A x \in Slots : us[x] = used[x] \/ SetUsed(x, us[x]) \in Pending'
    BY <1>5, <1>7, <2>2
  <2>4. \A d \in Pending' : d.do = "used" /\ us[d.n] = d.v
    BY <1>5, <1>7, <2>1
  <2> QED
    BY <1>4, <1>6, <2>3, <2>4 DEF Done
<1>10. Drains(V, hd, us, t)
  <2>1. \A x \in Slots : used[x] \/ waiter_head[x] = NIL
    BY <1>4, <1>8 DEF Lists, Drains
  <2>2. Wakes(t) /\ Len(t) = 1 /\ t[1].n = waiter_head[s]
    BY <1>2, <1>4, WalkBegins
  <2>3. ASSUME NEW x \in Slots PROVE us[x] \/ hd[x] = NIL \/ x = s
    BY <1>6, <1>7, <2>1
  <2> QED
    BY <1>6, <2>2, <2>3 DEF Drains
<1>11. Lists(V, hd, us, r)'
  <2>1. Linked(V, hd) /\ Rises(V, r)
    BY <1>6, <1>8 DEF Lists
  <2>2. Walk(V, t) /\ \A w : Targets(us, t, w)
    BY <1>2, <1>4, <1>6, <2>1, WalkBegins
  <2> QED
    BY <1>4, <1>10, <2>1, <2>2 DEF Lists
<1> QED
  BY <1>9, <1>11, Pends

LEMMA ListCreate ==
    ASSUME ListInv, UseInv', NEW p \in Procs, create(p)
    PROVE  ListInv'
<1>1. PICK s \in Slots : ~used[s] /\ Enters(p, <<SetHead(s, NIL), SetUsed(s, TRUE)>>, <<>>)
  BY DEF create, Enters
<1>0. PICK c, d : c = SetHead(s, NIL) /\ d = SetUsed(s, TRUE)
  OBVIOUS
<1>2. PICK st : st = <<c, d>>
  OBVIOUS
<1>3. /\ Types /\ stores = <<>> /\ ~Wakes(todo) /\ todo' = <<>> /\ stores' = st
      /\ UNCHANGED <<node, waiter_head, used, torn>>
  BY <1>0, <1>1, <1>2, ListEnters
<1>4. Pending' = {c, d}
  <2>1. Len(st) = 2 /\ st[1] = c /\ st[2] = d
    BY <1>2
  <2>2. 1 .. Len(st) = {1, 2}
    BY <2>1
  <2> QED
    BY <1>3, <2>1, <2>2 DEF Pending
<1> SUFFICES ASSUME ~torn PROVE ListInv'
  BY <1>3 DEF ListInv
<1>5. PICK V \in [Nodes -> NodeRecord], hd \in [Slots -> Opt], us \in [Slots -> BOOLEAN] :
        V = node /\ hd = waiter_head /\ us = [used EXCEPT ![s] = TRUE]
  <2>1. node \in [Nodes -> NodeRecord] /\ waiter_head \in [Slots -> Opt] /\ used \in [Slots -> BOOLEAN]
    BY <1>3 DEF Types, TypeOK, Opt
  <2>2. [used EXCEPT ![s] = TRUE] \in [Slots -> BOOLEAN]
    BY <2>1
  <2> QED
    BY <2>1, <2>2, Zenon
<1>6. us[s] = TRUE /\ \A x \in Slots \ {s} : us[x] = used[x]
  BY <1>3, <1>5 DEF Types, TypeOK
<1>7. PICK r \in [Nodes -> Nat] : Lists(node, waiter_head, used, r)
  BY <1>3, Calm
<1>8. \A x \in Slots : used[x] \/ waiter_head[x] = NIL
  BY <1>3, <1>7 DEF Lists, Drains
<1>9. Done(V, hd, us)'
  <2>1. c.do = "head" /\ c.n = s /\ c.v = NIL /\ d.do = "used" /\ d.n = s /\ d.v = TRUE
    BY <1>0 DEF SetUsed, SetHead
  <2>2. d = SetUsed(s, us[s])
    BY <1>0, <1>6
  <2>3. \A x \in Slots : us[x] = used[x] \/ SetUsed(x, us[x]) \in Pending'
    BY <1>4, <1>6, <2>2
  <2>4. hd[s] = NIL /\ s # NIL
    BY <1>1, <1>5, <1>8, NodeSet
  <2>5. \A e \in Pending' : /\ e.do = "used" \/ e.do = "head"
                            /\ e.do = "used" => us[e.n] = e.v
                            /\ e.do = "head" => e.n # NIL /\ hd[e.n] = e.v
    BY <1>4, <1>6, <2>1, <2>4
  <2> QED
    BY <1>3, <1>5, <2>3, <2>5 DEF Done
<1>10. Drains(V, hd, us, <<>>)
  BY <1>5, <1>6, <1>8 DEF Drains
<1>11. Lists(V, hd, us, r)'
  <2>1. Linked(V, hd) /\ Rises(V, r)
    BY <1>5, <1>7 DEF Lists
  <2>2. Walk(V, <<>>) /\ \A w : Targets(us, <<>>, w)
    BY NotWakes DEF Walk, Targets
  <2> QED
    BY <1>3, <1>10, <2>1, <2>2 DEF Lists
<1> QED
  BY <1>9, <1>11, Pends

-----------------------------------------------------------------------------
(* ListInv is inductive: calls. *)

\* The next call is over, and it was not one of a walk.
LEMMA ListRest ==
    ASSUME ListInv, UseInv', NEW p \in Procs, NEW f, At(p, f), Leaves, todo' = Rest,
           todo[Len(todo)].do # "wake_object", UNCHANGED <<lock, want>>
    PROVE  ListInv'
<1>1. ShapeInv
  BY UseTypes DEF ListInv
<1>2. /\ Len(todo) \in Nat /\ todo # <<>> /\ Len(Rest) \in Nat /\ IsTail(Rest, todo)
      /\ Rest = <<>> <=> Len(Rest) = 0
  BY <1>1, AtIs
<1>3. Rest = <<>> \/ Rest[Len(Rest)] = todo[Len(todo)]
  BY <1>2, RestLast
<1>4. ~Wakes(todo) /\ ~Wakes(Rest)
  BY <1>3, NotWakes
<1>5. Targets(used, todo, want[lock]) => Targets(used, Rest, want'[lock'])
  BY <1>2, <1>3 DEF Targets
<1> QED
  BY <1>4, <1>5, ListPlain

LEMMA ListStepFree ==
    ASSUME ListInv, UseInv', NEW p \in Procs, StepFree(p), Still
    PROVE  ListInv'
<1>0. ShapeInv
  BY UseTypes DEF ListInv
<1>1. At(p, "node_free") /\ stores' = node_free(Head(todo).n) /\ todo' = Rest
  BY DEF StepFree, Do
<1>2. /\ Types /\ stores = <<>> /\ Head(todo).n \in Nodes /\ Len(todo) \in Nat /\ Len(todo) >= 1
  BY <1>0, <1>1, AtIs, CallFields
<1>3. UNCHANGED <<node, waiter_head, used, torn, lock, want>>
  BY StillIs
<1>4. PICK n : n = Head(todo).n
  OBVIOUS
<1>5. OfFree(stores', n, node_free_head, node)
  BY <1>1, <1>2, <1>4, FreeStores
<1>6. ASSUME NEW c \in Pending'
      PROVE  c = Set(n, "waiter_next", node_free_head) \/ c = SetFree(n)
  <2>1. PICK i \in 1 .. Len(stores') : c = stores'[i]
    BY <1>6 DEF Pending
  <2>2. CASE Len(stores') = 2 /\ stores'[1] = Set(n, "waiter_next", node_free_head) /\ stores'[2] = SetFree(n)
    <3>1. i = 1 \/ i = 2
      BY <2>2
    <3> QED
      BY <2>1, <2>2, <3>1
  <2>3. CASE Len(stores') = 1 /\ stores'[1] = SetFree(n)
    <3>1. i = 1
      BY <2>3
    <3> QED
      BY <2>1, <2>3, <3>1
  <2> QED
    BY <1>5, <2>2, <2>3, FreeItems
<1>7. Leaves
  <2>1. ASSUME NEW c \in Pending'
        PROVE  c.do \notin {"head", "used"} /\ (c.do = "set" => c.field \notin ListFields)
    <3>1. CASE c = Set(n, "waiter_next", node_free_head)
      BY <3>1, SetFields DEF ListFields
    <3>2. CASE c = SetFree(n)
      BY <3>2, SetFields
    <3> QED
      BY <1>6, <3>1, <3>2
  <2> QED
    BY <1>2, <1>3, <2>1 DEF Leaves
<1>8. todo[Len(todo)].do # "wake_object"
  BY <1>0, <1>1, <1>2, SectionAt, Last
<1> QED
  BY <1>1, <1>3, <1>7, <1>8, ListRest

LEMMA ListStepListed ==
    ASSUME ListInv, UseInv', NEW p \in Procs, StepListed(p), Still
    PROVE  ListInv'
<1>0. ShapeInv
  BY UseTypes DEF ListInv
<1>1. At(p, "register") /\ stores' = <<>> /\ todo' = Rest
  BY DEF StepListed, Do
<1>2. stores = <<>> /\ UNCHANGED <<node, waiter_head, used, torn, lock, want>>
  BY <1>0, <1>1, AtIs, StillIs
<1>3. Leaves
  BY <1>1, <1>2, NoPending DEF Leaves
<1>4. todo[Len(todo)].do # "wake_object"
  BY <1>0, <1>1, RegisterIs
<1> QED
  BY <1>1, <1>2, <1>3, <1>4, ListRest

LEMMA ListPush ==
    ASSUME ListInv, UseInv', NEW p \in Procs, Push(p)
    PROVE  ListInv'
<1>0. ShapeInv
  BY UseTypes DEF ListInv
<1>1. /\ At(p, "push") /\ stores = <<>> /\ stores' = <<>> /\ todo' = Rest
      /\ UNCHANGED <<node, waiter_head, used, torn, lock, want>>
  BY <1>0, PushIs
<1>2. Leaves
  BY <1>1, NoPending DEF Leaves
<1>3. Len(todo) \in Nat /\ Len(todo) >= 1 /\ Allocates(todo, Len(mine[p]), Len(want[p]))
  BY <1>0, <1>1, AtIs, SectionAt
<1>4. todo[Len(todo)].do # "wake_object"
  BY <1>3, Last
<1> QED
  BY <1>1, <1>2, <1>4, ListRest

LEMMA ListClear ==
    ASSUME ListInv, UseInv', NEW p \in Procs, Clear(p)
    PROVE  ListInv'
<1>1. /\ stores = <<>> /\ stores' = <<>> /\ todo' = <<>> /\ Cleans(todo, mine[p])
      /\ UNCHANGED <<node, waiter_head, used, torn>>
  BY UseTypes, ClearIs DEF ListInv
<1>2. Leaves
  BY <1>1, NoPending DEF Leaves
<1>3. ~Wakes(todo) /\ ~Wakes(todo')
  BY <1>1, NotWakes DEF Cleans
<1> QED
  BY <1>1, <1>2, <1>3, ListPlain DEF Targets

LEMMA ListUnlock ==
    ASSUME ListInv, UseInv', NEW p \in Procs, Unlock(p)
    PROVE  ListInv'
<1>1. /\ stores = <<>> /\ todo = <<>> /\ stores' = <<>> /\ todo' = <<>>
      /\ UNCHANGED <<node, waiter_head, used, torn>>
  BY DEF Unlock, memory
<1>2. Leaves
  BY <1>1, NoPending DEF Leaves
<1>3. ~Wakes(todo) /\ ~Wakes(todo')
  BY <1>1, NotWakes
<1> QED
  BY <1>1, <1>2, <1>3, ListPlain DEF Targets

LEMMA ListStepReap ==
    ASSUME ListInv, UseInv', NEW p \in Procs, StepReap(p), Still
    PROVE  ListInv'
<1>0. ShapeInv
  BY UseTypes DEF ListInv
<1>1. At(p, "reap") /\ stores' = <<>> /\ todo' \in Seq(CallRecord) /\ Reaps(todo') /\ Reaps(todo)
  BY <1>0, ReapIs
<1>2. /\ stores = <<>> /\ Len(todo) \in Nat /\ Len(todo) >= 1
      /\ UNCHANGED <<node, waiter_head, used, torn, lock, want>>
  BY <1>0, <1>1, AtIs, StillIs
<1>3. Leaves
  BY <1>1, <1>2, NoPending DEF Leaves
<1>4. todo[Len(todo)].do \in {"reap", "node_free"}
  BY <1>1, <1>2, Last
<1>5. todo' = <<>> \/ todo'[Len(todo')].do \in {"reap", "node_free"}
  <2>1. Len(todo') \in Nat /\ (todo' = <<>> <=> Len(todo') = 0)
    BY <1>1, Items
  <2>2. todo' # <<>> => Len(todo') >= 1
    BY <2>1
  <2> QED
    BY <1>1, <2>1, <2>2, Last
<1>6. ~Wakes(todo) /\ ~Wakes(todo')
  BY <1>4, <1>5, NotWakes
<1>7. Targets(used, todo', want'[lock'])
  BY <1>5 DEF Targets
<1> QED
  BY <1>3, <1>6, <1>7, ListPlain

LEMMA ListStepBump ==
    ASSUME ListInv, UseInv', NEW p \in Procs, StepBump(p), Still
    PROVE  ListInv'
<1>0. ShapeInv
  BY UseTypes DEF ListInv
<1>1. At(p, "bump") /\ stores' = <<>> /\ todo' = Rest
  BY DEF StepBump, Do
<1>2. /\ stores = <<>> /\ Len(todo) \in Nat /\ Len(todo) >= 1 /\ Len(Rest) \in Nat /\ IsTail(Rest, todo)
      /\ todo[1].do = "bump" /\ Wakes(todo)
      /\ UNCHANGED <<node, waiter_head, used, torn, lock, want>>
  BY <1>0, <1>1, AtIs, SectionAt, StillIs
<1>3. Leaves
  BY <1>1, <1>2, NoPending DEF Leaves
<1>4. Len(todo) = 2 /\ Len(Rest) = 1 /\ Rest[1] = todo[2] /\ todo[2].do = "wake_object"
  <2>1. Len(todo) # 1 /\ Len(todo) # 3 /\ Len(todo) <= 3
    BY <1>2 DEF Wakes
  <2>0. \A a \in Nat : a >= 1 /\ a # 1 /\ a # 3 /\ a <= 3 => a = 2
    OBVIOUS
  <2>2. Len(todo) = 2
    BY <1>2, <2>0, <2>1, Zenon
  <2>3. Len(Rest) = 1 /\ 1 \in 1 .. Len(Rest) /\ 1 + 1 = 2
    BY <1>2, <2>2 DEF IsTail
  <2>4. Rest[1] = todo[2]
    BY <1>2, <2>3 DEF IsTail
  <2> QED
    BY <1>2, <2>2, <2>3, <2>4 DEF Wakes
<1>5. ASSUME NEW r \in [Nodes -> Nat], Lists(node, waiter_head, used, r)
      PROVE  /\ Walk(node, Rest) /\ Drains(node, waiter_head, used, Rest)
             /\ Targets(used, Rest, want'[lock'])
  <2>1. Walk(node, todo) /\ Drains(node, waiter_head, used, todo)
    BY <1>5 DEF Lists
  <2>2. Walk(node, Rest)
    BY <1>2, <1>4, <2>1 DEF Walk
  <2>3. Wakes(Rest)
    BY <1>4 DEF Wakes
  <2>4. Drains(node, waiter_head, used, Rest)
    BY <1>2, <1>4, <2>1, <2>3 DEF Drains
  <2>5. Targets(used, Rest, want'[lock'])
    BY <1>4 DEF Targets
  <2> QED
    BY <2>2, <2>4, <2>5
<1> QED
  BY <1>1, <1>3, <1>5, ListLeaves

LEMMA ListStepWake ==
    ASSUME ListInv, UseInv', NEW p \in Procs, StepWake(p), Still
    PROVE  ListInv'
<1>0. ShapeInv
  BY UseTypes DEF ListInv
<1>1. PICK n : n = Head(todo).n
  OBVIOUS
<1>2. /\ At(p, "wake_object") /\ n \in Opt /\ stores' = <<>> /\ Wakes(todo) /\ Len(todo) = 1
      /\ n = NIL => todo' = <<>>
      /\ n # NIL => /\ n \in Nodes
                    /\ todo' = <<Call("node_detach", n), Call("bump", node[n].wait_word),
                                 Call("wake_object", node[n].obj_next)>>
  BY <1>0, <1>1, WakeIs
<1>3. /\ Types /\ stores = <<>> /\ todo[1].n = n
      /\ UNCHANGED <<node, waiter_head, used, torn, lock, want>>
  BY <1>0, <1>1, <1>2, AtIs, StillIs
<1>4. Leaves
  BY <1>2, <1>3, NoPending DEF Leaves
<1>5. ASSUME NEW r \in [Nodes -> Nat], Lists(node, waiter_head, used, r)
      PROVE  /\ Walk(node, todo') /\ Drains(node, waiter_head, used, todo')
             /\ Targets(used, todo', want'[lock'])
  <2>1. /\ Linked(node, waiter_head) /\ Rises(node, r) /\ (n # NIL => node[n].registered)
        /\ \A s \in Slots : used[s] \/ waiter_head[s] = NIL \/ waiter_head[s] = n
    BY <1>2, <1>3, <1>5 DEF Lists, Walk, Drains
  <2>2. CASE n = NIL
    <3>1. todo' = <<>>
      BY <1>2, <2>2
    <3>2. ~Wakes(todo')
      BY <3>1, NotWakes
    <3> QED
      BY <2>1, <2>2, <3>1, <3>2 DEF Walk, Drains, Targets
  <2>3. CASE n # NIL
    <3>1. PICK t : t = todo'
      OBVIOUS
    <3>2. PICK w \in Opt, m \in Opt : w = node[n].wait_word /\ m = node[n].obj_next
      BY <1>2, <1>3, <2>3, NodeFields
    <3>3. n \in Nodes /\ t = <<Call("node_detach", n), Call("bump", w), Call("wake_object", m)>>
      BY <1>2, <2>3, <3>1, <3>2
    <3>4. /\ Wakes(t) /\ Len(t) = 3
          /\ t[1] = Call("node_detach", n) /\ t[2] = Call("bump", w) /\ t[3] = Call("wake_object", m)
      BY <3>3, WakePrefix
    <3>5. t[1].n = n /\ t[2].n = w /\ t[3].n = m /\ t[3].do = "wake_object"
      BY <3>4, Calls
    <3>6. w # NIL /\ (m # NIL => m \in Nodes /\ node[m].registered /\ m # n)
      <4>1. w # NIL /\ (m # NIL => m \in Nodes /\ node[m].registered)
        BY <2>1, <2>3, <3>2, <3>3 DEF Linked, Opt
      <4>2. m # NIL => r[n] < r[m]
        BY <2>1, <2>3, <3>2, <3>3 DEF Rises
      <4>3. ~(r[n] < r[n])
        BY <3>3
      <4> QED
        BY <4>1, <4>2, <4>3
    <3>7. Walk(node, t)
      BY <3>4, <3>5, <3>6 DEF Walk
    <3>8. Drains(node, waiter_head, used, t)
      BY <2>1, <3>2, <3>4, <3>5 DEF Drains
    <3>9. Targets(used, t, want'[lock'])
      BY <3>4, <3>5 DEF Targets
    <3> QED
      BY <3>1, <3>7, <3>8, <3>9
  <2> QED
    BY <2>2, <2>3
<1> QED
  BY <1>4, <1>5, ListLeaves

\* node_detach(n) is over: hd[s] # n or the list of s begins after n now.
Passed(n, V, hd, W, gd) ==
    /\ \A m \in Nodes \ {n} : W[m].registered = V[m].registered
    /\ \A s \in Slots : \/ hd[s] # n /\ gd[s] = hd[s]
                        \/ hd[s] = n /\ gd[s] = V[n].obj_next

LEMMA DetachGoesOn ==
    ASSUME ShapeInv, NEW p \in Procs, At(p, "node_detach"), NEW n \in Nodes, n = Head(todo).n,
           NEW V, NEW hd, NEW us, NEW W, NEW gd, Walk(V, todo), Drains(V, hd, us, todo),
           Passed(n, V, hd, W, gd)
    PROVE  Walk(W, Rest) /\ Drains(W, gd, us, Rest)
<1>0. /\ \A m \in Nodes \ {n} : W[m].registered = V[m].registered
      /\ \A s \in Slots : \/ hd[s] # n /\ gd[s] = hd[s]
                          \/ hd[s] = n /\ gd[s] = V[n].obj_next
  BY DEF Passed
<1>1. /\ Types /\ todo \in Seq(CallRecord) /\ Len(todo) \in Nat /\ Len(todo) >= 1 /\ IsTail(Rest, todo) /\ Len(Rest) \in Nat
      /\ Rest \in Seq(CallRecord) /\ todo[1].n = n /\ todo[1].do = "node_detach"
  BY AtIs
<1>2. Detaches(todo) \/ Cleans(todo, mine[p]) \/ Wakes(todo) \/ Reaps(todo)
  BY SectionAt
<1>3. n # NIL
  BY NodeSet
<1>4. CASE ~Wakes(todo)
  <2>1. todo[Len(todo)].do # "wake_object"
    BY <1>1, <1>2, <1>4, Last
  <2>2. Len(Rest) # 0 => Rest[Len(Rest)].do # "wake_object"
    BY <1>1, <2>1, RestLast
  <2>3. ~Wakes(Rest)
    <3>1. Len(Rest) = 0 => ~(Len(Rest) >= 1)
      OBVIOUS
    <3> QED
      BY <2>2, <3>1 DEF Wakes
  <2>4. \A s \in Slots : us[s] \/ hd[s] = NIL
    BY <1>4 DEF Drains
  <2>5. \A s \in Slots : us[s] \/ gd[s] = NIL
    BY <1>0, <1>3, <2>4
  <2> QED
    BY <2>3, <2>5 DEF Walk, Drains
<1>5. CASE Wakes(todo)
  <2>1. Len(todo) = 3
    <3>1. Len(todo) # 1 /\ Len(todo) # 2 /\ Len(todo) <= 3
      BY <1>1, <1>5 DEF Wakes
    <3>2. \A a \in Nat : a >= 1 /\ a # 1 /\ a # 2 /\ a <= 3 => a = 3
      OBVIOUS
    <3> QED
      BY <1>1, <3>1, <3>2, Zenon
  <2>2. Len(Rest) = 2 /\ Rest[1] = todo[2] /\ Rest[2] = todo[3]
    <3>1. Len(Rest) = 2
      BY <1>1, <2>1 DEF IsTail
    <3>2. 1 \in 1 .. Len(Rest) /\ 2 \in 1 .. Len(Rest) /\ 1 + 1 = 2 /\ 2 + 1 = 3
      BY <3>1
    <3> QED
      BY <1>1, <3>1, <3>2 DEF IsTail
  <2>3. Wakes(Rest)
    BY <1>1, <1>5, WakesStep
  <2>4. PICK m : m = todo[3].n
    OBVIOUS
  <2>5. /\ todo[2].n # NIL
        /\ m # NIL => V[m].registered /\ n # m
        /\ \A s \in Slots : us[s] \/ hd[s] = NIL \/ (hd[s] = n /\ V[n].obj_next = m)
    BY <1>1, <1>5, <2>1, <2>4 DEF Walk, Drains
  <2>6. m \in Opt
    <3>1. 3 \in 1 .. Len(todo)
      BY <2>1
    <3>2. todo[3] \in CallRecord /\ todo[3].do = "wake_object"
      BY <1>1, <1>5, <2>1, <3>1, Items DEF Wakes
    <3> QED
      BY <2>4, <3>2, CallFields
  <2>7. m # NIL => W[m].registered
    BY <1>0, <2>5, <2>6 DEF Opt
  <2>8. Walk(W, Rest)
    BY <2>2, <2>4, <2>5, <2>7 DEF Walk
  <2>9. \A s \in Slots : us[s] \/ gd[s] = NIL \/ gd[s] = m
    BY <1>0, <1>3, <2>5
  <2>10. Drains(W, gd, us, Rest)
    BY <2>2, <2>3, <2>4, <2>9 DEF Drains
  <2> QED
    BY <2>8, <2>10
<1> QED
  BY <1>4, <1>5

\* Each pending store is one of them.
LEMMA FivePend ==
    ASSUME Len(stores') = 5
    PROVE  /\ stores'[1] \in Pending' /\ stores'[2] \in Pending' /\ stores'[3] \in Pending' /\ stores'[4] \in Pending'
           /\ stores'[5] \in Pending'
           /\ \A x \in Pending' : x = stores'[1] \/ x = stores'[2] \/ x = stores'[3] \/ x = stores'[4] \/ x = stores'[5]
<1>1. \A x : x \in Pending' <=> \E i \in 1 .. 5 : x = stores'[i]
  BY DEF Pending
<1>2. 1 .. 5 = {1, 2, 3, 4, 5}
  OBVIOUS
<1> QED
  BY <1>1, <1>2, Zenon

LEMMA SixPend ==
    ASSUME Len(stores') = 6
    PROVE  /\ stores'[1] \in Pending' /\ stores'[2] \in Pending' /\ stores'[3] \in Pending' /\ stores'[4] \in Pending'
           /\ stores'[5] \in Pending' /\ stores'[6] \in Pending'
           /\ \A x \in Pending' : \/ x = stores'[1] \/ x = stores'[2] \/ x = stores'[3] \/ x = stores'[4]
                                  \/ x = stores'[5] \/ x = stores'[6]
<1>1. \A x : x \in Pending' <=> \E i \in 1 .. 6 : x = stores'[i]
  BY DEF Pending
<1>2. 1 .. 6 = {1, 2, 3, 4, 5, 6}
  OBVIOUS
<1> QED
  BY <1>1, <1>2, Zenon

LEMMA SevenPend ==
    ASSUME Len(stores') = 7
    PROVE  /\ stores'[1] \in Pending' /\ stores'[2] \in Pending' /\ stores'[3] \in Pending' /\ stores'[4] \in Pending'
           /\ stores'[5] \in Pending' /\ stores'[6] \in Pending' /\ stores'[7] \in Pending'
           /\ \A x \in Pending' : \/ x = stores'[1] \/ x = stores'[2] \/ x = stores'[3] \/ x = stores'[4]
                                  \/ x = stores'[5] \/ x = stores'[6] \/ x = stores'[7]
<1>1. \A x : x \in Pending' <=> \E i \in 1 .. 7 : x = stores'[i]
  BY DEF Pending
<1>2. 1 .. 7 = {1, 2, 3, 4, 5, 6, 7}
  OBVIOUS
<1> QED
  BY <1>1, <1>2, Zenon

LEMMA EightPend ==
    ASSUME Len(stores') = 8
    PROVE  /\ stores'[1] \in Pending' /\ stores'[2] \in Pending' /\ stores'[3] \in Pending' /\ stores'[4] \in Pending'
           /\ stores'[5] \in Pending' /\ stores'[6] \in Pending' /\ stores'[7] \in Pending' /\ stores'[8] \in Pending'
           /\ \A x \in Pending' : \/ x = stores'[1] \/ x = stores'[2] \/ x = stores'[3] \/ x = stores'[4]
                                  \/ x = stores'[5] \/ x = stores'[6] \/ x = stores'[7] \/ x = stores'[8]
<1>1. \A x : x \in Pending' <=> \E i \in 1 .. 8 : x = stores'[i]
  BY DEF Pending
<1>2. 1 .. 8 = {1, 2, 3, 4, 5, 6, 7, 8}
  OBVIOUS
<1> QED
  BY <1>1, <1>2, Zenon

\* What node_detach is to store.
Unlinks(n, b, c, d, e, f) ==
    /\ b = Set(node[n].obj_next, "obj_prev", node[n].obj_prev) /\ c = Set(n, "registered", FALSE)
    /\ d = Set(n, "obj", NIL) /\ e = Set(n, "obj_prev", NIL) /\ f = Set(n, "obj_next", NIL)

LEMMA DetachPending ==
    ASSUME Types, NEW n \in Nodes, node[n].registered, stores' = node_detach(n),
           NEW b, NEW c, NEW d, NEW e, NEW f, Unlinks(n, b, c, d, e, f)
    PROVE  /\ Unlink(n) \in Pending' /\ c \in Pending' /\ d \in Pending' /\ e \in Pending' /\ f \in Pending'
           /\ node[n].obj_next # NIL => b \in Pending'
           /\ \A x \in Pending' : \/ x = Unlink(n) \/ x = c \/ x = d \/ x = e \/ x = f
                                  \/ node[n].obj_next # NIL /\ x = b
<1>1. PICK a, st : a = Unlink(n) /\ st = stores'
  OBVIOUS
<1>2. CASE node[n].obj_next = NIL
  <2>1. st = <<a, c, d, e, f>>
    BY <1>1, <1>2, DetachStores DEF Unlinks
  <2>2. Len(stores') = 5 /\ stores'[1] = a /\ stores'[2] = c /\ stores'[3] = d /\ stores'[4] = e /\ stores'[5] = f
    BY <1>1, <2>1
  <2> HIDE <2>1
  <2>6. a \in Pending' /\ c \in Pending' /\ d \in Pending' /\ e \in Pending' /\ f \in Pending'
    BY <2>2, FivePend, Zenon
  <2>7. \A x \in Pending' : x = a \/ x = c \/ x = d \/ x = e \/ x = f
    BY <2>2, FivePend, Zenon
  <2> QED
    BY <1>1, <1>2, <2>6, <2>7, Zenon
<1>3. CASE node[n].obj_next # NIL
  <2>1. st = <<a, b, c, d, e, f>>
    BY <1>1, <1>3, DetachStores DEF Unlinks
  <2>2. Len(stores') = 6 /\ stores'[1] = a /\ stores'[2] = b /\ stores'[3] = c /\ stores'[4] = d /\ stores'[5] = e /\ stores'[6] = f
    BY <1>1, <2>1
  <2> HIDE <2>1
  <2>6. a \in Pending' /\ b \in Pending' /\ c \in Pending' /\ d \in Pending' /\ e \in Pending' /\ f \in Pending'
    BY <2>2, SixPend, Zenon
  <2>7. \A x \in Pending' : x = a \/ x = b \/ x = c \/ x = d \/ x = e \/ x = f
    BY <2>2, SixPend, Zenon
  <2> QED
    BY <1>1, <1>3, <2>6, <2>7, Zenon
<1> QED
  BY <1>2, <1>3

\* Nodes with given fields.
AreFields(R, O, D, P, X) ==
    /\ R \in [Nodes -> BOOLEAN] /\ O \in [Nodes -> Slots \cup {NIL}]
    /\ D \in [Nodes -> Opt] /\ P \in [Nodes -> Opt] /\ X \in [Nodes -> Opt]

LEMMA MakeNodes ==
    ASSUME Types, NEW R, NEW O, NEW D, NEW P, NEW X, AreFields(R, O, D, P, X)
    PROVE  \E W \in [Nodes -> NodeRecord] : \A m \in Nodes :
             /\ W[m].registered = R[m] /\ W[m].obj = O[m] /\ W[m].wait_word = D[m]
             /\ W[m].obj_prev = P[m] /\ W[m].obj_next = X[m]
<1>0. PICK V \in [Nodes -> NodeRecord] : V = node
  BY DEF Types, TypeOK
<1> DEFINE W == [m \in Nodes |-> [registered |-> R[m], obj |-> O[m], wait_word |-> D[m], obj_prev |-> P[m],
                                  obj_next |-> X[m], waiter_next |-> V[m].waiter_next, pid |-> V[m].pid]]
<1>1. ASSUME NEW m \in Nodes PROVE W[m] \in NodeRecord
  <2>1. /\ R[m] \in BOOLEAN /\ O[m] \in Slots \cup {NIL} /\ D[m] \in Nodes \cup {NIL}
        /\ P[m] \in Nodes \cup {NIL} /\ X[m] \in Nodes \cup {NIL}
    BY DEF Opt, AreFields
  <2>2. V[m].waiter_next \in Nodes \cup {NIL} /\ V[m].pid \in Procs \cup {NoProc}
    BY DEF NodeRecord
  <2> QED
    BY <2>1, <2>2 DEF NodeRecord
<1>2. W \in [Nodes -> NodeRecord]
  BY <1>1
<1>3. \A m \in Nodes : /\ W[m].registered = R[m] /\ W[m].obj = O[m] /\ W[m].wait_word = D[m]
                       /\ W[m].obj_prev = P[m] /\ W[m].obj_next = X[m]
  OBVIOUS
<1> QED
  BY <1>2, <1>3

\* Done, field by field.
Written(W, S) == \A m \in Nodes :
    /\ W[m].registered = node[m].registered \/ Set(m, "registered", W[m].registered) \in S
    /\ W[m].obj = node[m].obj \/ Set(m, "obj", W[m].obj) \in S
    /\ W[m].wait_word = node[m].wait_word \/ Set(m, "wait_word", W[m].wait_word) \in S
    /\ W[m].obj_prev = node[m].obj_prev \/ Set(m, "obj_prev", W[m].obj_prev) \in S
    /\ W[m].obj_next = node[m].obj_next \/ Set(m, "obj_next", W[m].obj_next) \in S

LEMMA WrittenDone ==
    ASSUME NEW W, NEW S, Written(W, S)
    PROVE  \A m \in Nodes : \A f \in ListFields : W[m][f] = node[m][f] \/ Set(m, f, W[m][f]) \in S
  BY DEF Written, ListFields

\* W and gd, when node_detach(n) begins.
LEMMA DetachUnlinks ==
    ASSUME Types, NEW n \in Nodes, node[n].registered, NEW r \in [Nodes -> Nat],
           Linked(node, waiter_head), Rises(node, r)
    PROVE  \E W \in [Nodes -> NodeRecord], gd \in [Slots -> Opt] :
             /\ Unlinked(node, waiter_head, n, W, gd)
             /\ W[n].obj = NIL /\ W[n].obj_prev = NIL /\ W[n].obj_next = NIL
             /\ W[n].wait_word = node[n].wait_word
             /\ node[n].obj_prev # n /\ node[n].obj_next # n
<1>0. node \in [Nodes -> NodeRecord] /\ waiter_head \in [Slots -> Opt]
  BY DEF Types, TypeOK, Opt
<1>1. PICK prev \in Opt, next \in Opt, t \in Slots :
        prev = node[n].obj_prev /\ next = node[n].obj_next /\ t = node[n].obj
  BY NodeFields DEF Linked
<1>2. NIL \notin Nodes /\ \A m \in Opt : m # NIL => m \in Nodes
  BY NodeSet DEF Opt
<1>3. /\ next # NIL => r[n] < r[next]
      /\ prev # NIL => r[prev] < r[n]
  <2>1. prev # NIL => prev \in Nodes /\ node[prev].registered /\ node[prev].obj_next = n
    BY <1>1, <1>2 DEF Linked
  <2> QED
    BY <1>1, <1>2, <2>1 DEF Rises
<1>4. prev # n /\ next # n
  <2>1. r[n] \in Nat /\ ~(r[n] < r[n])
    OBVIOUS
  <2> QED
    BY <1>2, <1>3, <2>1
<1> DEFINE R == [m \in Nodes |-> IF m = n THEN FALSE ELSE node[m].registered]
           O == [m \in Nodes |-> IF m = n THEN NIL ELSE node[m].obj]
           D == [m \in Nodes |-> node[m].wait_word]
           P == [m \in Nodes |-> IF m = n THEN NIL ELSE IF m = next THEN prev ELSE node[m].obj_prev]
           X == [m \in Nodes |-> IF m = n THEN NIL ELSE IF m = prev THEN next ELSE node[m].obj_next]
<1>5. AreFields(R, O, D, P, X)
  <2>1. NIL \in Opt
    BY DEF Opt
  <2>2. \A m \in Nodes : /\ node[m].registered \in BOOLEAN /\ node[m].obj \in Slots \cup {NIL}
                         /\ node[m].wait_word \in Opt /\ node[m].obj_prev \in Opt /\ node[m].obj_next \in Opt
    BY NodeFields
  <2> QED
    BY <2>1, <2>2 DEF AreFields
<1>6. /\ R[n] = FALSE /\ O[n] = NIL /\ P[n] = NIL /\ X[n] = NIL /\ D[n] = node[n].wait_word
      /\ \A m \in Nodes \ {n} : /\ R[m] = node[m].registered /\ O[m] = node[m].obj /\ D[m] = node[m].wait_word
                                /\ m = prev => X[m] = next
                                /\ m # prev => X[m] = node[m].obj_next
                                /\ m = next => P[m] = prev
                                /\ m # next => P[m] = node[m].obj_prev
  OBVIOUS
<1> HIDE DEF R, O, D, P, X
<1>7. PICK W \in [Nodes -> NodeRecord] : \A m \in Nodes :
        /\ W[m].registered = R[m] /\ W[m].obj = O[m] /\ W[m].wait_word = D[m]
        /\ W[m].obj_prev = P[m] /\ W[m].obj_next = X[m]
  BY <1>5, MakeNodes
<1>8. PICK gd \in [Slots -> Opt] : /\ prev = NIL => gd[t] = next
                                   /\ \A s \in Slots : prev # NIL \/ s # t => gd[s] = waiter_head[s]
  <2>1. CASE prev = NIL
    <3> DEFINE g == [waiter_head EXCEPT ![t] = next]
    <3>1. g \in [Slots -> Opt] /\ g[t] = next /\ \A s \in Slots : s # t => g[s] = waiter_head[s]
      BY <1>0
    <3> QED
      BY <2>1, <3>1
  <2>2. CASE prev # NIL
    BY <1>0, <2>2
  <2> QED
    BY <2>1, <2>2
<1>9. Unlinked(node, waiter_head, n, W, gd)
  <2>1. W[n].registered = FALSE
    BY <1>6, <1>7
  <2>2. ASSUME NEW m \in Nodes \ {n}
        PROVE  /\ W[m].registered = node[m].registered /\ W[m].obj = node[m].obj
               /\ W[m].wait_word = node[m].wait_word
               /\ m = prev => W[m].obj_next = next
               /\ m # prev => W[m].obj_next = node[m].obj_next
               /\ m = next => W[m].obj_prev = prev
               /\ m # next => W[m].obj_prev = node[m].obj_prev
    <3>1. /\ R[m] = node[m].registered /\ O[m] = node[m].obj /\ D[m] = node[m].wait_word
          /\ m = prev => X[m] = next
          /\ m # prev => X[m] = node[m].obj_next
          /\ m = next => P[m] = prev
          /\ m # next => P[m] = node[m].obj_prev
      BY <1>6, Zenon
    <3> QED
      BY <1>7, <3>1
  <2> QED
    BY <1>1, <1>8, <2>1, <2>2 DEF Unlinked
<1> QED
  BY <1>1, <1>4, <1>6, <1>7, <1>9

LEMMA DetachDone ==
    ASSUME Types, NEW n \in Nodes, node[n].registered, node[n].obj \in Slots, stores' = node_detach(n),
           UNCHANGED <<node, waiter_head, used>>,
           node[n].obj_prev # n, node[n].obj_next # n,
           NEW W, NEW gd, NEW us, us = used, Unlinked(node, waiter_head, n, W, gd),
           W[n].obj = NIL, W[n].obj_prev = NIL, W[n].obj_next = NIL, W[n].wait_word = node[n].wait_word
    PROVE  Done(W, gd, us)'
<1>1. PICK prev \in Opt, next \in Opt, t \in Slots :
        prev = node[n].obj_prev /\ next = node[n].obj_next /\ t = node[n].obj
  BY NodeFields
<1>2. NIL \notin Nodes /\ NIL \notin Slots /\ \A m \in Opt : m # NIL => m \in Nodes
  BY NodeSet DEF Opt
<1>3. /\ W[n].registered = FALSE
      /\ \A m \in Nodes \ {n} :
           /\ W[m].registered = node[m].registered /\ W[m].obj = node[m].obj
           /\ W[m].wait_word = node[m].wait_word
           /\ m = prev => W[m].obj_next = next
           /\ m # prev => W[m].obj_next = node[m].obj_next
           /\ m = next => W[m].obj_prev = prev
           /\ m # next => W[m].obj_prev = node[m].obj_prev
      /\ prev = NIL => gd[t] = next
      /\ \A s \in Slots : prev # NIL \/ s # t => gd[s] = waiter_head[s]
  BY <1>1 DEF Unlinked
<1>4. PICK no : no = FALSE
  OBVIOUS
<1>5. PICK a, b, c, d, e, f :
        /\ a = Unlink(n) /\ b = Set(next, "obj_prev", prev) /\ c = Set(n, "registered", no)
        /\ d = Set(n, "obj", NIL) /\ e = Set(n, "obj_prev", NIL) /\ f = Set(n, "obj_next", NIL)
  OBVIOUS
<1>6. /\ a \in Pending' /\ c \in Pending' /\ d \in Pending' /\ e \in Pending' /\ f \in Pending'
      /\ next # NIL => b \in Pending'
      /\ \A x \in Pending' : \/ x = a \/ x = c \/ x = d \/ x = e \/ x = f
                             \/ next # NIL /\ x = b
  <2>1. Unlinks(n, b, c, d, e, f)
    BY <1>1, <1>4, <1>5 DEF Unlinks
  <2>2. /\ Unlink(n) \in Pending' /\ c \in Pending' /\ d \in Pending' /\ e \in Pending' /\ f \in Pending'
        /\ node[n].obj_next # NIL => b \in Pending'
        /\ \A x \in Pending' : \/ x = Unlink(n) \/ x = c \/ x = d \/ x = e \/ x = f
                               \/ node[n].obj_next # NIL /\ x = b
    BY <2>1, DetachPending
  <2> QED
    BY <1>1, <1>5, <2>2, Zenon
<1>7. /\ prev = NIL => a = SetHead(t, next)
      /\ prev # NIL => a = Set(prev, "obj_next", next)
  BY <1>1, <1>5 DEF Unlink
<1>8. prev # n /\ next # n /\ W[n].registered = no
  BY <1>1, <1>3, <1>4
<1>9. Written(W, Pending')
  <2>1. ASSUME NEW m \in Nodes, m # n
        PROVE  W[m].obj_prev = node[m].obj_prev \/ Set(m, "obj_prev", W[m].obj_prev) \in Pending'
    BY <1>2, <1>3, <1>5, <1>6, <2>1
  <2>2. ASSUME NEW m \in Nodes, m # n
        PROVE  W[m].obj_next = node[m].obj_next \/ Set(m, "obj_next", W[m].obj_next) \in Pending'
    BY <1>2, <1>3, <1>5, <1>6, <1>7, <2>2
  <2>3. /\ Set(n, "registered", W[n].registered) \in Pending' /\ Set(n, "obj", W[n].obj) \in Pending'
        /\ Set(n, "obj_prev", W[n].obj_prev) \in Pending' /\ Set(n, "obj_next", W[n].obj_next) \in Pending'
    BY <1>5, <1>6, <1>8
  <2> QED
    BY <1>3, <2>1, <2>2, <2>3 DEF Written
<1>10. ASSUME NEW x \in Pending'
       PROVE  /\ x.do = "set" /\ x.field \in ListFields => W[x.n][x.field] = x.v
              /\ x.do = "head" => x.n # NIL /\ gd[x.n] = x.v
              /\ x.do # "used"
  <2>1. CASE x = a
    <3>1. CASE prev = NIL
      <4>1. x.do = "head" /\ x.n = t /\ x.v = next
        BY <1>7, <2>1, <3>1, SetFields
      <4> QED
        BY <1>2, <1>3, <3>1, <4>1
    <3>2. CASE prev # NIL
      <4>1. x.do = "set" /\ x.n = prev /\ x.field = "obj_next" /\ x.v = next
        BY <1>7, <2>1, <3>2, SetFields
      <4>2. W[prev].obj_next = next
        BY <1>2, <1>3, <1>8, <3>2
      <4> QED
        BY <4>1, <4>2
    <3> QED
      BY <3>1, <3>2
  <2>2. CASE x = c
    <3>1. x.do = "set" /\ x.n = n /\ x.field = "registered" /\ x.v = no
      BY <1>5, <2>2, SetFields
    <3> QED
      BY <1>8, <3>1
  <2>3. CASE x = d \/ x = e \/ x = f
    <3>1. x.do = "set" /\ x.n = n /\ x.v = NIL /\ (x.field = "obj" \/ x.field = "obj_prev" \/ x.field = "obj_next")
      BY <1>5, <2>3, SetFields
    <3> QED
      BY <3>1
  <2>4. CASE next # NIL /\ x = b
    <3>1. x.do = "set" /\ x.n = next /\ x.field = "obj_prev" /\ x.v = prev
      BY <1>5, <2>4, SetFields
    <3>2. W[next].obj_prev = prev
      BY <1>2, <1>3, <1>8, <2>4
    <3> QED
      BY <3>1, <3>2
  <2> QED
    BY <1>6, <2>1, <2>2, <2>3, <2>4
<1>11. \A s \in Slots : gd[s] = waiter_head[s] \/ SetHead(s, gd[s]) \in Pending'
  BY <1>3, <1>6, <1>7
<1>12. \A m \in Nodes : \A g \in ListFields : W[m][g] = node[m][g] \/ Set(m, g, W[m][g]) \in Pending'
  BY <1>9, WrittenDone
<1> QED
  BY <1>10, <1>11, <1>12 DEF Done

LEMMA ListStepDetach ==
    ASSUME ListInv, UseInv', NEW p \in Procs, StepDetach(p), Still
    PROVE  ListInv'
<1>0. ShapeInv
  BY UseTypes DEF ListInv
<1>1. PICK n : n = Head(todo).n
  OBVIOUS
<1>2. At(p, "node_detach") /\ stores' = node_detach(n) /\ todo' = Rest
  BY <1>1 DEF StepDetach, Do
<1>3. /\ Types /\ stores = <<>> /\ n \in Nodes /\ todo # <<>> /\ Len(todo) \in Nat /\ Len(Rest) \in Nat /\ IsTail(Rest, todo)
      /\ Rest = <<>> <=> Len(Rest) = 0
  BY <1>0, <1>1, <1>2, AtIs, CallFields
<1>4. UNCHANGED <<node, waiter_head, used, torn, lock, want>>
  BY StillIs
<1>5. \A us : Targets(us, todo, want[lock]) => Targets(us, Rest, want'[lock'])
  <2>1. Rest = <<>> \/ Rest[Len(Rest)] = todo[Len(todo)]
    BY <1>3, RestLast
  <2> QED
    BY <1>3, <1>4, <2>1 DEF Targets
<1>6. CASE ~node[n].registered
  <2>1. stores' = <<>>
    BY <1>2, <1>3, <1>6, DetachStores
  <2>2. Leaves
    BY <1>3, <1>4, <2>1, NoPending DEF Leaves
  <2>3. ASSUME NEW r \in [Nodes -> Nat], Lists(node, waiter_head, used, r)
        PROVE  /\ Walk(node, todo') /\ Drains(node, waiter_head, used, todo')
               /\ Targets(used, todo', want'[lock'])
    <3>1. \A s \in Slots : waiter_head[s] # n
      BY <1>3, <1>6, <2>3, NodeSet DEF Lists, Linked
    <3>2. Walk(node, todo) /\ Drains(node, waiter_head, used, todo) /\ Targets(used, todo, want[lock])
      BY <2>3 DEF Lists
    <3>3. Walk(node, Rest) /\ Drains(node, waiter_head, used, Rest)
      <4>1. Passed(n, node, waiter_head, node, waiter_head)
        BY <3>1 DEF Passed
      <4> QED
        BY <1>0, <1>1, <1>2, <1>3, <3>2, <4>1, DetachGoesOn
    <3> QED
      BY <1>2, <1>5, <3>2, <3>3
  <2> QED
    BY <2>2, <2>3, ListLeaves
<1>7. CASE node[n].registered /\ ~torn
  <2>1. PICK r \in [Nodes -> Nat] : Lists(node, waiter_head, used, r)
    BY <1>3, <1>7, Calm
  <2>2. Linked(node, waiter_head) /\ Rises(node, r) /\ node[n].obj \in Slots
    BY <1>3, <1>7, <2>1 DEF Lists, Linked
  <2>3. PICK W \in [Nodes -> NodeRecord], gd \in [Slots -> Opt] :
          /\ Unlinked(node, waiter_head, n, W, gd)
          /\ W[n].obj = NIL /\ W[n].obj_prev = NIL /\ W[n].obj_next = NIL
          /\ W[n].wait_word = node[n].wait_word
          /\ node[n].obj_prev # n /\ node[n].obj_next # n
    BY <1>3, <1>7, <2>2, DetachUnlinks
  <2>4. PICK us \in [Slots -> BOOLEAN] : us = used
    BY <1>3 DEF Types, TypeOK
  <2>5. Done(W, gd, us)'
    BY <1>2, <1>3, <1>4, <1>7, <2>2, <2>3, <2>4, DetachDone
  <2>6. Linked(W, gd) /\ Rises(W, r)
    <3>1. node \in [Nodes -> NodeRecord] /\ waiter_head \in [Slots -> Opt]
      BY <1>3 DEF Types, TypeOK, Opt
    <3> QED
      BY <1>3, <1>7, <2>2, <2>3, <3>1, UnlinkedSound
  <2>7. ASSUME NEW s \in Slots
        PROVE  \/ waiter_head[s] # n /\ gd[s] = waiter_head[s]
               \/ waiter_head[s] = n /\ gd[s] = node[n].obj_next
    <3>1. CASE waiter_head[s] = n
      <4>1. node[n].obj = s /\ node[n].obj_prev = NIL
        BY <1>3, <2>2, <3>1, NodeSet DEF Linked
      <4> QED
        BY <2>3, <3>1, <4>1 DEF Unlinked
    <3>2. CASE waiter_head[s] # n
      <4>1. node[n].obj_prev # NIL \/ s # node[n].obj
        BY <1>3, <1>7, <2>2, <3>2 DEF Linked
      <4> QED
        BY <2>3, <3>2, <4>1 DEF Unlinked
    <3> QED
      BY <3>1, <3>2
  <2>8. Passed(n, node, waiter_head, W, gd)
    BY <2>3, <2>7 DEF Unlinked, Passed
  <2>9. Walk(node, todo) /\ Drains(node, waiter_head, us, todo) /\ Targets(us, todo, want[lock])
    BY <2>1, <2>4 DEF Lists
  <2>10. Walk(W, Rest) /\ Drains(W, gd, us, Rest)
    BY <1>0, <1>1, <1>2, <1>3, <2>8, <2>9, DetachGoesOn
  <2>11. Lists(W, gd, us, r)'
    BY <1>2, <1>5, <2>6, <2>9, <2>10 DEF Lists
  <2> QED
    BY <2>5, <2>11, Pends
<1> QED
  BY <1>4, <1>6, <1>7 DEF ListInv

\* What node_register is to store.
Inserts(n, s, w, a, b, c, d, e, g, h) ==
    /\ a = Set(n, "registered", TRUE) /\ b = Set(n, "obj", s) /\ c = Set(n, "wait_word", w)
    /\ d = Set(n, "obj_prev", NIL) /\ e = Set(n, "obj_next", waiter_head[s])
    /\ g = Set(waiter_head[s], "obj_prev", n) /\ h = SetHead(s, n)

LEMMA RegisterPending ==
    ASSUME Types, NEW n \in Nodes, NEW s \in Slots, NEW w \in Nodes, stores' = node_register(n, s, w),
           NEW a, NEW b, NEW c, NEW d, NEW e, NEW g, NEW h, Inserts(n, s, w, a, b, c, d, e, g, h)
    PROVE  /\ a \in Pending' /\ b \in Pending' /\ c \in Pending' /\ d \in Pending' /\ e \in Pending' /\ h \in Pending'
           /\ waiter_head[s] # NIL => g \in Pending'
           /\ \A x \in Pending' : \/ x = a \/ x = b \/ x = c \/ x = d \/ x = e \/ x = h
                                  \/ waiter_head[s] # NIL /\ x = g
<1>1. PICK st : st = stores'
  OBVIOUS
<1>2. PICK ns : ns = <<n>>
  OBVIOUS
<1>3. n \in {ns[j] : j \in 1 .. Len(ns)}
  BY <1>2
<1>4. CASE waiter_head[s] = NIL
  <2>1. st = <<a, b, c, d, e, h>>
    BY <1>1, <1>3, <1>4, RegisterStores, ZenonT(30) DEF Inserts
  <2>2. /\ Len(stores') = 6 /\ stores'[1] = a /\ stores'[2] = b /\ stores'[3] = c /\ stores'[4] = d
        /\ stores'[5] = e /\ stores'[6] = h
    BY <1>1, <2>1
  <2> HIDE <2>1
  <2>3. a \in Pending' /\ b \in Pending' /\ c \in Pending' /\ d \in Pending' /\ e \in Pending' /\ h \in Pending'
    BY <2>2, SixPend, Zenon
  <2>4. \A x \in Pending' : x = a \/ x = b \/ x = c \/ x = d \/ x = e \/ x = h
    BY <2>2, SixPend, Zenon
  <2> QED
    BY <1>4, <2>3, <2>4, Zenon
<1>5. CASE waiter_head[s] # NIL
  <2>1. st = <<a, b, c, d, e, g, h>>
    BY <1>1, <1>3, <1>5, RegisterStores DEF Inserts
  <2>2. /\ Len(stores') = 7 /\ stores'[1] = a /\ stores'[2] = b /\ stores'[3] = c /\ stores'[4] = d
        /\ stores'[5] = e /\ stores'[6] = g /\ stores'[7] = h
    BY <1>1, <2>1
  <2> HIDE <2>1
  <2>3. /\ a \in Pending' /\ b \in Pending' /\ c \in Pending' /\ d \in Pending' /\ e \in Pending'
        /\ g \in Pending' /\ h \in Pending'
    BY <2>2, SevenPend, Zenon
  <2>4. \A x \in Pending' : x = a \/ x = b \/ x = c \/ x = d \/ x = e \/ x = g \/ x = h
    BY <2>2, SevenPend, Zenon
  <2> QED
    BY <1>5, <2>3, <2>4, Zenon
<1> QED
  BY <1>4, <1>5

LEMMA RegisterInserts ==
    ASSUME Types, NEW n \in Nodes, NEW s \in Slots, NEW w \in Nodes, ~node[n].registered,
           Linked(node, waiter_head)
    PROVE  \E W \in [Nodes -> NodeRecord], gd \in [Slots -> Opt] :
             Inserted(node, waiter_head, n, s, W, gd) /\ W[n].wait_word = w /\ waiter_head[s] # n
<1>0. waiter_head \in [Slots -> Opt]
  BY DEF Types, TypeOK, Opt
<1>1. PICK old \in Opt : old = waiter_head[s]
  BY <1>0
<1>2. NIL \notin Nodes /\ \A m \in Opt : m # NIL => m \in Nodes
  BY NodeSet DEF Opt
<1>3. old # n
  BY <1>1, <1>2 DEF Linked
<1> DEFINE R == [m \in Nodes |-> IF m = n THEN TRUE ELSE node[m].registered]
           O == [m \in Nodes |-> IF m = n THEN s ELSE node[m].obj]
           D == [m \in Nodes |-> IF m = n THEN w ELSE node[m].wait_word]
           P == [m \in Nodes |-> IF m = n THEN NIL ELSE IF m = old THEN n ELSE node[m].obj_prev]
           X == [m \in Nodes |-> IF m = n THEN old ELSE node[m].obj_next]
<1>4. AreFields(R, O, D, P, X)
  <2>1. NIL \in Opt /\ n \in Opt /\ w \in Opt
    BY DEF Opt
  <2>2. \A m \in Nodes : /\ node[m].registered \in BOOLEAN /\ node[m].obj \in Slots \cup {NIL}
                         /\ node[m].wait_word \in Opt /\ node[m].obj_prev \in Opt /\ node[m].obj_next \in Opt
    BY NodeFields
  <2> QED
    BY <2>1, <2>2 DEF AreFields
<1>5. /\ R[n] = TRUE /\ O[n] = s /\ P[n] = NIL /\ X[n] = old /\ D[n] = w
      /\ \A m \in Nodes \ {n} : /\ R[m] = node[m].registered /\ O[m] = node[m].obj /\ D[m] = node[m].wait_word
                                /\ X[m] = node[m].obj_next
                                /\ m = old => P[m] = n
                                /\ m # old => P[m] = node[m].obj_prev
  OBVIOUS
<1> HIDE DEF R, O, D, P, X
<1>6. PICK W \in [Nodes -> NodeRecord] : \A m \in Nodes :
        /\ W[m].registered = R[m] /\ W[m].obj = O[m] /\ W[m].wait_word = D[m]
        /\ W[m].obj_prev = P[m] /\ W[m].obj_next = X[m]
  BY <1>4, MakeNodes
<1>7. PICK gd \in [Slots -> Opt] : gd[s] = n /\ \A x \in Slots \ {s} : gd[x] = waiter_head[x]
  <2> DEFINE g == [waiter_head EXCEPT ![s] = n]
  <2>1. n \in Opt
    BY DEF Opt
  <2>2. g \in [Slots -> Opt] /\ g[s] = n /\ \A x \in Slots \ {s} : g[x] = waiter_head[x]
    BY <1>0, <2>1
  <2> QED
    BY <2>2
<1>8. Inserted(node, waiter_head, n, s, W, gd)
  <2>1. /\ W[n].registered = TRUE /\ W[n].obj = s /\ W[n].wait_word # NIL
        /\ W[n].obj_prev = NIL /\ W[n].obj_next = old
    BY <1>2, <1>5, <1>6
  <2>2. ASSUME NEW m \in Nodes \ {n}
        PROVE  /\ W[m].registered = node[m].registered /\ W[m].obj = node[m].obj
               /\ W[m].wait_word = node[m].wait_word /\ W[m].obj_next = node[m].obj_next
               /\ m = old => W[m].obj_prev = n
               /\ m # old => W[m].obj_prev = node[m].obj_prev
    <3>1. /\ R[m] = node[m].registered /\ O[m] = node[m].obj /\ D[m] = node[m].wait_word
          /\ X[m] = node[m].obj_next
          /\ m = old => P[m] = n
          /\ m # old => P[m] = node[m].obj_prev
      BY <1>5, Zenon
    <3> QED
      BY <1>6, <3>1
  <2> QED
    BY <1>1, <1>7, <2>1, <2>2 DEF Inserted
<1> QED
  BY <1>1, <1>3, <1>5, <1>6, <1>8

LEMMA RegisterDone ==
    ASSUME Types, NEW n \in Nodes, NEW s \in Slots, NEW w \in Nodes, stores' = node_register(n, s, w),
           UNCHANGED <<node, waiter_head, used>>, waiter_head[s] # n,
           NEW W, NEW gd, NEW us, us = used, Inserted(node, waiter_head, n, s, W, gd), W[n].wait_word = w
    PROVE  Done(W, gd, us)'
<1>1. PICK old \in Opt : old = waiter_head[s]
  BY DEF Types, TypeOK, Opt
<1>2. NIL \notin Nodes /\ NIL \notin Slots /\ \A m \in Opt : m # NIL => m \in Nodes
  BY NodeSet DEF Opt
<1>3. /\ W[n].registered = TRUE /\ W[n].obj = s /\ W[n].obj_prev = NIL /\ W[n].obj_next = old
      /\ \A m \in Nodes \ {n} :
           /\ W[m].registered = node[m].registered /\ W[m].obj = node[m].obj
           /\ W[m].wait_word = node[m].wait_word /\ W[m].obj_next = node[m].obj_next
           /\ m = old => W[m].obj_prev = n
           /\ m # old => W[m].obj_prev = node[m].obj_prev
      /\ gd[s] = n /\ \A x \in Slots \ {s} : gd[x] = waiter_head[x]
  BY <1>1 DEF Inserted
<1>4. PICK yes : yes = TRUE
  OBVIOUS
<1>5. PICK a, b, c, d, e, g, h :
        /\ a = Set(n, "registered", yes) /\ b = Set(n, "obj", s) /\ c = Set(n, "wait_word", w)
        /\ d = Set(n, "obj_prev", NIL) /\ e = Set(n, "obj_next", old)
        /\ g = Set(old, "obj_prev", n) /\ h = SetHead(s, n)
  OBVIOUS
<1>6. /\ a \in Pending' /\ b \in Pending' /\ c \in Pending' /\ d \in Pending' /\ e \in Pending' /\ h \in Pending'
      /\ old # NIL => g \in Pending'
      /\ \A x \in Pending' : \/ x = a \/ x = b \/ x = c \/ x = d \/ x = e \/ x = h
                             \/ old # NIL /\ x = g
  <2>1. Inserts(n, s, w, a, b, c, d, e, g, h)
    BY <1>1, <1>4, <1>5 DEF Inserts
  <2>2. /\ a \in Pending' /\ b \in Pending' /\ c \in Pending' /\ d \in Pending' /\ e \in Pending' /\ h \in Pending'
        /\ waiter_head[s] # NIL => g \in Pending'
        /\ \A x \in Pending' : \/ x = a \/ x = b \/ x = c \/ x = d \/ x = e \/ x = h
                               \/ waiter_head[s] # NIL /\ x = g
    BY <2>1, RegisterPending
  <2> QED
    BY <1>1, <2>2, Zenon
<1>7. old # n /\ W[n].registered = yes
  BY <1>1, <1>3, <1>4
<1>8. Written(W, Pending')
  <2>1. ASSUME NEW m \in Nodes, m # n
        PROVE  W[m].obj_prev = node[m].obj_prev \/ Set(m, "obj_prev", W[m].obj_prev) \in Pending'
    BY <1>2, <1>3, <1>5, <1>6, <2>1
  <2>2. /\ Set(n, "registered", W[n].registered) \in Pending' /\ Set(n, "obj", W[n].obj) \in Pending'
        /\ Set(n, "wait_word", W[n].wait_word) \in Pending'
        /\ Set(n, "obj_prev", W[n].obj_prev) \in Pending' /\ Set(n, "obj_next", W[n].obj_next) \in Pending'
    BY <1>3, <1>5, <1>6, <1>7
  <2> QED
    BY <1>3, <2>1, <2>2 DEF Written
<1>9. ASSUME NEW x \in Pending'
      PROVE  /\ x.do = "set" /\ x.field \in ListFields => W[x.n][x.field] = x.v
             /\ x.do = "head" => x.n # NIL /\ gd[x.n] = x.v
             /\ x.do # "used"
  <2>1. CASE x = a
    <3>1. x.do = "set" /\ x.n = n /\ x.field = "registered" /\ x.v = yes
      BY <1>5, <2>1, SetFields
    <3> QED
      BY <1>7, <3>1
  <2>2. CASE x = b \/ x = c \/ x = d \/ x = e
    <3>1. /\ x.do = "set" /\ x.n = n
          /\ \/ x.field = "obj" /\ x.v = s
             \/ x.field = "wait_word" /\ x.v = w
             \/ x.field = "obj_prev" /\ x.v = NIL
             \/ x.field = "obj_next" /\ x.v = old
      BY <1>5, <2>2, SetFields
    <3> QED
      BY <1>3, <3>1
  <2>3. CASE x = h
    <3>1. x.do = "head" /\ x.n = s /\ x.v = n
      BY <1>5, <2>3, SetFields
    <3> QED
      BY <1>2, <1>3, <3>1
  <2>4. CASE old # NIL /\ x = g
    <3>1. x.do = "set" /\ x.n = old /\ x.field = "obj_prev" /\ x.v = n
      BY <1>5, <2>4, SetFields
    <3>2. W[old].obj_prev = n
      BY <1>2, <1>3, <1>7, <2>4
    <3> QED
      BY <3>1, <3>2
  <2> QED
    BY <1>6, <2>1, <2>2, <2>3, <2>4
<1>10. \A x \in Slots : gd[x] = waiter_head[x] \/ SetHead(x, gd[x]) \in Pending'
  BY <1>3, <1>5, <1>6
<1>11. \A m \in Nodes : \A f \in ListFields : W[m][f] = node[m][f] \/ Set(m, f, W[m][f]) \in Pending'
  BY <1>8, WrittenDone
<1> QED
  BY <1>9, <1>10, <1>11 DEF Done

LEMMA ListStepRegister ==
    ASSUME ListInv, UseInv', NEW p \in Procs, StepRegister(p), Still
    PROVE  ListInv'
<1>0. ShapeInv /\ Types
  BY UseTypes DEF ListInv
<1>1. At(p, "register") /\ Unlisted(p) # {} /\ stores' = RegisterNext(p) /\ todo' = todo
  BY DEF StepRegister, Do
<1>2. lock = p /\ stores = <<>> /\ Len(todo) = 1 /\ todo[1].do = "register" /\ todo # <<>>
  BY <1>0, <1>1, AtIs, RegisterIs
<1>3. UNCHANGED <<node, waiter_head, used, torn, lock, want>>
  BY StillIs
<1> SUFFICES ASSUME ~torn PROVE ListInv'
  BY <1>3 DEF ListInv
<1>4. PICK i \in 1 .. Len(mine[p]) :
        /\ ~node[mine[p][i]].registered
        /\ mine[p][i] \in Nodes /\ want[p][i] \in Slots /\ mine[p][1] \in Nodes
        /\ i \in 1 .. Len(want[p])
        /\ RegisterNext(p) = node_register(mine[p][i], want[p][i], mine[p][1])
  BY <1>0, <1>1, RegisterNextIs
<1>5. PICK n \in Nodes, s \in Slots, w \in Nodes : n = mine[p][i] /\ s = want[p][i] /\ w = mine[p][1]
  BY <1>4
<1>6. ~node[n].registered /\ stores' = node_register(n, s, w)
  BY <1>1, <1>4, <1>5
<1>7. PICK r \in [Nodes -> Nat] : Lists(node, waiter_head, used, r)
  BY <1>2, Calm
<1>8. PICK us \in [Slots -> BOOLEAN] : us = used
  BY <1>0 DEF Types, TypeOK
<1>9. Linked(node, waiter_head) /\ Rises(node, r) /\ Drains(node, waiter_head, us, todo) /\ Targets(us, todo, want[lock])
  BY <1>7, <1>8 DEF Lists
<1>10. ~Wakes(todo)
  BY <1>2, NotWakes
<1>11. us[s]
  BY <1>2, <1>4, <1>5, <1>9 DEF Targets
<1>12. PICK W \in [Nodes -> NodeRecord], gd \in [Slots -> Opt] :
         Inserted(node, waiter_head, n, s, W, gd) /\ W[n].wait_word = w /\ waiter_head[s] # n
  BY <1>0, <1>6, <1>9, RegisterInserts
<1>13. Done(W, gd, us)'
  BY <1>0, <1>3, <1>6, <1>8, <1>12, RegisterDone
<1>14. PICK q \in [Nodes -> Nat] : Linked(W, gd) /\ Rises(W, q)
  <2>1. node \in [Nodes -> NodeRecord] /\ waiter_head \in [Slots -> Opt]
    BY <1>0 DEF Types, TypeOK, Opt
  <2> QED
    BY <1>6, <1>9, <1>12, <2>1, InsertedSound
<1>15. Drains(W, gd, us, todo)
  <2>1. \A x \in Slots \ {s} : gd[x] = waiter_head[x]
    BY <1>12 DEF Inserted
  <2> QED
    BY <1>9, <1>10, <1>11, <2>1 DEF Drains
<1>16. Lists(W, gd, us, q)'
  BY <1>1, <1>3, <1>9, <1>10, <1>14, <1>15 DEF Lists, Walk
<1> QED
  BY <1>13, <1>16, Pends

\* node_alloc hands out a node that is on no list.
LEMMA NextUnlisted ==
    ASSUME UseInv, ~Exhausted, NextNode \in Nodes
    PROVE  ~node[NextNode].registered
<1>1. CASE node_free_head # NIL
  <2>1. PICK F \in SUBSET Nodes, r \in [Nodes -> Int] : FreeChain(F, r)
    BY DEF UseInv
  <2>2. NextNode \in F
    BY <1>1, <2>1 DEF FreeChain, NextNode
  <2> QED
    BY <2>1, <2>2 DEF FreeChain
<1>2. CASE node_free_head = NIL
  <2>1. NextNode = node_fresh /\ node_fresh \in Int
    BY <1>2, UseTypes DEF NextNode
  <2>2. ~(node_fresh < node_fresh)
    BY <2>1
  <2>3. \A n \in Nodes : node[n].registered => n < node_fresh
    BY DEF UseInv, OwnOK
  <2> QED
    BY <2>1, <2>2, <2>3, Zenon
<1> QED
  BY <1>1, <1>2

LEMMA AllocDone ==
    ASSUME Types, ~Exhausted, NEW p \in Procs, stores' = node_alloc(p), UNCHANGED <<node, waiter_head, used>>,
           NEW n \in Nodes, n = NextNode, NEW W, NEW hd, NEW us, hd = waiter_head, us = used,
           W[n] = Untouched, \A m \in Nodes \ {n} : W[m] = node[m]
    PROVE  Done(W, hd, us)'
<1>1. PICK no : no = FALSE
  OBVIOUS
<1>2. /\ W[n].registered = no /\ W[n].obj = NIL /\ W[n].wait_word = NIL /\ W[n].obj_prev = NIL /\ W[n].obj_next = NIL
  <2>1. W[n].registered = FALSE
    BY DEF Untouched
  <2>2. W[n].obj = NIL /\ W[n].wait_word = NIL /\ W[n].obj_prev = NIL /\ W[n].obj_next = NIL
    BY DEF Untouched
  <2> QED
    BY <1>1, <2>1, <2>2
<1>3. PICK a, b, c, d, e, f, g, h :
        /\ a = stores'[1] /\ b = Set(n, "registered", no) /\ c = Set(n, "obj", NIL) /\ d = Set(n, "wait_word", NIL)
        /\ e = Set(n, "obj_prev", NIL) /\ f = Set(n, "obj_next", NIL) /\ g = Set(n, "waiter_next", NIL)
        /\ h = Set(n, "pid", p)
  OBVIOUS
<1>4. /\ Len(stores') = 8 /\ stores'[1] = a /\ stores'[2] = b /\ stores'[3] = c /\ stores'[4] = d
      /\ stores'[5] = e /\ stores'[6] = f /\ stores'[7] = g /\ stores'[8] = h
  <2>1. /\ Len(stores') = 8 /\ stores'[2] = Set(n, "registered", FALSE) /\ stores'[3] = Set(n, "obj", NIL)
        /\ stores'[4] = Set(n, "wait_word", NIL) /\ stores'[5] = Set(n, "obj_prev", NIL)
        /\ stores'[6] = Set(n, "obj_next", NIL) /\ stores'[7] = Set(n, "waiter_next", NIL)
        /\ stores'[8] = Set(n, "pid", p)
    BY AllocStores
  <2> QED
    BY <1>1, <1>3, <2>1
<1>5. a.do = "free_head" \/ a.do = "fresh"
  <2>1. stores'[1] \in {SetFree(node[n].waiter_next), SetFresh(n + 1)}
    BY AllocStores
  <2> QED
    BY <1>3, <2>1, SetFields
<1>6. b \in Pending' /\ c \in Pending' /\ d \in Pending' /\ e \in Pending' /\ f \in Pending'
  BY <1>4, EightPend, Zenon
<1>7. \A x \in Pending' : x = a \/ x = b \/ x = c \/ x = d \/ x = e \/ x = f \/ x = g \/ x = h
  BY <1>4, EightPend, Zenon
<1>8. Written(W, Pending')
  BY <1>2, <1>3, <1>6 DEF Written
<1>9. ASSUME NEW x \in Pending'
      PROVE  /\ x.do = "set" /\ x.field \in ListFields => W[x.n][x.field] = x.v
             /\ x.do # "head" /\ x.do # "used"
  <2>1. CASE x = a
    BY <1>5, <2>1
  <2>2. CASE x = b
    <3>1. x.do = "set" /\ x.n = n /\ x.field = "registered" /\ x.v = no
      BY <1>3, <2>2, SetFields
    <3> QED
      BY <1>2, <3>1
  <2>3. CASE x = c \/ x = d \/ x = e \/ x = f
    <3>1. /\ x.do = "set" /\ x.n = n /\ x.v = NIL
          /\ x.field = "obj" \/ x.field = "wait_word" \/ x.field = "obj_prev" \/ x.field = "obj_next"
      BY <1>3, <2>3, SetFields
    <3> QED
      BY <1>2, <3>1
  <2>4. CASE x = g \/ x = h
    <3>1. x.do = "set" /\ (x.field = "waiter_next" \/ x.field = "pid")
      BY <1>3, <2>4, SetFields
    <3> QED
      BY <3>1 DEF ListFields
  <2> QED
    BY <1>7, <2>1, <2>2, <2>3, <2>4
<1>10. \A m \in Nodes : \A x \in ListFields : W[m][x] = node[m][x] \/ Set(m, x, W[m][x]) \in Pending'
  BY <1>8, WrittenDone
<1> QED
  BY <1>9, <1>10 DEF Done

LEMMA ListAlloc ==
    ASSUME ListInv, UseInv', NEW p \in Procs, Alloc(p)
    PROVE  ListInv'
<1>0. ShapeInv /\ Types /\ UseInv /\ mine[p] \in Seq(Nodes)
  BY UseTypes DEF ListInv
<1>1. At(p, "node_alloc") /\ lock = p /\ Still /\ Allocates(todo, Len(mine[p]), Len(want[p]))
  BY <1>0, AllocIs
<1>2. stores = <<>> /\ todo # <<>> /\ Len(todo) \in Nat /\ UNCHANGED <<node, waiter_head, used, torn, lock, want>>
  BY <1>0, <1>1, AtIs, StillIs
<1>3. todo[Len(todo)].do = "register"
  BY <1>1 DEF Allocates
<1>4. ~Wakes(todo)
  BY <1>3, NotWakes
<1>5. CASE Exhausted
  <2>1. stores' = <<>> /\ todo' = CleanSeq(mine[p], p)
    BY <1>0, <1>5, AllocIs
  <2>2. Cleans(todo', mine[p])
    BY <1>0, <2>1, CleanCalls
  <2>3. todo'[Len(todo')].do = "clear"
    BY <2>2 DEF Cleans
  <2>4. Leaves
    BY <1>2, <2>1, NoPending DEF Leaves
  <2> QED
    BY <1>4, <2>3, <2>4, NotWakes, ListPlain DEF Targets
<1>6. CASE ~Exhausted /\ ~torn
  <2>1. /\ stores' = node_alloc(p) /\ NextNode \in Nodes /\ todo' \in Seq(CallRecord)
        /\ Allocates(todo', Len(mine[p]), Len(want[p]))
    BY <1>0, <1>6, AllocIs
  <2>2. PICK n \in Nodes : n = NextNode
    BY <2>1
  <2>3. ~node[n].registered
    BY <1>0, <1>6, <2>2, NextUnlisted
  <2>4. todo'[Len(todo')].do = "register"
    BY <2>1 DEF Allocates
  <2>5. ~Wakes(todo')
    BY <2>4, NotWakes
  <2>6. PICK V \in [Nodes -> NodeRecord], hd \in [Slots -> Opt], us \in [Slots -> BOOLEAN] :
          V = node /\ hd = waiter_head /\ us = used
    <3>1. node \in [Nodes -> NodeRecord] /\ waiter_head \in [Slots -> Opt] /\ used \in [Slots -> BOOLEAN]
      BY <1>0 DEF Types, TypeOK, Opt
    <3> QED
      BY <3>1, Zenon
  <2>7. PICK r \in [Nodes -> Nat] : Lists(V, hd, us, r)
    BY <1>2, <1>6, <2>6, Calm
  <2>8. PICK W \in [Nodes -> NodeRecord] : W[n] = Untouched /\ \A m \in Nodes \ {n} : W[m] = V[m]
    <3> DEFINE w == [m \in Nodes |-> IF m = n THEN Untouched ELSE V[m]]
    <3>1. Untouched \in NodeRecord
      BY DEF Untouched, NodeRecord
    <3>2. w \in [Nodes -> NodeRecord]
      BY <3>1
    <3>3. w[n] = Untouched /\ \A m \in Nodes \ {n} : w[m] = V[m]
      OBVIOUS
    <3> QED
      BY <3>2, <3>3
  <2>9. Done(W, hd, us)'
    BY <1>0, <1>2, <1>6, <2>1, <2>2, <2>6, <2>8, AllocDone
  <2>10. W[n].registered = FALSE /\ ~V[n].registered
    BY <2>3, <2>6, <2>8 DEF Untouched
  <2>11. Linked(W, hd) /\ Rises(W, r)
    BY <2>7, <2>8, <2>10, ClearedSound DEF Lists
  <2>12. Drains(W, hd, us, todo')
    BY <1>4, <2>7 DEF Lists, Drains
  <2>13. Targets(us, todo', want'[lock'])
    BY <1>2, <1>3, <2>7 DEF Lists, Targets
  <2>14. Lists(W, hd, us, r)'
    BY <2>5, <2>11, <2>12, <2>13 DEF Lists, Walk
  <2> QED
    BY <2>9, <2>14, Pends
<1> QED
  BY <1>2, <1>5, <1>6 DEF ListInv

LEMMA ListStep ==
    ASSUME ListInv, UseInv', NEW p \in Procs, Step(p)
    PROVE  ListInv'
<1>1. Still
  BY StepIs
<1>2. \/ StepDetach(p) \/ StepFree(p) \/ StepWake(p) \/ StepBump(p) \/ StepReap(p)
      \/ StepRegister(p) \/ StepListed(p)
  BY StepIs
<1> QED
  BY <1>1, <1>2, ListStepDetach, ListStepFree, ListStepWake, ListStepBump, ListStepReap, ListStepRegister,
     ListStepListed

LEMMA ListInit == Init => ListInv
<1> SUFFICES ASSUME Init PROVE ListInv
  OBVIOUS
<1>1. UseInv /\ Types
  BY UseInit, UseTypes
<1>2. /\ todo = <<>> /\ (\A s \in Slots : waiter_head[s] = NIL)
      /\ \A n \in Nodes : node[n].registered = FALSE
  BY DEF Init, Untouched
<1>3. PICK V \in [Nodes -> NodeRecord], hd \in [Slots -> Opt], us \in [Slots -> BOOLEAN] :
        V = node /\ hd = waiter_head /\ us = used
  <2>1. node \in [Nodes -> NodeRecord] /\ waiter_head \in [Slots -> Opt] /\ used \in [Slots -> BOOLEAN]
    BY <1>1 DEF Types, TypeOK, Opt
  <2> QED
    BY <2>1, Zenon
<1>4. PICK r \in [Nodes -> Nat] : TRUE
  <2>1. [n \in Nodes |-> 0] \in [Nodes -> Nat]
    OBVIOUS
  <2> QED
    BY <2>1, Zenon
<1>5. Done(V, hd, us)
  <2>1. stores = <<>>
    BY DEF Init
  <2>2. 1 .. Len(stores) = {}
    BY <2>1
  <2>3. Pending = {}
    BY <2>2 DEF Pending
  <2> QED
    BY <1>3, <2>3 DEF Done
<1>6. Linked(V, hd) /\ Rises(V, r)
  BY <1>2, <1>3 DEF Linked, Rises
<1>7. ~Wakes(todo)
  BY <1>2, NotWakes
<1>8. Walk(V, todo) /\ Drains(V, hd, us, todo) /\ Targets(us, todo, want[lock])
  BY <1>2, <1>3, <1>7 DEF Walk, Drains, Targets
<1>9. Lists(V, hd, us, r)
  BY <1>6, <1>8 DEF Lists
<1> QED
  BY <1>1, <1>5, <1>9 DEF ListInv

LEMMA ListStutter == ListInv /\ UNCHANGED vars => ListInv'
<1> SUFFICES ASSUME ListInv, UNCHANGED vars PROVE ListInv'
  OBVIOUS
<1>1. UNCHANGED <<node, waiter_head, used, lock, stores, todo, want, torn>>
  BY DEF vars, memory
<1>2. UseInv'
  BY UseStutter DEF ListInv
<1> SUFFICES ASSUME ~torn PROVE ListInv'
  BY <1>1, <1>2 DEF ListInv
<1>3. PICK V \in [Nodes -> NodeRecord], hd \in [Slots -> Opt], us \in [Slots -> BOOLEAN] :
        Done(V, hd, us) /\ \E r \in [Nodes -> Nat] : Lists(V, hd, us, r)
  BY DEF ListInv
<1>4. PICK r \in [Nodes -> Nat] : Lists(V, hd, us, r)
  BY <1>3
<1>5. Done(V, hd, us)'
  BY <1>1, <1>3 DEF Done, Pending
<1>6. Lists(V, hd, us, r)'
  BY <1>1, <1>4 DEF Lists
<1> QED
  BY <1>2, <1>5, <1>6, Pends

LEMMA ListNext == ListInv /\ [Next]_vars => ListInv'
<1> SUFFICES ASSUME ListInv, [Next]_vars PROVE ListInv'
  OBVIOUS
<1>0. UseInv'
  BY UseNext DEF ListInv
<1>1. CASE UNCHANGED vars
  BY <1>1, ListStutter
<1>2. ASSUME NEW p \in Procs, Block(p) \/ Again(p) \/ Detach(p) \/ Cleanup(p)
      PROVE  ListInv'
  BY <1>0, <1>2, ListBlock, ListAgain, ListDetach, ListCleanup
<1>3. ASSUME NEW p \in Signalers, Signal(p) \/ close(p) \/ create(p) \/ sweep_dead(p)
      PROVE  ListInv'
  <2>1. p \in Procs
    BY NodeListAssumption
  <2> QED
    BY <1>0, <1>3, <2>1, ListSignal, ListClose, ListCreate, ListSweep
<1>4. ASSUME NEW p \in Procs, Work(p) \/ Die(p)
      PROVE  ListInv'
  BY <1>0, <1>4, ListStore, ListStep, ListAlloc, ListPush, ListClear, ListUnlock, ListGone DEF Work, Die, Fault
<1> QED
  BY <1>1, <1>2, <1>3, <1>4 DEF Next

-----------------------------------------------------------------------------
\* As long as nobody has died inside a critical section, node_detach never
\* writes through slot_ptr(NIL), since what is registered has its object, and
\* wake_object never bumps the seq of node NIL, since what is registered has
\* its word and the word is read before the node is detached.
THEOREM PointersStayInside == Spec => []NoWildPointer
<1>1. ASSUME ListInv PROVE NoWildPointer
  <2> SUFFICES ASSUME ~torn, NEW p \in Procs, Wild(p) PROVE FALSE
    BY DEF NoWildPointer
  <2>1. PICK V \in [Nodes -> NodeRecord], hd \in [Slots -> Opt], us \in [Slots -> BOOLEAN] :
          Done(V, hd, us) /\ \E r \in [Nodes -> Nat] : Lists(V, hd, us, r)
    BY <1>1 DEF ListInv
  <2>2. UseInv /\ ShapeInv /\ Types
    BY <1>1, UseTypes DEF ListInv
  <2>3. CASE stores # <<>> /\ Head(stores).do = "head" /\ Head(stores).n = NIL
    <3>1. Len(stores) \in Nat /\ Len(stores) >= 1 /\ Head(stores) = stores[1]
      BY <2>2, <2>3, TailItems DEF Types
    <3>2. Head(stores) \in Pending
      BY <3>1 DEF Pending
    <3> QED
      BY <2>1, <2>3, <3>2 DEF Done
  <2>4. CASE At(p, "bump") /\ Head(todo).n = NIL
    <3>1. /\ Len(todo) \in Nat /\ Len(todo) >= 1 /\ Head(todo) = todo[1] /\ todo[1].do = "bump" /\ Wakes(todo)
      BY <2>2, <2>4, AtIs, SectionAt
    <3>2. Len(todo) = 2
      <4>1. Len(todo) # 1 /\ Len(todo) # 3 /\ Len(todo) <= 3
        BY <3>1 DEF Wakes
      <4>2. \A a \in Nat : a >= 1 /\ a # 1 /\ a # 3 /\ a <= 3 => a = 2
        OBVIOUS
      <4> QED
        BY <3>1, <4>1, <4>2, Zenon
    <3>3. Walk(V, todo)
      BY <2>1 DEF Lists
    <3>4. todo[1].n # NIL
      BY <3>1, <3>2, <3>3 DEF Walk
    <3> QED
      BY <2>4, <3>1, <3>4
  <2> QED
    BY <2>3, <2>4 DEF Wild
<1> QED
  BY ListInit, ListNext, <1>1, PTL DEF Spec

-----------------------------------------------------------------------------
(* A list along which something rises ends, and one linked both ways has all. *)

LEMMA StaysNil ==
    ASSUME NEW a, NEW n, NEW link, Follows(a, n, link, NodeCount),
           NEW i \in 0 .. NodeCount, NEW j \in 0 .. NodeCount, i <= j, a[i] = NIL
    PROVE  a[j] = NIL
<1> DEFINE S == {k \in Nat : k \in 0 .. NodeCount /\ i <= k /\ a[k] # NIL}
<1> SUFFICES ASSUME S # {} PROVE FALSE
  OBVIOUS
<1>1. PICK x \in S : \A y \in S : x <= y
  BY LeastExists
<1>2. x # i
  OBVIOUS
<1>3. x \in 1 .. NodeCount /\ x - 1 \in Nat /\ x - 1 \in 0 .. NodeCount /\ i <= x - 1 /\ ~(x <= x - 1)
  BY <1>2, NodeSet
<1>4. a[x - 1] = NIL
  BY <1>1, <1>3
<1> QED
  BY <1>3, <1>4 DEF Follows

\* F is closed under the link and r rises along it.
Climbs(F, r, link) == \A m \in F :
    /\ node[m][link] \in F \cup {NIL}
    /\ node[m][link] # NIL => r[m] < r[node[m][link]]

LEMMA ChainEnds ==
    ASSUME Types, NEW n \in Opt, NEW link \in {"obj_next", "waiter_next"}, NEW F \in SUBSET Nodes,
           NEW r \in [Nodes -> Int], n \in F \cup {NIL}, Climbs(F, r, link)
    PROVE  Ends(n, link)
<1> DEFINE a == Along(n, link)
<1>1. Follows(a, n, link, NodeCount) /\ NodeCount \in Nat
  BY AlongIs, NodeSet
<1>2. a[NodeCount] = NIL <=> Ends(n, link)
  BY DEF Ends
<1> HIDE DEF a
<1> SUFFICES ASSUME a[NodeCount] # NIL PROVE FALSE
  BY <1>2
<1>3. ASSUME NEW k \in 0 .. NodeCount PROVE a[k] # NIL
  BY <1>1, StaysNil
<1>4. \A k \in 0 .. NodeCount : a[k] \in F
  <2> DEFINE S == {k \in Nat : k \in 0 .. NodeCount /\ a[k] \notin F}
  <2>1. S = {}
    <3> SUFFICES ASSUME S # {} PROVE FALSE
      OBVIOUS
    <3>1. PICK x \in S : \A y \in S : x <= y
      BY LeastExists
    <3>2. x # 0
      BY <1>1, <1>3 DEF Follows
    <3>3. x \in 1 .. NodeCount /\ x - 1 \in Nat /\ x - 1 \in 0 .. NodeCount /\ ~(x <= x - 1)
      BY <1>1, <3>2
    <3>4. a[x - 1] \in F
      BY <3>1, <3>3
    <3>5. a[x] = node[a[x - 1]][link]
      BY <1>1, <1>3, <3>3 DEF Follows
    <3> QED
      BY <1>3, <3>4, <3>5 DEF Climbs
  <2>2. \A k \in 0 .. NodeCount : k \in Nat
    OBVIOUS
  <2> QED
    BY <2>1, <2>2
<1>5. ASSUME NEW k \in 1 .. NodeCount PROVE r[a[k - 1]] < r[a[k]]
  <2>1. k \in 0 .. NodeCount /\ k - 1 \in 0 .. NodeCount
    BY <1>1
  <2>2. a[k] = node[a[k - 1]][link]
    BY <1>1, <1>3, <2>1 DEF Follows
  <2>3. a[k - 1] \in F /\ a[k] # NIL
    BY <1>3, <1>4, <2>1
  <2> QED
    BY <2>2, <2>3 DEF Climbs
<1>6. ASSUME NEW i \in 0 .. NodeCount, NEW j \in 0 .. NodeCount, i < j PROVE r[a[i]] < r[a[j]]
  <2> DEFINE S == {k \in Nat : k \in 0 .. NodeCount /\ i < k /\ ~(r[a[i]] < r[a[k]])}
  <2>1. S = {}
    <3> SUFFICES ASSUME S # {} PROVE FALSE
      OBVIOUS
    <3>1. PICK x \in S : \A y \in S : x <= y
      BY LeastExists
    <3>2. x \in 1 .. NodeCount /\ x - 1 \in Nat /\ x - 1 \in 0 .. NodeCount /\ ~(x <= x - 1)
          /\ (x - 1 = i \/ i < x - 1) /\ ~(r[a[i]] < r[a[x]])
      BY <1>1
    <3>3. r[a[x - 1]] < r[a[x]]
      BY <1>5, <3>2
    <3>4. x - 1 = i \/ r[a[i]] < r[a[x - 1]]
      BY <3>1, <3>2
    <3>5. r[a[i]] \in Int /\ r[a[x]] \in Int /\ r[a[x - 1]] \in Int
      BY <1>4, <3>2
    <3>6. \A u, v, w \in Int : u < v /\ v < w => u < w
      OBVIOUS
    <3> QED
      BY <3>2, <3>3, <3>4, <3>5, <3>6
  <2>2. j \in Nat
    OBVIOUS
  <2> QED
    BY <1>6, <2>1, <2>2
<1>7. a \in [0 .. NodeCount -> Nodes]
  BY <1>1, <1>4 DEF Follows
<1>8. /\ IsFiniteSet(0 .. NodeCount) /\ IsFiniteSet(Nodes) /\ Cardinality(Nodes) < Cardinality(0 .. NodeCount)
  <2>1. IsFiniteSet(0 .. NodeCount) /\ Cardinality(0 .. NodeCount) = NodeCount + 1
    BY <1>1, FS_Interval
  <2>2. NodeCount - 1 \in Int /\ NodeCount # 0
    BY <1>1, NodeSet
  <2>3. IsFiniteSet(Nodes) /\ Cardinality(Nodes) = NodeCount
    <3>1. IsFiniteSet(0 .. NodeCount - 1) /\ Cardinality(0 .. NodeCount - 1) = NodeCount
      BY <1>1, <2>2, FS_Interval
    <3> QED
      BY <3>1 DEF Nodes
  <2> QED
    BY <1>1, <2>1, <2>3
<1>9. PICK i \in 0 .. NodeCount, j \in 0 .. NodeCount : i # j /\ a[i] = a[j]
  BY <1>7, <1>8, FS_PigeonHole
<1>10. r[a[i]] \in Int /\ r[a[i]] = r[a[j]] /\ (i < j \/ j < i)
  BY <1>7, <1>9
<1>11. ~(r[a[i]] < r[a[i]])
  BY <1>10
<1> QED
  BY <1>6, <1>10, <1>11

LEMMA AllListed ==
    ASSUME Types, NEW s \in Slots, NEW r \in [Nodes -> Nat], Linked(node, waiter_head), Rises(node, r)
    PROVE  /\ Ends(waiter_head[s], "obj_next")
           /\ Listed(s) = {n \in Nodes : node[n].registered /\ node[n].obj = s}
<1> DEFINE F == {n \in Nodes : node[n].registered /\ node[n].obj = s}
           a == Along(waiter_head[s], "obj_next")
<1>0. NIL \notin Nodes /\ \A m \in Opt : m # NIL => m \in Nodes
  BY NodeSet DEF Opt
<1>1. waiter_head[s] \in Opt /\ waiter_head[s] \in F \cup {NIL}
  <2>1. waiter_head[s] \in Opt
    BY DEF Types, TypeOK, Opt
  <2> QED
    BY <1>0, <2>1 DEF Linked
<1>2. ASSUME NEW m \in F
      PROVE  /\ node[m].obj_next \in F \cup {NIL}
             /\ node[m].obj_next # NIL => r[m] < r[node[m].obj_next]
  <2>1. node[m].obj_next \in Opt
    BY NodeFields
  <2> QED
    BY <1>0, <2>1 DEF Linked, Rises
<1>3. Climbs(F, r, "obj_next")
  BY <1>2 DEF Climbs
<1>4. F \in SUBSET Nodes /\ r \in [Nodes -> Int]
  OBVIOUS
<1>5. Ends(waiter_head[s], "obj_next")
  BY <1>1, <1>3, <1>4, ChainEnds
<1>6. Listed(s) \subseteq F
  <2>1. \A m \in F : node[m]["obj_next"] \in F \cup {NIL}
    BY <1>2
  <2> QED
    BY <1>1, <1>4, <2>1, ChainWithin DEF Listed
<1>7. Follows(a, waiter_head[s], "obj_next", NodeCount) /\ NodeCount \in Nat /\ a[NodeCount] = NIL
  BY <1>1, <1>5, AlongIs, NodeSet DEF Ends
<1>8. \A m : m \in Listed(s) <=> m # NIL /\ \E k \in 0 .. NodeCount : m = a[k]
  BY DEF Listed, Chain
<1> HIDE DEF a, F
<1>9. F \subseteq Listed(s)
  <2> DEFINE B == {k \in Nat : \E m \in F : k = r[m] /\ m \notin Listed(s)}
  <2> SUFFICES ASSUME B # {} PROVE FALSE
    BY <1>4
  <2>1. PICK x \in B : \A y \in B : x <= y
    BY LeastExists
  <2>2. PICK m \in F : x = r[m] /\ m \notin Listed(s)
    OBVIOUS
  <2> HIDE DEF B
  <2>3. m \in Nodes /\ node[m].registered /\ node[m].obj = s /\ node[m].obj_prev \in Opt /\ m # NIL
    BY <1>0, <2>2, NodeFields DEF F
  <2>4. CASE node[m].obj_prev = NIL
    <3>1. waiter_head[s] = m
      BY <2>3, <2>4 DEF Linked
    <3>2. a[0] = m /\ 0 \in 0 .. NodeCount
      BY <1>7, <3>1 DEF Follows
    <3> QED
      BY <1>8, <2>2, <2>3, <3>2
  <2>5. CASE node[m].obj_prev # NIL
    <3>1. PICK l \in Nodes : l = node[m].obj_prev
      BY <1>0, <2>3, <2>5
    <3>2. node[l].registered /\ node[l].obj = s /\ node[l].obj_next = m
      BY <2>3, <2>5, <3>1 DEF Linked
    <3>3. l \in F /\ r[l] < r[m] /\ r[l] \in Nat /\ r[m] \in Nat
      BY <2>3, <3>1, <3>2 DEF F, Rises
    <3>4. l \in Listed(s)
      <4>1. ~(r[m] <= r[l])
        BY <3>3
      <4>2. l \notin Listed(s) => r[l] \in B
        BY <3>3 DEF B
      <4> QED
        BY <2>1, <2>2, <4>1, <4>2
    <3>5. PICK k \in 0 .. NodeCount : l = a[k]
      BY <1>8, <3>4
    <3>6. k # NodeCount /\ l # NIL
      BY <1>0, <1>7, <3>1, <3>5
    <3>7. k + 1 \in 1 .. NodeCount /\ k + 1 \in 0 .. NodeCount /\ (k + 1) - 1 = k
      BY <1>7, <3>6
    <3>8. a[k + 1] = IF a[(k + 1) - 1] = NIL THEN NIL ELSE node[a[(k + 1) - 1]]["obj_next"]
      BY <1>7, <3>7 DEF Follows
    <3>9. a[k + 1] = m
      BY <3>2, <3>5, <3>6, <3>7, <3>8
    <3> QED
      BY <1>8, <2>2, <2>3, <3>7, <3>9
  <2> QED
    BY <2>4, <2>5
<1> QED
  BY <1>5, <1>6, <1>9 DEF F

-----------------------------------------------------------------------------
\* As long as nobody has died inside a critical section: whenever the region
\* lock is free, every waiter list ends, is linked both ways and holds exactly
\* what is registered on its object, and the free list ends and holds nothing
\* that is registered, whatever node_register, node_detach, wake_object, close,
\* create and the sweep have done to them and whoever died outside of one.
THEOREM ListsStaySound == Spec => []ListsSound
<1>1. ASSUME ListInv PROVE ListsSound
  <2> SUFFICES ASSUME lock = NoProc, ~torn
               PROVE  /\ \A s \in Slots :
                           /\ Ends(waiter_head[s], "obj_next")
                           /\ Listed(s) = {n \in Nodes : node[n].registered /\ node[n].obj = s}
                           /\ \A n \in Listed(s) :
                                /\ node[n].obj_prev = NIL <=> waiter_head[s] = n
                                /\ node[n].obj_next # NIL => node[node[n].obj_next].obj_prev = n
                      /\ Ends(node_free_head, "waiter_next")
                      /\ \A n \in FreeList : ~node[n].registered
    BY DEF ListsSound, Settled
  <2>1. UseInv /\ Types /\ NIL \notin Nodes
    BY <1>1, UseTypes, NodeSet DEF ListInv
  <2>2. stores = <<>>
    BY <2>1 DEF Types
  <2>3. PICK r \in [Nodes -> Nat] : Linked(node, waiter_head) /\ Rises(node, r)
    BY <1>1, <2>2, Calm DEF Lists
  <2>4. ASSUME NEW s \in Slots
        PROVE  /\ Ends(waiter_head[s], "obj_next")
               /\ Listed(s) = {n \in Nodes : node[n].registered /\ node[n].obj = s}
    BY <2>1, <2>3, AllListed
  <2>5. ASSUME NEW s \in Slots, NEW n \in Listed(s)
        PROVE  /\ node[n].obj_prev = NIL <=> waiter_head[s] = n
               /\ node[n].obj_next # NIL => node[node[n].obj_next].obj_prev = n
    <3>1. n \in Nodes /\ node[n].registered /\ node[n].obj = s
      BY <2>4
    <3> QED
      BY <2>1, <2>3, <3>1 DEF Linked
  <2>6. PICK F \in SUBSET Nodes, q \in [Nodes -> Int] : FreeChain(F, q)
    BY <2>1 DEF UseInv
  <2>7. node_free_head \in Opt /\ node_free_head \in F \cup {NIL}
    BY <2>1, <2>6 DEF Types, TypeOK, Opt, FreeChain
  <2>8. Climbs(F, q, "waiter_next") /\ \A n \in F : ~node[n].registered
    BY <2>6 DEF Climbs, FreeChain
  <2>9. Ends(node_free_head, "waiter_next")
    BY <2>1, <2>7, <2>8, ChainEnds
  <2>10. FreeList \subseteq F
    BY <2>1, <2>7, <2>8, ChainWithin DEF FreeList, Climbs
  <2> QED
    BY <2>4, <2>5, <2>8, <2>9, <2>10
<1> QED
  BY ListInit, ListNext, <1>1, PTL DEF Spec
=============================================================================
