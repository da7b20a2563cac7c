--------------------------- MODULE NodeListProofs ---------------------------
(***************************************************************************)
(* NodeList for every number of processes, nodes and objects: the types,   *)
(* and who may use a node after any deaths.                                *)
(*                                                                         *)
(* Two invariants, one on top of the other.  ShapeInv says what the holder *)
(* of the lock can still have to do.  UseInv says who has a node; it holds *)
(* of the memory as it is, whatever is pending, so it survives a death     *)
(* between any two stores.  The lists themselves are in NodeLinkProofs.    *)
(***************************************************************************)
EXTENDS NodeList, FiniteSetTheorems, SequenceTheorems, WellFoundedInduction, TLAPS

Opt    == Nodes \cup {NIL}
LinkFields == {"wait_word", "obj_prev", "obj_next", "waiter_next"}

StoreRecord ==
    [do : {"set"}, n : Nodes, field : {"registered"}, v : BOOLEAN]
      \cup [do : {"set"}, n : Nodes, field : {"obj"}, v : Slots \cup {NIL}]
      \cup [do : {"set"}, n : Nodes, field : LinkFields, v : Opt]
      \cup [do : {"set"}, n : Nodes, field : {"pid"}, v : Procs]
      \cup [do : {"head"}, n : Slots \cup {NIL}, v : Opt]
      \cup [do : {"used"}, n : Slots, v : BOOLEAN]
      \cup [do : {"free_head"}, v : Opt]
      \cup [do : {"fresh"}, v : 0 .. NodeCount]

CallRecord ==
    [do : {"node_detach", "node_free", "push", "reap"}, n : Nodes]
      \cup [do : {"wake_object", "bump"}, n : Opt]
      \cup [do : {"node_alloc", "register", "clear"}, n : Procs]

Types ==
    /\ TypeOK
    /\ want \in [Procs -> Seq(Slots)] /\ mine \in [Procs -> Seq(Nodes)]
    /\ stores \in Seq(StoreRecord) /\ todo \in Seq(CallRecord)
    /\ lock = NoProc => stores = <<>> /\ todo = <<>>
    /\ \A p \in Procs \ alive : mine[p] = <<>> /\ want[p] = <<>>

-----------------------------------------------------------------------------
(* What the holder of the lock can have to do: the calls of a section. *)

\* A wait that allocates and registers, with a nodes so far and b objects.
Allocates(t, a, b) ==
    /\ Len(t) >= 1 /\ t[Len(t)].do = "register"
    /\ Len(t) - 1 + a <= b
    /\ \A j \in 1 .. Len(t) - 1 : t[j].do = "node_alloc" \/ (j = 1 /\ t[j].do = "push")

\* A wait that takes its nodes off their lists.
Detaches(t) == \A j \in 1 .. Len(t) : t[j].do = "node_detach"

\* A cleanup of the nodes ns: what is left of the detaches and of the frees.
\* The i-th node is freed by call Left(t, ns) + i.
Left(t, ns) == Len(t) - 1 - Len(ns)

Cleans(t, ns) ==
    /\ Len(t) >= 1 /\ t[Len(t)].do = "clear" /\ Left(t, ns) <= Len(ns)
    /\ \A j \in 1 .. Len(t) - 1 :
         /\ j > Left(t, ns) => t[j] = Call("node_free", ns[j - Left(t, ns)])
         /\ j <= Left(t, ns) => t[j] = Call("node_detach", ns[j - Left(t, ns) + Len(ns)])

\* A walk: wake_object, and before it what is left of its last round.
Wakes(t) ==
    /\ Len(t) >= 1 /\ t[Len(t)].do = "wake_object" /\ Len(t) <= 3
    /\ Len(t) >= 2 => t[Len(t) - 1].do = "bump"
    /\ Len(t) = 3 => t[1].do = "node_detach"

\* A sweep: the rest of the nodes, after what is left of the one at hand.
Reaps(t) ==
    \A j \in 1 .. Len(t) :
      \/ t[j].do = "reap"
      \/ j = 1 /\ t[j].do = "node_free"
      \/ j = 1 /\ t[j].do = "node_detach" /\ Len(t) >= 2 /\ t[2] = Call("node_free", t[1].n)
      \/ j = 2 /\ t[j].do = "node_free" /\ t[1].do = "node_detach"

Section == \/ Allocates(todo, Len(mine[lock]), Len(want[lock]))
           \/ Detaches(todo)
           \/ Cleans(todo, mine[lock])
           \/ Wakes(todo)
           \/ Reaps(todo)

-----------------------------------------------------------------------------
(* And the stores of a call. *)

\* Stores that say nothing about who has a node.
Quiet(c) == \/ c.do \in {"head", "used"}
            \/ c.do = "set" /\ c.field \in {"obj", "wait_word", "obj_prev", "obj_next"}
            \/ c.do = "set" /\ c.field = "registered" /\ c.v = FALSE

OfDetach(st) == \A i \in 1 .. Len(st) : Quiet(st[i])

OfRegister(st, ns) == \A i \in 1 .. Len(st) :
    \/ Quiet(st[i])
    \/ /\ st[i].do = "set" /\ st[i].field = "registered"
       /\ \E j \in 1 .. Len(ns) : st[i].n = ns[j]

\* A call of node_alloc by p that hands out n.
OfAlloc(st, n, p, free, fresh, nodes) ==
    /\ Len(st) <= 8
    /\ Len(st) = 8 =>
         \/ st[1] = SetFree(nodes[n].waiter_next) /\ free = n
         \/ st[1] = SetFresh(n + 1) /\ free = NIL /\ fresh = n
    /\ \A i \in 1 .. Len(st) :
         \/ i = 1 /\ Len(st) = 8
         \/ /\ st[i].do = "set" /\ st[i].n = n
            /\ Quiet(st[i]) \/ st[i].field = "waiter_next" \/ st[i] = Set(n, "pid", p)
    /\ IF st = <<>> THEN nodes[n].pid = p ELSE st[Len(st)] = Set(n, "pid", p)

\* A call of node_free that returns n.
OfFree(st, n, free, nodes) ==
    \/ st = <<Set(n, "waiter_next", free), SetFree(n)>>
    \/ st = <<SetFree(n)>> /\ nodes[n].waiter_next = free

Allocating == todo # <<>> /\ Head(todo).do = "push"
Returns(n) == OfFree(stores, n, node_free_head, node)

Call_ == \/ OfDetach(stores) /\ ~Allocating
         \/ OfRegister(stores, mine[lock]) /\ Len(todo) = 1 /\ todo[1].do = "register"
         \/ Allocating /\ OfAlloc(stores, Head(todo).n, lock, node_free_head, node_fresh, node)
         \/ ~Allocating /\ \E n \in Nodes : Returns(n)

ShapeInv == Types /\ (lock # NoProc => Section /\ Call_)

-----------------------------------------------------------------------------
(* Who has a node. *)

\* n is off its list once the pending stores are done.
Unlisted_(n) == ~node[n].registered \/ \E i \in 1 .. Len(stores) : stores[i] = Set(n, "registered", FALSE)

Cleaning == lock # NoProc /\ Cleans(todo, mine[lock])

\* p's cleanup has given its i-th node back.
Freed(p, i) == lock = p /\ Cleaning /\ Left(todo, mine[lock]) + i <= 0

OwnOK ==
    /\ \A p \in Procs : \A i \in 1 .. Len(mine[p]) :
         /\ mine[p][i] < node_fresh /\ node[mine[p][i]].pid = p
         /\ \A j \in 1 .. Len(mine[p]) : mine[p][i] = mine[p][j] => i = j
    /\ \A n \in Nodes : node[n].registered => n < node_fresh

\* What a cleanup has detached is off its list.
CleanOK == Cleaning => \A i \in 1 .. Len(mine[lock]) :
    Left(todo, mine[lock]) + i <= Len(mine[lock]) => Unlisted_(mine[lock][i])

\* The node that a sweep is to free.
Reaped(n) == Reaps(todo) /\ \E q \in 1 .. Len(todo) : todo[q] = Call("node_free", n)

ReapOK == \A n \in Nodes :
    Reaped(n) => /\ n < node_fresh /\ node[n].pid \notin alive
                 /\ Head(todo).do = "node_free" => Unlisted_(n)

\* The node that node_alloc has taken, or that node_free is to give back.
Taken(n) == Allocating /\ n = Head(todo).n /\ Len(stores) < 8

PushOK == \A n \in Nodes :
    Taken(n) => /\ n < node_fresh /\ ~node[n].registered
                /\ \A p \in Procs : \A i \in 1 .. Len(mine[p]) : mine[p][i] # n

ReturnOK == \A n \in Nodes :
    Returns(n) => /\ n < node_fresh /\ ~node[n].registered /\ ~Reaped(n)
                  /\ \A p \in Procs : \A i \in 1 .. Len(mine[p]) : mine[p][i] = n => Freed(p, i)

\* F holds what can be reached on the free list, and r rises along it.
FreeChain(F, r) ==
    /\ node_free_head \in F \cup {NIL}
    /\ \A n \in F :
         /\ n < node_fresh /\ ~node[n].registered
         /\ node[n].waiter_next \in F \cup {NIL}
         /\ node[n].waiter_next # NIL => r[n] < r[node[n].waiter_next]

Apart(F) ==
    /\ \A p \in Procs : \A i \in 1 .. Len(mine[p]) : mine[p][i] \in F => Freed(p, i)
    /\ \A n \in F : ~Reaped(n) /\ ~Taken(n) /\ ~Returns(n)

UseInv ==
    /\ ShapeInv
    /\ OwnOK /\ CleanOK /\ ReapOK /\ PushOK /\ ReturnOK
    /\ \E F \in SUBSET Nodes : \E r \in [Nodes -> Int] : FreeChain(F, r) /\ Apart(F)

-----------------------------------------------------------------------------
(* Records and sequences. *)

CallNames == {"node_detach", "node_free", "push", "reap", "wake_object", "bump",
              "node_alloc", "register", "clear"}

LEMMA CallFields ==
    ASSUME NEW c \in CallRecord
    PROVE  /\ c.do \in CallNames
           /\ c.do \in {"node_detach", "node_free", "push", "reap"} => c.n \in Nodes
           /\ c.do \in {"wake_object", "bump"} => c.n \in Opt
           /\ c.do \in {"node_alloc", "register", "clear"} => c.n \in Procs
           /\ c = Call(c.do, c.n)
  BY DEF CallRecord, CallNames, Call

LEMMA Calls ==
    /\ \A n \in Nodes : \A f \in {"node_detach", "node_free", "push", "reap"} : Call(f, n) \in CallRecord
    /\ \A n \in Opt : \A f \in {"wake_object", "bump"} : Call(f, n) \in CallRecord
    /\ \A p \in Procs : \A f \in {"node_alloc", "register", "clear"} : Call(f, p) \in CallRecord
    /\ \A f, n : Call(f, n).do = f /\ Call(f, n).n = n
  BY DEF CallRecord, Call

LEMMA StoreFields ==
    ASSUME NEW c \in StoreRecord
    PROVE  /\ c.do \in {"set", "head", "used", "free_head", "fresh"}
           /\ c.do = "set" =>
                /\ c.n \in Nodes /\ c = Set(c.n, c.field, c.v)
                /\ c.field \in {"registered", "obj", "pid"} \cup LinkFields
                /\ c.field = "registered" => c.v \in BOOLEAN
                /\ c.field = "obj" => c.v \in Slots \cup {NIL}
                /\ c.field = "pid" => c.v \in Procs
                /\ c.field \in LinkFields => c.v \in Opt
           /\ c.do = "head" => c.n \in Slots \cup {NIL} /\ c.v \in Opt
           /\ c.do = "used" => c.n \in Slots /\ c.v \in BOOLEAN
           /\ c.do = "free_head" => c.v \in Opt
           /\ c.do = "fresh" => c.v \in 0 .. NodeCount
  BY DEF StoreRecord, LinkFields, Set

LEMMA Stores ==
    /\ \A n \in Nodes :
         /\ \A v \in BOOLEAN : Set(n, "registered", v) \in StoreRecord
         /\ \A v \in Slots \cup {NIL} : Set(n, "obj", v) \in StoreRecord
         /\ \A f \in LinkFields : \A v \in Opt : Set(n, f, v) \in StoreRecord
         /\ \A v \in Procs : Set(n, "pid", v) \in StoreRecord
    /\ \A s \in Slots \cup {NIL} : \A v \in Opt : SetHead(s, v) \in StoreRecord
    /\ \A s \in Slots : \A v \in BOOLEAN : SetUsed(s, v) \in StoreRecord
    /\ \A v \in Opt : SetFree(v) \in StoreRecord
    /\ \A v \in 0 .. NodeCount : SetFresh(v) \in StoreRecord
  BY DEF StoreRecord, Set, SetHead, SetUsed, SetFree, SetFresh

LEMMA SetFields ==
    /\ \A n, f, v : /\ Set(n, f, v).do = "set" /\ Set(n, f, v).n = n
                    /\ Set(n, f, v).field = f /\ Set(n, f, v).v = v
    /\ \A n, v : SetHead(n, v).do = "head" /\ SetHead(n, v).n = n /\ SetHead(n, v).v = v
    /\ \A n, v : SetUsed(n, v).do = "used" /\ SetUsed(n, v).n = n /\ SetUsed(n, v).v = v
    /\ \A v : SetFree(v).do = "free_head" /\ SetFree(v).v = v
    /\ \A v : SetFresh(v).do = "fresh" /\ SetFresh(v).v = v
  BY DEF Set, SetHead, SetUsed, SetFree, SetFresh

\* u is what t leaves after its first item.
IsTail(u, t) == Len(u) = Len(t) - 1 /\ \A j \in 1 .. Len(u) : u[j] = t[j + 1]

LEMMA TailItems ==
    ASSUME NEW S, NEW t \in Seq(S), t # <<>>
    PROVE  /\ Len(t) \in Nat /\ Len(t) >= 1 /\ Head(t) = t[1] /\ t[1] \in S
           /\ Tail(t) \in Seq(S) /\ IsTail(Tail(t), t)
  BY HeadTailProperties, ElementOfSeq DEF IsTail

LEMMA Items ==
    ASSUME NEW S, NEW t \in Seq(S)
    PROVE  /\ Len(t) \in Nat /\ (t = <<>> <=> Len(t) = 0)
           /\ \A j \in 1 .. Len(t) : t[j] \in S
  BY EmptySeq, LenProperties, ElementOfSeq

LEMMA NodeSet ==
    /\ NIL \notin Nodes /\ NIL \notin Slots /\ Nodes \subseteq Int /\ NoProc \notin Procs
    /\ NodeCount \in Nat \ {0} /\ NIL \in Int
    /\ \A n \in Nodes : n \in 0 .. NodeCount
  BY NodeListAssumption DEF NIL, Nodes

-----------------------------------------------------------------------------
(* The calls of a section, one after the other. *)

LEMMA AllocatesStep ==
    ASSUME NEW t, Len(t) \in Nat, NEW a \in Nat, NEW b \in Nat, Allocates(t, a, b),
           NEW u, Len(u) \in Nat, IsTail(u, t)
    PROVE  /\ Len(t) >= 1 /\ t[1].do \in {"node_alloc", "push", "register"}
           /\ t[1].do = "push" => Allocates(u, a + 1, b) /\ u[1].do # "push" /\ a + 1 <= b
           /\ t[1].do = "register" => Len(t) = 1 /\ Len(u) = 0
<1>1. Len(t) \in Nat /\ Len(u) \in Nat
  OBVIOUS
<1>2. Len(t) >= 1 /\ t[1].do \in {"node_alloc", "push", "register"}
  BY <1>1 DEF Allocates
<1>3. ASSUME t[1].do = "push"
      PROVE  Allocates(u, a + 1, b) /\ u[1].do # "push" /\ a + 1 <= b
  <2>1. Len(t) >= 2 /\ Len(u) >= 1 /\ u[Len(u)] = t[Len(t)]
    BY <1>1, <1>3 DEF Allocates, IsTail
  <2>2. ASSUME NEW j \in 1 .. Len(u) - 1
        PROVE  u[j].do = "node_alloc"
    <3>1. u[j] = t[j + 1] /\ j + 1 \in 1 .. Len(t) - 1 /\ j + 1 # 1
      BY <1>1 DEF IsTail
    <3> QED
      BY <3>1 DEF Allocates
  <2> QED
    BY <1>1, <2>1, <2>2 DEF Allocates, IsTail
<1>5. ASSUME t[1].do = "register"
      PROVE  Len(t) = 1 /\ Len(u) = 0
  BY <1>1, <1>5 DEF Allocates, IsTail
<1> QED
  BY <1>1, <1>2, <1>3, <1>5

LEMMA CleansStep ==
    ASSUME NEW t, Len(t) \in Nat, NEW ns, Len(ns) \in Nat, Cleans(t, ns),
           NEW u, Len(u) \in Nat, IsTail(u, t)
    PROVE  /\ Len(t) >= 1 /\ t[1].do \in {"node_detach", "node_free", "clear"}
           /\ t[1].do = "clear" => Len(t) = 1 /\ Len(u) = 0
           /\ t[1].do # "clear" => /\ Cleans(u, ns) /\ Left(u, ns) = Left(t, ns) - 1
                                   /\ u[1].do # "push"
           /\ t[1].do = "node_free" => /\ 1 - Left(t, ns) \in 1 .. Len(ns)
                                       /\ t[1].n = ns[1 - Left(t, ns)]
           /\ t[1].do = "node_detach" => /\ 1 - Left(t, ns) + Len(ns) \in 1 .. Len(ns)
                                         /\ t[1].n = ns[1 - Left(t, ns) + Len(ns)]
<1>1. Len(t) \in Nat /\ Len(u) \in Nat /\ Len(ns) \in Nat
  OBVIOUS
<1>2. ASSUME Len(t) = 1
      PROVE  t[1].do = "clear" /\ Len(u) = 0
  BY <1>1, <1>2 DEF Cleans, IsTail
<1>3. ASSUME Len(t) > 1
      PROVE  /\ t[1].do # "clear" /\ Cleans(u, ns) /\ Left(u, ns) = Left(t, ns) - 1
             /\ t[1].do \in {"node_detach", "node_free"}
             /\ u[1].do # "push"
             /\ t[1].do = "node_free" => /\ 1 - Left(t, ns) \in 1 .. Len(ns)
                                         /\ t[1].n = ns[1 - Left(t, ns)]
             /\ t[1].do = "node_detach" => /\ 1 - Left(t, ns) + Len(ns) \in 1 .. Len(ns)
                                           /\ t[1].n = ns[1 - Left(t, ns) + Len(ns)]
  <2>1. /\ Left(t, ns) \in Int /\ Left(u, ns) = Left(t, ns) - 1 /\ Left(t, ns) <= Len(ns)
        /\ Left(t, ns) = Len(t) - 1 - Len(ns)
    BY <1>1 DEF Left, Cleans, IsTail
  <2> DEFINE L == Left(t, ns)
  <2>a. 1 \in 1 .. Len(t) - 1
    <3>1. Len(t) >= 1
      BY DEF Cleans
    <3> QED
      BY <1>1, <1>3, <3>1
  <2>b. \/ L < 1 /\ t[1] = Call("node_free", ns[1 - L])
        \/ L >= 1 /\ t[1] = Call("node_detach", ns[1 - L + Len(ns)])
    BY <2>a, <2>1 DEF Cleans
  <2>2. t[1].do \in {"node_detach", "node_free"}
    BY <2>b, Calls
  <2>3. t[1].do = "node_free" => 1 - Left(t, ns) \in 1 .. Len(ns) /\ t[1].n = ns[1 - Left(t, ns)]
    BY <1>1, <1>3, <2>1, Calls DEF Cleans
  <2>4. t[1].do = "node_detach" => /\ 1 - Left(t, ns) + Len(ns) \in 1 .. Len(ns)
                                   /\ t[1].n = ns[1 - Left(t, ns) + Len(ns)]
    BY <1>1, <1>3, <2>1, Calls DEF Cleans
  <2>5. Len(u) >= 1 /\ u[Len(u)].do = "clear"
    BY <1>1, <1>3 DEF Cleans, IsTail
  <2>6. ASSUME NEW j \in 1 .. Len(u) - 1
        PROVE  /\ j > Left(u, ns) => u[j] = Call("node_free", ns[j - Left(u, ns)])
               /\ j <= Left(u, ns) => u[j] = Call("node_detach", ns[j - Left(u, ns) + Len(ns)])
    <3>1. /\ j + 1 \in 1 .. Len(t) - 1 /\ u[j] = t[j + 1] /\ j - Left(u, ns) = j + 1 - Left(t, ns)
          /\ j - Left(u, ns) + Len(ns) = j + 1 - Left(t, ns) + Len(ns)
      BY <1>1, <2>1, SMTT(30) DEF IsTail
    <3>2. /\ j > Left(u, ns) <=> j + 1 > Left(t, ns)
          /\ j <= Left(u, ns) <=> j + 1 <= Left(t, ns)
      BY <1>1, <2>1
    <3>3. /\ j + 1 > Left(t, ns) => t[j + 1] = Call("node_free", ns[j + 1 - Left(t, ns)])
          /\ j + 1 <= Left(t, ns) => t[j + 1] = Call("node_detach", ns[j + 1 - Left(t, ns) + Len(ns)])
      <4>1. \A k \in 1 .. Len(t) - 1 :
              /\ k > Left(t, ns) => t[k] = Call("node_free", ns[k - Left(t, ns)])
              /\ k <= Left(t, ns) => t[k] = Call("node_detach", ns[k - Left(t, ns) + Len(ns)])
        BY DEF Cleans
      <4>2. j + 1 \in 1 .. Len(t) - 1
        BY <3>1
      <4> QED
        BY <4>1, <4>2, <1>1, <2>1, SMTT(20)
    <3> QED
      BY <3>1, <3>2, <3>3
  <2>7. Cleans(u, ns)
    <3>1. Left(u, ns) <= Len(ns)
      BY <2>1, <1>1
    <3> QED
      BY <3>1, <2>5, <2>6 DEF Cleans
  <2>8. u[1].do # "push"
    <3>1. CASE Len(u) = 1
      BY <3>1, <2>5
    <3>2. CASE Len(u) > 1
      <4>1. 1 \in 1 .. Len(u) - 1 /\ (1 > Left(u, ns) \/ 1 <= Left(u, ns))
        <5>1. Len(u) \in Nat /\ Len(u) >= 1 /\ Left(u, ns) \in Int
          BY <1>1, <2>1, <2>5
        <5> QED
          BY <3>2, <5>1
      <4>2. u[1] = Call("node_free", ns[1 - Left(u, ns)]) \/ u[1] = Call("node_detach", ns[1 - Left(u, ns) + Len(ns)])
        BY <4>1, <2>6
      <4> QED
        BY <4>2, Calls
    <3> QED
      BY <3>1, <3>2, <1>1, <2>5
  <2> QED
    BY <2>1, <2>2, <2>3, <2>4, <2>7, <2>8
<1>4. Len(t) = 1 \/ Len(t) > 1
  <2>1. Len(t) >= 1
    BY DEF Cleans
  <2>2. \A k \in Nat : k >= 1 => k = 1 \/ k > 1
    OBVIOUS
  <2> QED
    BY <1>1, <2>1, <2>2, Zenon
<1> QED
  BY <1>1, <1>2, <1>3, <1>4

LEMMA WakesStep ==
    ASSUME NEW t, Len(t) \in Nat, Wakes(t),
           NEW u, Len(u) \in Nat, IsTail(u, t)
    PROVE  /\ Len(t) >= 1 /\ t[1].do \in {"node_detach", "bump", "wake_object"}
           /\ t[1].do = "wake_object" => Len(t) = 1 /\ Len(u) = 0
           /\ t[1].do # "wake_object" => Wakes(u) /\ u[1].do # "push"
<1>1. /\ Len(t) \in Nat /\ Len(u) \in Nat /\ Len(u) = Len(t) - 1
      /\ \A j \in 1 .. Len(u) : u[j] = t[j + 1]
  BY DEF IsTail
<1>2. CASE Len(t) = 1
  BY <1>1, <1>2 DEF Wakes
<1>3. CASE Len(t) = 2
  BY <1>1, <1>3 DEF Wakes
<1>4. CASE Len(t) = 3
  BY <1>1, <1>4 DEF Wakes
<1> QED
  BY <1>1, <1>2, <1>3, <1>4 DEF Wakes

LEMMA ReapsStep ==
    ASSUME NEW t, Len(t) \in Nat, Reaps(t), Len(t) >= 1,
           NEW u, Len(u) \in Nat, IsTail(u, t)
    PROVE  /\ t[1].do \in {"reap", "node_free", "node_detach"}
           /\ Reaps(u) /\ (Len(u) # 0 => u[1].do # "push")
           /\ t[1].do \in {"reap", "node_free"} => \A j \in 1 .. Len(u) : u[j].do = "reap"
           /\ t[1].do = "node_detach" => Len(t) >= 2 /\ u[1] = Call("node_free", t[1].n)
           /\ \A j \in 2 .. Len(u) : u[j].do = "reap"
<1>1. Len(t) \in Nat /\ Len(u) \in Nat /\ Len(u) = Len(t) - 1
  BY DEF IsTail
<1>2. t[1].do \in {"reap", "node_free", "node_detach"}
  BY <1>1 DEF Reaps
<1>3. ASSUME NEW j \in 1 .. Len(u)
      PROVE  u[j].do = "reap" \/ (j = 1 /\ u[j].do = "node_free" /\ t[1].do = "node_detach")
  <2>1. j + 1 \in 1 .. Len(t) /\ u[j] = t[j + 1] /\ j + 1 # 1 /\ (j + 1 = 2 => j = 1)
    BY <1>1 DEF IsTail
  <2> QED
    BY <2>1 DEF Reaps
<1>4. Reaps(u)
  BY <1>3 DEF Reaps
<1>5. Len(u) # 0 => u[1].do # "push"
  <2>1. Len(u) # 0 => 1 \in 1 .. Len(u)
    BY <1>1
  <2> QED
    BY <2>1, <1>3
<1>6. ASSUME t[1].do = "node_detach"
      PROVE  Len(t) >= 2 /\ u[1] = Call("node_free", t[1].n)
  <2>1. Len(t) >= 2 /\ t[2] = Call("node_free", t[1].n)
    BY <1>1, <1>6 DEF Reaps
  <2> QED
    BY <2>1, <1>1 DEF IsTail
<1>7. \A j \in 2 .. Len(u) : u[j].do = "reap"
  BY <1>1, <1>3
<1> QED
  BY <1>2, <1>3, <1>4, <1>5, <1>6, <1>7

-----------------------------------------------------------------------------
(* The calls with which a section begins. *)

LEMMA FunSeq ==
    ASSUME NEW S, NEW n \in Nat, NEW f \in [1 .. n -> S]
    PROVE  f \in Seq(S) /\ Len(f) = n
<1>1. f \in Seq(S)
  BY SeqDef
<1>2. Len(f) \in Nat /\ DOMAIN f = 1 .. Len(f)
  BY <1>1, LenProperties
<1>3. DOMAIN f = 1 .. n
  OBVIOUS
<1> QED
  BY <1>1, <1>2, <1>3

\* Concatenation, under a name of its own.
Cat(s1, s2) == s1 \o s2

IsCat(t, s1, s2) ==
    /\ t \in Seq(CallRecord)
    /\ Len(s1) \in Nat /\ Len(s2) \in Nat /\ Len(t) = Len(s1) + Len(s2)
    /\ \A i \in 1 .. Len(s1) : t[i] = s1[i]
    /\ \A i \in Len(s1) + 1 .. Len(t) : t[i] = s2[i - Len(s1)]

LEMMA CatItems ==
    ASSUME NEW s1 \in Seq(CallRecord), NEW s2 \in Seq(CallRecord)
    PROVE  IsCat(Cat(s1, s2), s1, s2)
<1>1. Len(s1) \in Nat /\ Len(s2) \in Nat
  BY LenProperties
<1> QED
  BY <1>1, ConcatProperties DEF Cat, IsCat

\* What Block, Cleanup and sweep_dead have to do.
AllocSeq(w, p)  == [i \in 1 .. Len(w) |-> Call("node_alloc", p)] \o <<Call("register", p)>>
CleanSeq(ns, p) == ForEach("node_detach", ns) \o ForEach("node_free", ns) \o <<Call("clear", p)>>

LEMMA AllocCalls ==
    ASSUME NEW w \in Seq(Slots), w # <<>>, NEW p \in Procs,
           NEW t, t = AllocSeq(w, p)
    PROVE  t \in Seq(CallRecord) /\ Allocates(t, 0, Len(w)) /\ t # <<>> /\ t[1].do # "push"
<1> DEFINE f == [i \in 1 .. Len(w) |-> Call("node_alloc", p)]
           g == <<Call("register", p)>>
<1>1. Len(w) \in Nat /\ Len(w) >= 1
  BY Items
<1>2. f \in [1 .. Len(w) -> CallRecord] /\ \A i \in 1 .. Len(w) : f[i] = Call("node_alloc", p)
  BY Calls
<1>3. g \in Seq(CallRecord) /\ Len(g) = 1 /\ g[1] = Call("register", p)
  BY Calls
<1> HIDE DEF f, g
<1>4. f \in Seq(CallRecord) /\ Len(f) = Len(w)
  BY <1>1, <1>2, FunSeq
<1>5. /\ t \in Seq(CallRecord) /\ Len(t) = Len(w) + 1 /\ t[Len(w) + 1] = g[1]
      /\ \A i \in 1 .. Len(w) : t[i] = f[i]
  <2>1. t = Cat(f, g)
    BY DEF f, g, Cat, AllocSeq
  <2>2. IsCat(t, f, g)
    BY <1>3, <1>4, <2>1, CatItems
  <2> QED
    BY <1>1, <1>3, <1>4, <2>2 DEF IsCat
<1>6. t[Len(w) + 1].do = "register" /\ \A i \in 1 .. Len(w) : t[i].do = "node_alloc"
  BY <1>2, <1>3, <1>5, Calls
<1>7. t # <<>>
  BY <1>1, <1>5, Items
<1>8. Allocates(t, 0, Len(w)) /\ t[1].do # "push"
  <2>1. Len(t) = Len(w) + 1 /\ t[Len(t)].do = "register" /\ Len(t) - 1 = Len(w)
    BY <1>1, <1>5, <1>6
  <2>2. Len(t) >= 1 /\ Len(t) - 1 + 0 <= Len(w)
    BY <1>1, <2>1
  <2>3. t[1].do = "node_alloc"
    BY <1>1, <1>6
  <2> QED
    BY <1>6, <2>1, <2>2, <2>3 DEF Allocates
<1> QED
  BY <1>5, <1>7, <1>8

LEMMA ForEachCalls ==
    ASSUME NEW ns \in Seq(Nodes), NEW f \in {"node_detach", "node_free"}
    PROVE  /\ ForEach(f, ns) \in Seq(CallRecord) /\ Len(ForEach(f, ns)) = Len(ns) /\ Len(ns) \in Nat
           /\ \A i \in 1 .. Len(ns) : ForEach(f, ns)[i] = Call(f, ns[i])
<1>1. Len(ns) \in Nat /\ \A i \in 1 .. Len(ns) : ns[i] \in Nodes
  BY Items
<1>2. /\ ForEach(f, ns) \in [1 .. Len(ns) -> CallRecord]
      /\ \A i \in 1 .. Len(ns) : ForEach(f, ns)[i] = Call(f, ns[i])
  BY <1>1, Calls DEF ForEach
<1> QED
  BY <1>1, <1>2, FunSeq

LEMMA CleanCalls ==
    ASSUME NEW ns \in Seq(Nodes), NEW p \in Procs,
           NEW t, t = CleanSeq(ns, p)
    PROVE  /\ t \in Seq(CallRecord) /\ Cleans(t, ns) /\ t # <<>> /\ t[1].do # "push"
           /\ Left(t, ns) = Len(ns)
<1> DEFINE f == ForEach("node_detach", ns)
           g == ForEach("node_free", ns)
           h == <<Call("clear", p)>>
           n == Len(ns)
<1>1. /\ n \in Nat /\ f \in Seq(CallRecord) /\ g \in Seq(CallRecord) /\ Len(f) = n /\ Len(g) = n
      /\ \A i \in 1 .. n : f[i] = Call("node_detach", ns[i])
      /\ \A i \in 1 .. n : g[i] = Call("node_free", ns[i])
  BY ForEachCalls
<1>2. h \in Seq(CallRecord) /\ Len(h) = 1 /\ h[1] = Call("clear", p)
  BY Calls
<1>3. t = Cat(Cat(f, g), h)
  BY DEF Cat, CleanSeq
<1> HIDE DEF f, g, h, n
<1> DEFINE fg == Cat(f, g)
<1>4. /\ fg \in Seq(CallRecord) /\ Len(fg) = n + n
      /\ \A i \in 1 .. n : fg[i] = f[i]
      /\ \A i \in n + 1 .. n + n : fg[i] = g[i - n]
  <2>1. IsCat(fg, f, g)
    BY <1>1, CatItems
  <2> QED
    BY <1>1, <2>1 DEF IsCat
<1> HIDE DEF fg
<1>5. /\ t \in Seq(CallRecord) /\ Len(t) = n + n + 1
      /\ \A i \in 1 .. n + n : t[i] = fg[i]
      /\ t[n + n + 1] = h[1]
  <2>1. t = Cat(fg, h)
    BY <1>3 DEF fg
  <2>2. IsCat(t, fg, h)
    BY <1>2, <1>4, <2>1, CatItems
  <2> QED
    BY <1>1, <1>2, <1>4, <2>2 DEF IsCat
<1>c. \A i \in 1 .. n : f[i] = Call("node_detach", ns[i]) /\ g[i] = Call("node_free", ns[i])
  BY <1>1
<1>6. ASSUME NEW i \in 1 .. n
      PROVE  t[i] = Call("node_detach", ns[i])
  <2>1. i \in 1 .. n + n
    BY <1>1
  <2>2. t[i] = fg[i] /\ fg[i] = f[i]
    BY <1>4, <1>5, <2>1
  <2> QED
    BY <1>c, <2>2
<1>7. ASSUME NEW i \in n + 1 .. n + n
      PROVE  t[i] = Call("node_free", ns[i - n])
  <2>1. i \in 1 .. n + n /\ i - n \in 1 .. n
    BY <1>1
  <2>2. t[i] = fg[i] /\ fg[i] = g[i - n]
    BY <1>4, <1>5, <2>1
  <2> QED
    BY <1>c, <2>1, <2>2
<1>8. t[n + n + 1].do = "clear"
  BY <1>2, <1>5, Calls
<1>9. Left(t, ns) = n /\ Len(t) >= 1 /\ t # <<>> /\ Len(t) - 1 = n + n
  BY <1>1, <1>5, Items DEF Left, n
<1>10. Cleans(t, ns)
  <2>1. ASSUME NEW j \in 1 .. Len(t) - 1
        PROVE  /\ j > n => t[j] = Call("node_free", ns[j - n])
               /\ j <= n => t[j] = Call("node_detach", ns[j - n + n])
    <3>1. j \in 1 .. n + n /\ j \in Int /\ (j > n => j \in n + 1 .. n + n) /\ (j <= n => j \in 1 .. n)
          /\ j - n + n = j
      BY <1>1, <1>9
    <3> QED
      BY <3>1, <1>6, <1>7
  <2>2. t[Len(t)].do = "clear" /\ Len(t) >= 1 /\ Left(t, ns) <= n
    BY <1>1, <1>5, <1>8, <1>9
  <2> QED
    BY <1>9, <2>1, <2>2 DEF Cleans, n
<1>11. t[1].do # "push"
  <2>1. CASE n = 0
    BY <2>1, <1>8, <1>1
  <2>2. CASE n >= 1
    <3>1. t[1] = Call("node_detach", ns[1])
      BY <2>2, <1>6, <1>1
    <3> QED
      BY <3>1, Calls
  <2> QED
    BY <2>1, <2>2, <1>1
<1> QED
  BY <1>5, <1>9, <1>10, <1>11 DEF n

LEMMA ReapCalls ==
    ASSUME NEW k \in 0 .. NodeCount,
           NEW t, t = [i \in 1 .. k |-> Call("reap", i - 1)]
    PROVE  t \in Seq(CallRecord) /\ (\A j \in 1 .. Len(t) : t[j].do = "reap") /\ Len(t) \in Nat
<1>1. k \in Nat /\ \A i \in 1 .. k : i - 1 \in Nodes
  BY NodeSet DEF Nodes
<1>2. t \in [1 .. k -> CallRecord] /\ \A i \in 1 .. k : t[i].do = "reap"
  BY <1>1, Calls
<1> QED
  BY <1>1, <1>2, FunSeq

LEMMA PushCalls ==
    ASSUME NEW t, Len(t) \in Nat, NEW a \in Nat, NEW b \in Nat, Allocates(t, a, b),
           t[1].do = "node_alloc", NEW u \in Seq(CallRecord), IsTail(u, t),
           NEW n \in Nodes, NEW v, v = Cat(<<Call("push", n)>>, u)
    PROVE  v \in Seq(CallRecord) /\ Allocates(v, a, b) /\ v # <<>> /\ v[1] = Call("push", n)
<1> DEFINE g == <<Call("push", n)>>
<1>1. g \in Seq(CallRecord) /\ Len(g) = 1 /\ g[1] = Call("push", n)
  BY Calls
<1> HIDE DEF g
<1>2. IsCat(v, g, u)
  BY <1>1, CatItems DEF g
<1>3. /\ v \in Seq(CallRecord) /\ Len(u) \in Nat /\ Len(v) = Len(u) + 1
      /\ v[1] = Call("push", n) /\ \A i \in 2 .. Len(v) : v[i] = u[i - 1]
  BY <1>1, <1>2 DEF IsCat
<1>4. Len(v) = Len(t) /\ Len(v) \in Nat /\ Len(v) >= 1 /\ Len(u) = Len(t) - 1
  BY <1>3 DEF IsTail
<1>5. ASSUME NEW i \in 2 .. Len(v)
      PROVE  v[i] = t[i]
  <2>1. i - 1 \in 1 .. Len(u) /\ (i - 1) + 1 = i
    BY <1>3, <1>4
  <2>2. u[i - 1] = t[(i - 1) + 1]
    BY <2>1 DEF IsTail
  <2> QED
    BY <1>3, <2>1, <2>2
<1>6. Len(t) >= 2
  BY DEF Allocates
<1>7. v[Len(v)].do = "register"
  BY <1>4, <1>5, <1>6 DEF Allocates
<1>8. \A j \in 1 .. Len(v) - 1 : v[j].do = "node_alloc" \/ (j = 1 /\ v[j].do = "push")
  <2> TAKE j \in 1 .. Len(v) - 1
  <2>1. CASE j = 1
    BY <2>1, <1>3, Calls
  <2>2. CASE j # 1
    <3>1. j \in 2 .. Len(v) /\ j \in 1 .. Len(t) - 1
      BY <2>2, <1>4
    <3> QED
      BY <3>1, <1>5 DEF Allocates
  <2> QED
    BY <2>1, <2>2
<1>9. Allocates(v, a, b)
  BY <1>4, <1>7, <1>8 DEF Allocates
<1> QED
  BY <1>3, <1>4, <1>9, Items

ReapSeq(n) == <<Call("node_detach", n), Call("node_free", n)>>

LEMMA ReapPrefix ==
    ASSUME NEW u \in Seq(CallRecord), \A j \in 1 .. Len(u) : u[j].do = "reap",
           NEW n \in Nodes, NEW v, v = Cat(ReapSeq(n), u)
    PROVE  /\ v \in Seq(CallRecord) /\ Reaps(v) /\ v # <<>> /\ v[1] = Call("node_detach", n)
           /\ Len(v) >= 2 /\ v[2] = Call("node_free", n)
           /\ \A j \in 3 .. Len(v) : v[j].do = "reap"
<1> DEFINE g == ReapSeq(n)
<1>1. g \in Seq(CallRecord) /\ Len(g) = 2 /\ g[1] = Call("node_detach", n) /\ g[2] = Call("node_free", n)
  BY Calls DEF ReapSeq
<1> HIDE DEF g
<1>2. IsCat(v, g, u)
  <2>1. v = Cat(g, u)
    BY DEF g
  <2> QED
    BY <1>1, <2>1, CatItems
<1>3. /\ v \in Seq(CallRecord) /\ Len(u) \in Nat /\ Len(v) = Len(u) + 2
      /\ v[1] = Call("node_detach", n) /\ v[2] = Call("node_free", n)
      /\ \A i \in 3 .. Len(v) : v[i] = u[i - 2]
  <2>1. v \in Seq(CallRecord) /\ Len(u) \in Nat /\ Len(v) = Len(u) + 2
    BY <1>1, <1>2 DEF IsCat
  <2>2. (\A i \in 1 .. 2 : v[i] = g[i]) /\ (\A i \in 3 .. Len(v) : v[i] = u[i - 2])
    BY <1>1, <1>2 DEF IsCat
  <2> QED
    BY <1>1, <2>1, <2>2
<1>4. Len(v) \in Nat /\ Len(v) >= 2
  BY <1>3
<1>5. \A j \in 3 .. Len(v) : v[j].do = "reap"
  <2> TAKE j \in 3 .. Len(v)
  <2>1. j - 2 \in 1 .. Len(u)
    BY <1>3
  <2> QED
    BY <1>3, <2>1
<1>6. Reaps(v)
  <2>1. \A j \in 1 .. Len(v) : j = 1 \/ j = 2 \/ j \in 3 .. Len(v)
    BY <1>4
  <2>2. v[1].do = "node_detach" /\ v[1].n = n /\ v[2].do = "node_free"
    BY <1>3, Calls
  <2> QED
    BY <2>1, <2>2, <1>3, <1>4, <1>5 DEF Reaps
<1> QED
  BY <1>3, <1>4, <1>5, <1>6, Items

LEMMA WakePrefix ==
    ASSUME NEW n \in Nodes, NEW w \in Opt, NEW m \in Opt,
           NEW v, v = <<Call("node_detach", n), Call("bump", w), Call("wake_object", m)>>
    PROVE  /\ v \in Seq(CallRecord) /\ Wakes(v) /\ v # <<>> /\ Len(v) = 3
           /\ v[1] = Call("node_detach", n) /\ v[2] = Call("bump", w) /\ v[3] = Call("wake_object", m)
<1>1. /\ v \in Seq(CallRecord) /\ Len(v) = 3 /\ v # <<>>
      /\ v[1] = Call("node_detach", n) /\ v[2] = Call("bump", w) /\ v[3] = Call("wake_object", m)
  BY Calls
<1> QED
  BY <1>1, Calls DEF Wakes

LEMMA WakeOne ==
    ASSUME NEW m \in Opt, NEW v, v = <<Call("wake_object", m)>>
    PROVE  /\ v \in Seq(CallRecord) /\ Wakes(v) /\ v # <<>> /\ Len(v) = 1
           /\ v[1] = Call("wake_object", m)
<1>1. v \in Seq(CallRecord) /\ Len(v) = 1 /\ v # <<>> /\ v[1] = Call("wake_object", m)
  BY Calls
<1> QED
  BY <1>1, Calls DEF Wakes

-----------------------------------------------------------------------------
(* The stores of a call, one by one. *)

\* t is s1 and then s2.
Splits(t, s1, s2) ==
    /\ t \in Seq(StoreRecord) /\ s1 \in Seq(StoreRecord) /\ s2 \in Seq(StoreRecord)
    /\ Len(t) = Len(s1) + Len(s2)
    /\ \A i \in 1 .. Len(s1) : t[i] = s1[i]
    /\ \A i \in 1 .. Len(s2) : t[Len(s1) + i] = s2[i]

LEMMA CatIs ==
    ASSUME NEW t, NEW s1, NEW s2, Splits(t, s1, s2)
    PROVE  s1 \o s2 = t
<1>1. /\ Len(s1) \in Nat /\ Len(s2) \in Nat /\ s1 \in Seq(StoreRecord) /\ s2 \in Seq(StoreRecord)
      /\ t \in Seq(StoreRecord) /\ Len(t) = Len(s1) + Len(s2)
  BY LenProperties DEF Splits
<1> DEFINE u == s1 \o s2
<1>2. /\ u \in Seq(StoreRecord) /\ Len(u) = Len(s1) + Len(s2)
      /\ \A i \in 1 .. Len(s1) + Len(s2) : u[i] = IF i <= Len(s1) THEN s1[i] ELSE s2[i - Len(s1)]
  BY <1>1, ConcatProperties
<1> HIDE DEF u
<1>3. ASSUME NEW i \in 1 .. Len(u) PROVE u[i] = t[i]
  <2>1. CASE i <= Len(s1)
    BY <1>1, <1>2, <2>1 DEF Splits
  <2>2. CASE i > Len(s1)
    <3>1. i - Len(s1) \in 1 .. Len(s2) /\ Len(s1) + (i - Len(s1)) = i /\ i \in 1 .. Len(s1) + Len(s2)
      BY <1>1, <1>2, <2>2
    <3>2. t[Len(s1) + (i - Len(s1))] = s2[i - Len(s1)]
      BY <3>1 DEF Splits
    <3>3. ~(i <= Len(s1))
      BY <1>1, <2>2
    <3> QED
      BY <1>2, <3>1, <3>2, <3>3
  <2> QED
    BY <1>1, <1>2, <2>1, <2>2
<1>4. u = t
  BY <1>1, <1>2, <1>3, SeqEqual
<1> QED
  BY <1>4 DEF u

LEMMA Cat14 ==
    ASSUME NEW a \in StoreRecord, NEW c \in StoreRecord, NEW d \in StoreRecord,
           NEW e \in StoreRecord, NEW f \in StoreRecord
    PROVE  <<a>> \o <<>> \o <<c, d, e, f>> = <<a, c, d, e, f>>
<1>0. <<a>> \o <<>> = <<a>>
  BY ConcatEmptySeq
<1> DEFINE s1 == <<a>>
           s2 == <<c, d, e, f>>
           t  == <<a, c, d, e, f>>
<1>1. s1 \in Seq(StoreRecord) /\ s2 \in Seq(StoreRecord) /\ t \in Seq(StoreRecord) /\ Len(s1) = 1 /\ Len(s2) = 4 /\ Len(t) = 5
  OBVIOUS
<1>2. t[1] = s1[1] /\ t[2] = s2[1] /\ t[3] = s2[2] /\ t[4] = s2[3] /\ t[5] = s2[4]
  OBVIOUS
<1> HIDE DEF s1, s2, t
<1>3. \A i \in 1 .. Len(s1) : t[i] = s1[i]
  BY <1>1, <1>2
<1>4. \A i \in 1 .. Len(s2) : t[Len(s1) + i] = s2[i]
  <2>1. \A i \in 1 .. 4 : i = 1 \/ i = 2 \/ i = 3 \/ i = 4
    OBVIOUS
  <2> QED
    BY <1>1, <1>2, <2>1
<1>5. s1 \o s2 = t
  <2>1. Splits(t, s1, s2)
    BY <1>1, <1>3, <1>4 DEF Splits
  <2> QED
    BY <2>1, CatIs
<1> QED
  BY <1>0, <1>5 DEF s1, s2, t

LEMMA Cat114 ==
    ASSUME NEW a \in StoreRecord, NEW b \in StoreRecord, NEW c \in StoreRecord, NEW d \in StoreRecord,
           NEW e \in StoreRecord, NEW f \in StoreRecord
    PROVE  <<a>> \o <<b>> \o <<c, d, e, f>> = <<a, b, c, d, e, f>>
<1> DEFINE s0 == <<a>>
           s3 == <<b>>
           s1 == <<a, b>>
           s2 == <<c, d, e, f>>
           t  == <<a, b, c, d, e, f>>
<1>1. /\ s0 \in Seq(StoreRecord) /\ s3 \in Seq(StoreRecord) /\ s1 \in Seq(StoreRecord)
      /\ s2 \in Seq(StoreRecord) /\ t \in Seq(StoreRecord)
      /\ Len(s0) = 1 /\ Len(s3) = 1 /\ Len(s1) = 2 /\ Len(s2) = 4 /\ Len(t) = 6
  OBVIOUS
<1>2. /\ s1[1] = s0[1] /\ s1[2] = s3[1] /\ t[1] = s1[1] /\ t[2] = s1[2]
      /\ t[3] = s2[1] /\ t[4] = s2[2] /\ t[5] = s2[3] /\ t[6] = s2[4]
  OBVIOUS
<1> HIDE DEF s0, s1, s2, s3, t
<1>3. s0 \o s3 = s1
  <2>1. Splits(s1, s0, s3)
    BY <1>1, <1>2 DEF Splits
  <2> QED
    BY <2>1, CatIs
<1>4. (\A i \in 1 .. 4 : i = 1 \/ i = 2 \/ i = 3 \/ i = 4) /\ (\A i \in 1 .. 2 : i = 1 \/ i = 2)
  OBVIOUS
<1>5. \A i \in 1 .. Len(s1) : t[i] = s1[i]
  BY <1>1, <1>2, <1>4
<1>6. \A i \in 1 .. Len(s2) : t[Len(s1) + i] = s2[i]
  BY <1>1, <1>2, <1>4
<1>7. s1 \o s2 = t
  <2>1. Splits(t, s1, s2)
    BY <1>1, <1>5, <1>6 DEF Splits
  <2> QED
    BY <2>1, CatIs
<1> QED
  BY <1>3, <1>7 DEF s0, s1, s2, s3, t

LEMMA Cat51 ==
    ASSUME NEW a \in StoreRecord, NEW b \in StoreRecord, NEW c \in StoreRecord, NEW d \in StoreRecord,
           NEW e \in StoreRecord, NEW f \in StoreRecord
    PROVE  <<a, b, c, d, e>> \o <<>> \o <<f>> = <<a, b, c, d, e, f>>
<1> DEFINE s1 == <<a, b, c, d, e>>
           s2 == <<f>>
           t  == <<a, b, c, d, e, f>>
<1>1. /\ s1 \in Seq(StoreRecord) /\ s2 \in Seq(StoreRecord) /\ t \in Seq(StoreRecord)
      /\ Len(s1) = 5 /\ Len(s2) = 1 /\ Len(t) = 6
  OBVIOUS
<1>2. t[1] = s1[1] /\ t[2] = s1[2] /\ t[3] = s1[3] /\ t[4] = s1[4] /\ t[5] = s1[5] /\ t[6] = s2[1]
  OBVIOUS
<1> HIDE DEF s1, s2, t
<1>3. s1 \o <<>> = s1
  BY <1>1, ConcatEmptySeq
<1>4. \A i \in 1 .. 5 : i = 1 \/ i = 2 \/ i = 3 \/ i = 4 \/ i = 5
  OBVIOUS
<1>5. \A i \in 1 .. Len(s1) : t[i] = s1[i]
  BY <1>1, <1>2, <1>4
<1>6. \A i \in 1 .. Len(s2) : t[Len(s1) + i] = s2[i]
  BY <1>1, <1>2
<1>7. s1 \o s2 = t
  <2>1. Splits(t, s1, s2)
    BY <1>1, <1>5, <1>6 DEF Splits
  <2> QED
    BY <2>1, CatIs
<1> QED
  BY <1>3, <1>7 DEF s1, s2, t

LEMMA Cat511 ==
    ASSUME NEW a \in StoreRecord, NEW b \in StoreRecord, NEW c \in StoreRecord, NEW d \in StoreRecord,
           NEW e \in StoreRecord, NEW f \in StoreRecord, NEW g \in StoreRecord
    PROVE  <<a, b, c, d, e>> \o <<f>> \o <<g>> = <<a, b, c, d, e, f, g>>
<1> DEFINE s0 == <<a, b, c, d, e>>
           s1 == <<a, b, c, d, e, f>>
           s2 == <<g>>
           s3 == <<f>>
           t  == <<a, b, c, d, e, f, g>>
<1>1. /\ s0 \in Seq(StoreRecord) /\ s3 \in Seq(StoreRecord) /\ s1 \in Seq(StoreRecord)
      /\ s2 \in Seq(StoreRecord) /\ t \in Seq(StoreRecord)
      /\ Len(s0) = 5 /\ Len(s3) = 1 /\ Len(s1) = 6 /\ Len(s2) = 1 /\ Len(t) = 7
  OBVIOUS
<1>2. /\ s1[1] = s0[1] /\ s1[2] = s0[2] /\ s1[3] = s0[3] /\ s1[4] = s0[4] /\ s1[5] = s0[5] /\ s1[6] = s3[1]
      /\ t[1] = s1[1] /\ t[2] = s1[2] /\ t[3] = s1[3] /\ t[4] = s1[4] /\ t[5] = s1[5] /\ t[6] = s1[6]
      /\ t[7] = s2[1]
  OBVIOUS
<1> HIDE DEF s0, s1, s2, s3, t
<1>3. /\ \A i \in 1 .. 5 : i = 1 \/ i = 2 \/ i = 3 \/ i = 4 \/ i = 5
      /\ \A i \in 1 .. 6 : i = 1 \/ i = 2 \/ i = 3 \/ i = 4 \/ i = 5 \/ i = 6
  OBVIOUS
<1>4. (\A i \in 1 .. Len(s0) : s1[i] = s0[i]) /\ (\A i \in 1 .. Len(s3) : s1[Len(s0) + i] = s3[i])
  BY <1>1, <1>2, <1>3
<1>5. s0 \o s3 = s1
  <2>1. Splits(s1, s0, s3)
    BY <1>1, <1>4 DEF Splits
  <2> QED
    BY <2>1, CatIs
<1>6. (\A i \in 1 .. Len(s1) : t[i] = s1[i]) /\ (\A i \in 1 .. Len(s2) : t[Len(s1) + i] = s2[i])
  BY <1>1, <1>2, <1>3
<1>7. s1 \o s2 = t
  <2>1. Splits(t, s1, s2)
    BY <1>1, <1>6 DEF Splits
  <2> QED
    BY <2>1, CatIs
<1> QED
  BY <1>5, <1>7 DEF s0, s1, s2, s3, t

LEMMA QuietStores ==
    /\ \A n, v : /\ Quiet(Set(n, "obj", v)) /\ Quiet(Set(n, "wait_word", v)) /\ Quiet(Set(n, "obj_prev", v))
                 /\ Quiet(Set(n, "obj_next", v)) /\ Quiet(SetHead(n, v)) /\ Quiet(SetUsed(n, v))
    /\ \A n : Quiet(Set(n, "registered", FALSE))
  BY DEF Quiet, Set, SetHead, SetUsed

LEMMA NodeFields ==
    ASSUME Types, NEW n \in Nodes
    PROVE  /\ node[n] \in NodeRecord
           /\ node[n].registered \in BOOLEAN /\ node[n].obj \in Slots \cup {NIL}
           /\ node[n].wait_word \in Opt /\ node[n].obj_prev \in Opt /\ node[n].obj_next \in Opt
           /\ node[n].waiter_next \in Opt /\ node[n].pid \in Procs \cup {NoProc}
<1>1. node[n] \in NodeRecord
  BY DEF Types, TypeOK
<1> QED
  BY <1>1 DEF NodeRecord, Opt

\* What node_detach stores first.
Unlink(n) == IF node[n].obj_prev = NIL THEN SetHead(node[n].obj, node[n].obj_next)
             ELSE Set(node[n].obj_prev, "obj_next", node[n].obj_next)

LEMMA UnlinkStore ==
    ASSUME Types, NEW n \in Nodes
    PROVE  Unlink(n) \in StoreRecord /\ Quiet(Unlink(n))
<1>1. node[n].obj_prev # NIL => node[n].obj_prev \in Nodes
  BY NodeFields DEF Opt
<1>2. CASE node[n].obj_prev = NIL
  BY <1>2, NodeFields, Stores, SetFields DEF Unlink, Quiet
<1>3. CASE node[n].obj_prev # NIL
  BY <1>1, <1>3, NodeFields, Stores, SetFields DEF Unlink, Quiet, LinkFields
<1> QED
  BY <1>2, <1>3

LEMMA DetachStores ==
    ASSUME Types, NEW n \in Nodes
    PROVE  /\ ~node[n].registered => node_detach(n) = <<>>
           /\ node[n].registered /\ node[n].obj_next = NIL =>
                node_detach(n) = <<Unlink(n), Set(n, "registered", FALSE), Set(n, "obj", NIL),
                                   Set(n, "obj_prev", NIL), Set(n, "obj_next", NIL)>>
           /\ node[n].registered /\ node[n].obj_next # NIL =>
                node_detach(n) = <<Unlink(n), Set(node[n].obj_next, "obj_prev", node[n].obj_prev),
                                   Set(n, "registered", FALSE), Set(n, "obj", NIL),
                                   Set(n, "obj_prev", NIL), Set(n, "obj_next", NIL)>>
           /\ node_detach(n) \in Seq(StoreRecord) /\ OfDetach(node_detach(n))
<1> DEFINE a == Unlink(n)
           b == Set(node[n].obj_next, "obj_prev", node[n].obj_prev)
           c == Set(n, "registered", FALSE)
           d == Set(n, "obj", NIL)
           e == Set(n, "obj_prev", NIL)
           f == Set(n, "obj_next", NIL)
           st == node_detach(n)
<1>1. /\ a \in StoreRecord /\ c \in StoreRecord /\ d \in StoreRecord /\ e \in StoreRecord /\ f \in StoreRecord
      /\ Quiet(a) /\ Quiet(c) /\ Quiet(d) /\ Quiet(e) /\ Quiet(f)
  <2>1. a \in StoreRecord /\ Quiet(a)
    BY UnlinkStore
  <2>2. c \in StoreRecord /\ d \in StoreRecord /\ e \in StoreRecord /\ f \in StoreRecord
    BY Stores DEF LinkFields, Opt
  <2>3. Quiet(c) /\ Quiet(d) /\ Quiet(e) /\ Quiet(f)
    BY QuietStores
  <2> QED
    BY <2>1, <2>2, <2>3
<1>2. node[n].obj_next # NIL => b \in StoreRecord /\ Quiet(b)
  <2>1. node[n].obj_next # NIL => node[n].obj_next \in Nodes
    BY NodeFields DEF Opt
  <2> QED
    BY <2>1, NodeFields, Stores, SetFields DEF Quiet, LinkFields
<1>3. ~node[n].registered => st = <<>>
  BY DEF node_detach
<1>4. node[n].registered /\ node[n].obj_next = NIL => st = <<a>> \o <<>> \o <<c, d, e, f>>
  BY DEF node_detach, Unlink
<1>5. node[n].registered /\ node[n].obj_next # NIL => st = <<a>> \o <<b>> \o <<c, d, e, f>>
  BY DEF node_detach, Unlink
<1> HIDE DEF a, b, c, d, e, f, st
<1>6. node[n].registered /\ node[n].obj_next = NIL => st = <<a, c, d, e, f>>
  BY <1>1, <1>4, Cat14
<1>7. node[n].registered /\ node[n].obj_next # NIL => st = <<a, b, c, d, e, f>>
  BY <1>1, <1>2, <1>5, Cat114
<1>8. st \in Seq(StoreRecord) /\ OfDetach(st)
  <2>1. CASE ~node[n].registered
    <3>1. st = <<>> /\ <<>> \in Seq(StoreRecord) /\ Len(<<>>) = 0
      BY <2>1, <1>3, EmptySeq
    <3> QED
      BY <3>1 DEF OfDetach
  <2>2. CASE node[n].registered /\ node[n].obj_next = NIL
    <3>a. st = <<a, c, d, e, f>>
      BY <1>6, <2>2
    <3>b. <<a, c, d, e, f>> \in Seq(StoreRecord)
      BY <1>1, <2>2
    <3>c. Len(<<a, c, d, e, f>>) = 5
      OBVIOUS
    <3>d. <<a, c, d, e, f>>[1] = a /\ <<a, c, d, e, f>>[2] = c /\ <<a, c, d, e, f>>[3] = d /\ <<a, c, d, e, f>>[4] = e
      OBVIOUS
    <3>e. <<a, c, d, e, f>>[5] = f
      OBVIOUS
    <3>1. /\ st \in Seq(StoreRecord) /\ Len(st) = 5 /\ st[1] = a /\ st[2] = c /\ st[3] = d /\ st[4] = e /\ st[5] = f
      BY <3>a, <3>b, <3>c, <3>d, <3>e
    <3>2. \A i \in 1 .. 5 : i = 1 \/ i = 2 \/ i = 3 \/ i = 4 \/ i = 5
      OBVIOUS
    <3>3. 1 .. Len(st) = 1 .. 5
      BY <3>1
    <3> QED
      BY <1>1, <3>1, <3>2, <3>3 DEF OfDetach
  <2>3. CASE node[n].registered /\ node[n].obj_next # NIL
    <3>a. st = <<a, b, c, d, e, f>>
      BY <1>7, <2>3
    <3>b. <<a, b, c, d, e, f>> \in Seq(StoreRecord)
      BY <1>1, <1>2, <2>3
    <3>c. Len(<<a, b, c, d, e, f>>) = 6
      OBVIOUS
    <3>d. <<a, b, c, d, e, f>>[1] = a /\ <<a, b, c, d, e, f>>[2] = b /\ <<a, b, c, d, e, f>>[3] = c /\ <<a, b, c, d, e, f>>[4] = d
      OBVIOUS
    <3>e. <<a, b, c, d, e, f>>[5] = e /\ <<a, b, c, d, e, f>>[6] = f
      OBVIOUS
    <3>1. /\ st \in Seq(StoreRecord) /\ Len(st) = 6 /\ st[1] = a /\ st[2] = b
          /\ st[3] = c /\ st[4] = d /\ st[5] = e /\ st[6] = f
      BY <3>a, <3>b, <3>c, <3>d, <3>e
    <3>2. \A i \in 1 .. 6 : i = 1 \/ i = 2 \/ i = 3 \/ i = 4 \/ i = 5 \/ i = 6
      OBVIOUS
    <3>3. 1 .. Len(st) = 1 .. 6
      BY <3>1
    <3> QED
      BY <1>1, <1>2, <2>3, <3>1, <3>2, <3>3 DEF OfDetach
  <2> QED
    BY <2>1, <2>2, <2>3
<1> QED
  BY <1>3, <1>6, <1>7, <1>8 DEF a, b, c, d, e, f, st

LEMMA RegisterStores ==
    ASSUME Types, NEW n \in Nodes, NEW s \in Slots, NEW w \in Nodes, NEW ns, n \in {ns[j] : j \in 1 .. Len(ns)}
    PROVE  /\ waiter_head[s] = NIL =>
                node_register(n, s, w) =
                  <<Set(n, "registered", TRUE), Set(n, "obj", s), Set(n, "wait_word", w),
                    Set(n, "obj_prev", NIL), Set(n, "obj_next", waiter_head[s]), SetHead(s, n)>>
           /\ waiter_head[s] # NIL =>
                node_register(n, s, w) =
                  <<Set(n, "registered", TRUE), Set(n, "obj", s), Set(n, "wait_word", w),
                    Set(n, "obj_prev", NIL), Set(n, "obj_next", waiter_head[s]),
                    Set(waiter_head[s], "obj_prev", n), SetHead(s, n)>>
           /\ node_register(n, s, w) \in Seq(StoreRecord) /\ OfRegister(node_register(n, s, w), ns)
<1> DEFINE old == waiter_head[s]
           a == Set(n, "registered", TRUE)
           b == Set(n, "obj", s)
           c == Set(n, "wait_word", w)
           d == Set(n, "obj_prev", NIL)
           e == Set(n, "obj_next", old)
           f == Set(old, "obj_prev", n)
           g == SetHead(s, n)
           st == node_register(n, s, w)
<1>0. old \in Opt
  BY DEF Types, TypeOK, Opt
<1>1. /\ a \in StoreRecord /\ b \in StoreRecord /\ c \in StoreRecord /\ d \in StoreRecord
      /\ e \in StoreRecord /\ g \in StoreRecord
      /\ Quiet(b) /\ Quiet(c) /\ Quiet(d) /\ Quiet(e) /\ Quiet(g)
      /\ a.do = "set" /\ a.field = "registered" /\ a.n = n
  <2>1. Quiet(b) /\ Quiet(c) /\ Quiet(d) /\ Quiet(e) /\ Quiet(g)
    BY QuietStores
  <2>2. a.do = "set" /\ a.field = "registered" /\ a.n = n
    BY DEF Set
  <2>3. a \in StoreRecord /\ b \in StoreRecord /\ c \in StoreRecord
    BY Stores DEF LinkFields, Opt
  <2>4. d \in StoreRecord /\ e \in StoreRecord /\ g \in StoreRecord
    BY <1>0, Stores DEF LinkFields, Opt
  <2> QED
    BY <2>1, <2>2, <2>3, <2>4
<1>2. old # NIL => f \in StoreRecord /\ Quiet(f)
  BY <1>0, Stores, SetFields DEF Quiet, LinkFields, Opt
<1>4. old = NIL => st = <<a, b, c, d, e>> \o <<>> \o <<g>>
  BY DEF node_register
<1>5. old # NIL => st = <<a, b, c, d, e>> \o <<f>> \o <<g>>
  BY DEF node_register
<1> HIDE DEF a, b, c, d, e, f, g, st
<1>6. old = NIL => st = <<a, b, c, d, e, g>>
  BY <1>1, <1>4, Cat51
<1>7. old # NIL => st = <<a, b, c, d, e, f, g>>
  <2> SUFFICES ASSUME old # NIL PROVE st = <<a, b, c, d, e, f, g>>
    OBVIOUS
  <2>1. <<a, b, c, d, e>> \o <<f>> \o <<g>> = <<a, b, c, d, e, f, g>>
    BY <1>1, <1>2, Cat511
  <2> QED
    BY <1>5, <2>1
<1>8. st \in Seq(StoreRecord) /\ OfRegister(st, ns)
  <2>0. \E j \in 1 .. Len(ns) : a.n = ns[j]
    BY <1>1
  <2> DEFINE Fine(x) == Quiet(x) \/ (x.do = "set" /\ x.field = "registered" /\ \E j \in 1 .. Len(ns) : x.n = ns[j])
  <2>1. Fine(a) /\ Fine(b) /\ Fine(c) /\ Fine(d) /\ Fine(e) /\ Fine(g) /\ (old # NIL => Fine(f))
    BY <1>1, <1>2, <2>0
  <2>2. (\A i \in 1 .. Len(st) : Fine(st[i])) => OfRegister(st, ns)
    BY DEF OfRegister
  <2> HIDE DEF Fine
  <2>3. CASE old = NIL
    <3>a. st = <<a, b, c, d, e, g>>
      BY <1>6, <2>3
    <3>b. <<a, b, c, d, e, g>> \in Seq(StoreRecord)
      BY <1>1, <2>3
    <3>c. Len(<<a, b, c, d, e, g>>) = 6
      OBVIOUS
    <3>d. <<a, b, c, d, e, g>>[1] = a /\ <<a, b, c, d, e, g>>[2] = b /\ <<a, b, c, d, e, g>>[3] = c /\ <<a, b, c, d, e, g>>[4] = d
      OBVIOUS
    <3>e. <<a, b, c, d, e, g>>[5] = e /\ <<a, b, c, d, e, g>>[6] = g
      OBVIOUS
    <3>1. /\ st \in Seq(StoreRecord) /\ Len(st) = 6 /\ st[1] = a /\ st[2] = b /\ st[3] = c
          /\ st[4] = d /\ st[5] = e /\ st[6] = g
      BY <3>a, <3>b, <3>c, <3>d, <3>e
    <3>2. \A i \in 1 .. 6 : i = 1 \/ i = 2 \/ i = 3 \/ i = 4 \/ i = 5 \/ i = 6
      OBVIOUS
    <3>3. 1 .. Len(st) = 1 .. 6
      BY <3>1
    <3> QED
      BY <2>1, <2>2, <3>1, <3>2, <3>3
  <2>4. CASE old # NIL
    <3>a. st = <<a, b, c, d, e, f, g>>
      BY <1>7, <2>4
    <3>b. <<a, b, c, d, e, f, g>> \in Seq(StoreRecord)
      BY <1>1, <1>2, <2>4
    <3>c. Len(<<a, b, c, d, e, f, g>>) = 7
      OBVIOUS
    <3>d. <<a, b, c, d, e, f, g>>[1] = a /\ <<a, b, c, d, e, f, g>>[2] = b /\ <<a, b, c, d, e, f, g>>[3] = c /\ <<a, b, c, d, e, f, g>>[4] = d
      OBVIOUS
    <3>e. <<a, b, c, d, e, f, g>>[5] = e /\ <<a, b, c, d, e, f, g>>[6] = f /\ <<a, b, c, d, e, f, g>>[7] = g
      OBVIOUS
    <3>1. /\ st \in Seq(StoreRecord) /\ Len(st) = 7 /\ st[1] = a /\ st[2] = b /\ st[3] = c
          /\ st[4] = d /\ st[5] = e /\ st[6] = f /\ st[7] = g
      BY <3>a, <3>b, <3>c, <3>d, <3>e
    <3>2. \A i \in 1 .. 7 : i = 1 \/ i = 2 \/ i = 3 \/ i = 4 \/ i = 5 \/ i = 6 \/ i = 7
      OBVIOUS
    <3>3. 1 .. Len(st) = 1 .. 7
      BY <3>1
    <3> QED
      BY <2>1, <2>2, <2>4, <3>1, <3>2, <3>3
  <2> QED
    BY <2>3, <2>4
<1> QED
  BY <1>6, <1>7, <1>8 DEF a, b, c, d, e, f, g, st

LEMMA AllocStores ==
    ASSUME Types, ~Exhausted, NEW p \in Procs
    PROVE  LET st == node_alloc(p)
               n  == NextNode
           IN  /\ n \in Nodes /\ st \in Seq(StoreRecord) /\ Len(st) = 8
               /\ st[1] \in {SetFree(node[n].waiter_next), SetFresh(n + 1)}
               /\ node_free_head # NIL => n = node_free_head /\ st[1] = SetFree(node[n].waiter_next)
               /\ node_free_head = NIL => n = node_fresh /\ st[1] = SetFresh(n + 1)
               /\ st[2] = Set(n, "registered", FALSE) /\ st[3] = Set(n, "obj", NIL)
               /\ st[4] = Set(n, "wait_word", NIL) /\ st[5] = Set(n, "obj_prev", NIL)
               /\ st[6] = Set(n, "obj_next", NIL) /\ st[7] = Set(n, "waiter_next", NIL)
               /\ st[8] = Set(n, "pid", p)
               /\ OfAlloc(st, n, p, node_free_head, node_fresh, node)
<1> DEFINE n == NextNode
           a == IF node_free_head # NIL THEN SetFree(node[n].waiter_next) ELSE SetFresh(n + 1)
           b == Set(n, "registered", FALSE)
           c == Set(n, "obj", NIL)
           d == Set(n, "wait_word", NIL)
           e == Set(n, "obj_prev", NIL)
           f == Set(n, "obj_next", NIL)
           g == Set(n, "waiter_next", NIL)
           h == Set(n, "pid", p)
           st == node_alloc(p)
<1>1. /\ n \in Nodes
      /\ node_free_head # NIL => n = node_free_head
      /\ node_free_head = NIL => n = node_fresh /\ n + 1 \in 0 .. NodeCount
  BY NodeSet DEF Types, TypeOK, NextNode, Exhausted, Nodes
<1>2. a \in StoreRecord
  <2>1. node[n].waiter_next \in Opt
    BY <1>1, NodeFields
  <2> QED
    BY <1>1, <2>1, Stores
<1>3. b \in StoreRecord /\ c \in StoreRecord /\ d \in StoreRecord /\ e \in StoreRecord
  BY <1>1, Stores DEF LinkFields, Opt
<1>4. f \in StoreRecord /\ g \in StoreRecord /\ h \in StoreRecord
  BY <1>1, Stores DEF LinkFields, Opt
<1>5. st = <<a, b, c, d, e, f, g, h>>
  BY DEF node_alloc
<1>6. /\ node_free_head # NIL => a = SetFree(node[n].waiter_next)
      /\ node_free_head = NIL => a = SetFresh(n + 1)
  OBVIOUS
<1>7. Quiet(b) /\ Quiet(c) /\ Quiet(d) /\ Quiet(e) /\ Quiet(f)
  BY QuietStores
<1>8. /\ b.do = "set" /\ c.do = "set" /\ d.do = "set" /\ e.do = "set" /\ f.do = "set" /\ g.do = "set" /\ h.do = "set"
      /\ b.n = n /\ c.n = n /\ d.n = n /\ e.n = n /\ f.n = n /\ g.n = n /\ h.n = n
      /\ g.field = "waiter_next"
  BY DEF Set
<1>9. h = Set(n, "pid", p)
  OBVIOUS
<1>20. /\ b = Set(n, "registered", FALSE) /\ c = Set(n, "obj", NIL) /\ d = Set(n, "wait_word", NIL)
       /\ e = Set(n, "obj_prev", NIL) /\ f = Set(n, "obj_next", NIL) /\ g = Set(n, "waiter_next", NIL)
  OBVIOUS
<1> HIDE DEF a, b, c, d, e, f, g, h, st, n
<1>10. <<a, b, c, d, e, f, g, h>> \in Seq(StoreRecord)
  BY <1>2, <1>3, <1>4
<1>11. Len(<<a, b, c, d, e, f, g, h>>) = 8
  OBVIOUS
<1>12. /\ <<a, b, c, d, e, f, g, h>>[1] = a /\ <<a, b, c, d, e, f, g, h>>[2] = b
       /\ <<a, b, c, d, e, f, g, h>>[3] = c /\ <<a, b, c, d, e, f, g, h>>[4] = d
  OBVIOUS
<1>13. /\ <<a, b, c, d, e, f, g, h>>[5] = e /\ <<a, b, c, d, e, f, g, h>>[6] = f
       /\ <<a, b, c, d, e, f, g, h>>[7] = g /\ <<a, b, c, d, e, f, g, h>>[8] = h
  OBVIOUS
<1>14. /\ st \in Seq(StoreRecord) /\ Len(st) = 8
       /\ st[1] = a /\ st[2] = b /\ st[3] = c /\ st[4] = d /\ st[5] = e /\ st[6] = f /\ st[7] = g /\ st[8] = h
  BY <1>5, <1>10, <1>11, <1>12, <1>13
<1>15. OfAlloc(st, n, p, node_free_head, node_fresh, node)
  <2>1. 1 .. Len(st) = 1 .. 8 /\ st[Len(st)] = h
    BY <1>14
  <2>2. \A i \in 1 .. 8 : i = 1 \/ i = 2 \/ i = 3 \/ i = 4 \/ i = 5 \/ i = 6 \/ i = 7 \/ i = 8
    OBVIOUS
  <2>3. \A i \in 1 .. Len(st) :
          \/ i = 1 /\ Len(st) = 8
          \/ /\ st[i].do = "set" /\ st[i].n = n
             /\ Quiet(st[i]) \/ st[i].field = "waiter_next" \/ st[i] = Set(n, "pid", p)
    BY <1>7, <1>8, <1>9, <1>14, <2>1, <2>2
  <2>4. \/ st[1] = SetFree(node[n].waiter_next) /\ node_free_head = n
        \/ st[1] = SetFresh(n + 1) /\ node_free_head = NIL /\ node_fresh = n
    BY <1>1, <1>6, <1>14
  <2>5. Len(st) <= 8
    BY <1>14
  <2>6. st # <<>>
    BY <1>14, Items
  <2> QED
    BY <1>9, <2>1, <2>3, <2>4, <2>5, <2>6 DEF OfAlloc
<1> QED
  BY <1>1, <1>6, <1>9, <1>20, <1>14, <1>15 DEF n, st


Below == {xy \in Nat \X Nat : xy[1] < xy[2]}

LEMMA LeastExists ==
    ASSUME NEW S \in SUBSET Nat, S # {}
    PROVE  \E x \in S : \A y \in S : x <= y
<1>0. IsWellFoundedOn(Below, Nat)
  BY NatLessThanWellFounded DEF OpToRel, Below
<1>1. PICK x \in S : \A y \in S : <<y, x>> \notin Below
  BY <1>0, WFMin
<1>2. ASSUME NEW y \in S PROVE x <= y
  <2>1. x \in Nat /\ y \in Nat /\ <<y, x>> \notin Below
    BY <1>1
  <2>2. ~(y < x)
    BY <2>1 DEF Below
  <2>3. QED
    BY <2>1, <2>2
<1>3. QED
  BY <1>2

LEMMA RegisterNextIs ==
    ASSUME Types, NEW p \in Procs, Unlisted(p) # {}
    PROVE  \E i \in 1 .. Len(mine[p]) :
             /\ ~node[mine[p][i]].registered
             /\ mine[p][i] \in Nodes /\ want[p][i] \in Slots /\ mine[p][1] \in Nodes
             /\ i \in 1 .. Len(want[p])
             /\ RegisterNext(p) = node_register(mine[p][i], want[p][i], mine[p][1])
<1>1. /\ mine[p] \in Seq(Nodes) /\ want[p] \in Seq(Slots) /\ Len(mine[p]) <= Len(want[p])
  BY DEF Types, TypeOK
<1>2. /\ Len(mine[p]) \in Nat /\ Len(want[p]) \in Nat
      /\ \A j \in 1 .. Len(mine[p]) : mine[p][j] \in Nodes
      /\ \A j \in 1 .. Len(want[p]) : want[p][j] \in Slots
  BY <1>1, Items
<1> DEFINE i == CHOOSE i \in Unlisted(p) : \A j \in Unlisted(p) : i <= j
<1>3. Unlisted(p) \in SUBSET Nat
  BY <1>2 DEF Unlisted
<1>4. \E x \in Unlisted(p) : \A y \in Unlisted(p) : x <= y
  BY <1>3, LeastExists
<1>5. i \in Unlisted(p)
  BY <1>4
<1>6. RegisterNext(p) = node_register(mine[p][i], want[p][i], mine[p][1])
  BY DEF RegisterNext
<1> HIDE DEF i
<1>7. i \in 1 .. Len(mine[p]) /\ ~node[mine[p][i]].registered
  BY <1>5 DEF Unlisted
<1>8. i \in 1 .. Len(want[p]) /\ 1 \in 1 .. Len(mine[p])
  BY <1>1, <1>2, <1>7
<1> QED
  BY <1>2, <1>6, <1>7, <1>8

-----------------------------------------------------------------------------
(* ShapeInv is inductive: sections begin. *)

LEMMA ShapeInit == Init => ShapeInv
<1> SUFFICES ASSUME Init PROVE ShapeInv
  OBVIOUS
<1>1. node \in [Nodes -> NodeRecord]
  BY DEF Init, Untouched, NodeRecord
<1>2. waiter_head \in [Slots -> Nodes \cup {NIL}] /\ used \in [Slots -> BOOLEAN]
  BY DEF Init
<1>3. node_free_head \in Nodes \cup {NIL} /\ node_fresh \in 0 .. NodeCount
  BY NodeListAssumption DEF Init
<1>4. \A p \in Procs : want[p] = <<>> /\ mine[p] = <<>>
  BY DEF Init
<1>5. /\ \A p \in Procs : /\ want[p] \in Waits[p] \cup {<<>>}
                          /\ mine[p] \in Seq(Nodes) /\ Len(mine[p]) <= Len(want[p])
      /\ want \in [Procs -> Seq(Slots)] /\ mine \in [Procs -> Seq(Nodes)]
  BY <1>4 DEF Init
<1>6. stores \in Seq(StoreRecord) /\ todo \in Seq(CallRecord) /\ stores = <<>> /\ todo = <<>> /\ lock = NoProc
  BY DEF Init
<1>7. Types
  BY <1>1, <1>2, <1>3, <1>4, <1>5, <1>6 DEF Types, TypeOK, Init
<1> QED
  BY <1>6, <1>7 DEF ShapeInv

\* What p does when it gets the lock.
Enters(p, first, calls) == Enter(p, first, calls) /\ UNCHANGED <<memory, mine, alive, torn>>

LEMMA TypesEnter ==
    ASSUME ShapeInv, NEW p \in Procs, NEW first \in Seq(StoreRecord), NEW calls \in Seq(CallRecord),
           Enters(p, first, calls), UNCHANGED want
    PROVE  Types'
<1>1. p \in alive /\ lock' = p /\ stores' = first /\ todo' = calls
  BY DEF Enters, Enter, Do
<1>2. UNCHANGED <<node, waiter_head, used, node_free_head, node_fresh, mine, alive, torn>>
  BY DEF Enters, memory
<1> QED
  BY <1>1, <1>2, NodeSet DEF ShapeInv, Types, TypeOK

LEMMA ShapeEnter ==
    ASSUME ShapeInv, NEW p \in Procs, NEW first \in Seq(StoreRecord), NEW calls \in Seq(CallRecord),
           Enters(p, first, calls), UNCHANGED want,
           calls # <<>> => calls[1].do # "push", OfDetach(first),
           \/ Allocates(calls, Len(mine[p]), Len(want[p]))
           \/ Detaches(calls) \/ Cleans(calls, mine[p]) \/ Wakes(calls) \/ Reaps(calls)
    PROVE  ShapeInv'
<1>1. Types'
  BY TypesEnter
<1>2. lock' = p /\ stores' = first /\ todo' = calls /\ mine' = mine
  BY DEF Enters, Enter, Do
<1>3. calls # <<>> => Head(calls) = calls[1]
  BY TailItems
<1>4. ~Allocating'
  BY <1>2, <1>3 DEF Allocating
<1>5. Section'
  BY <1>2 DEF Section
<1>6. Call_'
  BY <1>2, <1>4 DEF Call_
<1> QED
  BY <1>1, <1>5, <1>6 DEF ShapeInv

LEMMA NoStores == <<>> \in Seq(StoreRecord) /\ OfDetach(<<>>) /\ Len(<<>>) = 0
  BY EmptySeq DEF OfDetach

LEMMA ShapeBlock ==
    ASSUME ShapeInv, NEW p \in Procs, Block(p)
    PROVE  ShapeInv'
<1>1. PICK w \in Waits[p] : /\ \A i \in 1 .. Len(w) : used[w[i]]
                            /\ want' = [want EXCEPT ![p] = w]
                            /\ Enters(p, <<>>, AllocSeq(w, p))
  BY DEF Block, Enters, AllocSeq
<1>2. w \in Seq(Slots) /\ w # <<>>
  BY NodeListAssumption
<1> DEFINE t == AllocSeq(w, p)
<1>3. t \in Seq(CallRecord) /\ Allocates(t, 0, Len(w)) /\ t # <<>> /\ t[1].do # "push"
  BY <1>2, AllocCalls
<1>4. p \in alive /\ lock' = p /\ stores' = <<>> /\ todo' = t
  BY <1>1 DEF Enters, Enter, Do
<1>5. UNCHANGED <<node, waiter_head, used, node_free_head, node_fresh, mine, alive, torn>>
  BY <1>1 DEF Enters, memory
<1> HIDE DEF t
<1>6. mine[p] = <<>> /\ Len(mine[p]) = 0 /\ want'[p] = w /\ \A q \in Procs \ {p} : want'[q] = want[q]
  BY <1>1 DEF Block, ShapeInv, Types
<1>7. \A q \in Procs : /\ want'[q] \in Waits[q] \cup {<<>>}
                       /\ mine'[q] \in Seq(Nodes) /\ Len(mine'[q]) <= Len(want'[q])
  <2> TAKE q \in Procs
  <2>1. CASE q = p
    <3>1. Len(w) \in Nat /\ mine'[q] = <<>> /\ Len(mine'[q]) = 0 /\ want'[q] = w
      BY <2>1, <1>2, <1>5, <1>6, Items
    <3>2. mine'[q] \in Seq(Nodes)
      BY <1>5 DEF ShapeInv, Types
    <3> QED
      BY <2>1, <3>1, <3>2
  <2>2. CASE q # p
    BY <2>2, <1>5, <1>6 DEF ShapeInv, Types, TypeOK
  <2> QED
    BY <2>1, <2>2
<1>8. want' \in [Procs -> Seq(Slots)]
  BY <1>1, <1>2 DEF ShapeInv, Types
<1>9. TypeOK'
  <2>1. /\ (node \in [Nodes -> NodeRecord])' /\ (waiter_head \in [Slots -> Nodes \cup {NIL}])'
        /\ (used \in [Slots -> BOOLEAN])' /\ (node_free_head \in Nodes \cup {NIL})'
        /\ (node_fresh \in 0 .. NodeCount)' /\ (alive \subseteq Procs)' /\ (torn \in BOOLEAN)'
    BY <1>5 DEF ShapeInv, Types, TypeOK
  <2>2. (lock \in Procs \cup {NoProc})' /\ (lock # NoProc => lock \in alive)'
    BY <1>4, <1>5
  <2> QED
    BY <1>7, <2>1, <2>2 DEF TypeOK
<1>10. \A q \in Procs \ alive' : mine'[q] = <<>> /\ want'[q] = <<>>
  BY <1>4, <1>5, <1>6 DEF ShapeInv, Types
<1>11. Types'
  <2>1. (lock = NoProc => stores = <<>> /\ todo = <<>>)'
    BY <1>4, NodeSet
  <2>2. (stores \in Seq(StoreRecord))' /\ (todo \in Seq(CallRecord))'
    BY <1>3, <1>4, NoStores
  <2>3. (mine \in [Procs -> Seq(Nodes)])'
    BY <1>5 DEF ShapeInv, Types
  <2> QED
    BY <1>8, <1>9, <1>10, <2>1, <2>2, <2>3 DEF Types
<1>12. ~Allocating'
  <2>1. Head(t) = t[1]
    BY <1>3, TailItems
  <2> QED
    BY <2>1, <1>3, <1>4 DEF Allocating
<1>13. Section'
  <2>1. Allocates(todo', Len(mine'[lock']), Len(want'[lock']))
    BY <1>3, <1>4, <1>5, <1>6
  <2> QED
    BY <2>1 DEF Section
<1>14. Call_'
  BY <1>4, <1>12, NoStores DEF Call_
<1> QED
  BY <1>11, <1>13, <1>14 DEF ShapeInv

LEMMA ShapeAgain ==
    ASSUME ShapeInv, NEW p \in Procs, Again(p)
    PROVE  ShapeInv'
<1> DEFINE t == <<Call("register", p)>>
<1>1. Enters(p, <<>>, t) /\ UNCHANGED want
  BY DEF Again, Enters
<1>2. t \in Seq(CallRecord) /\ t # <<>> /\ Len(t) = 1 /\ t[1] = Call("register", p)
  BY Calls
<1>3. t[1].do = "register"
  BY <1>2, Calls
<1> HIDE DEF t
<1>4. Len(mine[p]) \in Nat /\ Len(want[p]) \in Nat /\ Len(mine[p]) <= Len(want[p])
  BY LenProperties DEF ShapeInv, Types, TypeOK
<1>5. Allocates(t, Len(mine[p]), Len(want[p]))
  BY <1>2, <1>3, <1>4 DEF Allocates
<1> QED
  BY <1>1, <1>2, <1>3, <1>5, NoStores, ShapeEnter

LEMMA MineSeq ==
    ASSUME Types, NEW p \in Procs
    PROVE  /\ mine[p] \in Seq(Nodes) /\ Len(mine[p]) \in Nat /\ \A i \in 1 .. Len(mine[p]) : mine[p][i] \in Nodes
           /\ want[p] \in Seq(Slots) /\ Len(want[p]) \in Nat /\ Len(mine[p]) <= Len(want[p])
<1>1. mine[p] \in Seq(Nodes) /\ want[p] \in Seq(Slots) /\ Len(mine[p]) <= Len(want[p])
  BY DEF Types, TypeOK
<1> QED
  BY <1>1, Items

LEMMA ShapeDetach ==
    ASSUME ShapeInv, NEW p \in Procs, Detach(p)
    PROVE  ShapeInv'
<1> DEFINE t == ForEach("node_detach", mine[p])
<1>1. Enters(p, <<>>, t) /\ UNCHANGED want
  BY DEF Detach, Enters
<1>2. mine[p] \in Seq(Nodes)
  BY MineSeq DEF ShapeInv
<1>3. /\ t \in Seq(CallRecord) /\ Len(t) = Len(mine[p]) /\ Len(mine[p]) \in Nat
      /\ \A i \in 1 .. Len(mine[p]) : t[i] = Call("node_detach", mine[p][i])
  BY <1>2, ForEachCalls
<1> HIDE DEF t
<1>4. \A i \in 1 .. Len(t) : t[i].do = "node_detach"
  BY <1>3, Calls
<1>5. Detaches(t)
  BY <1>4 DEF Detaches
<1>6. t # <<>> => t[1].do # "push"
  <2>1. t # <<>> => 1 \in 1 .. Len(t)
    BY <1>3, Items
  <2> QED
    BY <2>1, <1>4
<1> QED
  BY <1>1, <1>3, <1>5, <1>6, NoStores, ShapeEnter

LEMMA ShapeCleanup ==
    ASSUME ShapeInv, NEW p \in Procs, Cleanup(p)
    PROVE  ShapeInv'
<1> DEFINE t == CleanSeq(mine[p], p)
<1>1. Enters(p, <<>>, t) /\ UNCHANGED want
  BY DEF Cleanup, Enters, waiter_cleanup, CleanSeq
<1>2. t \in Seq(CallRecord) /\ Cleans(t, mine[p]) /\ t # <<>> /\ t[1].do # "push"
  BY MineSeq, CleanCalls DEF ShapeInv
<1> HIDE DEF t
<1> QED
  BY <1>1, <1>2, NoStores, ShapeEnter

LEMMA ShapeSignal ==
    ASSUME ShapeInv, NEW p \in Procs, Signal(p)
    PROVE  ShapeInv'
<1>1. PICK s \in Slots : Enters(p, <<>>, <<Call("wake_object", waiter_head[s])>>) /\ UNCHANGED want
  BY DEF Signal, Enters
<1>2. waiter_head[s] \in Opt
  BY DEF ShapeInv, Types, TypeOK, Opt
<1> DEFINE t == <<Call("wake_object", waiter_head[s])>>
<1>3. t \in Seq(CallRecord) /\ Wakes(t) /\ t # <<>> /\ t[1] = Call("wake_object", waiter_head[s])
  BY <1>2, WakeOne
<1>4. t[1].do # "push"
  BY <1>3, Calls
<1>5. Enters(p, <<>>, t)
  BY <1>1
<1> HIDE DEF t
<1> QED
  BY <1>1, <1>3, <1>4, <1>5, NoStores, ShapeEnter

LEMMA ShapeClose ==
    ASSUME ShapeInv, NEW p \in Procs, close(p)
    PROVE  ShapeInv'
<1>1. PICK s \in Slots :
        /\ Enters(p, <<SetUsed(s, FALSE)>>, <<Call("wake_object", waiter_head[s])>>) /\ UNCHANGED want
  BY DEF close, Enters
<1>2. waiter_head[s] \in Opt
  BY DEF ShapeInv, Types, TypeOK, Opt
<1> DEFINE t  == <<Call("wake_object", waiter_head[s])>>
           c  == SetUsed(s, FALSE)
           st == <<c>>
<1>3. t \in Seq(CallRecord) /\ Wakes(t) /\ t # <<>> /\ t[1] = Call("wake_object", waiter_head[s])
  BY <1>2, WakeOne
<1>4. t[1].do # "push"
  BY <1>3, Calls
<1>5. Enters(p, st, t)
  BY <1>1
<1>6. c \in StoreRecord /\ Quiet(c)
  BY Stores, QuietStores
<1> HIDE DEF t, c
<1>7. st \in Seq(StoreRecord) /\ Len(st) = 1 /\ st[1] = c
  BY <1>6
<1> HIDE DEF st
<1>8. OfDetach(st)
  BY <1>6, <1>7 DEF OfDetach
<1> QED
  BY <1>1, <1>3, <1>4, <1>5, <1>7, <1>8, ShapeEnter

LEMMA ShapeCreate ==
    ASSUME ShapeInv, NEW p \in Procs, create(p)
    PROVE  ShapeInv'
<1>1. PICK s \in Slots : Enters(p, <<SetHead(s, NIL), SetUsed(s, TRUE)>>, <<>>) /\ UNCHANGED want
  BY DEF create, Enters
<1> DEFINE c  == SetHead(s, NIL)
           d  == SetUsed(s, TRUE)
           st == <<c, d>>
           t  == <<>>
<1>2. c \in StoreRecord /\ Quiet(c) /\ d \in StoreRecord /\ Quiet(d)
  BY Stores, QuietStores DEF Opt
<1>3. Enters(p, st, t)
  BY <1>1
<1>4. t \in Seq(CallRecord) /\ Detaches(t) /\ t = <<>>
  BY EmptySeq DEF Detaches
<1> HIDE DEF c, d
<1>7. st \in Seq(StoreRecord) /\ Len(st) = 2 /\ st[1] = c /\ st[2] = d
  BY <1>2
<1> HIDE DEF st, t
<1>8. OfDetach(st)
  <2>1. 1 .. Len(st) = {1, 2}
    BY <1>7
  <2> QED
    BY <1>2, <1>7, <2>1 DEF OfDetach
<1> QED
  BY <1>1, <1>3, <1>4, <1>7, <1>8, ShapeEnter

LEMMA ShapeSweep ==
    ASSUME ShapeInv, NEW p \in Procs, sweep_dead(p)
    PROVE  ShapeInv'
<1> DEFINE t == [i \in 1 .. node_fresh |-> Call("reap", i - 1)]
<1>1. Enters(p, <<>>, t) /\ UNCHANGED want
  BY DEF sweep_dead, Enters
<1>2. t \in Seq(CallRecord) /\ (\A j \in 1 .. Len(t) : t[j].do = "reap") /\ Len(t) \in Nat
  BY ReapCalls DEF ShapeInv, Types, TypeOK
<1> HIDE DEF t
<1>3. Reaps(t)
  BY <1>2 DEF Reaps
<1>4. t # <<>> => t[1].do # "push"
  <2>1. t # <<>> => 1 \in 1 .. Len(t)
    BY <1>2, Items
  <2> QED
    BY <2>1, <1>2
<1> QED
  BY <1>1, <1>2, <1>3, <1>4, NoStores, ShapeEnter

-----------------------------------------------------------------------------
(* ShapeInv is inductive: stores. *)

\* What Store does to the memory.
Puts(c) ==
    \/ /\ c.do = "set" /\ node' = [node EXCEPT ![c.n] = [node[c.n] EXCEPT ![c.field] = c.v]]
       /\ UNCHANGED <<waiter_head, used, node_free_head, node_fresh>>
    \/ /\ c.do = "head" /\ c.n # NIL
       /\ waiter_head' = [waiter_head EXCEPT ![c.n] = c.v]
       /\ UNCHANGED <<node, used, node_free_head, node_fresh>>
    \/ /\ c.do = "used" /\ used' = [used EXCEPT ![c.n] = c.v]
       /\ UNCHANGED <<node, waiter_head, node_free_head, node_fresh>>
    \/ /\ c.do = "free_head" /\ node_free_head' = c.v
       /\ UNCHANGED <<node, waiter_head, used, node_fresh>>
    \/ /\ c.do = "fresh" /\ node_fresh' = c.v
       /\ UNCHANGED <<node, waiter_head, used, node_free_head>>

LEMMA StoreIs ==
    ASSUME Types, NEW p, Store(p)
    PROVE  /\ lock = p /\ stores[1] \in StoreRecord /\ Puts(stores[1])
           /\ Len(stores) \in Nat /\ Len(stores) >= 1 /\ Len(stores') \in Nat
           /\ stores' \in Seq(StoreRecord) /\ IsTail(stores', stores)
           /\ UNCHANGED <<todo, lock, want, mine, alive, torn>>
<1>1. lock = p /\ stores # <<>> /\ stores' = Tail(stores) /\ UNCHANGED <<todo, lock, want, mine, alive, torn>>
  BY DEF Store, Do
<1>2. Puts(Head(stores))
  BY DEF Store, Puts
<1>3. stores \in Seq(StoreRecord)
  BY DEF Types
<1>4. /\ Len(stores) \in Nat /\ Len(stores) >= 1 /\ Head(stores) = stores[1] /\ stores[1] \in StoreRecord
      /\ stores' \in Seq(StoreRecord) /\ IsTail(stores', stores)
  BY <1>1, <1>3, TailItems
<1>5. Len(stores') \in Nat
  BY <1>4, Items
<1> QED
  BY <1>1, <1>2, <1>4, <1>5

Fields == {"registered", "obj", "pid"} \cup LinkFields

LEMMA PutNode ==
    ASSUME Types, NEW c \in StoreRecord, c.do = "set", Puts(c)
    PROVE  /\ node' \in [Nodes -> NodeRecord] /\ c.n \in Nodes /\ c.field \in Fields
           /\ node'[c.n][c.field] = c.v
           /\ \A m \in Nodes : \A f \in Fields : m # c.n \/ f # c.field => node'[m][f] = node[m][f]
           /\ UNCHANGED <<waiter_head, used, node_free_head, node_fresh>>
<1>1. /\ c.n \in Nodes /\ c.field \in Fields
      /\ c.field = "registered" => c.v \in BOOLEAN
      /\ c.field = "obj" => c.v \in Slots \cup {NIL}
      /\ c.field = "pid" => c.v \in Procs
      /\ c.field \in LinkFields => c.v \in Opt
  BY StoreFields DEF Fields
<1>2. node' = [node EXCEPT ![c.n] = [node[c.n] EXCEPT ![c.field] = c.v]]
      /\ UNCHANGED <<waiter_head, used, node_free_head, node_fresh>>
  BY DEF Puts
<1>3. node \in [Nodes -> NodeRecord]
  BY DEF Types, TypeOK
<1> DEFINE r == [node[c.n] EXCEPT ![c.field] = c.v]
<1>4. node[c.n] \in NodeRecord
  BY <1>1, <1>3
<1>5. r \in NodeRecord /\ r[c.field] = c.v /\ \A f \in Fields : f # c.field => r[f] = node[c.n][f]
  <2>1. CASE c.field = "registered"
    BY <1>1, <1>4, <2>1 DEF NodeRecord, Fields, LinkFields
  <2>2. CASE c.field = "obj"
    BY <1>1, <1>4, <2>2 DEF NodeRecord, Fields, LinkFields
  <2>3. CASE c.field = "pid"
    BY <1>1, <1>4, <2>3 DEF NodeRecord, Fields, LinkFields
  <2>4. CASE c.field = "wait_word"
    BY <1>1, <1>4, <2>4 DEF NodeRecord, Fields, LinkFields, Opt
  <2>5. CASE c.field = "obj_prev"
    BY <1>1, <1>4, <2>5 DEF NodeRecord, Fields, LinkFields, Opt
  <2>6. CASE c.field = "obj_next"
    BY <1>1, <1>4, <2>6 DEF NodeRecord, Fields, LinkFields, Opt
  <2>7. CASE c.field = "waiter_next"
    BY <1>1, <1>4, <2>7 DEF NodeRecord, Fields, LinkFields, Opt
  <2> QED
    BY <1>1, <2>1, <2>2, <2>3, <2>4, <2>5, <2>6, <2>7 DEF Fields, LinkFields
<1>6. node' = [node EXCEPT ![c.n] = r]
  BY <1>2
<1> HIDE DEF r
<1>7. node' \in [Nodes -> NodeRecord] /\ node'[c.n] = r /\ \A m \in Nodes : m # c.n => node'[m] = node[m]
  BY <1>1, <1>3, <1>5, <1>6
<1> QED
  BY <1>1, <1>2, <1>5, <1>7

LEMMA TypesStore ==
    ASSUME ShapeInv, NEW p \in Procs, Store(p)
    PROVE  Types'
<1> DEFINE c == stores[1]
<1>0. Types
  BY DEF ShapeInv
<1>1. /\ lock = p /\ c \in StoreRecord /\ Puts(c) /\ stores' \in Seq(StoreRecord)
      /\ UNCHANGED <<todo, lock, want, mine, alive, torn>>
  BY <1>0, StoreIs
<1> HIDE DEF c
<1>2. /\ node' \in [Nodes -> NodeRecord] /\ waiter_head' \in [Slots -> Nodes \cup {NIL}]
      /\ used' \in [Slots -> BOOLEAN] /\ node_free_head' \in Nodes \cup {NIL} /\ node_fresh' \in 0 .. NodeCount
  <2>0. /\ node \in [Nodes -> NodeRecord] /\ waiter_head \in [Slots -> Nodes \cup {NIL}]
        /\ used \in [Slots -> BOOLEAN] /\ node_free_head \in Nodes \cup {NIL} /\ node_fresh \in 0 .. NodeCount
    BY <1>0 DEF Types, TypeOK
  <2>1. CASE c.do = "set"
    BY <1>0, <1>1, <2>0, <2>1, PutNode
  <2>2. CASE c.do = "head"
    <3>1. c.n \in Slots /\ c.v \in Nodes \cup {NIL} /\ waiter_head' = [waiter_head EXCEPT ![c.n] = c.v]
          /\ UNCHANGED <<node, used, node_free_head, node_fresh>>
      BY <1>1, <2>2, StoreFields DEF Puts, Opt
    <3> QED
      BY <2>0, <3>1
  <2>3. CASE c.do = "used"
    <3>1. c.n \in Slots /\ c.v \in BOOLEAN /\ used' = [used EXCEPT ![c.n] = c.v]
          /\ UNCHANGED <<node, waiter_head, node_free_head, node_fresh>>
      BY <1>1, <2>3, StoreFields DEF Puts
    <3> QED
      BY <2>0, <3>1
  <2>4. CASE c.do = "free_head"
    BY <1>1, <2>0, <2>4, StoreFields DEF Puts, Opt
  <2>5. CASE c.do = "fresh"
    BY <1>1, <2>0, <2>5, StoreFields DEF Puts
  <2> QED
    BY <1>1, <2>1, <2>2, <2>3, <2>4, <2>5, StoreFields
<1>3. lock' # NoProc
  BY <1>1, NodeSet
<1>4. /\ want \in [Procs -> Seq(Slots)] /\ mine \in [Procs -> Seq(Nodes)] /\ todo \in Seq(CallRecord)
      /\ \A q \in Procs \ alive : mine[q] = <<>> /\ want[q] = <<>>
      /\ \A q \in Procs : /\ want[q] \in Waits[q] \cup {<<>>}
                          /\ mine[q] \in Seq(Nodes) /\ Len(mine[q]) <= Len(want[q])
      /\ lock \in Procs \cup {NoProc} /\ (lock # NoProc => lock \in alive)
      /\ alive \subseteq Procs /\ torn \in BOOLEAN
  BY <1>0 DEF Types, TypeOK
<1>5. TypeOK'
  BY <1>1, <1>2, <1>4 DEF TypeOK
<1> QED
  BY <1>1, <1>3, <1>4, <1>5 DEF Types

LEMMA QuietTail ==
    ASSUME NEW st, Len(st) \in Nat, NEW u, Len(u) \in Nat, IsTail(u, st)
    PROVE  /\ OfDetach(st) => OfDetach(u)
           /\ \A ns : OfRegister(st, ns) => OfRegister(u, ns)
           /\ \A i \in 1 .. Len(u) : i + 1 \in 1 .. Len(st) /\ u[i] = st[i + 1]
<1>1. \A i \in 1 .. Len(u) : i + 1 \in 1 .. Len(st) /\ u[i] = st[i + 1]
  BY DEF IsTail
<1>2. OfDetach(st) => OfDetach(u)
  BY <1>1 DEF OfDetach
<1>3. ASSUME NEW ns, OfRegister(st, ns)
      PROVE  OfRegister(u, ns)
  BY <1>1, <1>3, SMTT(30) DEF OfRegister
<1> QED
  BY <1>1, <1>2, <1>3

LEMMA ShapeStore ==
    ASSUME ShapeInv, NEW p \in Procs, Store(p)
    PROVE  ShapeInv'
<1> DEFINE c == stores[1]
<1>0. Types /\ Types'
  BY TypesStore DEF ShapeInv
<1>1. /\ lock = p /\ c \in StoreRecord /\ Puts(c) /\ Len(stores) \in Nat /\ Len(stores) >= 1
      /\ Len(stores') \in Nat /\ stores' \in Seq(StoreRecord) /\ IsTail(stores', stores)
      /\ todo' = todo /\ lock' = lock /\ want' = want /\ mine' = mine /\ alive' = alive /\ torn' = torn
  BY <1>0, StoreIs
<1>2. Section /\ Call_
  BY <1>1, NodeSet DEF ShapeInv
<1>3. Section'
  BY <1>1, <1>2 DEF Section
<1>4. Allocating' <=> Allocating
  BY <1>1 DEF Allocating
<1>5. /\ \A i \in 1 .. Len(stores') : i + 1 \in 1 .. Len(stores) /\ stores'[i] = stores[i + 1]
      /\ OfDetach(stores) => OfDetach(stores')
      /\ \A ns : OfRegister(stores, ns) => OfRegister(stores', ns)
      /\ Len(stores') = Len(stores) - 1
  BY <1>1, QuietTail DEF IsTail
<1>6. ASSUME OfDetach(stores), ~Allocating
      PROVE  Call_'
  BY <1>4, <1>5, <1>6 DEF Call_
<1>7. ASSUME OfRegister(stores, mine[lock]), Len(todo) = 1, todo[1].do = "register"
      PROVE  Call_'
  <2>1. OfRegister(stores', mine'[lock'])
    BY <1>1, <1>5, <1>7
  <2> QED
    BY <1>1, <1>7, <2>1 DEF Call_
<1>8. ASSUME Allocating, OfAlloc(stores, Head(todo).n, lock, node_free_head, node_fresh, node)
      PROVE  Call_'
  <2> DEFINE n == Head(todo).n
  <2>1. OfAlloc(stores, n, p, node_free_head, node_fresh, node)
    BY <1>1, <1>8
  <2>2. Len(stores') <= 7
    BY <1>1, <1>5, <2>1 DEF OfAlloc
  <2>3. ASSUME NEW i \in 1 .. Len(stores')
        PROVE  /\ stores'[i].do = "set" /\ stores'[i].n = n
               /\ Quiet(stores'[i]) \/ stores'[i].field = "waiter_next" \/ stores'[i] = Set(n, "pid", p)
    <3>1. i + 1 \in 1 .. Len(stores) /\ stores'[i] = stores[i + 1] /\ i + 1 # 1
      BY <1>1, <1>5
    <3> QED
      BY <3>1, <2>1 DEF OfAlloc
  <2>4. ASSUME Len(stores') = 0
        PROVE  node'[n].pid = p
    <3>1. Len(stores) = 1 /\ stores # <<>>
      BY <1>1, <1>5, <2>4, <1>0, Items DEF Types
    <3>2. c = Set(n, "pid", p)
      BY <3>1, <2>1 DEF OfAlloc
    <3>3. c.do = "set" /\ c.n = n /\ c.field = "pid" /\ c.v = p
      BY <3>2 DEF Set
    <3> QED
      BY <3>3, <1>0, <1>1, PutNode
  <2>5. ASSUME Len(stores') # 0
        PROVE  stores'[Len(stores')] = Set(n, "pid", p)
    <3>1. Len(stores') \in 1 .. Len(stores') /\ Len(stores') + 1 = Len(stores)
      BY <1>1, <1>5, <2>5
    <3>2. stores # <<>>
      BY <1>0, <1>1, Items DEF Types
    <3>3. stores'[Len(stores')] = stores[Len(stores)]
      BY <3>1, <1>5
    <3> QED
      BY <3>2, <3>3, <2>1 DEF OfAlloc
  <2>6. stores' = <<>> <=> Len(stores') = 0
    BY <1>1, Items
  <2>7. Len(stores') # 8 /\ Len(stores') <= 8
    <3>1. \A k \in Nat : k <= 7 => k # 8 /\ k <= 8
      OBVIOUS
    <3> QED
      BY <1>1, <2>2, <3>1, Zenon
  <2>8. OfAlloc(stores', n, p, node_free_head', node_fresh', node')
    <3>1. IF stores' = <<>> THEN node'[n].pid = p ELSE stores'[Len(stores')] = Set(n, "pid", p)
      BY <2>4, <2>5, <2>6
    <3> HIDE DEF n
    <3> QED
      BY <2>3, <3>1, <2>7 DEF OfAlloc
  <2>9. Head(todo').n = n
    BY <1>1
  <2> QED
    BY <1>1, <1>4, <1>8, <2>8, <2>9 DEF Call_
<1>9. ASSUME ~Allocating, NEW n \in Nodes, Returns(n)
      PROVE  Call_'
  <2>1. CASE stores = <<Set(n, "waiter_next", node_free_head), SetFree(n)>>
    <3>1. c = Set(n, "waiter_next", node_free_head) /\ Tail(stores) = <<SetFree(n)>>
      BY <2>1
    <3>2. c.do = "set" /\ c.n = n /\ c.field = "waiter_next" /\ c.v = node_free_head
      BY <3>1 DEF Set
    <3>3. stores' = <<SetFree(n)>>
      BY <3>1 DEF Store, Do
    <3>4. node'[n].waiter_next = node_free_head /\ node_free_head' = node_free_head
      BY <3>2, <1>0, <1>1, PutNode
    <3>5. Returns(n)'
      BY <3>3, <3>4 DEF Returns, OfFree
    <3> QED
      BY <3>5, <1>4, <1>9 DEF Call_
  <2>2. CASE stores = <<SetFree(n)>>
    <3>1. stores' = <<>>
      BY <2>2 DEF Store, Do
    <3>2. OfDetach(stores')
      BY <3>1, NoStores
    <3> QED
      BY <3>2, <1>4, <1>9 DEF Call_
  <2> QED
    BY <1>9, <2>1, <2>2 DEF Returns, OfFree
<1>10. Call_'
  BY <1>2, <1>6, <1>7, <1>8, <1>9 DEF Call_
<1> QED
  BY <1>0, <1>3, <1>10 DEF ShapeInv

-----------------------------------------------------------------------------
(* ShapeInv is inductive: calls. *)

LEMMA AtIs ==
    ASSUME ShapeInv, NEW p \in Procs, NEW f, At(p, f)
    PROVE  /\ Types /\ lock = p /\ Section /\ stores = <<>>
           /\ todo \in Seq(CallRecord) /\ todo # <<>> /\ Len(todo) \in Nat /\ Len(todo) >= 1
           /\ Head(todo) = todo[1] /\ todo[1].do = f /\ todo[1] \in CallRecord
           /\ Rest \in Seq(CallRecord) /\ IsTail(Rest, todo) /\ Len(Rest) \in Nat
           /\ (Rest # <<>> => Head(Rest) = Rest[1]) /\ (Rest = <<>> <=> Len(Rest) = 0)
           /\ mine[p] \in Seq(Nodes) /\ Len(mine[p]) \in Nat /\ Len(want[p]) \in Nat
<1>1. lock = p /\ stores = <<>> /\ todo # <<>> /\ Head(todo).do = f
  BY DEF At
<1>2. Types /\ Section
  BY <1>1, NodeSet DEF ShapeInv
<1>3. todo \in Seq(CallRecord)
  BY <1>2 DEF Types
<1>4. /\ Len(todo) \in Nat /\ Len(todo) >= 1 /\ Head(todo) = todo[1] /\ todo[1] \in CallRecord
      /\ Rest \in Seq(CallRecord) /\ IsTail(Rest, todo)
  BY <1>1, <1>3, TailItems DEF Rest
<1>5. Len(Rest) \in Nat /\ (Rest = <<>> <=> Len(Rest) = 0) /\ (Rest # <<>> => Head(Rest) = Rest[1])
  BY <1>4, Items, TailItems
<1>6. mine[p] \in Seq(Nodes) /\ Len(mine[p]) \in Nat /\ Len(want[p]) \in Nat
  BY <1>2, MineSeq
<1> QED
  BY <1>1, <1>2, <1>3, <1>4, <1>5, <1>6

\* The section is the one that its next call belongs to.
LEMMA SectionAt ==
    ASSUME ShapeInv, NEW p \in Procs, NEW f, At(p, f)
    PROVE  /\ f \in {"node_alloc", "push", "register"} => Allocates(todo, Len(mine[p]), Len(want[p]))
           /\ f = "clear" => Cleans(todo, mine[p])
           /\ f \in {"wake_object", "bump"} => Wakes(todo)
           /\ f = "reap" => Reaps(todo)
           /\ f = "node_free" => Cleans(todo, mine[p]) \/ Reaps(todo)
           /\ f = "node_detach" => Detaches(todo) \/ Cleans(todo, mine[p]) \/ Wakes(todo) \/ Reaps(todo)
<1>1. /\ lock = p /\ Section /\ Len(todo) \in Nat /\ Len(todo) >= 1 /\ todo[1].do = f
      /\ IsTail(Rest, todo) /\ Len(Rest) \in Nat
      /\ mine[p] \in Seq(Nodes) /\ Len(mine[p]) \in Nat /\ Len(want[p]) \in Nat
  BY AtIs
<1>2. \/ Allocates(todo, Len(mine[p]), Len(want[p])) \/ Detaches(todo) \/ Cleans(todo, mine[p])
      \/ Wakes(todo) \/ Reaps(todo)
  BY <1>1 DEF Section
<1>3. Allocates(todo, Len(mine[p]), Len(want[p])) => f \in {"node_alloc", "push", "register"}
  BY <1>1, AllocatesStep
<1>4. Detaches(todo) => f = "node_detach"
  BY <1>1 DEF Detaches
<1>5. Cleans(todo, mine[p]) => f \in {"node_detach", "node_free", "clear"}
  BY <1>1, CleansStep
<1>6. Wakes(todo) => f \in {"node_detach", "bump", "wake_object"}
  BY <1>1, WakesStep
<1>7. Reaps(todo) => f \in {"reap", "node_free", "node_detach"}
  BY <1>1, ReapsStep
<1> QED
  BY <1>2, <1>3, <1>4, <1>5, <1>6, <1>7

LEMMA SectionTail ==
    ASSUME ShapeInv, NEW p \in Procs, NEW f \in {"node_detach", "node_free", "bump"}, At(p, f)
    PROVE  /\ Detaches(Rest) \/ Cleans(Rest, mine[p]) \/ Wakes(Rest) \/ Reaps(Rest)
           /\ Rest # <<>> => Rest[1].do # "push"
<1>1. /\ lock = p /\ Len(todo) \in Nat /\ Len(todo) >= 1 /\ todo[1].do = f
      /\ IsTail(Rest, todo) /\ Len(Rest) \in Nat /\ Len(mine[p]) \in Nat /\ (Rest = <<>> <=> Len(Rest) = 0)
  BY AtIs
<1>2. Detaches(todo) \/ Cleans(todo, mine[p]) \/ Wakes(todo) \/ Reaps(todo)
  BY SectionAt
<1>3. CASE Detaches(todo)
  <2>1. ASSUME NEW j \in 1 .. Len(Rest)
        PROVE  Rest[j].do = "node_detach"
    <3>1. Rest[j] = todo[j + 1] /\ j + 1 \in 1 .. Len(todo)
      BY <1>1 DEF IsTail
    <3> QED
      BY <3>1, <1>3 DEF Detaches
  <2>2. Rest # <<>> => 1 \in 1 .. Len(Rest)
    BY <1>1
  <2> QED
    BY <2>1, <2>2 DEF Detaches
<1>4. CASE Cleans(todo, mine[p])
  BY <1>1, <1>4, CleansStep
<1>5. CASE Wakes(todo)
  BY <1>1, <1>5, WakesStep
<1>6. CASE Reaps(todo)
  BY <1>1, <1>6, ReapsStep
<1> QED
  BY <1>2, <1>3, <1>4, <1>5, <1>6

LEMMA TypesDo ==
    ASSUME Types, lock \in Procs, stores' \in Seq(StoreRecord), todo' \in Seq(CallRecord),
           UNCHANGED <<memory, lock, want, mine, alive, torn>>
    PROVE  Types'
<1>1. UNCHANGED <<node, waiter_head, used, node_free_head, node_fresh, lock, want, mine, alive, torn>>
  BY DEF memory
<1>2. lock' # NoProc
  BY <1>1, NodeSet
<1>3. TypeOK'
  BY <1>1 DEF Types, TypeOK
<1> QED
  BY <1>1, <1>2, <1>3 DEF Types

\* Calls that leave another section of the same kind.
LEMMA ShapeDo ==
    ASSUME ShapeInv, lock \in Procs, stores' \in Seq(StoreRecord), todo' \in Seq(CallRecord),
           UNCHANGED <<memory, lock, want, mine, alive, torn>>,
           Detaches(todo') \/ Cleans(todo', mine[lock]) \/ Wakes(todo') \/ Reaps(todo'),
           todo' # <<>> => todo'[1].do # "push",
           OfDetach(stores') \/ \E n \in Nodes : OfFree(stores', n, node_free_head, node)
    PROVE  ShapeInv'
<1>1. Types'
  BY TypesDo DEF ShapeInv
<1>2. Section'
  BY DEF Section
<1>3. ~Allocating'
  <2>1. todo' # <<>> => Head(todo') = todo'[1]
    BY TailItems
  <2> QED
    BY <2>1 DEF Allocating
<1>4. UNCHANGED <<node_free_head, node>>
  BY DEF memory
<1>5. Call_'
  <2>1. CASE OfDetach(stores')
    BY <1>3, <2>1 DEF Call_
  <2>2. CASE \E n \in Nodes : OfFree(stores', n, node_free_head, node)
    BY <1>3, <1>4, <2>2 DEF Call_, Returns
  <2> QED
    BY <2>1, <2>2
<1> QED
  BY <1>1, <1>2, <1>5 DEF ShapeInv

LEMMA FreeStores ==
    ASSUME Types, NEW n \in Nodes
    PROVE  node_free(n) \in Seq(StoreRecord) /\ OfFree(node_free(n), n, node_free_head, node)
<1>1. Set(n, "waiter_next", node_free_head) \in StoreRecord /\ SetFree(n) \in StoreRecord
  BY Stores DEF Types, TypeOK, LinkFields, Opt
<1> QED
  BY <1>1 DEF node_free, OfFree

\* The calls of Step.
StepDetach(p) == At(p, "node_detach") /\ Do(node_detach(Head(todo).n), Rest)
StepFree(p)   == At(p, "node_free") /\ Do(node_free(Head(todo).n), Rest)
StepWake(p)   == At(p, "wake_object") /\ Do(<<>>, wake_object(Head(todo).n) \o Rest)
StepBump(p)   == At(p, "bump") /\ Head(todo).n # NIL /\ Do(<<>>, Rest)
StepReap(p)   == At(p, "reap") /\ Do(<<>>, reap(Head(todo).n) \o Rest)
StepRegister(p) == At(p, "register") /\ Unlisted(p) # {} /\ Do(RegisterNext(p), todo)
StepListed(p) == At(p, "register") /\ Unlisted(p) = {} /\ Do(<<>>, Rest)

Still == UNCHANGED <<memory, lock, want, mine, alive, torn>>

LEMMA StepIs ==
    ASSUME NEW p, Step(p)
    PROVE  /\ \/ StepDetach(p) \/ StepFree(p) \/ StepWake(p) \/ StepBump(p) \/ StepReap(p)
              \/ StepRegister(p) \/ StepListed(p)
           /\ Still
  BY DEF Step, StepDetach, StepFree, StepWake, StepBump, StepReap, StepRegister, StepListed, Still

LEMMA ShapeStepDetach ==
    ASSUME ShapeInv, NEW p \in Procs, StepDetach(p), Still
    PROVE  ShapeInv'
<1>1. At(p, "node_detach") /\ stores' = node_detach(Head(todo).n) /\ todo' = Rest
  BY DEF StepDetach, Do
<1>2. Types /\ lock = p /\ Head(todo).n \in Nodes /\ Rest \in Seq(CallRecord)
  BY <1>1, AtIs, CallFields
<1>3. stores' \in Seq(StoreRecord) /\ OfDetach(stores')
  BY <1>1, <1>2, DetachStores
<1>4. /\ Detaches(Rest) \/ Cleans(Rest, mine[p]) \/ Wakes(Rest) \/ Reaps(Rest)
      /\ Rest # <<>> => Rest[1].do # "push"
  BY <1>1, SectionTail
<1> QED
  BY <1>1, <1>2, <1>3, <1>4, ShapeDo DEF Still

LEMMA ShapeStepFree ==
    ASSUME ShapeInv, NEW p \in Procs, StepFree(p), Still
    PROVE  ShapeInv'
<1>1. At(p, "node_free") /\ stores' = node_free(Head(todo).n) /\ todo' = Rest
  BY DEF StepFree, Do
<1>2. Types /\ lock = p /\ Head(todo).n \in Nodes /\ Rest \in Seq(CallRecord)
  BY <1>1, AtIs, CallFields
<1>3. stores' \in Seq(StoreRecord) /\ OfFree(stores', Head(todo).n, node_free_head, node)
  BY <1>1, <1>2, FreeStores
<1>4. /\ Detaches(Rest) \/ Cleans(Rest, mine[p]) \/ Wakes(Rest) \/ Reaps(Rest)
      /\ Rest # <<>> => Rest[1].do # "push"
  BY <1>1, SectionTail
<1>5. \E n \in Nodes : OfFree(stores', n, node_free_head, node)
  BY <1>2, <1>3
<1> QED
  BY <1>1, <1>2, <1>3, <1>4, <1>5, ShapeDo DEF Still

LEMMA NoCalls == <<>> \in Seq(CallRecord) /\ Detaches(<<>>) /\ Reaps(<<>>)
  BY EmptySeq DEF Detaches, Reaps

LEMMA WakeIs ==
    ASSUME ShapeInv, NEW p \in Procs, StepWake(p)
    PROVE  LET n == Head(todo).n
           IN  /\ At(p, "wake_object") /\ lock = p /\ n \in Opt /\ stores' = <<>> /\ Wakes(todo) /\ Len(todo) = 1
               /\ n = NIL => todo' = <<>>
               /\ n # NIL => /\ n \in Nodes
                             /\ todo' = <<Call("node_detach", n), Call("bump", node[n].wait_word),
                                          Call("wake_object", node[n].obj_next)>>
<1> DEFINE n == Head(todo).n
<1>1. At(p, "wake_object") /\ stores' = <<>> /\ todo' = wake_object(n) \o Rest
  BY DEF StepWake, Do
<1>2. lock = p /\ n \in Opt /\ IsTail(Rest, todo) /\ Len(Rest) \in Nat /\ (Rest = <<>> <=> Len(Rest) = 0)
      /\ Len(todo) \in Nat /\ todo[1].do = "wake_object" /\ Types
  BY <1>1, AtIs, CallFields
<1>3. Wakes(todo)
  BY <1>1, SectionAt
<1>4. Len(todo) = 1 /\ Rest = <<>>
  BY <1>2, <1>3, WakesStep
<1>5. n # NIL => n \in Nodes
  BY <1>2 DEF Opt
<1>6. n = NIL => todo' = <<>> \o <<>>
  BY <1>1, <1>4 DEF wake_object
<1>7. <<>> \o <<>> = <<>>
  BY NoCalls, ConcatEmptySeq
<1> DEFINE v == <<Call("node_detach", n), Call("bump", node[n].wait_word), Call("wake_object", node[n].obj_next)>>
<1>8. n # NIL => todo' = v \o <<>>
  BY <1>1, <1>4 DEF wake_object
<1>9. n # NIL => v \in Seq(CallRecord)
  <2>1. n # NIL => node[n].wait_word \in Opt /\ node[n].obj_next \in Opt
    BY <1>2, <1>5, NodeFields
  <2> QED
    BY <1>5, <2>1, WakePrefix
<1>10. n # NIL => v \o <<>> = v
  BY <1>9, ConcatEmptySeq
<1> QED
  BY <1>1, <1>2, <1>3, <1>4, <1>5, <1>6, <1>7, <1>8, <1>10

LEMMA ShapeStepWake ==
    ASSUME ShapeInv, NEW p \in Procs, StepWake(p), Still
    PROVE  ShapeInv'
<1> DEFINE n == Head(todo).n
<1>1. lock = p /\ stores' = <<>> /\ n \in Opt
  BY WakeIs
<1>2. CASE n = NIL
  <2>1. todo' = <<>>
    BY <1>2, WakeIs
  <2>2. todo' \in Seq(CallRecord) /\ Detaches(todo') /\ stores' \in Seq(StoreRecord) /\ OfDetach(stores')
    BY <1>1, <2>1, NoCalls, NoStores
  <2> QED
    BY <1>1, <2>1, <2>2, ShapeDo DEF Still
<1>3. CASE n # NIL
  <2>1. n \in Nodes
    BY <1>3, WakeIs
  <2> DEFINE w == node[n].wait_word
             m == node[n].obj_next
  <2>2. todo' = <<Call("node_detach", n), Call("bump", w), Call("wake_object", m)>>
    BY <1>3, WakeIs
  <2>3. w \in Opt /\ m \in Opt
    BY <2>1, NodeFields DEF ShapeInv
  <2> HIDE DEF w, m
  <2>4. todo' \in Seq(CallRecord) /\ Wakes(todo') /\ todo'[1] = Call("node_detach", n)
    BY <2>1, <2>2, <2>3, WakePrefix
  <2>5. todo'[1].do # "push" /\ stores' \in Seq(StoreRecord) /\ OfDetach(stores')
    BY <1>1, <2>4, Calls, NoStores
  <2> QED
    BY <1>1, <2>4, <2>5, ShapeDo DEF Still
<1> QED
  BY <1>2, <1>3

LEMMA ShapeStepBump ==
    ASSUME ShapeInv, NEW p \in Procs, StepBump(p), Still
    PROVE  ShapeInv'
<1>1. At(p, "bump") /\ stores' = <<>> /\ todo' = Rest
  BY DEF StepBump, Do
<1>2. lock = p /\ Rest \in Seq(CallRecord)
  BY <1>1, AtIs
<1>3. stores' \in Seq(StoreRecord) /\ OfDetach(stores')
  BY <1>1, NoStores
<1>4. /\ Detaches(Rest) \/ Cleans(Rest, mine[p]) \/ Wakes(Rest) \/ Reaps(Rest)
      /\ Rest # <<>> => Rest[1].do # "push"
  BY <1>1, SectionTail
<1> QED
  BY <1>1, <1>2, <1>3, <1>4, ShapeDo DEF Still

LEMMA ReapIs ==
    ASSUME ShapeInv, NEW p \in Procs, StepReap(p)
    PROVE  LET n == Head(todo).n
           IN  /\ At(p, "reap") /\ lock = p /\ n \in Nodes /\ stores' = <<>>
               /\ todo' \in Seq(CallRecord) /\ Reaps(todo') /\ (todo' # <<>> => todo'[1].do # "push")
               /\ Reaps(todo) /\ \A j \in 1 .. Len(Rest) : Rest[j].do = "reap"
               /\ ~DeadNode(n) => todo' = Rest
               /\ DeadNode(n) => /\ todo'[1] = Call("node_detach", n) /\ Len(todo') >= 2
                                 /\ todo'[2] = Call("node_free", n)
                                 /\ \A j \in 3 .. Len(todo') : todo'[j].do = "reap"
<1> DEFINE n == Head(todo).n
<1>1. At(p, "reap") /\ stores' = <<>> /\ todo' = reap(n) \o Rest
  BY DEF StepReap, Do
<1>2. /\ lock = p /\ n \in Nodes /\ Rest \in Seq(CallRecord) /\ IsTail(Rest, todo) /\ Len(Rest) \in Nat
      /\ Len(todo) \in Nat /\ Len(todo) >= 1 /\ todo[1].do = "reap" /\ (Rest = <<>> <=> Len(Rest) = 0)
  BY <1>1, AtIs, CallFields
<1>3. Reaps(todo)
  BY <1>1, SectionAt
<1>4. Reaps(Rest) /\ (Rest # <<>> => Rest[1].do # "push") /\ \A j \in 1 .. Len(Rest) : Rest[j].do = "reap"
  BY <1>2, <1>3, ReapsStep
<1>5. ~DeadNode(n) => todo' = Rest
  <2>1. ~DeadNode(n) => todo' = <<>> \o Rest
    BY <1>1 DEF reap
  <2>2. <<>> \o Rest = Rest
    BY <1>2, ConcatEmptySeq
  <2> QED
    BY <2>1, <2>2
<1>6. DeadNode(n) => todo' = Cat(ReapSeq(n), Rest)
  BY <1>1 DEF reap, Cat, ReapSeq
<1> HIDE DEF n
<1>7. ASSUME DeadNode(n)
      PROVE  /\ todo' \in Seq(CallRecord) /\ Reaps(todo') /\ todo'[1] = Call("node_detach", n) /\ Len(todo') >= 2
             /\ todo'[2] = Call("node_free", n) /\ \A j \in 3 .. Len(todo') : todo'[j].do = "reap"
  BY <1>2, <1>4, <1>6, <1>7, ReapPrefix
<1>8. DeadNode(n) => todo'[1].do # "push"
  BY <1>7, Calls
<1> QED
  BY <1>1, <1>2, <1>3, <1>4, <1>5, <1>7, <1>8 DEF n

LEMMA ShapeStepReap ==
    ASSUME ShapeInv, NEW p \in Procs, StepReap(p), Still
    PROVE  ShapeInv'
<1>1. /\ lock = p /\ stores' = <<>>
      /\ todo' \in Seq(CallRecord) /\ Reaps(todo') /\ (todo' # <<>> => todo'[1].do # "push")
  BY ReapIs
<1>2. stores' \in Seq(StoreRecord) /\ OfDetach(stores')
  BY <1>1, NoStores
<1> QED
  BY <1>1, <1>2, ShapeDo DEF Still

LEMMA RegisterIs ==
    ASSUME ShapeInv, NEW p \in Procs, At(p, "register")
    PROVE  /\ lock = p /\ Len(todo) = 1 /\ Rest = <<>> /\ todo[1].do = "register" /\ ~Allocating
           /\ Allocates(todo, Len(mine[p]), Len(want[p]))
<1>1. /\ lock = p /\ Len(todo) \in Nat /\ Len(todo) >= 1 /\ todo[1].do = "register" /\ Head(todo) = todo[1]
      /\ IsTail(Rest, todo) /\ Len(Rest) \in Nat /\ (Rest = <<>> <=> Len(Rest) = 0)
      /\ Len(mine[p]) \in Nat /\ Len(want[p]) \in Nat
  BY AtIs
<1>2. Allocates(todo, Len(mine[p]), Len(want[p]))
  BY SectionAt
<1> QED
  BY <1>1, <1>2, AllocatesStep DEF Allocating

LEMMA ShapeStepRegister ==
    ASSUME ShapeInv, NEW p \in Procs, StepRegister(p), Still
    PROVE  ShapeInv'
<1>1. At(p, "register") /\ Unlisted(p) # {} /\ stores' = RegisterNext(p) /\ todo' = todo
  BY DEF StepRegister, Do
<1>2. /\ lock = p /\ Len(todo) = 1 /\ todo[1].do = "register" /\ ~Allocating
      /\ Types /\ todo \in Seq(CallRecord) /\ Section
  BY <1>1, AtIs, RegisterIs
<1>3. PICK i \in 1 .. Len(mine[p]) :
        /\ mine[p][i] \in Nodes /\ want[p][i] \in Slots /\ mine[p][1] \in Nodes
        /\ RegisterNext(p) = node_register(mine[p][i], want[p][i], mine[p][1])
  BY <1>1, <1>2, RegisterNextIs
<1>4. stores' \in Seq(StoreRecord) /\ OfRegister(stores', mine[p])
  BY <1>1, <1>2, <1>3, RegisterStores
<1>5. Types'
  BY <1>1, <1>2, <1>4, TypesDo DEF Still
<1>6. Section' /\ Call_'
  BY <1>1, <1>2, <1>4 DEF Section, Call_, Still
<1> QED
  BY <1>5, <1>6 DEF ShapeInv

LEMMA ShapeStepListed ==
    ASSUME ShapeInv, NEW p \in Procs, StepListed(p), Still
    PROVE  ShapeInv'
<1>1. At(p, "register") /\ stores' = <<>> /\ todo' = Rest
  BY DEF StepListed, Do
<1>2. lock = p /\ todo' = <<>>
  BY <1>1, RegisterIs
<1>3. stores' \in Seq(StoreRecord) /\ OfDetach(stores') /\ todo' \in Seq(CallRecord) /\ Detaches(todo')
  BY <1>1, <1>2, NoStores, NoCalls
<1> QED
  BY <1>2, <1>3, ShapeDo DEF Still

LEMMA ShapeStep ==
    ASSUME ShapeInv, NEW p \in Procs, Step(p)
    PROVE  ShapeInv'
  BY StepIs, ShapeStepDetach, ShapeStepFree, ShapeStepWake, ShapeStepBump, ShapeStepReap,
     ShapeStepRegister, ShapeStepListed

LEMMA AllocIs ==
    ASSUME ShapeInv, NEW p \in Procs, Alloc(p)
    PROVE  /\ At(p, "node_alloc") /\ lock = p /\ Still
           /\ Allocates(todo, Len(mine[p]), Len(want[p]))
           /\ Exhausted => stores' = <<>> /\ todo' = CleanSeq(mine[p], p)
           /\ ~Exhausted => /\ stores' = node_alloc(p) /\ NextNode \in Nodes /\ stores' # <<>>
                            /\ todo' \in Seq(CallRecord) /\ Allocates(todo', Len(mine[p]), Len(want[p]))
                            /\ todo' # <<>> /\ Head(todo') = Call("push", NextNode)
<1>1. At(p, "node_alloc") /\ Still
  BY DEF Alloc, Still
<1>2. /\ lock = p /\ Types /\ Rest \in Seq(CallRecord) /\ IsTail(Rest, todo)
      /\ Len(todo) \in Nat /\ todo[1].do = "node_alloc" /\ Len(mine[p]) \in Nat /\ Len(want[p]) \in Nat
  BY <1>1, AtIs
<1>3. Allocates(todo, Len(mine[p]), Len(want[p]))
  BY <1>1, SectionAt
<1>4. Exhausted => stores' = <<>> /\ todo' = CleanSeq(mine[p], p)
  BY DEF Alloc, Do, waiter_cleanup, CleanSeq
<1>5. ~Exhausted => stores' = node_alloc(p) /\ todo' = Cat(<<Call("push", NextNode)>>, Rest)
  BY DEF Alloc, Do, Cat
<1>6. ~Exhausted => NextNode \in Nodes /\ node_alloc(p) \in Seq(StoreRecord) /\ Len(node_alloc(p)) = 8
  BY <1>2, AllocStores
<1>7. ~Exhausted => node_alloc(p) # <<>>
  BY <1>6, Items
<1>8. ~Exhausted => /\ todo' \in Seq(CallRecord) /\ Allocates(todo', Len(mine[p]), Len(want[p]))
                    /\ todo' # <<>> /\ todo'[1] = Call("push", NextNode)
  BY <1>2, <1>3, <1>5, <1>6, PushCalls, SMTT(30)
<1>9. ~Exhausted => Head(todo') = todo'[1]
  BY <1>8, TailItems
<1> QED
  BY <1>1, <1>2, <1>3, <1>4, <1>5, <1>6, <1>7, <1>8, <1>9

LEMMA ShapeAlloc ==
    ASSUME ShapeInv, NEW p \in Procs, Alloc(p)
    PROVE  ShapeInv'
<1>0. Types /\ lock = p /\ Still /\ mine[p] \in Seq(Nodes)
  BY AllocIs, AtIs
<1>1. CASE Exhausted
  <2>1. stores' = <<>> /\ todo' = CleanSeq(mine[p], p)
    BY <1>1, AllocIs
  <2>2. todo' \in Seq(CallRecord) /\ Cleans(todo', mine[p]) /\ todo'[1].do # "push"
    BY <1>0, <2>1, CleanCalls
  <2>3. stores' \in Seq(StoreRecord) /\ OfDetach(stores')
    BY <2>1, NoStores
  <2> QED
    BY <1>0, <2>2, <2>3, ShapeDo DEF Still
<1>2. CASE ~Exhausted
  <2>1. /\ stores' = node_alloc(p)
        /\ todo' \in Seq(CallRecord) /\ Allocates(todo', Len(mine[p]), Len(want[p]))
        /\ todo' # <<>> /\ Head(todo') = Call("push", NextNode)
    BY <1>2, AllocIs
  <2>2. stores' \in Seq(StoreRecord) /\ OfAlloc(stores', NextNode, p, node_free_head, node_fresh, node)
    BY <1>0, <1>2, <2>1, AllocStores
  <2>3. Types'
    BY <1>0, <2>1, <2>2, TypesDo DEF Still
  <2>4. Section'
    BY <1>0, <2>1 DEF Section, Still
  <2>5. Allocating' /\ Head(todo').n = NextNode
    BY <2>1, Calls DEF Allocating
  <2>6. UNCHANGED <<node_free_head, node_fresh, node, lock>>
    BY <1>0 DEF Still, memory
  <2>7. OfAlloc(stores', Head(todo').n, lock', node_free_head', node_fresh', node')
    BY <1>0, <2>2, <2>5, <2>6
  <2>8. Call_'
    BY <2>5, <2>7 DEF Call_
  <2> QED
    BY <2>3, <2>4, <2>8 DEF ShapeInv
<1> QED
  BY <1>1, <1>2

LEMMA PushIs ==
    ASSUME ShapeInv, NEW p \in Procs, Push(p)
    PROVE  LET n == Head(todo).n
           IN  /\ At(p, "push") /\ lock = p /\ n \in Nodes /\ stores = <<>> /\ stores' = <<>> /\ Allocating
               /\ todo' = Rest /\ Allocates(Rest, Len(mine[p]) + 1, Len(want[p])) /\ Rest[1].do # "push"
               /\ Len(mine[p]) + 1 <= Len(want[p]) /\ node[n].pid = p
               /\ mine'[p] = Append(mine[p], n) /\ (\A q \in Procs \ {p} : mine'[q] = mine[q])
               /\ mine'[p] \in Seq(Nodes) /\ Len(mine'[p]) = Len(mine[p]) + 1
               /\ (\A i \in 1 .. Len(mine[p]) : mine'[p][i] = mine[p][i])
               /\ mine'[p][Len(mine[p]) + 1] = n
               /\ UNCHANGED <<node, waiter_head, used, node_free_head, node_fresh, lock, want, alive, torn>>
<1> DEFINE n == Head(todo).n
<1>1. /\ At(p, "push") /\ stores' = <<>> /\ todo' = Rest /\ mine' = [mine EXCEPT ![p] = Append(@, n)]
      /\ UNCHANGED <<node, waiter_head, used, node_free_head, node_fresh, lock, want, alive, torn>>
  BY DEF Push, Do, memory
<1>2. /\ lock = p /\ Types /\ n \in Nodes /\ Rest \in Seq(CallRecord) /\ IsTail(Rest, todo) /\ stores = <<>>
      /\ Len(todo) \in Nat /\ Len(Rest) \in Nat /\ todo # <<>> /\ todo[1].do = "push" /\ Head(todo) = todo[1]
      /\ Len(mine[p]) \in Nat /\ Len(want[p]) \in Nat
  BY <1>1, AtIs, CallFields
<1>3. Allocates(todo, Len(mine[p]), Len(want[p]))
  BY <1>1, SectionAt
<1>4. Allocates(Rest, Len(mine[p]) + 1, Len(want[p])) /\ Rest[1].do # "push" /\ Len(mine[p]) + 1 <= Len(want[p])
  BY <1>2, <1>3, AllocatesStep
<1>5. Allocating
  BY <1>2 DEF Allocating
<1>6. node[n].pid = p
  <2>1. Call_
    BY <1>2, NodeSet DEF ShapeInv
  <2>2. ~(Len(todo) = 1 /\ todo[1].do = "register")
    BY <1>2
  <2>3. OfAlloc(stores, n, p, node_free_head, node_fresh, node)
    BY <1>2, <1>5, <2>1, <2>2 DEF Call_
  <2> QED
    BY <1>2, <2>3 DEF OfAlloc
<1>7. mine \in [Procs -> Seq(Nodes)]
  BY <1>2 DEF Types
<1>8. mine'[p] = Append(mine[p], n) /\ (\A q \in Procs \ {p} : mine'[q] = mine[q])
  BY <1>1, <1>7
<1> HIDE DEF n
<1>9. /\ mine'[p] \in Seq(Nodes) /\ Len(mine'[p]) = Len(mine[p]) + 1
      /\ (\A i \in 1 .. Len(mine[p]) : mine'[p][i] = mine[p][i])
      /\ mine'[p][Len(mine[p]) + 1] = n
  <2>1. mine[p] \in Seq(Nodes)
    BY <1>7
  <2> QED
    BY <1>2, <1>8, <2>1, AppendProperties
<1> QED
  BY <1>1, <1>2, <1>4, <1>5, <1>6, <1>8, <1>9 DEF n

LEMMA ShapePush ==
    ASSUME ShapeInv, NEW p \in Procs, Push(p)
    PROVE  ShapeInv'
<1>1. /\ At(p, "push") /\ lock = p /\ stores' = <<>> /\ todo' = Rest
      /\ Allocates(Rest, Len(mine[p]) + 1, Len(want[p])) /\ Rest[1].do # "push"
      /\ Len(mine[p]) + 1 <= Len(want[p])
      /\ (\A q \in Procs \ {p} : mine'[q] = mine[q])
      /\ mine'[p] \in Seq(Nodes) /\ Len(mine'[p]) = Len(mine[p]) + 1
      /\ UNCHANGED <<node, waiter_head, used, node_free_head, node_fresh, lock, want, alive, torn>>
  BY PushIs
<1>2. Types /\ Rest \in Seq(CallRecord) /\ (Rest # <<>> => Head(Rest) = Rest[1])
  BY <1>1, AtIs
<1>3. mine' \in [Procs -> Seq(Nodes)]
  <2>1. mine' = [mine EXCEPT ![p] = Append(@, Head(todo).n)]
    BY DEF Push
  <2>2. mine' = [mine EXCEPT ![p] = mine'[p]]
    BY <1>2, <2>1 DEF Types
  <2> QED
    BY <1>1, <1>2, <2>2 DEF Types
<1>4. \A q \in Procs : mine'[q] \in Seq(Nodes) /\ Len(mine'[q]) <= Len(want'[q])
  <2> TAKE q \in Procs
  <2>1. CASE q = p
    BY <1>1, <2>1
  <2>2. CASE q # p
    BY <1>1, <1>2, <2>2 DEF Types, TypeOK
  <2> QED
    BY <2>1, <2>2
<1>5. p \in alive /\ p # NoProc
  BY <1>1, <1>2, NodeSet DEF Types, TypeOK
<1>6. TypeOK'
  BY <1>1, <1>2, <1>4 DEF Types, TypeOK
<1>7. Types'
  <2>1. (stores \in Seq(StoreRecord))' /\ (todo \in Seq(CallRecord))'
    BY <1>1, <1>2, NoStores
  <2>2. (lock # NoProc)' /\ \A q \in Procs \ alive' : mine'[q] = <<>> /\ want'[q] = <<>>
    BY <1>1, <1>2, <1>5 DEF Types
  <2>3. (want \in [Procs -> Seq(Slots)])'
    BY <1>1, <1>2 DEF Types
  <2> QED
    BY <1>3, <1>6, <2>1, <2>2, <2>3 DEF Types
<1>8. Section'
  <2>1. Allocates(todo', Len(mine'[lock']), Len(want'[lock']))
    BY <1>1
  <2> QED
    BY <2>1 DEF Section
<1>9. ~Allocating'
  BY <1>1, <1>2 DEF Allocating
<1>10. Call_'
  BY <1>1, <1>9, NoStores DEF Call_
<1> QED
  BY <1>7, <1>8, <1>10 DEF ShapeInv

LEMMA ClearIs ==
    ASSUME ShapeInv, NEW p \in Procs, Clear(p)
    PROVE  /\ Types /\ lock = p /\ stores = <<>> /\ stores' = <<>> /\ todo' = <<>> /\ Cleans(todo, mine[p]) /\ Len(todo) = 1
           /\ mine' = [mine EXCEPT ![p] = <<>>] /\ want' = [want EXCEPT ![p] = <<>>]
           /\ UNCHANGED <<node, waiter_head, used, node_free_head, node_fresh, lock, alive, torn>>
<1>1. /\ At(p, "clear") /\ stores' = <<>> /\ todo' = Rest
      /\ mine' = [mine EXCEPT ![p] = <<>>] /\ want' = [want EXCEPT ![p] = <<>>]
      /\ UNCHANGED <<node, waiter_head, used, node_free_head, node_fresh, lock, alive, torn>>
  BY DEF Clear, Do, memory
<1>2. /\ lock = p /\ Types /\ IsTail(Rest, todo) /\ Len(todo) \in Nat /\ Len(Rest) \in Nat /\ stores = <<>>
      /\ todo[1].do = "clear" /\ (Rest = <<>> <=> Len(Rest) = 0) /\ Len(mine[p]) \in Nat
  BY <1>1, AtIs
<1>3. Cleans(todo, mine[p])
  BY <1>1, SectionAt
<1>4. Len(todo) = 1 /\ Len(Rest) = 0
  BY <1>2, <1>3, CleansStep
<1> QED
  BY <1>1, <1>2, <1>3, <1>4

\* A wait of p is over.
LEMMA TypesOver ==
    ASSUME Types, NEW p \in Procs, mine' = [mine EXCEPT ![p] = <<>>], want' = [want EXCEPT ![p] = <<>>]
    PROVE  /\ mine' \in [Procs -> Seq(Nodes)] /\ want' \in [Procs -> Seq(Slots)]
           /\ mine'[p] = <<>> /\ want'[p] = <<>> /\ Len(mine'[p]) = 0
           /\ \A q \in Procs \ {p} : mine'[q] = mine[q] /\ want'[q] = want[q]
           /\ \A q \in Procs : /\ want'[q] \in Waits[q] \cup {<<>>}
                               /\ mine'[q] \in Seq(Nodes) /\ Len(mine'[q]) <= Len(want'[q])
<1>1. /\ mine \in [Procs -> Seq(Nodes)] /\ want \in [Procs -> Seq(Slots)]
      /\ \A q \in Procs : /\ want[q] \in Waits[q] \cup {<<>>}
                          /\ mine[q] \in Seq(Nodes) /\ Len(mine[q]) <= Len(want[q])
  BY DEF Types, TypeOK
<1>2. <<>> \in Seq(Nodes) /\ <<>> \in Seq(Slots) /\ Len(<<>>) = 0
  BY EmptySeq
<1>3. /\ mine'[p] = <<>> /\ want'[p] = <<>>
      /\ \A q \in Procs \ {p} : mine'[q] = mine[q] /\ want'[q] = want[q]
  BY <1>1
<1>4. mine' \in [Procs -> Seq(Nodes)] /\ want' \in [Procs -> Seq(Slots)]
  BY <1>1, <1>2
<1>5. \A q \in Procs : /\ want'[q] \in Waits[q] \cup {<<>>}
                       /\ mine'[q] \in Seq(Nodes) /\ Len(mine'[q]) <= Len(want'[q])
  <2> TAKE q \in Procs
  <2>1. CASE q = p
    <3>1. want'[q] = <<>> /\ mine'[q] = <<>>
      BY <2>1, <1>3
    <3>2. Len(mine'[q]) = 0 /\ Len(want'[q]) = 0
      BY <3>1, EmptySeq, Zenon
    <3>3. Len(mine'[q]) <= Len(want'[q])
      BY <3>2
    <3>4. want'[q] \in Waits[q] \cup {<<>>} /\ mine'[q] \in Seq(Nodes)
      BY <3>1, <1>2
    <3> QED
      BY <3>3, <3>4
  <2>2. CASE q # p
    BY <2>2, <1>1, <1>3
  <2> QED
    BY <2>1, <2>2
<1> QED
  BY <1>2, <1>3, <1>4, <1>5

LEMMA ShapeClear ==
    ASSUME ShapeInv, NEW p \in Procs, Clear(p)
    PROVE  ShapeInv'
<1>1. /\ Types /\ lock = p /\ stores' = <<>> /\ todo' = <<>>
      /\ mine' = [mine EXCEPT ![p] = <<>>] /\ want' = [want EXCEPT ![p] = <<>>]
      /\ UNCHANGED <<node, waiter_head, used, node_free_head, node_fresh, lock, alive, torn>>
  BY ClearIs
<1>2. /\ mine' \in [Procs -> Seq(Nodes)] /\ want' \in [Procs -> Seq(Slots)]
      /\ mine'[p] = <<>> /\ want'[p] = <<>>
      /\ \A q \in Procs \ {p} : mine'[q] = mine[q] /\ want'[q] = want[q]
      /\ \A q \in Procs : /\ want'[q] \in Waits[q] \cup {<<>>}
                          /\ mine'[q] \in Seq(Nodes) /\ Len(mine'[q]) <= Len(want'[q])
  BY <1>1, TypesOver
<1>3. TypeOK'
  BY <1>1, <1>2 DEF Types, TypeOK
<1>4. (stores \in Seq(StoreRecord))' /\ (todo \in Seq(CallRecord))' /\ Detaches(todo') /\ OfDetach(stores')
  BY <1>1, NoStores, NoCalls
<1>5. \A q \in Procs \ alive' : mine'[q] = <<>> /\ want'[q] = <<>>
  BY <1>1, <1>2 DEF Types
<1>6. Types'
  BY <1>1, <1>2, <1>3, <1>4, <1>5 DEF Types
<1>7. Section' /\ Call_'
  BY <1>1, <1>4 DEF Section, Call_, Allocating
<1> QED
  BY <1>6, <1>7 DEF ShapeInv

LEMMA ShapeUnlock ==
    ASSUME ShapeInv, NEW p \in Procs, Unlock(p)
    PROVE  ShapeInv'
<1>1. /\ stores = <<>> /\ todo = <<>> /\ lock' = NoProc
      /\ UNCHANGED <<node, waiter_head, used, node_free_head, node_fresh, stores, todo, want, mine, alive, torn>>
  BY DEF Unlock, memory
<1>2. Types
  BY DEF ShapeInv
<1>3. TypeOK'
  BY <1>1, <1>2 DEF Types, TypeOK
<1>4. Types'
  BY <1>1, <1>2, <1>3 DEF Types
<1> QED
  BY <1>1, <1>4 DEF ShapeInv

LEMMA ShapeGone ==
    ASSUME ShapeInv, NEW p \in Procs, Gone(p)
    PROVE  ShapeInv'
<1>1. /\ alive' = alive \ {p} /\ mine' = [mine EXCEPT ![p] = <<>>] /\ want' = [want EXCEPT ![p] = <<>>]
      /\ torn' = (torn \/ lock = p)
      /\ UNCHANGED <<node, waiter_head, used, node_free_head, node_fresh>>
      /\ lock = p => lock' = NoProc /\ stores' = <<>> /\ todo' = <<>>
      /\ lock # p => lock' = lock /\ stores' = stores /\ todo' = todo
  BY DEF Gone, Do, memory
<1>2. Types
  BY DEF ShapeInv
<1>3. /\ mine' \in [Procs -> Seq(Nodes)] /\ want' \in [Procs -> Seq(Slots)]
      /\ mine'[p] = <<>> /\ want'[p] = <<>>
      /\ \A q \in Procs \ {p} : mine'[q] = mine[q] /\ want'[q] = want[q]
      /\ \A q \in Procs : /\ want'[q] \in Waits[q] \cup {<<>>}
                          /\ mine'[q] \in Seq(Nodes) /\ Len(mine'[q]) <= Len(want'[q])
  BY <1>1, <1>2, TypesOver
<1>4. torn' \in BOOLEAN
  BY <1>1, <1>2 DEF Types, TypeOK
<1>5. lock' \in Procs \cup {NoProc} /\ (lock' # NoProc => lock' \in alive')
  BY <1>1, <1>2 DEF Types, TypeOK
<1>6. TypeOK'
  BY <1>1, <1>2, <1>3, <1>4, <1>5 DEF Types, TypeOK
<1>7. (stores \in Seq(StoreRecord))' /\ (todo \in Seq(CallRecord))'
  BY <1>1, <1>2, NoStores, NoCalls DEF Types
<1>8. (lock' = NoProc => stores' = <<>> /\ todo' = <<>>) /\ \A q \in Procs \ alive' : mine'[q] = <<>> /\ want'[q] = <<>>
  BY <1>1, <1>2, <1>3 DEF Types
<1>9. Types'
  BY <1>3, <1>6, <1>7, <1>8 DEF Types
<1>10. ASSUME lock' # NoProc
       PROVE  Section' /\ Call_'
  <2>1. lock # p /\ lock # NoProc /\ lock' = lock /\ stores' = stores /\ todo' = todo /\ lock \in Procs \ {p}
    BY <1>1, <1>2, <1>10 DEF Types, TypeOK
  <2>2. mine'[lock'] = mine[lock] /\ want'[lock'] = want[lock]
    BY <1>3, <2>1
  <2>3. Section /\ Call_
    BY <2>1 DEF ShapeInv
  <2>4. Section'
    BY <2>1, <2>2, <2>3 DEF Section
  <2>5. Allocating' <=> Allocating
    BY <2>1 DEF Allocating
  <2>6. \A n \in Nodes : Returns(n)' <=> Returns(n)
    BY <1>1, <2>1 DEF Returns, OfFree
  <2>7. Call_'
    BY <1>1, <2>1, <2>2, <2>3, <2>5, <2>6 DEF Call_
  <2> QED
    BY <2>4, <2>7
<1> QED
  BY <1>9, <1>10 DEF ShapeInv

LEMMA ShapeStutter == ShapeInv /\ UNCHANGED vars => ShapeInv'
<1> SUFFICES ASSUME ShapeInv, UNCHANGED vars PROVE ShapeInv'
  OBVIOUS
<1>1. UNCHANGED <<node, waiter_head, used, node_free_head, node_fresh, lock, stores, todo, want, mine, alive, torn>>
  BY DEF vars, memory
<1>2. Types'
  BY <1>1 DEF ShapeInv, Types, TypeOK
<1>3. lock' # NoProc => Section'
  BY <1>1 DEF ShapeInv, Section
<1>4. lock' # NoProc => Call_'
  <2>1. (Allocating' <=> Allocating) /\ \A n \in Nodes : Returns(n)' <=> Returns(n)
    BY <1>1 DEF Allocating, Returns, OfFree
  <2> QED
    BY <1>1, <2>1 DEF ShapeInv, Call_
<1> QED
  BY <1>2, <1>3, <1>4 DEF ShapeInv

LEMMA ShapeNext == ShapeInv /\ [Next]_vars => ShapeInv'
<1> SUFFICES ASSUME ShapeInv, [Next]_vars PROVE ShapeInv'
  OBVIOUS
<1>1. CASE UNCHANGED vars
  BY <1>1, ShapeStutter
<1>2. ASSUME NEW p \in Procs, Block(p) \/ Again(p) \/ Detach(p) \/ Cleanup(p)
      PROVE  ShapeInv'
  BY <1>2, ShapeBlock, ShapeAgain, ShapeDetach, ShapeCleanup
<1>3. ASSUME NEW p \in Signalers, Signal(p) \/ close(p) \/ create(p) \/ sweep_dead(p)
      PROVE  ShapeInv'
  <2>1. p \in Procs
    BY NodeListAssumption
  <2> QED
    BY <1>3, <2>1, ShapeSignal, ShapeClose, ShapeCreate, ShapeSweep
<1>4. ASSUME NEW p \in Procs, Work(p) \/ Die(p)
      PROVE  ShapeInv'
  BY <1>4, ShapeStore, ShapeStep, ShapeAlloc, ShapePush, ShapeClear, ShapeUnlock, ShapeGone DEF Work, Die, Fault
<1> QED
  BY <1>1, <1>2, <1>3, <1>4 DEF Next

\* Every variable keeps its values, whoever dies and wherever: no link that
\* node_alloc, node_free, node_register or node_detach stores leads out of the
\* pool, and node_alloc hands out no node past its end.
THEOREM TypeCorrect == Spec => []TypeOK
<1>1. ShapeInv => TypeOK
  BY DEF ShapeInv, Types
<1> QED
  BY ShapeInit, ShapeNext, <1>1, PTL DEF Spec

-----------------------------------------------------------------------------
(* UseInv is inductive: calls. *)

\* What a section is can be told from its last call.
LEMMA Last ==
    ASSUME NEW t, Len(t) \in Nat, Len(t) >= 1
    PROVE  /\ \A a, b : Allocates(t, a, b) => t[Len(t)].do = "register"
           /\ Detaches(t) => t[Len(t)].do = "node_detach"
           /\ \A ns : Cleans(t, ns) => t[Len(t)].do = "clear"
           /\ Wakes(t) => t[Len(t)].do = "wake_object"
           /\ Reaps(t) => t[Len(t)].do \in {"reap", "node_free"}
<1>1. Len(t) \in 1 .. Len(t)
  OBVIOUS
<1>2. Reaps(t) => t[Len(t)].do \in {"reap", "node_free"}
  BY <1>1 DEF Reaps
<1> QED
  BY <1>1, <1>2 DEF Allocates, Detaches, Cleans, Wakes

\* The stores with which node_free ends.
LEMMA FreeItems ==
    ASSUME NEW st, NEW n, NEW free, NEW nodes, OfFree(st, n, free, nodes)
    PROVE  \/ /\ Len(st) = 2 /\ st[1] = Set(n, "waiter_next", free) /\ st[2] = SetFree(n)
           \/ /\ Len(st) = 1 /\ st[1] = SetFree(n) /\ nodes[n].waiter_next = free
<1>1. CASE st = <<Set(n, "waiter_next", free), SetFree(n)>>
  BY <1>1
<1>2. CASE st = <<SetFree(n)>> /\ nodes[n].waiter_next = free
  BY <1>2
<1> QED
  BY <1>1, <1>2 DEF OfFree

LEMMA NoFree ==
    ASSUME NEW st, Len(st) = 8 \/ \A i \in 1 .. Len(st) : st[i].do # "free_head",
           NEW n, NEW free, NEW nodes
    PROVE  ~OfFree(st, n, free, nodes)
<1> SUFFICES ASSUME OfFree(st, n, free, nodes) PROVE FALSE
  OBVIOUS
<1>1. SetFree(n).do = "free_head"
  BY SetFields
<1>2. CASE Len(st) = 2 /\ st[2] = SetFree(n)
  <2>1. 2 \in 1 .. Len(st)
    BY <1>2
  <2> QED
    BY <1>1, <1>2, <2>1
<1>3. CASE Len(st) = 1 /\ st[1] = SetFree(n)
  <2>1. 1 \in 1 .. Len(st)
    BY <1>3
  <2> QED
    BY <1>1, <1>3, <2>1
<1> QED
  BY <1>2, <1>3, FreeItems

LEMMA UseTypes ==
    ASSUME UseInv
    PROVE  /\ Types /\ ShapeInv
           /\ \A p \in Procs : /\ mine[p] \in Seq(Nodes) /\ Len(mine[p]) \in Nat
                               /\ \A i \in 1 .. Len(mine[p]) : mine[p][i] \in Nodes
           /\ node_fresh \in 0 .. NodeCount /\ node_fresh \in Int
<1>1. Types /\ ShapeInv
  BY DEF UseInv, ShapeInv
<1>2. node_fresh \in 0 .. NodeCount /\ NodeCount \in Nat
  BY <1>1, NodeSet DEF Types, TypeOK
<1> QED
  BY <1>1, <1>2, MineSeq

\* Calls do not write: the free list stays apart from what it was apart from,
\* if they take nothing from it.
Loses(n) == \E p \in Procs : \E i \in 1 .. Len(mine[p]) : mine[p][i] = n /\ ~Freed(p, i)

Keeps ==
    /\ UNCHANGED <<node, node_free_head, node_fresh>> /\ alive' \subseteq alive
    /\ \A p \in Procs : mine'[p] = mine[p] \/ Len(mine'[p]) = 0

LEMMA UseFrame ==
    ASSUME UseInv, ShapeInv', Keeps, CleanOK', ReapOK', PushOK', ReturnOK',
           \A p \in Procs : \A i \in 1 .. Len(mine'[p]) : Freed(p, i) => Freed(p, i)',
           \A n \in Nodes : Reaped(n)' => Reaped(n) \/ node[n].registered,
           \A n \in Nodes : Taken(n)' => Taken(n),
           \A n \in Nodes : Returns(n)' => Returns(n) \/ Reaped(n) \/ Loses(n)
    PROVE  UseInv'
<1>1. /\ UNCHANGED <<node, node_free_head, node_fresh>>
      /\ \A p \in Procs : \A i \in 1 .. Len(mine'[p]) : mine'[p] = mine[p] /\ i \in 1 .. Len(mine[p])
  BY DEF Keeps
<1>2. OwnOK'
  <2>1. OwnOK
    BY DEF UseInv
  <2>2. (\A p \in Procs : \A i \in 1 .. Len(mine[p]) :
         /\ mine[p][i] < node_fresh /\ node[mine[p][i]].pid = p
         /\ \A j \in 1 .. Len(mine[p]) : mine[p][i] = mine[p][j] => i = j)'
    BY <1>1, <2>1 DEF OwnOK
  <2>3. (\A n \in Nodes : node[n].registered => n < node_fresh)'
    BY <1>1, <2>1 DEF OwnOK
  <2> QED
    BY <2>2, <2>3 DEF OwnOK
<1>3. PICK F \in SUBSET Nodes : \E r \in [Nodes -> Int] : FreeChain(F, r) /\ Apart(F)
  BY DEF UseInv
<1>4. PICK r \in [Nodes -> Int] : FreeChain(F, r) /\ Apart(F)
  BY <1>3
<1>5. FreeChain(F, r)'
  BY <1>1, <1>4 DEF FreeChain
<1>6. \A n \in F : ~node[n].registered /\ ~Loses(n)
  BY <1>4 DEF FreeChain, Apart, Loses
<1>7. ASSUME NEW p \in Procs, NEW i \in 1 .. Len(mine'[p]), mine'[p][i] \in F
      PROVE  Freed(p, i)'
  <2>1. Freed(p, i)
    BY <1>1, <1>4, <1>7 DEF Apart
  <2> QED
    BY <2>1
<1>8. ASSUME NEW n \in F
      PROVE  ~Reaped(n)' /\ ~Taken(n)' /\ ~Returns(n)'
  <2>1. n \in Nodes /\ ~Reaped(n) /\ ~Taken(n) /\ ~Returns(n)
    BY <1>4 DEF Apart
  <2> QED
    BY <1>6, <2>1
<1>9. Apart(F)'
  BY <1>7, <1>8 DEF Apart
<1> QED
  BY <1>2, <1>5, <1>9 DEF UseInv

\* A call with which nothing is given back yet.
Begins ==
    /\ Len(stores) = 8 \/ \A i \in 1 .. Len(stores) : stores[i].do # "free_head"
    /\ Allocating => Len(stores) = 8
    /\ lock # NoProc /\ Cleans(todo, mine[lock]) => Left(todo, mine[lock]) = Len(mine[lock])
    /\ Reaps(todo) => \A q \in 1 .. Len(todo) : todo[q].do # "node_free"

LEMMA UseBegins ==
    ASSUME UseInv, ShapeInv', Keeps, Begins',
           \A p \in Procs : \A i \in 1 .. Len(mine'[p]) : ~Freed(p, i)
    PROVE  UseInv'
<1>1. \A n \in Nodes : ~Reaped(n)'
  <2> SUFFICES ASSUME NEW n \in Nodes, Reaped(n)' PROVE FALSE
    OBVIOUS
  <2>1. Reaps(todo') /\ \E q \in 1 .. Len(todo') : todo'[q] = Call("node_free", n)
    BY DEF Reaped
  <2> QED
    BY <2>1, Calls DEF Begins
<1>2. \A n \in Nodes : ~Taken(n)'
  <2>1. Allocating' => Len(stores') = 8
    BY DEF Begins
  <2>2. ~(8 < 8)
    OBVIOUS
  <2> QED
    BY <2>1, <2>2, Zenon DEF Taken
<1>3. \A n \in Nodes : ~Returns(n)'
  <2> SUFFICES ASSUME NEW n \in Nodes, OfFree(stores', n, node_free_head', node') PROVE FALSE
    BY DEF Returns
  <2>1. Len(stores') = 8 \/ \A i \in 1 .. Len(stores') : stores'[i].do # "free_head"
    BY DEF Begins
  <2> QED
    BY <2>1, NoFree
<1>4. CleanOK'
  <2> SUFFICES ASSUME Cleaning', NEW i \in 1 .. Len(mine'[lock']),
                      Left(todo', mine'[lock']) + i <= Len(mine'[lock'])
               PROVE  FALSE
    BY DEF CleanOK
  <2>1. lock' # NoProc /\ Left(todo', mine'[lock']) = Len(mine'[lock'])
    BY DEF Cleaning, Begins
  <2>2. lock' \in Procs /\ Len(mine'[lock']) \in Nat
    <3>1. mine' \in [Procs -> Seq(Nodes)] /\ lock' \in Procs
      BY <2>1 DEF ShapeInv, Types, TypeOK
    <3> QED
      BY <3>1, LenProperties
  <2> QED
    BY <2>1, <2>2
<1>5. ReapOK' /\ PushOK' /\ ReturnOK'
  BY <1>1, <1>2, <1>3 DEF ReapOK, PushOK, ReturnOK
<1> QED
  BY <1>1, <1>2, <1>3, <1>4, <1>5, UseFrame

LEMMA BeginsIs ==
    ASSUME Types', ~Allocating', \A i \in 1 .. Len(stores') : stores'[i].do # "free_head",
           Len(todo') = 0 \/ todo'[Len(todo')].do \in {"register", "node_detach", "wake_object"}
    PROVE  Begins'
<1>1. Len(todo') \in Nat
  BY LenProperties DEF Types
<1>2. ASSUME NEW ns PROVE ~Cleans(todo', ns)
  <2>1. CASE Len(todo') = 0
    BY <2>1 DEF Cleans
  <2>2. CASE Len(todo') >= 1
    BY <1>1, <2>2, Last
  <2> QED
    BY <1>1, <2>1, <2>2
<1>3. Reaps(todo') => \A q \in 1 .. Len(todo') : todo'[q].do # "node_free"
  <2>1. CASE Len(todo') = 0
    BY <2>1
  <2>2. CASE Len(todo') >= 1
    BY <1>1, <2>2, Last
  <2> QED
    BY <1>1, <2>1, <2>2
<1> QED
  BY <1>2, <1>3 DEF Begins

LEMMA QuietKeeps ==
    ASSUME NEW st
    PROVE  /\ OfDetach(st) => \A i \in 1 .. Len(st) : st[i].do # "free_head"
           /\ \A ns : OfRegister(st, ns) => \A i \in 1 .. Len(st) : st[i].do # "free_head"
<1>1. \A c : Quiet(c) => c.do # "free_head"
  BY DEF Quiet
<1> QED
  BY <1>1 DEF OfDetach, OfRegister

LEMMA NotAllocating ==
    ASSUME NEW t \in Seq(CallRecord), t # <<>> => t[1].do # "push", todo' = t
    PROVE  ~Allocating'
<1>1. t # <<>> => Head(t) = t[1]
  BY TailItems
<1> QED
  BY <1>1 DEF Allocating

LEMMA UseEnter ==
    ASSUME UseInv, ShapeInv', NEW p \in Procs, NEW first, NEW calls, Enters(p, first, calls), Begins'
    PROVE  UseInv'
<1>1. lock = NoProc /\ UNCHANGED <<node, node_free_head, node_fresh, mine, alive>>
  BY DEF Enters, Enter, memory
<1>2. Keeps
  BY <1>1 DEF Keeps
<1>3. \A q \in Procs : \A i \in 1 .. Len(mine'[q]) : ~Freed(q, i)
  BY <1>1, NodeSet DEF Freed
<1> QED
  BY <1>2, <1>3, UseBegins

LEMMA UseEnters ==
    ASSUME UseInv, ShapeInv', NEW p \in Procs, NEW first \in Seq(StoreRecord), NEW calls \in Seq(CallRecord),
           Enters(p, first, calls), OfDetach(first), calls # <<>> => calls[1].do # "push",
           calls = <<>> \/ calls[Len(calls)].do \in {"register", "node_detach", "wake_object"}
    PROVE  UseInv'
<1>1. stores' = first /\ todo' = calls
  BY DEF Enters, Enter, Do
<1>2. ~Allocating'
  BY <1>1, NotAllocating
<1>3. \A i \in 1 .. Len(stores') : stores'[i].do # "free_head"
  BY <1>1, QuietKeeps
<1>4. Len(todo') = 0 \/ todo'[Len(todo')].do \in {"register", "node_detach", "wake_object"}
  <2>1. calls = <<>> => Len(calls) = 0
    BY Items
  <2> QED
    BY <1>1, <2>1
<1>5. Types'
  BY DEF ShapeInv
<1>6. Begins'
  BY <1>2, <1>3, <1>4, <1>5, BeginsIs
<1> QED
  BY <1>6, UseEnter

LEMMA UseBlock ==
    ASSUME UseInv, ShapeInv', NEW p \in Procs, Block(p)
    PROVE  UseInv'
<1>1. PICK w \in Waits[p] : Enters(p, <<>>, AllocSeq(w, p))
  BY DEF Block, Enters, AllocSeq
<1>2. w \in Seq(Slots) /\ w # <<>>
  BY NodeListAssumption
<1> DEFINE t == AllocSeq(w, p)
<1>3. t \in Seq(CallRecord) /\ Allocates(t, 0, Len(w)) /\ t # <<>> /\ t[1].do # "push"
  BY <1>2, AllocCalls
<1> HIDE DEF t
<1>4. t[Len(t)].do = "register"
  BY <1>3, Items DEF Allocates
<1>5. Enters(p, <<>>, t)
  BY <1>1 DEF t
<1> QED
  BY <1>3, <1>4, <1>5, NoStores, UseEnters

LEMMA UseAgain ==
    ASSUME UseInv, ShapeInv', NEW p \in Procs, Again(p)
    PROVE  UseInv'
<1> DEFINE t == <<Call("register", p)>>
<1>1. Enters(p, <<>>, t)
  BY DEF Again, Enters
<1>2. t \in Seq(CallRecord) /\ Len(t) = 1 /\ t[1] = Call("register", p)
  BY Calls
<1>3. t[1].do = "register"
  BY <1>2, Calls
<1> HIDE DEF t
<1> QED
  BY <1>1, <1>2, <1>3, NoStores, UseEnters

LEMMA UseDetach ==
    ASSUME UseInv, ShapeInv', NEW p \in Procs, Detach(p)
    PROVE  UseInv'
<1> DEFINE t == ForEach("node_detach", mine[p])
<1>1. Enters(p, <<>>, t)
  BY DEF Detach, Enters
<1>2. mine[p] \in Seq(Nodes)
  BY UseTypes
<1>3. /\ t \in Seq(CallRecord) /\ Len(t) = Len(mine[p]) /\ Len(mine[p]) \in Nat
      /\ \A i \in 1 .. Len(mine[p]) : t[i] = Call("node_detach", mine[p][i])
  BY <1>2, ForEachCalls
<1> HIDE DEF t
<1>4. \A i \in 1 .. Len(t) : t[i].do = "node_detach"
  BY <1>3, Calls
<1>5. t # <<>> => 1 \in 1 .. Len(t) /\ Len(t) \in 1 .. Len(t)
  BY <1>3, Items
<1> QED
  BY <1>1, <1>3, <1>4, <1>5, NoStores, UseEnters

LEMMA UseCleanup ==
    ASSUME UseInv, ShapeInv', NEW p \in Procs, Cleanup(p)
    PROVE  UseInv'
<1> DEFINE t == CleanSeq(mine[p], p)
<1>1. Enters(p, <<>>, t)
  BY DEF Cleanup, Enters, waiter_cleanup, CleanSeq
<1>2. /\ t \in Seq(CallRecord) /\ Cleans(t, mine[p]) /\ t # <<>> /\ t[1].do # "push"
      /\ Left(t, mine[p]) = Len(mine[p])
  BY UseTypes, CleanCalls
<1> HIDE DEF t
<1>3. lock' = p /\ stores' = <<>> /\ todo' = t /\ mine' = mine
  BY <1>1 DEF Enters, Enter, Do
<1>4. ~Allocating'
  BY <1>2, <1>3, NotAllocating
<1>5. Len(t) \in Nat /\ Len(t) >= 1
  BY <1>2, Items
<1>6. ~Reaps(t)
  BY <1>2, <1>5, Last
<1>7. Begins'
  BY <1>2, <1>3, <1>4, <1>6, NoStores DEF Begins
<1> QED
  BY <1>1, <1>7, UseEnter

LEMMA UseSignal ==
    ASSUME UseInv, ShapeInv', NEW p \in Procs, Signal(p)
    PROVE  UseInv'
<1>1. PICK s \in Slots : Enters(p, <<>>, <<Call("wake_object", waiter_head[s])>>)
  BY DEF Signal, Enters
<1>2. waiter_head[s] \in Opt
  BY UseTypes DEF Types, TypeOK, Opt
<1> DEFINE t == <<Call("wake_object", waiter_head[s])>>
<1>3. t \in Seq(CallRecord) /\ Len(t) = 1 /\ t[1] = Call("wake_object", waiter_head[s])
  BY <1>2, WakeOne
<1>4. t[1].do = "wake_object"
  BY <1>3, Calls
<1>5. Enters(p, <<>>, t)
  BY <1>1
<1> HIDE DEF t
<1> QED
  BY <1>3, <1>4, <1>5, NoStores, UseEnters

LEMMA UseClose ==
    ASSUME UseInv, ShapeInv', NEW p \in Procs, close(p)
    PROVE  UseInv'
<1>1. PICK s \in Slots : Enters(p, <<SetUsed(s, FALSE)>>, <<Call("wake_object", waiter_head[s])>>)
  BY DEF close, Enters
<1>2. waiter_head[s] \in Opt
  BY UseTypes DEF Types, TypeOK, Opt
<1> DEFINE t  == <<Call("wake_object", waiter_head[s])>>
           c  == SetUsed(s, FALSE)
           st == <<c>>
<1>3. t \in Seq(CallRecord) /\ Len(t) = 1 /\ t[1] = Call("wake_object", waiter_head[s])
  BY <1>2, WakeOne
<1>4. t[1].do = "wake_object"
  BY <1>3, Calls
<1>5. Enters(p, st, t)
  BY <1>1
<1>6. c \in StoreRecord /\ Quiet(c)
  BY Stores, QuietStores
<1> HIDE DEF t, c
<1>7. st \in Seq(StoreRecord) /\ Len(st) = 1 /\ st[1] = c
  BY <1>6
<1> HIDE DEF st
<1>8. OfDetach(st)
  BY <1>6, <1>7 DEF OfDetach
<1> QED
  BY <1>3, <1>4, <1>5, <1>7, <1>8, UseEnters

LEMMA UseCreate ==
    ASSUME UseInv, ShapeInv', NEW p \in Procs, create(p)
    PROVE  UseInv'
<1>1. PICK s \in Slots : Enters(p, <<SetHead(s, NIL), SetUsed(s, TRUE)>>, <<>>)
  BY DEF create, Enters
<1> DEFINE c  == SetHead(s, NIL)
           d  == SetUsed(s, TRUE)
           st == <<c, d>>
           t  == <<>>
<1>2. c \in StoreRecord /\ Quiet(c) /\ d \in StoreRecord /\ Quiet(d)
  BY Stores, QuietStores DEF Opt
<1>3. Enters(p, st, t)
  BY <1>1
<1>4. t \in Seq(CallRecord) /\ t = <<>>
  BY EmptySeq
<1> HIDE DEF c, d
<1>7. st \in Seq(StoreRecord) /\ Len(st) = 2 /\ st[1] = c /\ st[2] = d
  BY <1>2
<1> HIDE DEF st, t
<1>8. OfDetach(st)
  <2>1. 1 .. Len(st) = {1, 2}
    BY <1>7
  <2> QED
    BY <1>2, <1>7, <2>1 DEF OfDetach
<1> QED
  BY <1>3, <1>4, <1>7, <1>8, UseEnters

LEMMA UseSweep ==
    ASSUME UseInv, ShapeInv', NEW p \in Procs, sweep_dead(p)
    PROVE  UseInv'
<1> DEFINE t == [i \in 1 .. node_fresh |-> Call("reap", i - 1)]
<1>1. Enters(p, <<>>, t)
  BY DEF sweep_dead, Enters
<1>2. t \in Seq(CallRecord) /\ (\A j \in 1 .. Len(t) : t[j].do = "reap") /\ Len(t) \in Nat
  BY UseTypes, ReapCalls
<1> HIDE DEF t
<1>3. stores' = <<>> /\ todo' = t
  BY <1>1 DEF Enters, Enter, Do
<1>4. t # <<>> => 1 \in 1 .. Len(t)
  BY <1>2, Items
<1>5. ~Allocating'
  BY <1>2, <1>3, <1>4, NotAllocating
<1>6. \A ns : ~Cleans(t, ns)
  <2>1. CASE Len(t) = 0
    BY <2>1 DEF Cleans
  <2>2. CASE Len(t) >= 1
    BY <1>2, <2>2, Last
  <2> QED
    BY <1>2, <2>1, <2>2
<1>7. Begins'
  BY <1>2, <1>3, <1>5, <1>6, NoStores DEF Begins
<1> QED
  BY <1>1, <1>7, UseEnter

LEMMA DetachUnlists ==
    ASSUME Types, NEW n \in Nodes, NEW st, st = node_detach(n)
    PROVE  ~node[n].registered \/ \E i \in 1 .. Len(st) : st[i] = Set(n, "registered", FALSE)
<1> DEFINE a == Unlink(n)
           b == Set(node[n].obj_next, "obj_prev", node[n].obj_prev)
           c == Set(n, "registered", FALSE)
           d == Set(n, "obj", NIL)
           e == Set(n, "obj_prev", NIL)
           f == Set(n, "obj_next", NIL)
<1>1. /\ node[n].registered /\ node[n].obj_next = NIL => st = <<a, c, d, e, f>>
      /\ node[n].registered /\ node[n].obj_next # NIL => st = <<a, b, c, d, e, f>>
  BY DetachStores
<1>2. c = Set(n, "registered", FALSE)
  OBVIOUS
<1> HIDE DEF a, b, c, d, e, f
<1>3. CASE st = <<a, c, d, e, f>>
  <2>1. Len(st) = 5 /\ st[2] = c
    BY <1>3
  <2>2. 2 \in 1 .. Len(st)
    BY <2>1
  <2> QED
    BY <1>2, <2>1, <2>2
<1>4. CASE st = <<a, b, c, d, e, f>>
  <2>1. Len(st) = 6 /\ st[3] = c
    BY <1>4
  <2>2. 3 \in 1 .. Len(st)
    BY <2>1
  <2> QED
    BY <1>2, <2>1, <2>2
<1> QED
  BY <1>1, <1>3, <1>4

\* What the next call of a cleanup is about.
LEMMA CleansAt ==
    ASSUME UseInv, NEW p \in Procs, NEW f, At(p, f), Cleans(todo, mine[p]), f # "clear"
    PROVE  LET ns == mine[p]
               L  == Left(todo, ns)
           IN  /\ L \in Int /\ Len(ns) \in Nat /\ Cleans(Rest, ns) /\ Left(Rest, ns) = L - 1
               /\ Cleaning /\ ~Reaps(Rest) /\ ~Reaps(todo) /\ Len(Rest) >= 1 /\ L <= Len(ns)
               /\ f = "node_free" => 1 - L \in 1 .. Len(ns) /\ todo[1].n = ns[1 - L]
               /\ f = "node_detach" => 1 - L + Len(ns) \in 1 .. Len(ns) /\ todo[1].n = ns[1 - L + Len(ns)]
<1> DEFINE ns == mine[p]
           L  == Left(todo, ns)
<1>1. /\ ShapeInv /\ lock = p /\ Len(todo) \in Nat /\ Len(todo) >= 1 /\ todo[1].do = f
      /\ IsTail(Rest, todo) /\ Len(Rest) \in Nat /\ Len(ns) \in Nat
  BY AtIs DEF UseInv
<1>2. /\ Cleans(Rest, ns) /\ Left(Rest, ns) = L - 1
      /\ f = "node_free" => 1 - L \in 1 .. Len(ns) /\ todo[1].n = ns[1 - L]
      /\ f = "node_detach" => 1 - L + Len(ns) \in 1 .. Len(ns) /\ todo[1].n = ns[1 - L + Len(ns)]
  BY <1>1, CleansStep
<1>3. L \in Int /\ L <= Len(ns)
  BY <1>1 DEF Left, Cleans
<1>4. Cleaning
  BY <1>1, NodeSet DEF Cleaning
<1>5. Len(Rest) >= 1
  BY <1>2 DEF Cleans
<1>6. ~Reaps(Rest) /\ ~Reaps(todo)
  BY <1>1, <1>2, <1>5, Last
<1> QED
  BY <1>1, <1>2, <1>3, <1>4, <1>5, <1>6

LEMMA StillIs ==
    ASSUME Still
    PROVE  Keeps /\ UNCHANGED <<node, waiter_head, used, node_free_head, node_fresh, lock, want, mine, alive, torn>>
  BY DEF Still, memory, Keeps

LEMMA RestLast ==
    ASSUME Len(todo) \in Nat, Len(Rest) \in Nat, IsTail(Rest, todo), Len(Rest) # 0
    PROVE  Rest[Len(Rest)] = todo[Len(todo)]
<1>1. Len(Rest) \in 1 .. Len(Rest) /\ Len(Rest) + 1 = Len(todo)
  BY DEF IsTail
<1> QED
  BY <1>1 DEF IsTail

LEMMA UseStepDetach ==
    ASSUME UseInv, ShapeInv', NEW p \in Procs, StepDetach(p), Still
    PROVE  UseInv'
<1>0. PICK n : n = Head(todo).n
  OBVIOUS
<1>1. At(p, "node_detach") /\ stores' = node_detach(n) /\ todo' = Rest
  BY <1>0 DEF StepDetach, Do
<1>2. /\ ShapeInv /\ Types /\ lock = p /\ n \in Nodes /\ n = todo[1].n /\ stores = <<>> /\ Len(stores) = 0
      /\ Len(todo) \in Nat /\ Len(todo) >= 1 /\ todo[1].do = "node_detach" /\ Rest \in Seq(CallRecord)
      /\ IsTail(Rest, todo) /\ Len(Rest) \in Nat /\ Len(mine[p]) \in Nat
  BY <1>0, <1>1, AtIs, CallFields, NoStores DEF UseInv
<1>3. Keeps /\ UNCHANGED <<node, node_free_head, node_fresh, lock, mine, alive>>
  BY StillIs
<1>4. Detaches(todo) \/ Cleans(todo, mine[p]) \/ Wakes(todo) \/ Reaps(todo)
  BY <1>1, <1>2, SectionAt
<1>5. \A i \in 1 .. Len(stores') : stores'[i].do # "free_head"
  BY <1>1, <1>2, DetachStores, QuietKeeps
<1>6. ~Allocating'
  BY <1>1, <1>2, SectionTail, NotAllocating
<1>7. Unlisted_(n)'
  <2>1. ~node[n].registered \/ \E i \in 1 .. Len(stores') : stores'[i] = Set(n, "registered", FALSE)
    <3>1. n \in Nodes /\ Types /\ stores' = node_detach(n)
      BY <1>1, <1>2
    <3> QED
      BY <3>1, DetachUnlists, Zenon
  <2> QED
    BY <1>3, <2>1 DEF Unlisted_
<1>8. /\ \A m \in Nodes : ~Returns(m)' /\ ~Taken(m)'
      /\ PushOK' /\ ReturnOK'
  <2>1. \A m : ~OfFree(stores', m, node_free_head', node')
    BY <1>5, NoFree
  <2> QED
    BY <1>6, <2>1 DEF Returns, Taken, PushOK, ReturnOK
<1>9. \A m \in Nodes : Unlisted_(m) => Unlisted_(m)'
  <2>1. 1 .. Len(stores) = {}
    BY <1>2
  <2> QED
    BY <1>3, <2>1 DEF Unlisted_
<1>10. CASE Detaches(todo) \/ Wakes(todo)
  <2>1. todo[Len(todo)].do \in {"node_detach", "wake_object"}
    BY <1>2, <1>10, Last
  <2>2. Len(todo') = 0 \/ todo'[Len(todo')].do \in {"register", "node_detach", "wake_object"}
    BY <1>1, <1>2, <2>1, RestLast
  <2>3. Types'
    BY DEF ShapeInv
  <2>4. Begins'
    BY <1>5, <1>6, <2>2, <2>3, BeginsIs
  <2>5. ~Cleaning
    BY <1>2, <2>1, Last DEF Cleaning
  <2> QED
    BY <1>3, <2>4, <2>5, UseBegins DEF Freed
<1>11. CASE Cleans(todo, mine[p])
  <2> DEFINE ns == mine[p]
             L  == Left(todo, ns)
  <2>1. /\ L \in Int /\ Left(Rest, ns) = L - 1 /\ ~Reaps(Rest) /\ ~Reaps(todo) /\ Cleaning /\ Cleans(Rest, ns)
        /\ 1 - L + Len(ns) \in 1 .. Len(ns) /\ n = ns[1 - L + Len(ns)]
    BY <1>1, <1>2, <1>11, CleansAt
  <2> HIDE DEF L
  <2>2. L >= 1
    BY <1>2, <2>1
  <2>3. \A q \in Procs : \A i \in 1 .. Len(mine'[q]) : ~Freed(q, i)
    BY <1>2, <2>1, <2>2 DEF Freed, L
  <2>4. \A m \in Nodes : ~Reaped(m)'
    BY <1>1, <2>1 DEF Reaped
  <2>5. CleanOK'
    <3> SUFFICES ASSUME NEW i \in 1 .. Len(ns), Left(Rest, ns) + i <= Len(ns), NEW m, m = ns[i]
                 PROVE  Unlisted_(m)'
      BY <1>1, <1>2, <1>3 DEF CleanOK, Unlisted_
    <3>1. L - 1 + i <= Len(ns)
      BY <2>1
    <3>2. i = 1 - L + Len(ns) \/ L + i <= Len(ns)
      <4>1. \A a, b, c \in Int : a - 1 + b <= c => b = 1 - a + c \/ a + b <= c
        OBVIOUS
      <4>2. L \in Int /\ i \in Int /\ Len(ns) \in Int
        BY <1>2, <2>1
      <4> QED
        BY <3>1, <4>1, <4>2, Zenon
    <3>3. L + i <= Len(ns) => Unlisted_(ns[i])
      BY <1>2, <2>1 DEF UseInv, CleanOK, L
    <3>4. m \in Nodes
      BY UseTypes
    <3> QED
      BY <1>7, <1>9, <2>1, <3>2, <3>3, <3>4
  <2>6. ReapOK'
    BY <2>4 DEF ReapOK
  <2> QED
    BY <1>3, <1>8, <2>3, <2>4, <2>5, <2>6, UseFrame
<1>12. CASE Reaps(todo)
  <2>1. /\ Rest[1] = Call("node_free", n) /\ Len(todo) >= 2 /\ \A j \in 2 .. Len(Rest) : Rest[j].do = "reap"
        /\ Reaps(Rest)
    BY <1>2, <1>12, ReapsStep
  <2>2. todo[2] = Call("node_free", n) /\ 2 \in 1 .. Len(todo)
    BY <1>2, <2>1 DEF IsTail
  <2>3. Reaped(n)
    BY <1>12, <2>2 DEF Reaped
  <2>4. ASSUME NEW m \in Nodes, Reaped(m)'
        PROVE  m = n
    <3>1. PICK q \in 1 .. Len(Rest) : Rest[q] = Call("node_free", m)
      BY <1>1, <2>4 DEF Reaped
    <3>2. Rest[q].do = "node_free" /\ Rest[q].n = m
      BY <3>1, Calls
    <3>3. q = 1
      <4>1. q = 1 \/ q \in 2 .. Len(Rest)
        BY <1>2
      <4> QED
        BY <2>1, <3>2, <4>1
    <3> QED
      BY <2>1, <3>2, <3>3, Calls
  <2>5. ReapOK'
    <3>1. n < node_fresh /\ node[n].pid \notin alive
      BY <1>2, <2>3 DEF UseInv, ReapOK
    <3> QED
      BY <1>3, <1>7, <2>4, <3>1 DEF ReapOK
  <2>6. \A ns : ~Cleans(todo, ns) /\ ~Cleans(Rest, ns)
    <3>1. Len(Rest) >= 1
      BY <1>2, <2>1 DEF IsTail
    <3> QED
      BY <1>2, <1>12, <2>1, <3>1, Last
  <2>7. ~Cleaning /\ CleanOK'
    BY <1>1, <2>6 DEF Cleaning, CleanOK
  <2> QED
    BY <1>3, <1>8, <2>3, <2>4, <2>5, <2>7, UseFrame DEF Freed
<1> QED
  BY <1>4, <1>10, <1>11, <1>12

\* Only n is returned by node_free(n).
LEMMA FreesOne ==
    ASSUME NEW st, NEW n, NEW m, NEW free, NEW nodes, OfFree(st, n, free, nodes), OfFree(st, m, free, nodes)
    PROVE  m = n
<1>1. SetFree(n).v = n /\ SetFree(m).v = m
  BY SetFields
<1>2. CASE Len(st) = 2 /\ st[2] = SetFree(n)
  <2>1. st[2] = SetFree(m)
    <3>1. Len(st) # 1
      BY <1>2
    <3> QED
      BY <3>1, FreeItems
  <2> QED
    BY <1>1, <1>2, <2>1
<1>3. CASE Len(st) = 1 /\ st[1] = SetFree(n)
  <2>1. st[1] = SetFree(m)
    <3>1. Len(st) # 2
      BY <1>3
    <3> QED
      BY <3>1, FreeItems
  <2> QED
    BY <1>1, <1>3, <2>1
<1> QED
  BY <1>2, <1>3, FreeItems

LEMMA UseStepFree ==
    ASSUME UseInv, ShapeInv', NEW p \in Procs, StepFree(p), Still
    PROVE  UseInv'
<1>0. PICK n : n = Head(todo).n
  OBVIOUS
<1>1. At(p, "node_free") /\ stores' = node_free(n) /\ todo' = Rest
  BY <1>0 DEF StepFree, Do
<1>2. /\ ShapeInv /\ Types /\ lock = p /\ n \in Nodes /\ n = todo[1].n /\ stores = <<>> /\ Len(stores) = 0
      /\ Len(todo) \in Nat /\ Len(todo) >= 1 /\ todo[1].do = "node_free" /\ Rest \in Seq(CallRecord)
      /\ todo[1] = Call("node_free", n)
      /\ IsTail(Rest, todo) /\ Len(Rest) \in Nat /\ Len(mine[p]) \in Nat /\ Head(todo) = todo[1]
  BY <1>0, <1>1, AtIs, CallFields, NoStores DEF UseInv
<1>3. Keeps /\ UNCHANGED <<node, node_free_head, node_fresh, lock, mine, alive>>
  BY StillIs
<1>4. Cleans(todo, mine[p]) \/ Reaps(todo)
  BY <1>1, <1>2, SectionAt
<1>5. OfFree(stores', n, node_free_head', node')
  <2>1. OfFree(stores', n, node_free_head, node)
    BY <1>1, <1>2, FreeStores
  <2> QED
    BY <1>3, <2>1
<1>6. ~Allocating'
  BY <1>1, <1>2, SectionTail, NotAllocating
<1>7. ASSUME NEW m \in Nodes, Returns(m)'
      PROVE  m = n
  BY <1>5, <1>7, FreesOne DEF Returns
<1>8. (\A m \in Nodes : ~Taken(m)') /\ PushOK'
  BY <1>6 DEF Taken, PushOK
<1>9. 1 .. Len(stores) = {}
  BY <1>2
<1>10. CASE Cleans(todo, mine[p])
  <2> DEFINE ns == mine[p]
  <2>0. PICK L : L = Left(todo, ns)
    OBVIOUS
  <2>1. /\ L \in Int /\ Left(Rest, ns) = L - 1 /\ ~Reaps(Rest) /\ ~Reaps(todo) /\ Cleaning /\ Cleans(Rest, ns)
        /\ 1 - L \in 1 .. Len(ns) /\ n = ns[1 - L]
    BY <1>1, <1>2, <1>10, <2>0, CleansAt
  <2>2. /\ \A i \in 1 .. Len(ns) : Freed(p, i) <=> L + i <= 0
        /\ \A i \in 1 .. Len(ns) : Freed(p, i)' <=> L - 1 + i <= 0
        /\ \A q \in Procs : \A i : Freed(q, i) => q = p
    <3>1. \A i \in 1 .. Len(ns) : Freed(p, i) <=> L + i <= 0
      BY <1>2, <2>0, <2>1 DEF Freed
    <3>2. Cleaning'
      BY <1>1, <1>2, <1>3, <2>1, NodeSet DEF Cleaning
    <3>3. \A i \in 1 .. Len(ns) : Freed(p, i)' <=> L - 1 + i <= 0
      BY <1>1, <1>2, <1>3, <2>1, <3>2 DEF Freed
    <3> QED
      BY <1>2, <3>1, <3>3 DEF Freed
  <2>3. ~Freed(p, 1 - L) /\ Freed(p, 1 - L)'
    BY <2>1, <2>2
  <2>4. \A q \in Procs : \A i \in 1 .. Len(mine'[q]) : Freed(q, i) => Freed(q, i)'
    <3>1. \A i \in 1 .. Len(ns) : L + i <= 0 => L - 1 + i <= 0
      BY <2>1
    <3> QED
      BY <1>3, <2>2, <3>1
  <2>5. (\A m \in Nodes : ~Reaped(m)') /\ ReapOK'
    BY <1>1, <2>1 DEF Reaped, ReapOK
  <2>6. CleanOK'
    <3> SUFFICES ASSUME NEW i \in 1 .. Len(ns), NEW m, m = ns[i]
                 PROVE  ~node[m].registered
      BY <1>2, <1>3 DEF CleanOK, Unlisted_
    <3>1. L + i <= Len(ns)
      BY <1>2, <2>1
    <3>2. Unlisted_(m)
      BY <1>2, <2>0, <2>1, <3>1 DEF UseInv, CleanOK
    <3> QED
      BY <1>9, <3>2 DEF Unlisted_
  <2>7. n < node_fresh /\ ~node[n].registered
    <3>1. n < node_fresh
      BY <2>1 DEF UseInv, OwnOK
    <3>2. L + (1 - L) <= Len(ns)
      BY <1>2, <2>1
    <3>3. Unlisted_(n)
      BY <1>2, <2>0, <2>1, <3>2 DEF UseInv, CleanOK
    <3> QED
      BY <1>9, <3>1, <3>3 DEF Unlisted_
  <2>8. ASSUME NEW q \in Procs, NEW i \in 1 .. Len(mine[q]), mine[q][i] = n
        PROVE  q = p /\ i = 1 - L
    <3>1. node[n].pid = q /\ node[n].pid = p
      BY <2>1, <2>8 DEF UseInv, OwnOK
    <3> QED
      BY <2>1, <2>8, <3>1 DEF UseInv, OwnOK
  <2>9. ReturnOK'
    <3> SUFFICES /\ n < node_fresh' /\ ~node'[n].registered
                 /\ \A q \in Procs : \A i \in 1 .. Len(mine'[q]) : mine'[q][i] = n => Freed(q, i)'
      BY <1>7, <2>5 DEF ReturnOK
    <3> QED
      BY <1>3, <2>3, <2>7, <2>8
  <2>10. \A m \in Nodes : Returns(m)' => Loses(m)
    BY <1>7, <2>1, <2>3 DEF Loses
  <2> QED
    BY <1>3, <1>8, <2>4, <2>5, <2>6, <2>9, <2>10, UseFrame
<1>11. CASE Reaps(todo)
  <2>1. \A j \in 1 .. Len(Rest) : Rest[j].do = "reap"
    BY <1>2, <1>11, ReapsStep
  <2>2. (\A m \in Nodes : ~Reaped(m)') /\ ReapOK'
    BY <1>1, <2>1, Calls DEF Reaped, ReapOK
  <2>3. Reaped(n)
    <3>1. 1 \in 1 .. Len(todo)
      BY <1>2
    <3> QED
      BY <1>2, <1>11, <3>1 DEF Reaped
  <2>4. n < node_fresh /\ node[n].pid \notin alive /\ Unlisted_(n)
    BY <1>2, <2>3 DEF UseInv, ReapOK
  <2>5. ~node[n].registered
    BY <1>9, <2>4 DEF Unlisted_
  <2>6. ASSUME NEW q \in Procs, NEW i \in 1 .. Len(mine[q]), mine[q][i] = n
        PROVE  FALSE
    <3>1. q \notin alive
      BY <2>4, <2>6 DEF UseInv, OwnOK
    <3>2. mine[q] = <<>>
      BY <1>2, <3>1 DEF Types
    <3> QED
      BY <3>2, NoStores
  <2>7. ReturnOK'
    <3> SUFFICES /\ n < node_fresh' /\ ~node'[n].registered
                 /\ \A q \in Procs : \A i \in 1 .. Len(mine'[q]) : mine'[q][i] = n => Freed(q, i)'
      BY <1>7, <2>2 DEF ReturnOK
    <3> QED
      BY <1>3, <2>4, <2>5, <2>6
  <2>8. \A m \in Nodes : Returns(m)' => Reaped(m)
    BY <1>7, <2>3
  <2>9. \A ns : ~Cleans(todo, ns) /\ ~Cleans(Rest, ns)
    <3>1. \A ns : ~Cleans(todo, ns)
      BY <1>2, <1>11, Last
    <3>2. CASE Len(Rest) = 0
      BY <3>1, <3>2 DEF Cleans
    <3>3. CASE Len(Rest) >= 1
      <4>1. Len(Rest) \in 1 .. Len(Rest)
        BY <1>2, <3>3
      <4> QED
        BY <3>1, <2>1, <4>1 DEF Cleans
    <3> QED
      BY <1>2, <3>2, <3>3
  <2>10. ~Cleaning /\ CleanOK'
    BY <1>1, <2>9 DEF Cleaning, CleanOK
  <2> QED
    BY <1>3, <1>8, <2>2, <2>7, <2>8, <2>10, UseFrame DEF Freed
<1> QED
  BY <1>4, <1>10, <1>11

\* Calls of a walk or of a registration.
LEMMA UseGoesOn ==
    ASSUME UseInv, ShapeInv', Still, Len(todo) \in Nat, Len(todo) >= 1, ~Allocating',
           todo[Len(todo)].do \in {"register", "node_detach", "wake_object"},
           \A i \in 1 .. Len(stores') : stores'[i].do # "free_head",
           Len(todo') = 0 \/ todo'[Len(todo')].do \in {"register", "node_detach", "wake_object"}
    PROVE  UseInv'
<1>1. Types'
  BY DEF ShapeInv
<1>2. Begins'
  BY <1>1, BeginsIs
<1>3. ~Cleaning
  BY Last DEF Cleaning
<1> QED
  BY <1>2, <1>3, StillIs, UseBegins DEF Freed

LEMMA UseStepWake ==
    ASSUME UseInv, ShapeInv', NEW p \in Procs, StepWake(p), Still
    PROVE  UseInv'
<1>0. PICK n : n = Head(todo).n
  OBVIOUS
<1>1. ShapeInv /\ At(p, "wake_object") /\ stores' = <<>> /\ Wakes(todo) /\ Len(todo) = 1 /\ n \in Opt
  BY <1>0, WakeIs DEF UseInv
<1>2. todo[Len(todo)].do = "wake_object"
  BY <1>1, Last
<1>3. \A i \in 1 .. Len(stores') : stores'[i].do # "free_head"
  BY <1>1, NoStores, QuietKeeps
<1>4. /\ todo' \in Seq(CallRecord) /\ (todo' # <<>> => todo'[1].do # "push")
      /\ Len(todo') = 0 \/ todo'[Len(todo')].do = "wake_object"
  <2>1. CASE n = NIL
    <3>1. todo' = <<>>
      BY <1>0, <1>1, <2>1, WakeIs
    <3> QED
      BY <3>1, NoCalls, NoStores
  <2>2. CASE n # NIL
    <3>1. PICK w \in Opt, m \in Opt :
            n \in Nodes /\ todo' = <<Call("node_detach", n), Call("bump", w), Call("wake_object", m)>>
      <4>1. /\ n \in Nodes
            /\ todo' = <<Call("node_detach", n), Call("bump", node[n].wait_word), Call("wake_object", node[n].obj_next)>>
        BY <1>0, <1>1, <2>2, WakeIs
      <4>2. node[n].wait_word \in Opt /\ node[n].obj_next \in Opt
        BY <4>1, UseTypes, NodeFields
      <4> QED
        BY <4>1, <4>2
    <3>2. todo' \in Seq(CallRecord) /\ Len(todo') = 3 /\ todo'[1] = Call("node_detach", n) /\ todo'[3] = Call("wake_object", m)
      BY <3>1, WakePrefix
    <3> QED
      BY <3>2, Calls
  <2> QED
    BY <2>1, <2>2
<1>5. ~Allocating'
  BY <1>4, NotAllocating
<1> QED
  BY <1>1, <1>2, <1>3, <1>4, <1>5, UseGoesOn

LEMMA UseStepBump ==
    ASSUME UseInv, ShapeInv', NEW p \in Procs, StepBump(p), Still
    PROVE  UseInv'
<1>1. At(p, "bump") /\ stores' = <<>> /\ todo' = Rest /\ ShapeInv
  BY DEF StepBump, Do, UseInv
<1>2. /\ Len(todo) \in Nat /\ Len(todo) >= 1 /\ Rest \in Seq(CallRecord) /\ Len(Rest) \in Nat /\ IsTail(Rest, todo)
      /\ Wakes(todo)
  BY <1>1, AtIs, SectionAt
<1>3. todo[Len(todo)].do = "wake_object"
  BY <1>2, Last
<1>4. ~Allocating'
  BY <1>1, <1>2, SectionTail, NotAllocating
<1>5. Len(todo') = 0 \/ todo'[Len(todo')].do = "wake_object"
  BY <1>1, <1>2, <1>3, RestLast
<1>6. \A i \in 1 .. Len(stores') : stores'[i].do # "free_head"
  BY <1>1, NoStores, QuietKeeps
<1> QED
  BY <1>2, <1>3, <1>4, <1>5, <1>6, UseGoesOn

LEMMA UseStepRegister ==
    ASSUME UseInv, ShapeInv', NEW p \in Procs, StepRegister(p), Still
    PROVE  UseInv'
<1>1. At(p, "register") /\ Unlisted(p) # {} /\ stores' = RegisterNext(p) /\ todo' = todo /\ ShapeInv /\ Types
  BY UseTypes DEF StepRegister, Do
<1>2. lock = p /\ Len(todo) = 1 /\ todo[1].do = "register" /\ ~Allocating
  BY <1>1, RegisterIs
<1>3. PICK i \in 1 .. Len(mine[p]) :
        /\ mine[p][i] \in Nodes /\ want[p][i] \in Slots /\ mine[p][1] \in Nodes
        /\ RegisterNext(p) = node_register(mine[p][i], want[p][i], mine[p][1])
  BY <1>1, <1>2, RegisterNextIs
<1>4. OfRegister(stores', mine[p])
  BY <1>1, <1>2, <1>3, RegisterStores
<1>5. \A j \in 1 .. Len(stores') : stores'[j].do # "free_head"
  BY <1>4, QuietKeeps
<1>6. ~Allocating'
  BY <1>1, <1>2 DEF Allocating
<1> QED
  BY <1>1, <1>2, <1>5, <1>6, UseGoesOn

LEMMA UseStepListed ==
    ASSUME UseInv, ShapeInv', NEW p \in Procs, StepListed(p), Still
    PROVE  UseInv'
<1>1. At(p, "register") /\ stores' = <<>> /\ todo' = Rest /\ ShapeInv
  BY DEF StepListed, Do, UseInv
<1>2. Len(todo) = 1 /\ todo[1].do = "register" /\ todo' = <<>>
  BY <1>1, RegisterIs
<1>3. ~Allocating' /\ Len(todo') = 0
  BY <1>2, NoStores DEF Allocating
<1>4. \A i \in 1 .. Len(stores') : stores'[i].do # "free_head"
  BY <1>1, NoStores, QuietKeeps
<1> QED
  BY <1>2, <1>3, <1>4, UseGoesOn

LEMMA UseStepReap ==
    ASSUME UseInv, ShapeInv', NEW p \in Procs, StepReap(p), Still
    PROVE  UseInv'
<1>0. PICK n : n = Head(todo).n
  OBVIOUS
<1>1. /\ ShapeInv /\ At(p, "reap") /\ lock = p /\ n \in Nodes /\ stores' = <<>>
      /\ todo' \in Seq(CallRecord) /\ Reaps(todo') /\ (todo' # <<>> => todo'[1].do # "push")
      /\ Reaps(todo) /\ \A j \in 1 .. Len(Rest) : Rest[j].do = "reap"
      /\ ~DeadNode(n) => todo' = Rest
      /\ DeadNode(n) => /\ todo'[1] = Call("node_detach", n) /\ Len(todo') >= 2
                        /\ todo'[2] = Call("node_free", n)
                        /\ \A j \in 3 .. Len(todo') : todo'[j].do = "reap"
  BY <1>0, ReapIs DEF UseInv
<1>2. Keeps /\ UNCHANGED <<node, node_free_head, node_fresh, lock, mine, alive>>
  BY StillIs
<1>3. Len(todo) \in Nat /\ Len(todo) >= 1 /\ Len(todo') \in Nat
  BY <1>1, AtIs, Items
<1>4. ~Cleaning /\ \A ns : ~Cleans(todo', ns)
  <2>1. ~Cleaning
    BY <1>1, <1>3, Last DEF Cleaning
  <2>2. CASE Len(todo') = 0
    BY <2>1, <2>2 DEF Cleans
  <2>3. CASE Len(todo') >= 1
    BY <1>1, <1>3, <2>1, <2>3, Last
  <2> QED
    BY <1>3, <2>2, <2>3
<1>5. ~Allocating'
  BY <1>1, NotAllocating
<1>6. \A i \in 1 .. Len(stores') : stores'[i].do # "free_head"
  BY <1>1, NoStores, QuietKeeps
<1>7. \A q \in Procs : \A i : ~Freed(q, i)
  BY <1>4 DEF Freed
<1>8. CASE ~DeadNode(n)
  <2>1. Begins'
    BY <1>1, <1>4, <1>5, <1>6, <1>8 DEF Begins
  <2> QED
    BY <1>2, <1>7, <2>1, UseBegins
<1>9. CASE DeadNode(n)
  <2>1. ASSUME NEW m \in Nodes, Reaped(m)'
        PROVE  m = n
    <3>1. PICK q \in 1 .. Len(todo') : todo'[q] = Call("node_free", m)
      BY <2>1 DEF Reaped
    <3>2. todo'[q].do = "node_free" /\ todo'[q].n = m /\ todo'[1].do = "node_detach" /\ todo'[2].n = n
      BY <1>1, <1>9, <3>1, Calls
    <3>3. q = 1 \/ q = 2 \/ q \in 3 .. Len(todo')
      BY <1>3
    <3> QED
      BY <1>1, <1>9, <3>2, <3>3
  <2>2. node[n].registered /\ node[n].pid \notin alive
    BY <1>9 DEF DeadNode
  <2>3. n < node_fresh
    BY <1>1, <2>2 DEF UseInv, OwnOK
  <2>4. Head(todo').do # "node_free"
    <3>1. todo' # <<>>
      BY <1>1, <1>3, <1>9, NoStores
    <3>2. Head(todo') = todo'[1]
      BY <1>1, <3>1, TailItems
    <3> QED
      BY <1>1, <1>9, <3>2, Calls
  <2>5. ReapOK'
    BY <1>2, <2>1, <2>2, <2>3, <2>4 DEF ReapOK
  <2>6. CleanOK'
    BY <1>4 DEF CleanOK, Cleaning
  <2>7. \A m \in Nodes : ~Taken(m)' /\ ~Returns(m)'
    <3>1. \A m : ~OfFree(stores', m, node_free_head', node')
      BY <1>6, NoFree
    <3> QED
      BY <1>5, <3>1 DEF Taken, Returns
  <2>8. PushOK' /\ ReturnOK'
    BY <2>7 DEF PushOK, ReturnOK
  <2> QED
    BY <1>2, <1>7, <2>1, <2>2, <2>5, <2>6, <2>7, <2>8, UseFrame
<1> QED
  BY <1>8, <1>9

LEMMA UseStep ==
    ASSUME UseInv, ShapeInv', NEW p \in Procs, Step(p)
    PROVE  UseInv'
  BY StepIs, UseStepDetach, UseStepFree, UseStepWake, UseStepBump, UseStepReap, UseStepRegister, UseStepListed

-----------------------------------------------------------------------------
(* UseInv is inductive: the NodeSet of a wait, and deaths. *)

LEMMA UseAlloc ==
    ASSUME UseInv, ShapeInv', NEW p \in Procs, Alloc(p)
    PROVE  UseInv'
<1>1. /\ ShapeInv /\ Types /\ At(p, "node_alloc") /\ lock = p /\ Still
      /\ Allocates(todo, Len(mine[p]), Len(want[p])) /\ mine[p] \in Seq(Nodes)
  BY AllocIs, UseTypes
<1>2. Keeps /\ UNCHANGED <<lock, mine>>
  BY <1>1, StillIs
<1>3. Len(todo) \in Nat /\ Len(todo) >= 1
  BY <1>1, AtIs
<1>4. \A q \in Procs : \A i : ~Freed(q, i)
  BY <1>1, <1>3, Last DEF Freed, Cleaning
<1>5. CASE Exhausted
  <2>1. stores' = <<>> /\ todo' = CleanSeq(mine[p], p)
    BY <1>5, AllocIs DEF UseInv
  <2>2. /\ todo' \in Seq(CallRecord) /\ Cleans(todo', mine[p]) /\ todo' # <<>> /\ todo'[1].do # "push"
        /\ Left(todo', mine[p]) = Len(mine[p])
    BY <1>1, <2>1, CleanCalls
  <2>3. ~Allocating'
    BY <2>2, NotAllocating
  <2>4. Len(todo') \in Nat /\ Len(todo') >= 1
    BY <2>2, Items
  <2>5. ~Reaps(todo')
    BY <2>2, <2>4, Last
  <2>6. Begins'
    BY <1>1, <1>2, <2>1, <2>2, <2>3, <2>5, NoStores DEF Begins
  <2> QED
    BY <1>2, <1>4, <2>6, UseBegins
<1>6. CASE ~Exhausted
  <2>1. /\ stores' = node_alloc(p) /\ todo' \in Seq(CallRecord) /\ todo' # <<>>
        /\ Allocates(todo', Len(mine[p]), Len(want[p]))
    BY <1>6, AllocIs DEF UseInv
  <2>2. Len(stores') = 8
    BY <1>1, <1>6, <2>1, AllocStores
  <2>3. Len(todo') \in Nat /\ Len(todo') >= 1
    BY <2>1, Items
  <2>4. (\A ns : ~Cleans(todo', ns)) /\ ~Reaps(todo')
    BY <2>1, <2>3, Last
  <2>5. Begins'
    BY <2>2, <2>4 DEF Begins
  <2> QED
    BY <1>2, <1>4, <2>5, UseBegins
<1> QED
  BY <1>5, <1>6

LEMMA UsePush ==
    ASSUME UseInv, ShapeInv', NEW p \in Procs, Push(p)
    PROVE  UseInv'
<1>0. PICK n : n = Head(todo).n
  OBVIOUS
<1>1. /\ ShapeInv /\ At(p, "push") /\ lock = p /\ n \in Nodes /\ stores = <<>> /\ stores' = <<>> /\ Allocating
      /\ todo' = Rest /\ Allocates(Rest, Len(mine[p]) + 1, Len(want[p])) /\ Rest[1].do # "push"
      /\ node[n].pid = p
      /\ (\A q \in Procs \ {p} : mine'[q] = mine[q])
      /\ Len(mine'[p]) = Len(mine[p]) + 1
      /\ (\A i \in 1 .. Len(mine[p]) : mine'[p][i] = mine[p][i])
      /\ mine'[p][Len(mine[p]) + 1] = n
      /\ UNCHANGED <<node, node_free_head, node_fresh, lock, alive>>
  BY <1>0, PushIs DEF UseInv
<1>2. /\ Rest \in Seq(CallRecord) /\ Len(Rest) \in Nat /\ Len(mine[p]) \in Nat /\ Len(todo) \in Nat /\ Len(todo) >= 1
      /\ Allocates(todo, Len(mine[p]), Len(want[p]))
  BY <1>1, AtIs, SectionAt
<1>3. Len(Rest) >= 1
  BY <1>1 DEF Allocates
<1>4. (\A ns : ~Cleans(todo, ns) /\ ~Cleans(todo', ns)) /\ ~Reaps(todo) /\ ~Reaps(todo')
  BY <1>1, <1>2, <1>3, Last
<1>5. ~Allocating'
  BY <1>1, <1>2, NotAllocating
<1>6. Taken(n)
  BY <1>0, <1>1, NoStores DEF Taken
<1>7. n < node_fresh /\ \A q \in Procs : \A i \in 1 .. Len(mine[q]) : mine[q][i] # n
  BY <1>1, <1>6 DEF UseInv, PushOK
<1>8. ASSUME NEW q \in Procs, NEW i \in 1 .. Len(mine'[q])
      PROVE  \/ i \in 1 .. Len(mine[q]) /\ mine'[q][i] = mine[q][i]
             \/ q = p /\ i = Len(mine[p]) + 1 /\ mine'[q][i] = n
  <2>1. CASE q = p
    <3>1. i \in 1 .. Len(mine[p]) \/ i = Len(mine[p]) + 1
      BY <1>1, <1>2, <2>1
    <3> QED
      BY <1>1, <2>1, <3>1
  <2>2. CASE q # p
    BY <1>1, <2>2
  <2> QED
    BY <2>1, <2>2
<1>9. OwnOK'
  <2>0. OwnOK
    BY DEF UseInv
  <2>1. ASSUME NEW q \in Procs, NEW i \in 1 .. Len(mine'[q])
        PROVE  mine'[q][i] < node_fresh' /\ node'[mine'[q][i]].pid = q
    BY <1>1, <1>7, <1>8, <2>0 DEF OwnOK
  <2>2. ASSUME NEW q \in Procs, NEW i \in 1 .. Len(mine'[q]), NEW j \in 1 .. Len(mine'[q]), mine'[q][i] = mine'[q][j]
        PROVE  i = j
    BY <1>7, <1>8, <2>0, <2>2 DEF OwnOK
  <2>3. (\A m \in Nodes : node[m].registered => m < node_fresh)'
    BY <1>1, <2>0 DEF OwnOK
  <2> QED
    BY <2>1, <2>2, <2>3 DEF OwnOK
<1>10. \A m \in Nodes : ~Reaped(m)' /\ ~Taken(m)' /\ ~Returns(m)'
  <2>1. \A i \in 1 .. Len(stores') : stores'[i].do # "free_head"
    BY <1>1, NoStores, QuietKeeps
  <2>2. \A m : ~OfFree(stores', m, node_free_head', node')
    BY <2>1, NoFree
  <2> QED
    BY <1>4, <1>5, <2>2 DEF Reaped, Taken, Returns
<1>11. CleanOK' /\ ReapOK' /\ PushOK' /\ ReturnOK'
  BY <1>4, <1>10 DEF CleanOK, Cleaning, ReapOK, PushOK, ReturnOK
<1>12. PICK F \in SUBSET Nodes : \E r \in [Nodes -> Int] : FreeChain(F, r) /\ Apart(F)
  BY DEF UseInv
<1>13. PICK r \in [Nodes -> Int] : FreeChain(F, r) /\ Apart(F)
  BY <1>12
<1>14. FreeChain(F, r)'
  BY <1>1, <1>13 DEF FreeChain
<1>15. n \notin F /\ \A q \in Procs : \A i : ~Freed(q, i)
  BY <1>4, <1>6, <1>13 DEF Apart, Freed, Cleaning
<1>16. ASSUME NEW q \in Procs, NEW i \in 1 .. Len(mine'[q])
       PROVE  mine'[q][i] \notin F
  BY <1>8, <1>13, <1>15 DEF Apart
<1>17. Apart(F)'
  BY <1>10, <1>16 DEF Apart
<1> QED
  BY <1>9, <1>11, <1>14, <1>17 DEF UseInv

LEMMA UseClear ==
    ASSUME UseInv, ShapeInv', NEW p \in Procs, Clear(p)
    PROVE  UseInv'
<1>1. /\ lock = p /\ stores' = <<>> /\ todo' = <<>>
      /\ mine' = [mine EXCEPT ![p] = <<>>] /\ UNCHANGED <<node, node_free_head, node_fresh, alive>>
  BY ClearIs DEF UseInv
<1>2. mine \in [Procs -> Seq(Nodes)]
  BY UseTypes DEF Types
<1>3. Len(mine'[p]) = 0 /\ \A q \in Procs : q # p => mine'[q] = mine[q]
  BY <1>1, <1>2, NoStores
<1>4. Keeps
  BY <1>1, <1>3 DEF Keeps
<1>5. \A q \in Procs : \A i \in 1 .. Len(mine'[q]) : ~Freed(q, i)
  BY <1>1, <1>3 DEF Freed
<1>6. Begins'
  <2>1. Types' /\ ~Allocating' /\ Len(todo') = 0
    BY <1>1, NoStores DEF ShapeInv, Allocating
  <2>2. \A i \in 1 .. Len(stores') : stores'[i].do # "free_head"
    BY <1>1, NoStores, QuietKeeps
  <2> QED
    BY <2>1, <2>2, BeginsIs
<1> QED
  BY <1>4, <1>5, <1>6, UseBegins

LEMMA UseUnlock ==
    ASSUME UseInv, ShapeInv', NEW p \in Procs, Unlock(p)
    PROVE  UseInv'
<1>1. /\ stores = <<>> /\ todo = <<>> /\ stores' = <<>> /\ todo' = <<>>
      /\ UNCHANGED <<node, node_free_head, node_fresh, mine, alive>>
  BY DEF Unlock, memory
<1>2. Keeps
  BY <1>1 DEF Keeps
<1>3. Len(todo) = 0 /\ ~Cleaning
  BY <1>1, NoStores DEF Cleaning, Cleans
<1>4. Begins'
  <2>1. Types' /\ ~Allocating' /\ Len(todo') = 0
    BY <1>1, <1>3 DEF ShapeInv, Allocating
  <2>2. \A i \in 1 .. Len(stores') : stores'[i].do # "free_head"
    BY <1>1, NoStores, QuietKeeps
  <2> QED
    BY <2>1, <2>2, BeginsIs
<1> QED
  BY <1>2, <1>3, <1>4, UseBegins DEF Freed

LEMMA UseGone ==
    ASSUME UseInv, ShapeInv', NEW p \in Procs, Gone(p)
    PROVE  UseInv'
<1>1. /\ alive' = alive \ {p} /\ mine' = [mine EXCEPT ![p] = <<>>]
      /\ UNCHANGED <<node, node_free_head, node_fresh>>
      /\ lock = p => lock' = NoProc /\ stores' = <<>> /\ todo' = <<>>
      /\ lock # p => lock' = lock /\ stores' = stores /\ todo' = todo
  BY DEF Gone, Do, memory
<1>2. mine \in [Procs -> Seq(Nodes)] /\ (lock # NoProc => lock \in Procs)
  BY UseTypes DEF Types, TypeOK
<1>3. Len(mine'[p]) = 0 /\ \A q \in Procs : q # p => mine'[q] = mine[q]
  BY <1>1, <1>2, NoStores
<1>4. Keeps
  BY <1>1, <1>3 DEF Keeps
<1>5. CASE lock = p
  <2>1. Types' /\ ~Allocating' /\ Len(todo') = 0
    BY <1>1, <1>5, NoStores DEF ShapeInv, Allocating
  <2>2. \A i \in 1 .. Len(stores') : stores'[i].do # "free_head"
    BY <1>1, <1>5, NoStores, QuietKeeps
  <2>3. Begins'
    BY <2>1, <2>2, BeginsIs
  <2>4. \A q \in Procs : \A i \in 1 .. Len(mine'[q]) : ~Freed(q, i)
    BY <1>3, <1>5 DEF Freed
  <2> QED
    BY <1>4, <2>3, <2>4, UseBegins
<1>6. CASE lock # p
  <2>1. lock' = lock /\ stores' = stores /\ todo' = todo /\ (lock # NoProc => mine'[lock'] = mine[lock])
    BY <1>1, <1>2, <1>3, <1>6
  <2>2. Cleaning' <=> Cleaning
    BY <2>1 DEF Cleaning
  <2>3. \A q \in Procs : \A i : Freed(q, i)' <=> Freed(q, i)
    BY <2>1, <2>2 DEF Freed, Cleaning
  <2>4. \A n \in Nodes : /\ Reaped(n)' <=> Reaped(n)
                         /\ Taken(n)' <=> Taken(n)
                         /\ Unlisted_(n)' <=> Unlisted_(n)
    BY <1>1, <2>1 DEF Reaped, Taken, Allocating, Unlisted_
  <2>5. \A n \in Nodes : Returns(n)' <=> Returns(n)
    BY <1>1, <2>1 DEF Returns
  <2>6. CleanOK'
    <3> SUFFICES ASSUME Cleaning, NEW i \in 1 .. Len(mine[lock]), Left(todo, mine[lock]) + i <= Len(mine[lock]),
                        NEW m, m = mine[lock][i]
                 PROVE  Unlisted_(m)'
      BY <2>1, <2>2 DEF CleanOK, Cleaning, Unlisted_
    <3>1. lock \in Procs
      BY <1>2 DEF Cleaning
    <3>2. m \in Nodes /\ Unlisted_(m)
      BY <3>1, UseTypes DEF UseInv, CleanOK
    <3> QED
      BY <2>4, <3>2
  <2>7. ReapOK'
    BY <1>1, <2>1, <2>4 DEF UseInv, ReapOK
  <2>8. ASSUME NEW q \in Procs, NEW i \in 1 .. Len(mine'[q])
        PROVE  i \in 1 .. Len(mine[q]) /\ mine'[q][i] = mine[q][i]
    BY <1>3
  <2>9. PushOK'
    BY <1>1, <2>4, <2>8 DEF UseInv, PushOK
  <2>10. ReturnOK'
    <3>1. ReturnOK
      BY DEF UseInv
    <3> QED
      BY <1>1, <2>3, <2>4, <2>5, <2>8, <3>1 DEF ReturnOK
  <2> QED
    BY <1>4, <2>3, <2>4, <2>5, <2>6, <2>7, <2>9, <2>10, UseFrame
<1> QED
  BY <1>5, <1>6

-----------------------------------------------------------------------------
(* UseInv is inductive: stores. *)

LEMMA QuietPut ==
    ASSUME Types, NEW c \in StoreRecord, Puts(c), Quiet(c)
    PROVE  /\ UNCHANGED <<node_free_head, node_fresh>>
           /\ \A m \in Nodes : /\ node'[m].registered => node[m].registered
                               /\ node'[m].waiter_next = node[m].waiter_next
                               /\ node'[m].pid = node[m].pid
<1>1. CASE c.do # "set"
  <2>1. c.do \in {"head", "used"}
    BY <1>1 DEF Quiet
  <2> QED
    BY <1>1, <2>1 DEF Puts
<1>2. CASE c.do = "set"
  <2>1. /\ UNCHANGED <<node_free_head, node_fresh>> /\ node'[c.n][c.field] = c.v
        /\ \A m \in Nodes : \A f \in Fields : m # c.n \/ f # c.field => node'[m][f] = node[m][f]
    BY <1>2, PutNode
  <2>2. "registered" \in Fields /\ "waiter_next" \in Fields /\ "pid" \in Fields
    BY DEF Fields, LinkFields
  <2>3. c.field \notin {"waiter_next", "pid"} /\ (c.field = "registered" => c.v = FALSE)
    BY <1>2 DEF Quiet
  <2>4. \A m \in Nodes : node'[m].waiter_next = node[m].waiter_next /\ node'[m].pid = node[m].pid
    BY <2>1, <2>2, <2>3
  <2>5. ASSUME NEW m \in Nodes PROVE node'[m].registered => node[m].registered
    <3>1. CASE m = c.n /\ c.field = "registered"
      <4>1. node'[m].registered = FALSE
        BY <2>1, <2>3, <3>1
      <4> QED
        BY <4>1
    <3>2. CASE m # c.n \/ c.field # "registered"
      BY <2>1, <2>2, <3>2
    <3> QED
      BY <3>1, <3>2
  <2> QED
    BY <2>1, <2>4, <2>5
<1> QED
  BY <1>1, <1>2

\* What a store leaves alone.
LEMMA StoreKeeps ==
    ASSUME UseInv, NEW p \in Procs, Store(p)
    PROVE  /\ Types /\ lock = p /\ Len(stores) \in Nat /\ Len(stores) >= 1 /\ Len(stores') \in Nat
           /\ Len(stores') = Len(stores) - 1 /\ stores[1] \in StoreRecord /\ Puts(stores[1])
           /\ \A i \in 1 .. Len(stores') : i + 1 \in 1 .. Len(stores) /\ stores'[i] = stores[i + 1]
           /\ UNCHANGED <<todo, lock, mine, alive>>
           /\ Cleaning' <=> Cleaning
           /\ Allocating' <=> Allocating
           /\ \A q \in Procs : \A i : Freed(q, i)' <=> Freed(q, i)
           /\ \A m \in Nodes : Reaped(m)' <=> Reaped(m)
           /\ Call_
<1>1. /\ Types /\ lock = p /\ Len(stores) \in Nat /\ Len(stores) >= 1 /\ Len(stores') \in Nat
      /\ stores[1] \in StoreRecord /\ Puts(stores[1]) /\ IsTail(stores', stores)
      /\ UNCHANGED <<todo, lock, mine, alive>>
  BY UseTypes, StoreIs
<1>2. \A i \in 1 .. Len(stores') : i + 1 \in 1 .. Len(stores) /\ stores'[i] = stores[i + 1]
  BY <1>1, QuietTail
<1>3. (Cleaning' <=> Cleaning) /\ (Allocating' <=> Allocating)
  BY <1>1 DEF Cleaning, Allocating
<1>4. \A q \in Procs : \A i : Freed(q, i)' <=> Freed(q, i)
  BY <1>1, <1>3 DEF Freed
<1>5. \A m \in Nodes : Reaped(m)' <=> Reaped(m)
  BY <1>1 DEF Reaped
<1>6. Call_
  BY <1>1, NodeSet DEF UseInv, ShapeInv
<1> QED
  BY <1>1, <1>2, <1>3, <1>4, <1>5, <1>6 DEF IsTail

LEMMA TakenAlone ==
    ASSUME Types, Allocating
    PROVE  ~Reaps(todo) /\ ~Cleaning /\ todo[1].do = "push"
<1>1. /\ Len(todo) \in Nat /\ Len(todo) >= 1 /\ todo[1].do = "push" /\ IsTail(Tail(todo), todo)
      /\ Tail(todo) \in Seq(CallRecord)
  BY TailItems DEF Types, Allocating
<1>2. Len(Tail(todo)) \in Nat
  BY <1>1, Items
<1>3. ~Reaps(todo)
  BY <1>1, <1>2, ReapsStep
<1>4. ASSUME Cleaning PROVE FALSE
  <2>1. lock \in Procs /\ Cleans(todo, mine[lock])
    BY <1>4 DEF Cleaning, Types, TypeOK
  <2>2. Len(mine[lock]) \in Nat
    BY <2>1, MineSeq
  <2> QED
    BY <1>1, <1>2, <2>1, <2>2, CleansStep
<1> QED
  BY <1>1, <1>3, <1>4

LEMMA UnlistedStore ==
    ASSUME UseInv, NEW p \in Procs, Store(p), NEW m \in Nodes, Unlisted_(m),
           node'[m].registered => node[m].registered
    PROVE  Unlisted_(m)'
<1>1. /\ Types /\ Len(stores) \in Nat /\ Len(stores') \in Nat /\ Len(stores') = Len(stores) - 1
      /\ stores[1] \in StoreRecord /\ Puts(stores[1])
      /\ \A i \in 1 .. Len(stores') : stores'[i] = stores[i + 1]
  BY StoreKeeps
<1>2. CASE ~node[m].registered
  BY <1>2 DEF Unlisted_
<1>3. ASSUME NEW i \in 1 .. Len(stores), stores[i] = Set(m, "registered", FALSE)
      PROVE  Unlisted_(m)'
  <2>1. CASE i = 1
    <3> DEFINE c == stores[1]
    <3>2. c.do = "set" /\ c.n = m /\ c.field = "registered" /\ c.v = FALSE
      BY <1>3, <2>1 DEF Set
    <3>3. c \in StoreRecord /\ Puts(c)
      BY <1>1
    <3> HIDE DEF c
    <3>4. node'[m].registered = FALSE
      <4>1. node'[c.n][c.field] = c.v
        BY <1>1, <3>2, <3>3, PutNode
      <4> QED
        BY <3>2, <4>1
    <3> QED
      BY <3>4 DEF Unlisted_
  <2>2. CASE i # 1
    <3>1. i - 1 \in 1 .. Len(stores') /\ (i - 1) + 1 = i
      BY <1>1, <2>2
    <3>2. stores'[i - 1] = Set(m, "registered", FALSE)
      BY <1>1, <1>3, <3>1
    <3> QED
      BY <3>1, <3>2 DEF Unlisted_
  <2> QED
    BY <2>1, <2>2
<1> QED
  BY <1>2, <1>3 DEF Unlisted_

\* A store that touches neither end of the free list, and no link but one of a
\* node that is on its way.
Aside ==
    /\ UNCHANGED <<node_free_head, node_fresh>>
    /\ \A m \in Nodes : /\ node'[m].registered => node[m].registered
                        /\ node'[m].waiter_next = node[m].waiter_next \/ Taken(m) \/ Returns(m)
                        /\ node'[m].pid = node[m].pid \/ Taken(m)
                        /\ Taken(m)' => Taken(m)
                        /\ Returns(m)' => Returns(m)

LEMMA UseAside ==
    ASSUME UseInv, ShapeInv', NEW p \in Procs, Store(p), Aside
    PROVE  UseInv'
<1>1. /\ Types /\ UNCHANGED <<todo, lock, mine, alive, node_free_head, node_fresh>>
      /\ Cleaning' <=> Cleaning
      /\ \A q \in Procs : \A i : Freed(q, i)' <=> Freed(q, i)
      /\ \A m \in Nodes : Reaped(m)' <=> Reaped(m)
  BY StoreKeeps DEF Aside
<1>2. \A m \in Nodes : /\ node'[m].registered => node[m].registered
                       /\ Taken(m)' => Taken(m)
                       /\ Returns(m)' => Returns(m)
  BY DEF Aside
<1>3. \A m \in Nodes : Unlisted_(m) => Unlisted_(m)'
  BY <1>2, UnlistedStore
<1>4. \A q \in Procs : \A i \in 1 .. Len(mine[q]) : mine[q][i] \in Nodes
  BY UseTypes
<1>5. OwnOK'
  <2>0. OwnOK /\ PushOK
    BY DEF UseInv
  <2>1. ASSUME NEW q \in Procs, NEW i \in 1 .. Len(mine[q])
        PROVE  mine[q][i] < node_fresh /\ node'[mine[q][i]].pid = q
    <3>1. ~Taken(mine[q][i])
      BY <1>4, <2>0 DEF PushOK
    <3> QED
      BY <1>4, <2>0, <3>1 DEF OwnOK, Aside
  <2>2. \A m \in Nodes : node'[m].registered => m < node_fresh
    BY <1>2, <2>0 DEF OwnOK
  <2> QED
    BY <1>1, <2>0, <2>1, <2>2 DEF OwnOK
<1>6. CleanOK'
  <2> SUFFICES ASSUME Cleaning, NEW i \in 1 .. Len(mine[lock]), Left(todo, mine[lock]) + i <= Len(mine[lock]),
                      NEW m, m = mine[lock][i]
               PROVE  Unlisted_(m)'
    BY <1>1 DEF CleanOK, Unlisted_
  <2>1. lock \in Procs
    BY <1>1 DEF Cleaning, Types, TypeOK
  <2>2. m \in Nodes /\ Unlisted_(m)
    BY <1>4, <2>1 DEF UseInv, CleanOK
  <2> QED
    BY <1>3, <2>2
<1>7. ReapOK'
  <2> SUFFICES ASSUME NEW m \in Nodes, Reaped(m)
               PROVE  /\ m < node_fresh /\ node'[m].pid \notin alive
                      /\ Head(todo).do = "node_free" => Unlisted_(m)'
    BY <1>1 DEF ReapOK
  <2>1. ~Taken(m)
    BY <1>1, TakenAlone DEF Taken, Reaped
  <2>2. m < node_fresh /\ node[m].pid \notin alive /\ (Head(todo).do = "node_free" => Unlisted_(m))
    BY DEF UseInv, ReapOK
  <2> QED
    BY <1>3, <2>1, <2>2 DEF Aside
<1>8. PushOK'
  BY <1>1, <1>2 DEF UseInv, PushOK
<1>9. ReturnOK'
  <2>1. ReturnOK
    BY DEF UseInv
  <2> QED
    BY <1>1, <1>2, <2>1 DEF ReturnOK
<1>10. PICK F \in SUBSET Nodes : \E r \in [Nodes -> Int] : FreeChain(F, r) /\ Apart(F)
  BY DEF UseInv
<1>11. PICK r \in [Nodes -> Int] : FreeChain(F, r) /\ Apart(F)
  BY <1>10
<1>12. \A m \in F : m \in Nodes /\ node'[m].waiter_next = node[m].waiter_next
  BY <1>11 DEF Apart, Aside
<1>13. FreeChain(F, r)'
  BY <1>1, <1>2, <1>11, <1>12 DEF FreeChain
<1>14. Apart(F)'
  BY <1>1, <1>2, <1>11, <1>12 DEF Apart
<1> QED
  BY <1>5, <1>6, <1>7, <1>8, <1>9, <1>13, <1>14 DEF UseInv

LEMMA UseStoreQuiet ==
    ASSUME UseInv, ShapeInv', NEW p \in Procs, Store(p), Quiet(stores[1]), ~Allocating,
           \A i \in 1 .. Len(stores) : stores[i].do # "free_head"
    PROVE  UseInv'
<1>1. /\ Types /\ stores[1] \in StoreRecord /\ Puts(stores[1]) /\ ~Allocating'
      /\ \A i \in 1 .. Len(stores') : i + 1 \in 1 .. Len(stores) /\ stores'[i] = stores[i + 1]
  BY StoreKeeps
<1>2. /\ UNCHANGED <<node_free_head, node_fresh>>
      /\ \A m \in Nodes : /\ node'[m].registered => node[m].registered
                          /\ node'[m].waiter_next = node[m].waiter_next
                          /\ node'[m].pid = node[m].pid
  BY <1>1, QuietPut
<1>3. \A i \in 1 .. Len(stores') : stores'[i].do # "free_head"
  BY <1>1
<1>4. \A m \in Nodes : ~Taken(m)' /\ ~Returns(m)'
  <2>1. \A m : ~OfFree(stores', m, node_free_head', node')
    BY <1>3, NoFree
  <2> QED
    BY <1>1, <2>1 DEF Taken, Returns
<1>5. Aside
  BY <1>2, <1>4 DEF Aside
<1> QED
  BY <1>5, UseAside

LEMMA UseStoreRegister ==
    ASSUME UseInv, ShapeInv', NEW p \in Procs, Store(p), OfRegister(stores, mine[p]),
           Len(todo) = 1, todo[1].do = "register"
    PROVE  UseInv'
<1> DEFINE c == stores[1]
<1>1. /\ Types /\ lock = p /\ c \in StoreRecord /\ Puts(c) /\ Len(stores) \in Nat /\ Len(stores) >= 1
      /\ \A i \in 1 .. Len(stores') : i + 1 \in 1 .. Len(stores) /\ stores'[i] = stores[i + 1]
      /\ UNCHANGED <<todo, lock, mine, alive>> /\ (Allocating' <=> Allocating) /\ (Cleaning' <=> Cleaning)
      /\ \A q \in Procs : \A i : Freed(q, i)' <=> Freed(q, i)
      /\ \A m \in Nodes : Reaped(m)' <=> Reaped(m)
  BY StoreKeeps
<1>2. \A i \in 1 .. Len(stores) : stores[i].do # "free_head"
  BY QuietKeeps
<1>3. ~Allocating
  BY <1>1, TakenAlone
<1>4. Quiet(c) \/ (c.do = "set" /\ c.field = "registered" /\ \E j \in 1 .. Len(mine[p]) : c.n = mine[p][j])
  <2>1. 1 \in 1 .. Len(stores)
    BY <1>1
  <2> QED
    BY <2>1 DEF OfRegister
<1>5. CASE Quiet(c)
  BY <1>2, <1>3, <1>5, UseStoreQuiet
<1>6. ASSUME c.do = "set", c.field = "registered", NEW j \in 1 .. Len(mine[p]), c.n = mine[p][j]
      PROVE  UseInv'
  <2>1. ~Reaps(todo) /\ \A ns : ~Cleans(todo, ns)
    BY Last, SMTT(30)
  <2>2. (\A m \in Nodes : ~Reaped(m)) /\ ~Cleaning /\ \A q \in Procs : \A i : ~Freed(q, i)
    BY <2>1 DEF Reaped, Cleaning, Freed
  <2>3. /\ UNCHANGED <<node_free_head, node_fresh>>
        /\ \A m \in Nodes : \A f \in Fields : m # c.n \/ f # c.field => node'[m][f] = node[m][f]
    BY <1>1, <1>6, PutNode
  <2>4. /\ \A m \in Nodes : node'[m].waiter_next = node[m].waiter_next /\ node'[m].pid = node[m].pid
        /\ \A m \in Nodes : m # mine[p][j] => node'[m].registered = node[m].registered
    <3>1. "registered" \in Fields /\ "waiter_next" \in Fields /\ "pid" \in Fields
      BY DEF Fields, LinkFields
    <3> QED
      BY <1>6, <2>3, <3>1
  <2>5. \A m \in Nodes : ~Taken(m)' /\ ~Returns(m)'
    <3>1. \A i \in 1 .. Len(stores') : stores'[i].do # "free_head"
      BY <1>1, <1>2
    <3>2. \A m : ~OfFree(stores', m, node_free_head', node')
      BY <3>1, NoFree
    <3> QED
      BY <1>1, <1>3, <3>2 DEF Taken, Returns
  <2>6. CleanOK' /\ ReapOK' /\ PushOK' /\ ReturnOK'
    BY <1>1, <2>2, <2>5 DEF CleanOK, ReapOK, PushOK, ReturnOK
  <2>7. OwnOK'
    <3>1. OwnOK /\ \A q \in Procs : \A i \in 1 .. Len(mine[q]) : mine[q][i] \in Nodes
      BY UseTypes DEF UseInv
    <3>2. \A q \in Procs : \A i \in 1 .. Len(mine[q]) : node'[mine[q][i]].pid = q
      BY <2>4, <3>1 DEF OwnOK
    <3>3. \A m \in Nodes : node'[m].registered => m < node_fresh
      BY <2>4, <3>1 DEF OwnOK
    <3> QED
      BY <1>1, <2>3, <3>1, <3>2, <3>3 DEF OwnOK
  <2>8. PICK F \in SUBSET Nodes : \E r \in [Nodes -> Int] : FreeChain(F, r) /\ Apart(F)
    BY DEF UseInv
  <2>9. PICK r \in [Nodes -> Int] : FreeChain(F, r) /\ Apart(F)
    BY <2>8
  <2>10. mine[p][j] \notin F
    BY <2>2, <2>9 DEF Apart
  <2>11. FreeChain(F, r)'
    BY <2>3, <2>4, <2>9, <2>10 DEF FreeChain
  <2>12. Apart(F)'
    BY <1>1, <2>2, <2>5, <2>9 DEF Apart
  <2> QED
    BY <2>6, <2>7, <2>11, <2>12 DEF UseInv
<1> QED
  BY <1>4, <1>5, <1>6

\* node_alloc takes n off the free list, or is the first to use it.
LEMMA UsePop ==
    ASSUME UseInv, ShapeInv', NEW p \in Procs, Store(p), Allocating, NEW n \in Nodes, n = Head(todo).n,
           Len(stores) = 8, OfAlloc(stores, n, p, node_free_head, node_fresh, node)
    PROVE  UseInv'
<1> DEFINE c == stores[1]
<1>1. /\ Types /\ lock = p /\ c \in StoreRecord /\ Puts(c)
      /\ Len(stores') = 7
      /\ \A i \in 1 .. Len(stores') : i + 1 \in 1 .. Len(stores) /\ stores'[i] = stores[i + 1]
      /\ UNCHANGED <<todo, lock, mine, alive>> /\ (Allocating' <=> Allocating) /\ (Cleaning' <=> Cleaning)
      /\ \A q \in Procs : \A i : Freed(q, i)' <=> Freed(q, i)
      /\ \A m \in Nodes : Reaped(m)' <=> Reaped(m)
  BY StoreKeeps
<1>2. (\A m \in Nodes : ~Reaped(m)) /\ ~Cleaning /\ \A q \in Procs : \A i : ~Freed(q, i)
  BY <1>1, TakenAlone DEF Reaped, Freed
<1>3. \/ c = SetFree(node[n].waiter_next) /\ node_free_head = n
      \/ c = SetFresh(n + 1) /\ node_free_head = NIL /\ node_fresh = n
  BY DEF OfAlloc
<1>4. /\ node' = node
      /\ \/ node_free_head = n /\ node_free_head' = node[n].waiter_next /\ node_fresh' = node_fresh
         \/ node_fresh = n /\ node_free_head' = node_free_head /\ node_fresh' = n + 1
  BY <1>1, <1>3, SetFields DEF Puts
<1>5. \A m \in Nodes : ~Returns(m)'
  <2>1. ASSUME NEW i \in 1 .. Len(stores') PROVE stores'[i].do # "free_head"
    <3>1. i + 1 \in 1 .. Len(stores) /\ stores'[i] = stores[i + 1] /\ i + 1 # 1
      BY <1>1
    <3>2. stores[i + 1].do = "set"
      BY <3>1 DEF OfAlloc
    <3> QED
      BY <3>1, <3>2
  <2>2. \A m : ~OfFree(stores', m, node_free_head', node')
    BY <2>1, NoFree
  <2> QED
    BY <2>2 DEF Returns
<1>6. \A m \in Nodes : Taken(m)' => m = n
  BY <1>1 DEF Taken
<1>7. PICK F \in SUBSET Nodes : \E r \in [Nodes -> Int] : FreeChain(F, r) /\ Apart(F)
  BY DEF UseInv
<1>8. PICK r \in [Nodes -> Int] : FreeChain(F, r) /\ Apart(F)
  BY <1>7
<1>9. \A q \in Procs : \A i \in 1 .. Len(mine[q]) : mine[q][i] \notin F /\ mine[q][i] \in Nodes /\ mine[q][i] < node_fresh
  BY <1>2, <1>8, UseTypes DEF Apart, UseInv, OwnOK
<1>10. node_fresh \in Int /\ Nodes \subseteq Int /\ NIL \notin Nodes
  BY UseTypes, NodeSet
<1>11. CleanOK' /\ ReapOK' /\ ReturnOK'
  BY <1>1, <1>2, <1>5 DEF CleanOK, ReapOK, ReturnOK
<1>12. \A m \in Nodes : m < node_fresh => m < node_fresh'
  BY <1>4, <1>10
<1>13. OwnOK'
  <2>0. OwnOK
    BY DEF UseInv
  <2>1. \A q \in Procs : \A i \in 1 .. Len(mine[q]) : mine[q][i] < node_fresh'
    BY <1>9, <1>12
  <2>2. \A m \in Nodes : node[m].registered => m < node_fresh'
    BY <1>12, <2>0 DEF OwnOK
  <2> QED
    BY <1>1, <1>4, <2>0, <2>1, <2>2 DEF OwnOK
<1>14. n < node_fresh' /\ ~node[n].registered /\ \A q \in Procs : \A i \in 1 .. Len(mine[q]) : mine[q][i] # n
  <2>1. CASE node_free_head = n /\ node_fresh' = node_fresh
    <3>1. n \in F
      BY <1>8, <1>10, <2>1 DEF FreeChain
    <3> QED
      BY <1>8, <1>9, <2>1, <3>1 DEF FreeChain
  <2>2. CASE node_fresh = n /\ node_fresh' = n + 1
    <3>1. ~(n < n) /\ n < n + 1
      BY <1>10
    <3>2. ~node[n].registered
      BY <2>2, <3>1 DEF UseInv, OwnOK
    <3> QED
      BY <1>9, <2>2, <3>1, <3>2
  <2> QED
    BY <1>4, <2>1, <2>2
<1>15. PushOK'
  BY <1>1, <1>4, <1>6, <1>14 DEF PushOK
<1>16. \E G \in SUBSET F : n \notin G /\ FreeChain(G, r)'
  <2>1. CASE node_free_head = n /\ node_free_head' = node[n].waiter_next /\ node_fresh' = node_fresh
    <3> DEFINE G == {m \in F : r[n] < r[m]}
    <3>1. n \in F
      BY <1>8, <1>10, <2>1 DEF FreeChain
    <3>2. n \notin G
      BY <1>8
    <3>3. node_free_head' \in G \cup {NIL}
      BY <1>8, <2>1, <3>1 DEF FreeChain
    <3>4. ASSUME NEW m \in G
          PROVE  /\ m < node_fresh' /\ ~node'[m].registered
                 /\ node'[m].waiter_next \in G \cup {NIL}
                 /\ node'[m].waiter_next # NIL => r[m] < r[node'[m].waiter_next]
      <4>1. /\ m < node_fresh /\ ~node[m].registered /\ node[m].waiter_next \in F \cup {NIL}
            /\ node[m].waiter_next # NIL => r[m] < r[node[m].waiter_next]
        BY <1>8 DEF FreeChain
      <4>2. node[m].waiter_next # NIL => r[n] < r[node[m].waiter_next]
        <5>1. node[m].waiter_next # NIL => node[m].waiter_next \in Nodes
          BY <4>1
        <5>2. r[n] \in Int /\ r[m] \in Int /\ (node[m].waiter_next # NIL => r[node[m].waiter_next] \in Int)
          BY <5>1
        <5>3. r[n] < r[m]
          OBVIOUS
        <5> QED
          BY <4>1, <5>2, <5>3
      <4> QED
        BY <1>4, <2>1, <4>1, <4>2
    <3>5. FreeChain(G, r)'
      BY <3>3, <3>4 DEF FreeChain
    <3> QED
      BY <3>2, <3>5
  <2>2. CASE node_fresh = n /\ node_free_head' = node_free_head /\ node_fresh' = n + 1
    <3>1. n \notin F
      <4>1. ~(n < n)
        BY <1>10
      <4> QED
        BY <1>8, <2>2, <4>1 DEF FreeChain
    <3>2. FreeChain(F, r)'
      BY <1>4, <1>8, <1>12, <2>2 DEF FreeChain
    <3> QED
      BY <3>1, <3>2
  <2> QED
    BY <1>4, <2>1, <2>2
<1>17. PICK G \in SUBSET F : n \notin G /\ FreeChain(G, r)'
  BY <1>16
<1>18. Apart(G)'
  BY <1>1, <1>2, <1>5, <1>6, <1>9, <1>17 DEF Apart
<1> QED
  BY <1>11, <1>13, <1>15, <1>17, <1>18 DEF UseInv

\* node_alloc writes the fields of the node it has taken.
LEMMA UseFill ==
    ASSUME UseInv, ShapeInv', NEW p \in Procs, Store(p), Allocating, NEW n \in Nodes, n = Head(todo).n,
           Len(stores) < 8, OfAlloc(stores, n, p, node_free_head, node_fresh, node)
    PROVE  UseInv'
<1> DEFINE c == stores[1]
<1>1. /\ Types /\ c \in StoreRecord /\ Puts(c) /\ Len(stores) \in Nat /\ Len(stores) >= 1
      /\ \A i \in 1 .. Len(stores') : i + 1 \in 1 .. Len(stores) /\ stores'[i] = stores[i + 1]
      /\ todo' = todo
  BY StoreKeeps
<1>2. \A i \in 1 .. Len(stores) :
        /\ stores[i].do = "set" /\ stores[i].n = n
        /\ Quiet(stores[i]) \/ stores[i].field = "waiter_next" \/ stores[i] = Set(n, "pid", p)
  <2>0. ~(8 < 8)
    OBVIOUS
  <2>1. Len(stores) # 8
    BY <2>0, Zenon
  <2> QED
    BY <2>1 DEF OfAlloc
<1>3. /\ c.do = "set" /\ c.n = n
      /\ Quiet(c) \/ c.field = "waiter_next" \/ c.field = "pid"
  <2>1. 1 \in 1 .. Len(stores)
    BY <1>1
  <2> QED
    BY <1>2, <2>1, SetFields
<1>4. \A m \in Nodes : ~Returns(m)'
  <2>1. \A i \in 1 .. Len(stores') : stores'[i].do # "free_head"
    BY <1>1, <1>2
  <2>2. \A m : ~OfFree(stores', m, node_free_head', node')
    BY <2>1, NoFree
  <2> QED
    BY <2>2 DEF Returns
<1>5. Taken(n) /\ \A m \in Nodes : Taken(m)' => m = n
  BY <1>1 DEF Taken
<1> HIDE DEF c
<1>6. /\ UNCHANGED <<node_free_head, node_fresh>> /\ node'[c.n][c.field] = c.v
      /\ \A m \in Nodes : \A f \in Fields : m # c.n \/ f # c.field => node'[m][f] = node[m][f]
  BY <1>1, <1>3, PutNode
<1>7. "registered" \in Fields /\ "waiter_next" \in Fields /\ "pid" \in Fields
  BY DEF Fields, LinkFields
<1>8. \A m \in Nodes : m # n => node'[m].waiter_next = node[m].waiter_next /\ node'[m].pid = node[m].pid
  BY <1>3, <1>6, <1>7
<1>9. ASSUME NEW m \in Nodes PROVE node'[m].registered => node[m].registered
  <2>1. CASE c.field = "registered"
    <3>1. Quiet(c)
      BY <1>3, <2>1
    <3> QED
      BY <1>1, <3>1, QuietPut
  <2>2. CASE c.field # "registered"
    BY <1>6, <1>7, <2>2
  <2> QED
    BY <2>1, <2>2
<1>10. Aside
  BY <1>4, <1>5, <1>6, <1>8, <1>9 DEF Aside
<1> QED
  BY <1>10, UseAside

\* node_free links n to the head of the free list, then makes it the head.
LEMMA UseLink ==
    ASSUME UseInv, ShapeInv', NEW p \in Procs, Store(p), ~Allocating, NEW n \in Nodes,
           Len(stores) = 2, stores[1] = Set(n, "waiter_next", node_free_head), stores[2] = SetFree(n),
           Returns(n)
    PROVE  UseInv'
<1> DEFINE c == stores[1]
<1>1. /\ Types /\ c \in StoreRecord /\ Puts(c) /\ ~Allocating' /\ Len(stores') = 1
      /\ \A i \in 1 .. Len(stores') : i + 1 \in 1 .. Len(stores) /\ stores'[i] = stores[i + 1]
  BY StoreKeeps
<1>2. stores'[1] = SetFree(n)
  <2>1. 1 \in 1 .. Len(stores') /\ 1 + 1 = 2
    BY <1>1
  <2> QED
    BY <1>1, <2>1
<1>3. ASSUME NEW m \in Nodes, Returns(m)' PROVE m = n
  <2>1. stores'[1] = SetFree(m)
    BY <1>1, <1>3, FreeItems DEF Returns
  <2>2. SetFree(m).v = m /\ SetFree(n).v = n
    BY SetFields
  <2> QED
    BY <1>2, <2>1, <2>2, Zenon
<1>4. c.do = "set" /\ c.n = n /\ c.field = "waiter_next"
  BY SetFields
<1> HIDE DEF c
<1>5. /\ UNCHANGED <<node_free_head, node_fresh>>
      /\ \A m \in Nodes : \A f \in Fields : m # c.n \/ f # c.field => node'[m][f] = node[m][f]
  BY <1>1, <1>4, PutNode
<1>6. "registered" \in Fields /\ "waiter_next" \in Fields /\ "pid" \in Fields
  BY DEF Fields, LinkFields
<1>7. \A m \in Nodes : /\ node'[m].registered = node[m].registered /\ node'[m].pid = node[m].pid
                       /\ m # n => node'[m].waiter_next = node[m].waiter_next
  BY <1>4, <1>5, <1>6
<1>8. Aside
  BY <1>1, <1>3, <1>5, <1>7 DEF Aside, Taken
<1> QED
  BY <1>8, UseAside

LEMMA UseReturn ==
    ASSUME UseInv, ShapeInv', NEW p \in Procs, Store(p), ~Allocating, NEW n \in Nodes,
           Len(stores) = 1, stores[1] = SetFree(n), node[n].waiter_next = node_free_head, Returns(n)
    PROVE  UseInv'
<1> DEFINE c == stores[1]
<1>1. /\ Types /\ lock = p /\ Puts(c) /\ ~Allocating' /\ Len(stores') = 0
      /\ UNCHANGED <<todo, lock, mine, alive>> /\ (Cleaning' <=> Cleaning)
      /\ \A q \in Procs : \A i : Freed(q, i)' <=> Freed(q, i)
      /\ \A m \in Nodes : Reaped(m)' <=> Reaped(m)
  BY StoreKeeps
<1>2. c.do = "free_head" /\ c.v = n
  BY SetFields
<1> HIDE DEF c
<1>3. node' = node /\ node_free_head' = n /\ node_fresh' = node_fresh
  BY <1>1, <1>2 DEF Puts
<1>4. \A m \in Nodes : ~Taken(m)' /\ ~Returns(m)'
  <2>1. \A i \in 1 .. Len(stores') : stores'[i].do # "free_head"
    BY <1>1
  <2>2. \A m : ~OfFree(stores', m, node_free_head', node')
    BY <2>1, NoFree
  <2> QED
    BY <1>1, <2>2 DEF Taken, Returns
<1>5. \A m \in Nodes : Unlisted_(m) => Unlisted_(m)'
  BY <1>3, UnlistedStore
<1>6. \A q \in Procs : \A i \in 1 .. Len(mine[q]) : mine[q][i] \in Nodes
  BY UseTypes
<1>7. OwnOK'
  BY <1>1, <1>3 DEF UseInv, OwnOK
<1>8. CleanOK'
  <2> SUFFICES ASSUME Cleaning, NEW i \in 1 .. Len(mine[lock]), Left(todo, mine[lock]) + i <= Len(mine[lock]),
                      NEW m, m = mine[lock][i]
               PROVE  Unlisted_(m)'
    BY <1>1 DEF CleanOK, Unlisted_
  <2>1. m \in Nodes /\ Unlisted_(m)
    BY <1>1, <1>6 DEF UseInv, CleanOK
  <2> QED
    BY <1>5, <2>1
<1>9. ReapOK'
  <2> SUFFICES ASSUME NEW m \in Nodes, Reaped(m)
               PROVE  /\ m < node_fresh /\ node[m].pid \notin alive
                      /\ Head(todo).do = "node_free" => Unlisted_(m)'
    BY <1>1, <1>3 DEF ReapOK
  <2> QED
    BY <1>5 DEF UseInv, ReapOK
<1>10. PushOK' /\ ReturnOK'
  BY <1>4 DEF PushOK, ReturnOK
<1>11. /\ n < node_fresh /\ ~node[n].registered /\ ~Reaped(n)
       /\ \A q \in Procs : \A i \in 1 .. Len(mine[q]) : mine[q][i] = n => Freed(q, i)
  BY DEF UseInv, ReturnOK
<1>12. PICK F \in SUBSET Nodes : \E r \in [Nodes -> Int] : FreeChain(F, r) /\ Apart(F)
  BY DEF UseInv
<1>13. PICK r \in [Nodes -> Int] : FreeChain(F, r) /\ Apart(F)
  BY <1>12
<1>14. n \notin F /\ node_free_head \in F \cup {NIL}
  BY <1>13 DEF Apart, FreeChain
<1>15. PICK k \in Int : node_free_head # NIL => k < r[node_free_head]
  <2>1. node_free_head # NIL => r[node_free_head] \in Int
    BY <1>14
  <2>2. CASE node_free_head # NIL
    <3>1. r[node_free_head] - 1 \in Int /\ r[node_free_head] - 1 < r[node_free_head]
      BY <2>1, <2>2
    <3> QED
      BY <3>1
  <2> QED
    BY <2>2
<1> DEFINE G == F \cup {n}
           h == [r EXCEPT ![n] = k]
<1>16. /\ h \in [Nodes -> Int] /\ h[n] = k
       /\ \A m \in F : h[m] = r[m]
  BY <1>14
<1> HIDE DEF h
<1>17. FreeChain(G, h)'
  <2>1. ASSUME NEW m \in G
        PROVE  /\ m < node_fresh /\ ~node[m].registered
               /\ node[m].waiter_next \in G \cup {NIL}
               /\ node[m].waiter_next # NIL => h[m] < h[node[m].waiter_next]
    <3>1. CASE m \in F
      BY <1>13, <1>16, <3>1 DEF FreeChain
    <3>2. CASE m = n
      BY <1>11, <1>14, <1>15, <1>16, <3>2
    <3> QED
      BY <3>1, <3>2
  <2> QED
    BY <1>3, <2>1 DEF FreeChain
<1>18. Apart(G)'
  BY <1>1, <1>4, <1>11, <1>13 DEF Apart
<1>19. G \in SUBSET Nodes
  OBVIOUS
<1> QED
  BY <1>7, <1>8, <1>9, <1>10, <1>16, <1>17, <1>18, <1>19 DEF UseInv

LEMMA UseStore ==
    ASSUME UseInv, ShapeInv', NEW p \in Procs, Store(p)
    PROVE  UseInv'
<1>1. Call_ /\ lock = p /\ Types /\ Len(stores) \in Nat /\ Len(stores) >= 1 /\ 1 \in 1 .. Len(stores)
  BY StoreKeeps
<1>2. CASE OfDetach(stores) /\ ~Allocating
  <2>1. Quiet(stores[1]) /\ \A i \in 1 .. Len(stores) : stores[i].do # "free_head"
    BY <1>1, <1>2, QuietKeeps DEF OfDetach
  <2> QED
    BY <1>2, <2>1, UseStoreQuiet
<1>3. CASE OfRegister(stores, mine[lock]) /\ Len(todo) = 1 /\ todo[1].do = "register"
  BY <1>1, <1>3, UseStoreRegister
<1>4. CASE Allocating /\ OfAlloc(stores, Head(todo).n, lock, node_free_head, node_fresh, node)
  <2>1. PICK n : n = Head(todo).n
    OBVIOUS
  <2>2. n \in Nodes
    <3>1. todo # <<>> /\ Head(todo).do = "push" /\ todo \in Seq(CallRecord)
      BY <1>1, <1>4 DEF Allocating, Types
    <3>2. Head(todo) \in CallRecord
      BY <3>1, TailItems
    <3> QED
      BY <2>1, <3>1, <3>2, CallFields
  <2>3. OfAlloc(stores, n, p, node_free_head, node_fresh, node) /\ Len(stores) <= 8
    BY <1>1, <1>4, <2>1 DEF OfAlloc
  <2>6. \A a \in Nat : a <= 8 => a = 8 \/ a < 8
    OBVIOUS
  <2>4. CASE Len(stores) = 8
    BY <1>4, <2>1, <2>2, <2>3, <2>4, UsePop
  <2>5. CASE Len(stores) < 8
    BY <1>4, <2>1, <2>2, <2>3, <2>5, UseFill
  <2> QED
    BY <1>1, <2>3, <2>4, <2>5, <2>6, Zenon
<1>5. ASSUME ~Allocating, NEW n \in Nodes, Returns(n) PROVE UseInv'
  <2>1. CASE Len(stores) = 2 /\ stores[1] = Set(n, "waiter_next", node_free_head) /\ stores[2] = SetFree(n)
    BY <1>5, <2>1, UseLink
  <2>2. CASE Len(stores) = 1 /\ stores[1] = SetFree(n) /\ node[n].waiter_next = node_free_head
    BY <1>5, <2>2, UseReturn
  <2> QED
    BY <1>5, <2>1, <2>2, FreeItems DEF Returns
<1> QED
  BY <1>1, <1>2, <1>3, <1>4, <1>5 DEF Call_

-----------------------------------------------------------------------------
(* UseInv is an invariant. *)

LEMMA UseInit == Init => UseInv
<1> SUFFICES ASSUME Init PROVE UseInv
  OBVIOUS
<1>1. ShapeInv /\ Types
  BY ShapeInit DEF ShapeInv
<1>2. /\ lock = NoProc /\ stores = <<>> /\ todo = <<>> /\ node_free_head = NIL
      /\ \A q \in Procs : mine[q] = <<>>
      /\ \A n \in Nodes : node[n].registered = FALSE
  BY DEF Init, Untouched
<1>3. Len(stores) = 0 /\ 1 .. Len(todo) = {} /\ \A q \in Procs : 1 .. Len(mine[q]) = {}
  BY <1>2
<1>4. ~Cleaning /\ ~Allocating /\ (\A n \in Nodes : ~Reaped(n)) /\ \A q \in Procs : \A i : ~Freed(q, i)
  BY <1>2, <1>3 DEF Cleaning, Allocating, Reaped, Freed
<1>5. \A n \in Nodes : ~Taken(n) /\ ~Returns(n)
  <2>1. \A i \in 1 .. Len(stores) : stores[i].do # "free_head"
    BY <1>3
  <2>2. \A n : ~OfFree(stores, n, node_free_head, node)
    BY <2>1, NoFree
  <2> QED
    BY <1>4, <2>2 DEF Taken, Returns
<1>6. OwnOK /\ CleanOK /\ ReapOK /\ PushOK /\ ReturnOK
  BY <1>2, <1>3, <1>4, <1>5 DEF OwnOK, CleanOK, ReapOK, PushOK, ReturnOK
<1>7. PICK F \in SUBSET Nodes : F = {}
  OBVIOUS
<1>8. PICK r \in [Nodes -> Int] : TRUE
  <2>1. [n \in Nodes |-> 0] \in [Nodes -> Int]
    OBVIOUS
  <2> QED
    BY <2>1, Zenon
<1>9. FreeChain(F, r) /\ Apart(F)
  BY <1>2, <1>7 DEF FreeChain, Apart
<1> QED
  BY <1>1, <1>6, <1>9 DEF UseInv

LEMMA UseStutter == UseInv /\ UNCHANGED vars => UseInv'
<1> SUFFICES ASSUME UseInv, UNCHANGED vars PROVE UseInv'
  OBVIOUS
<1>1. UNCHANGED <<node, waiter_head, used, node_free_head, node_fresh, lock, stores, todo, want, mine, alive, torn>>
  BY DEF vars, memory
<1>2. ShapeInv'
  BY ShapeStutter DEF UseInv
<1>3. /\ Cleaning' <=> Cleaning
      /\ Allocating' <=> Allocating
      /\ \A n \in Nodes : /\ Returns(n)' <=> Returns(n)
                          /\ Unlisted_(n)' <=> Unlisted_(n)
                          /\ Reaped(n)' <=> Reaped(n)
  BY <1>1 DEF Cleaning, Allocating, Returns, OfFree, Unlisted_, Reaped
<1>4. /\ \A n \in Nodes : Taken(n)' <=> Taken(n)
      /\ \A p \in Procs : \A i : Freed(p, i)' <=> Freed(p, i)
  BY <1>1, <1>3 DEF Taken, Freed
<1>5. Keeps
  BY <1>1 DEF Keeps
<1>6. CleanOK'
  BY <1>1 DEF UseInv, CleanOK, Cleaning, Unlisted_
<1>7. ReapOK' /\ PushOK'
  BY <1>1, <1>3, <1>4 DEF UseInv, ReapOK, PushOK
<1>8. ReturnOK'
  BY <1>1, <1>3, <1>4 DEF UseInv, ReturnOK
<1> QED
  BY <1>1, <1>2, <1>3, <1>4, <1>5, <1>6, <1>7, <1>8, UseFrame

LEMMA UseNext == UseInv /\ [Next]_vars => UseInv'
<1> SUFFICES ASSUME UseInv, [Next]_vars PROVE UseInv'
  OBVIOUS
<1>0. ShapeInv'
  BY ShapeNext DEF UseInv
<1>1. CASE UNCHANGED vars
  BY <1>1, UseStutter
<1>2. ASSUME NEW p \in Procs, Block(p) \/ Again(p) \/ Detach(p) \/ Cleanup(p)
      PROVE  UseInv'
  BY <1>0, <1>2, UseBlock, UseAgain, UseDetach, UseCleanup
<1>3. ASSUME NEW p \in Signalers, Signal(p) \/ close(p) \/ create(p) \/ sweep_dead(p)
      PROVE  UseInv'
  <2>1. p \in Procs
    BY NodeListAssumption
  <2> QED
    BY <1>0, <1>3, <2>1, UseSignal, UseClose, UseCreate, UseSweep
<1>4. ASSUME NEW p \in Procs, Work(p) \/ Die(p)
      PROVE  UseInv'
  BY <1>0, <1>4, UseStore, UseStep, UseAlloc, UsePush, UseClear, UseUnlock, UseGone DEF Work, Die, Fault
<1> QED
  BY <1>1, <1>2, <1>3, <1>4 DEF Next

-----------------------------------------------------------------------------
(* Following a link. *)

\* g follows the link from n for m steps.
Follows(g, n, link, m) ==
    /\ g \in [0 .. m -> Opt] /\ g[0] = n
    /\ \A k \in 1 .. m : g[k] = IF g[k - 1] = NIL THEN NIL ELSE node[g[k - 1]][link]

LEMMA FollowsOn ==
    ASSUME Types, NEW n \in Opt, NEW link \in {"obj_next", "waiter_next"}, NEW m \in Nat \ {0},
           NEW g, Follows(g, n, link, m - 1)
    PROVE  \E h : Follows(h, n, link, m)
<1> DEFINE v == IF g[m - 1] = NIL THEN NIL ELSE node[g[m - 1]][link]
           h == [k \in 0 .. m |-> IF k = m THEN v ELSE g[k]]
<1>1. m - 1 \in Nat /\ m - 1 \in 0 .. m - 1 /\ 0 \in 0 .. m - 1 /\ m # 0
  OBVIOUS
<1>2. g \in [0 .. m - 1 -> Opt] /\ g[m - 1] \in Opt
  BY <1>1 DEF Follows
<1>3. v \in Opt
  <2>1. CASE g[m - 1] = NIL
    BY <2>1 DEF Opt
  <2>2. CASE g[m - 1] # NIL
    <3>1. g[m - 1] \in Nodes
      BY <1>2, <2>2 DEF Opt
    <3> QED
      BY <2>2, <3>1, NodeFields
  <2> QED
    BY <2>1, <2>2
<1> HIDE DEF v
<1>4. \A k \in 0 .. m : k # m => k \in 0 .. m - 1
  OBVIOUS
<1>5. h \in [0 .. m -> Opt]
  BY <1>2, <1>3, <1>4
<1>6. (\A k \in 0 .. m - 1 : h[k] = g[k]) /\ h[m] = v
  <2>1. m \in 0 .. m /\ \A k \in 0 .. m - 1 : k \in 0 .. m /\ k # m
    OBVIOUS
  <2> QED
    BY <2>1
<1> HIDE DEF h
<1>7. ASSUME NEW k \in 1 .. m
      PROVE  h[k] = IF h[k - 1] = NIL THEN NIL ELSE node[h[k - 1]][link]
  <2>1. k - 1 \in 0 .. m - 1
    OBVIOUS
  <2>2. CASE k = m
    BY <1>6, <2>1, <2>2 DEF v
  <2>3. CASE k # m
    <3>1. k \in 1 .. m - 1 /\ k \in 0 .. m - 1
      BY <2>3
    <3> QED
      BY <1>6, <2>1, <3>1 DEF Follows
  <2> QED
    BY <2>2, <2>3
<1>8. h[0] = n
  BY <1>1, <1>6 DEF Follows
<1> QED
  BY <1>5, <1>7, <1>8 DEF Follows

LEMMA FollowsAll ==
    ASSUME Types, NEW n \in Opt, NEW link \in {"obj_next", "waiter_next"}, NEW m \in Nat
    PROVE  \E g : Follows(g, n, link, m)
<1> DEFINE S == {k \in Nat : ~\E g : Follows(g, n, link, k)}
<1> SUFFICES ASSUME S # {} PROVE FALSE
  OBVIOUS
<1>1. PICK x \in S : \A y \in S : x <= y
  BY LeastExists
<1>2. x # 0
  <2> DEFINE g == [k \in 0 .. 0 |-> n]
  <2>1. 0 \in 0 .. 0 /\ 1 .. 0 = {}
    OBVIOUS
  <2>2. Follows(g, n, link, 0)
    BY <2>1 DEF Follows
  <2> QED
    BY <2>2
<1>3. x \in Nat \ {0} /\ x - 1 \in Nat /\ ~(x <= x - 1)
  BY <1>2
<1>4. PICK g : Follows(g, n, link, x - 1)
  BY <1>1, <1>3
<1> QED
  BY <1>3, <1>4, FollowsOn

LEMMA AlongIs ==
    ASSUME Types, NEW n \in Opt, NEW link \in {"obj_next", "waiter_next"}
    PROVE  Follows(Along(n, link), n, link, NodeCount)
<1> DEFINE At_(g) == [k \in 0 .. NodeCount |->
                        IF k = 0 THEN n ELSE IF g[k - 1] = NIL THEN NIL ELSE node[g[k - 1]][link]]
           a == Along(n, link)
<1>1. NodeCount \in Nat
  BY NodeSet
<1>2. PICK g : Follows(g, n, link, NodeCount)
  BY <1>1, FollowsAll
<1>3. g = At_(g)
  <2>1. g \in [0 .. NodeCount -> Opt] /\ g[0] = n
    BY <1>2 DEF Follows
  <2>2. ASSUME NEW k \in 0 .. NodeCount
        PROVE  g[k] = IF k = 0 THEN n ELSE IF g[k - 1] = NIL THEN NIL ELSE node[g[k - 1]][link]
    <3>1. k # 0 => k \in 1 .. NodeCount
      BY <1>1
    <3> QED
      BY <1>2, <3>1 DEF Follows
  <2> QED
    BY <2>1, <2>2
<1>4. a = CHOOSE f : f = At_(f)
  BY DEF Along
<1>5. a = At_(a)
  BY <1>3, <1>4, ZenonT(30)
<1> HIDE DEF a
<1>6. \A k \in 0 .. NodeCount :
        a[k] = IF k = 0 THEN n ELSE IF a[k - 1] = NIL THEN NIL ELSE node[a[k - 1]][link]
  BY <1>5
<1>7. \A k \in 0 .. NodeCount : a[k] = g[k]
  <2> DEFINE S == {k \in Nat : k \in 0 .. NodeCount /\ a[k] # g[k]}
  <2> SUFFICES ASSUME S # {} PROVE FALSE
    BY <1>1
  <2>1. PICK x \in S : \A y \in S : x <= y
    BY LeastExists
  <2>2. x \in 0 .. NodeCount /\ a[x] # g[x]
    OBVIOUS
  <2>3. x # 0
    <3>1. 0 \in 0 .. NodeCount
      BY <1>1
    <3> QED
      BY <1>2, <1>6, <2>2, <3>1 DEF Follows
  <2>4. x \in 1 .. NodeCount /\ x - 1 \in Nat /\ x - 1 \in 0 .. NodeCount /\ ~(x <= x - 1)
    BY <1>1, <2>2, <2>3
  <2>5. a[x - 1] = g[x - 1]
    BY <2>1, <2>4
  <2> QED
    BY <1>2, <1>6, <2>2, <2>3, <2>4, <2>5 DEF Follows
<1>8. a \in [0 .. NodeCount -> Opt]
  <2>1. a = [k \in 0 .. NodeCount |-> a[k]]
    BY <1>5
  <2>2. \A k \in 0 .. NodeCount : g[k] \in Opt
    BY <1>2 DEF Follows
  <2> QED
    BY <1>7, <2>1, <2>2
<1>9. a[0] = n /\ \A k \in 1 .. NodeCount : a[k] = IF a[k - 1] = NIL THEN NIL ELSE node[a[k - 1]][link]
  <2>1. 0 \in 0 .. NodeCount /\ \A k \in 1 .. NodeCount : k \in 0 .. NodeCount /\ k # 0
    BY <1>1
  <2> QED
    BY <1>6, <2>1
<1> QED
  BY <1>8, <1>9 DEF Follows, a

\* What a list holds: a set that has its head and is closed under the link.
LEMMA ChainWithin ==
    ASSUME Types, NEW n \in Opt, NEW link \in {"obj_next", "waiter_next"}, NEW F \in SUBSET Nodes,
           n \in F \cup {NIL}, \A m \in F : node[m][link] \in F \cup {NIL}
    PROVE  Chain(n, link) \subseteq F
<1> DEFINE a == Along(n, link)
           S == {k \in Nat : k \in 0 .. NodeCount /\ a[k] \notin F \cup {NIL}}
<1>1. Follows(a, n, link, NodeCount) /\ NodeCount \in Nat
  BY AlongIs, NodeSet
<1> HIDE DEF a
<1>2. S = {}
  <2> SUFFICES ASSUME S # {} PROVE FALSE
    OBVIOUS
  <2>1. PICK x \in S : \A y \in S : x <= y
    BY LeastExists
  <2>2. x # 0
    BY <1>1 DEF Follows
  <2>3. x \in 1 .. NodeCount /\ x - 1 \in Nat /\ x - 1 \in 0 .. NodeCount /\ ~(x <= x - 1)
    BY <1>1, <2>2
  <2>4. a[x - 1] \in F \cup {NIL}
    BY <2>1, <2>3
  <2>5. a[x] = IF a[x - 1] = NIL THEN NIL ELSE node[a[x - 1]][link]
    BY <1>1, <2>3 DEF Follows
  <2> QED
    BY <2>4, <2>5
<1>3. \A k \in 0 .. NodeCount : a[k] \in F \cup {NIL}
  <2>1. \A k \in 0 .. NodeCount : k \in Nat
    OBVIOUS
  <2> QED
    BY <1>2, <2>1
<1> QED
  BY <1>3 DEF Chain, a

-----------------------------------------------------------------------------
\* Whoever dies, and between whichever two stores: what node_alloc has given to
\* a waiting process is not on the free list, belongs to no other one and was
\* handed out, because waiter_cleanup and the sweep give a node back only once
\* it is off its list and the sweep only the nodes of dead processes.
THEOREM NodesHaveOneUser == Spec => []NoDoubleUse
<1>1. ASSUME UseInv PROVE NoDoubleUse
  <2> SUFFICES ASSUME lock = NoProc, NEW p \in alive
               PROVE  /\ Owned(p) \cap FreeList = {}
                      /\ \A n \in Owned(p) : n < node_fresh /\ node[n].pid = p
                      /\ \A q \in alive \ {p} : Owned(p) \cap Owned(q) = {}
    BY DEF NoDoubleUse
  <2>1. Types /\ alive \subseteq Procs /\ node_free_head \in Opt
    BY <1>1, UseTypes DEF Types, TypeOK, Opt
  <2>2. \A q \in alive : \A n \in Owned(q) : n < node_fresh /\ node[n].pid = q
    BY <1>1, <2>1 DEF UseInv, OwnOK, Owned
  <2>3. PICK F \in SUBSET Nodes : \E r \in [Nodes -> Int] : FreeChain(F, r) /\ Apart(F)
    BY <1>1 DEF UseInv
  <2>4. PICK r \in [Nodes -> Int] : FreeChain(F, r) /\ Apart(F)
    BY <2>3
  <2>5. FreeList \subseteq F
    BY <2>1, <2>4, ChainWithin DEF FreeList, FreeChain
  <2>6. \A q \in Procs : \A i : ~Freed(q, i)
    BY NodeSet DEF Freed
  <2>7. Owned(p) \cap F = {}
    BY <2>1, <2>4, <2>6 DEF Owned, Apart
  <2> QED
    BY <2>2, <2>5, <2>7
<1> QED
  BY UseInit, UseNext, <1>1, PTL DEF Spec
=============================================================================
