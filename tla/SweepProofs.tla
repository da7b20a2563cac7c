---------------------------- MODULE SweepProofs -----------------------------
(***************************************************************************)
(* Sweep for every number of processes, slots and nodes, every chunk size  *)
(* and every cache: the types, what a sweep may not free, what it has to   *)
(* free, and how often there is one.                                       *)
(*                                                                         *)
(* All but OneSweepPerInterval need that no pid is given to a second       *)
(* process, which kill(pid, 0) cannot tell from the first: a verdict of    *)
(* `dead' then stays true while the lock is dropped, and an object or a    *)
(* node that is still what it was when it was collected is used by nobody. *)
(***************************************************************************)
EXTENDS SweepHistory, FiniteSetTheorems, SequenceTheorems, WellFoundedInduction, TLAPS

USE SweepAssumption

Verdicts == [pid : Pids, alive : BOOLEAN]
CandRecord == [node : BOOLEAN, index : Nat, pid : Pids, gen : Nat,
               holders : Seq(Pids), over : BOOLEAN]

Probing(p) == pc[p] \in {"probe", "reap"}

TablePart ==
    /\ slot \in [Slots -> SlotRecord] /\ cursor \in Slots /\ wrapped \in BOOLEAN
    /\ \A s \in Slots : Len(slot[s].holders) <= MaxHolders

NodeOK(k) == /\ node[k].own => k < fresh /\ node[k].pid \in Pids
             /\ node[k].on # NIL => node[k].own

NodePart ==
    /\ node \in [NodeIds -> NodeRecord] /\ fresh \in 0 .. NodeCount
    /\ \A k \in NodeIds : NodeOK(k)

ClockPart == sweep_ns \in Nat /\ now \in Nat /\ lock \in Pids \cup {NoPid}

\* The nodes of a living waiter are its own.
MineOK(p) == \A k \in mine[p] : node[k].own /\ node[k].pid = p

PeoplePart ==
    /\ alive \subseteq Pids /\ lives \in [Pids -> Nat]
    /\ held \in [Pids -> SUBSET [idx : Slots, gen : Nat]] /\ mine \in [Pids -> SUBSET NodeIds]
    /\ \A p \in Pids : lives[p] >= 1
    /\ \A p \in alive : MineOK(p)

\* Who sweeps with the lock has it, and a create that freed something still
\* finds it free.
LockOK(p) ==
    /\ pc[p] # "idle" => p \in alive
    /\ pc[p] = "collect" => lock = p
    /\ Probing(p) /\ mode[p] # "auto" => lock = p
    /\ mode[p] # "none" <=> pc[p] \in {"collect", "probe", "reap"}
    /\ mode[p] = "none" => ~freed[p]
    /\ mode[p] = "create" /\ freed[p] => FreeSlots # {}

LockPart == \A p \in Pids : LockOK(p)

-----------------------------------------------------------------------------
(* What a sweeper keeps from step to step, and what a verdict is worth. *)

IsCandidate(c) == c \in CandRecord /\ (~c.node => c.index \in Slots)

Names(c, q) == c.pid = q \/ \E i \in 1 .. Len(c.holders) : c.holders[i] = q
AllDead(c)  == \A q \in alive : ~Names(c, q)
Asked(p, q) == \E i \in 1 .. Len(ask[p]) : ask[p][i] = q

ChunkOK(p) ==
    /\ DOMAIN cands[p] \subseteq Nat
    /\ \A j \in DOMAIN cands[p] : IsCandidate(cands[p][j])
    /\ rest[p] \cup dead[p] \subseteq DOMAIN cands[p]
    /\ ~Probing(p) => rest[p] = {} /\ dead[p] = {}
    /\ pc[p] = "probe" => rest[p] # {} /\ ask[p] # <<>>
    /\ pc[p] = "reap" => rest[p] = {}

ScanOK(p) == scan[p].node_hi <= NodeCount /\ scan[p].slot_hi <= SlotCount

CacheOK(p) ==
    /\ Len(cache[p]) <= CacheSize
    /\ \A i \in 1 .. Len(cache[p]) : cache[p][i].alive \/ cache[p][i].pid \notin alive

VerdictOK(p) ==
    /\ \A j \in dead[p] : AllDead(cands[p][j])
    /\ pc[p] = "probe" =>
          \A q \in alive : Names(cands[p][Least(rest[p])], q) => Asked(p, q)

SweeperTypes ==
    /\ pc \in [Pids -> {"idle", "claim", "collect", "probe", "reap"}]
    /\ mode \in [Pids -> Modes]
    /\ scan \in [Pids -> [node_hi : Nat, slot_hi : Nat, pos : Nat]]
    /\ DOMAIN cands = Pids
    /\ rest \in [Pids -> SUBSET Nat] /\ dead \in [Pids -> SUBSET Nat]
    /\ ask \in [Pids -> Seq(Pids)] /\ cache \in [Pids -> Seq(Verdicts)]
    /\ freed \in [Pids -> BOOLEAN]

SweeperPart ==
    /\ SweeperTypes
    /\ \A p \in Pids : ChunkOK(p) /\ ScanOK(p) /\ CacheOK(p) /\ VerdictOK(p)

SweepInv ==
    /\ TablePart /\ NodePart /\ ClockPart /\ PeoplePart /\ LockPart /\ SweeperPart

-----------------------------------------------------------------------------
(* What the living hold. *)

\* The region knows that p uses the object, or knows that it does not know.
Knows(s, p) == slot[s].over \/ Names(slot[s], p)

HeldOK(p) == \A h \in held[p] : Resolves(h) /\ Knows(h.idx, p)
HeldInv == \A p \in alive : HeldOK(p)

\* No slot has been freed so often that its generation no longer fits.
GenFits == \A s \in Slots : slot[s].gen < GenMod

-----------------------------------------------------------------------------
(* Least and greatest elements. *)

Below == {xy \in Nat \X Nat : xy[1] < xy[2]}

LEMMA BelowWellFounded == IsWellFoundedOn(Below, Nat)
  BY NatLessThanWellFounded DEF OpToRel, Below

LEMMA LeastExists ==
    ASSUME NEW S \in SUBSET Nat, S # {}
    PROVE  \E x \in S : \A y \in S : x <= y
<1>1. PICK x \in S : \A y \in S : <<y, x>> \notin Below
  BY BelowWellFounded, WFMin
<1>2. ASSUME NEW y \in S PROVE x <= y
  <2>1. x \in Nat /\ y \in Nat /\ <<y, x>> \notin Below
    BY <1>1
  <2>2. ~(y < x)
    BY <2>1 DEF Below
  <2>3. QED
    BY <2>1, <2>2
<1>3. QED
  BY <1>2

LEMMA LeastIn ==
    ASSUME NEW S \in SUBSET Nat, S # {}
    PROVE  Least(S) \in S /\ \A y \in S : Least(S) <= y
  BY LeastExists DEF Least

LEMMA GreatestExists ==
    ASSUME NEW S \in SUBSET Nat, S # {}, NEW b \in Nat, \A y \in S : y <= b
    PROVE  \E x \in S : \A y \in S : y <= x
<1> DEFINE T == {n \in Nat : b - n \in S}
<1>1. T # {}
  <2>1. PICK y \in S : TRUE
    OBVIOUS
  <2>2. b - y \in Nat /\ b - (b - y) = y
    BY <2>1
  <2>3. QED
    BY <2>1, <2>2
<1>2. PICK n \in T : \A m \in T : n <= m
  BY <1>1, LeastExists
<1>3. ASSUME NEW y \in S PROVE y <= b - n
  <2>1. b - y \in T
    BY <1>3
  <2>2. n <= b - y
    BY <1>2, <2>1
  <2>3. QED
    BY <2>2
<1>4. QED
  BY <1>2, <1>3

-----------------------------------------------------------------------------
(* Slots and holders. *)

LEMMA NextFreeIn ==
    ASSUME FreeSlots # {}, cursor \in Slots
    PROVE  /\ NextFree \in FreeSlots
           /\ \A x \in FreeSlots : (NextFree - cursor) % SlotCount <= (x - cursor) % SlotCount
<1> DEFINE at(s) == (s - cursor) % SlotCount
           S == {n \in Nat : \E s \in FreeSlots : n = at(s)}
<1>1. \A s \in FreeSlots : at(s) \in Nat
  BY DEF FreeSlots, Slots
<1>2. S # {}
  BY <1>1
<1>3. PICK n \in S : \A m \in S : n <= m
  BY <1>2, LeastExists
<1>4. PICK s \in FreeSlots : n = at(s)
  BY <1>3
<1>5. \A x \in FreeSlots : at(s) <= at(x)
  BY <1>1, <1>3, <1>4
<1>6. QED
  BY <1>5 DEF NextFree

\* Adding p forgets nobody, and p is known from then on.
LEMMA AddHolder ==
    ASSUME NEW sl \in SlotRecord, NEW p \in Pids, Len(sl.holders) <= MaxHolders
    PROVE  LET new == holder_add(sl, p)
           IN  /\ new \in SlotRecord /\ Len(new.holders) <= MaxHolders
               /\ new.used = sl.used /\ new.gen = sl.gen /\ new.pid = sl.pid
               /\ sl.over => new.over
               /\ new.over \/ Names(new, p)
               /\ \A q \in Pids : Names(sl, q) => Names(new, q)
<1> DEFINE hs == sl.holders
           new == holder_add(sl, p)
<1>0. hs \in Seq(Pids) /\ Len(hs) \in Nat /\ MaxHolders \in Nat
  BY LenProperties DEF SlotRecord
<1>1. CASE \E i \in 1 .. Len(hs) : hs[i] = p
  <2>1. new = sl
    BY <1>1 DEF holder_add
  <2>2. QED
    BY <1>1, <2>1 DEF Names
<1>2. CASE (\A i \in 1 .. Len(hs) : hs[i] # p) /\ Len(hs) = MaxHolders
  <2>1. new = [sl EXCEPT !.over = TRUE]
    BY <1>2 DEF holder_add
  <2>2. QED
    BY <2>1 DEF SlotRecord, Names
<1>3. CASE (\A i \in 1 .. Len(hs) : hs[i] # p) /\ Len(hs) # MaxHolders
  <2>1. new = [sl EXCEPT !.holders = Append(hs, p)]
    BY <1>3 DEF holder_add
  <2>2. /\ Append(hs, p) \in Seq(Pids) /\ Len(Append(hs, p)) = Len(hs) + 1
        /\ \A i \in 1 .. Len(hs) : Append(hs, p)[i] = hs[i]
        /\ Append(hs, p)[Len(hs) + 1] = p
    BY <1>0, AppendProperties
  <2>3. new \in SlotRecord /\ new.holders = Append(hs, p) /\ new.used = sl.used
        /\ new.gen = sl.gen /\ new.pid = sl.pid /\ new.over = sl.over
    BY <2>1, <2>2 DEF SlotRecord
  <2>4. Len(new.holders) <= MaxHolders
    BY <1>0, <1>3, <2>2, <2>3
  <2>5. Names(new, p)
    BY <1>0, <2>2, <2>3 DEF Names
  <2>6. \A q \in Pids : Names(sl, q) => Names(new, q)
    BY <1>0, <2>2, <2>3 DEF Names
  <2>7. QED
    BY <2>3, <2>4, <2>5, <2>6
<1>4. QED
  BY <1>1, <1>2, <1>3

\* Removing p forgets p only, though the last holder changes its place.
LEMMA RemoveHolder ==
    ASSUME NEW sl \in SlotRecord, NEW p \in Pids, Len(sl.holders) <= MaxHolders
    PROVE  LET new == holder_remove(sl, p)
           IN  /\ new \in SlotRecord /\ Len(new.holders) <= MaxHolders
               /\ new.used = sl.used /\ new.gen = sl.gen /\ new.pid = sl.pid
               /\ new.over = sl.over
               /\ \A q \in Pids \ {p} : Names(sl, q) => Names(new, q)
<1> DEFINE hs == sl.holders
           cap == Len(hs)
           at == {i \in 1 .. cap : hs[i] = p}
           new == holder_remove(sl, p)
<1>0. hs \in Seq(Pids) /\ cap \in Nat /\ MaxHolders \in Nat /\ \A i \in 1 .. cap : hs[i] \in Pids
  BY LenProperties, ElementOfSeq DEF SlotRecord
<1>1. CASE at = {}
  <2>1. new = sl
    BY <1>1 DEF holder_remove
  <2>2. QED
    BY <2>1
<1>2. CASE at # {}
  <2> DEFINE m == Least(at)
             moved == [hs EXCEPT ![m] = hs[cap]]
             short == SubSeq(moved, 1, cap - 1)
  <2>1. m \in 1 .. cap /\ hs[m] = p
    <3>1. at \in SUBSET Nat
      BY <1>0
    <3>2. m \in at
      BY <1>2, <3>1, LeastIn
    <3>3. QED
      BY <3>2
  <2>2. cap \in 1 .. cap /\ hs[cap] \in Pids
    BY <1>0, <2>1
  <2>3. /\ moved \in Seq(Pids) /\ Len(moved) = cap
        /\ \A i \in 1 .. cap : moved[i] = IF i = m THEN hs[cap] ELSE hs[i]
    BY <1>0, <2>1, <2>2, ExceptSeq
  <2>4. /\ short \in Seq(Pids) /\ Len(short) = cap - 1
        /\ \A i \in 1 .. cap - 1 : short[i] = moved[i]
    <3>1. \A i \in 1 .. cap - 1 : moved[i] \in Pids
      BY <1>0, <2>2, <2>3
    <3>2. QED
      BY <1>0, <2>1, <2>3, <3>1, SubSeqProperties, SMTT(30)
  <2>5. new = [sl EXCEPT !.holders = short]
    BY <1>2 DEF holder_remove
  <2>6. /\ new \in SlotRecord /\ new.holders = short /\ new.used = sl.used
        /\ new.gen = sl.gen /\ new.pid = sl.pid /\ new.over = sl.over
    BY <2>4, <2>5 DEF SlotRecord
  <2>7. Len(new.holders) <= MaxHolders
    BY <1>0, <2>4, <2>6
  <2>8. ASSUME NEW q \in Pids \ {p}, Names(sl, q) PROVE Names(new, q)
    <3>1. CASE sl.pid = q
      BY <2>6, <3>1 DEF Names
    <3>2. CASE \E i \in 1 .. cap : hs[i] = q
      <4>1. PICK i \in 1 .. cap : hs[i] = q
        BY <3>2
      <4>2. i # m
        BY <2>1, <2>8, <4>1
      <4>3. CASE i = cap
        <5>1. m \in 1 .. cap - 1 /\ short[m] = q
          BY <1>0, <2>1, <2>3, <2>4, <4>1, <4>2, <4>3
        <5>2. QED
          BY <2>4, <2>6, <5>1 DEF Names
      <4>4. CASE i # cap
        <5>0. i \in 1 .. cap - 1 /\ cap \in Nat
          BY <1>0, <4>1, <4>4
        <5>1. i \in 1 .. cap - 1 /\ short[i] = q
          BY <2>3, <2>4, <4>1, <4>2, <5>0
        <5>2. QED
          BY <2>4, <2>6, <5>1 DEF Names
      <4>5. QED
        BY <4>3, <4>4
    <3>3. QED
      BY <2>8, <3>1, <3>2 DEF Names
  <2>9. QED
    BY <2>6, <2>7, <2>8
<1>3. QED
  BY <1>1, <1>2

-----------------------------------------------------------------------------
(* Steps that leave a part of the state alone. *)

LEMMA TableFrame == ASSUME TablePart, UNCHANGED table PROVE TablePart'
  BY DEF TablePart, table

LEMMA NodeFrame == ASSUME NodePart, UNCHANGED nodes PROVE NodePart'
  BY DEF NodePart, NodeOK, nodes

LEMMA PeopleFrame ==
    ASSUME PeoplePart, UNCHANGED people,
           \A k \in NodeIds : node'[k].own = node[k].own /\ node'[k].pid = node[k].pid
    PROVE  PeoplePart'
  BY DEF PeoplePart, MineOK, people

LEMMA SweeperFrame ==
    ASSUME SweeperPart, UNCHANGED <<sweeper, pc>>, alive' \subseteq alive
    PROVE  SweeperPart'
<1>1. SweeperTypes'
  BY DEF SweeperPart, SweeperTypes, sweeper
<1>2. ASSUME NEW p \in Pids PROVE (ChunkOK(p) /\ ScanOK(p) /\ CacheOK(p) /\ VerdictOK(p))'
  BY DEF SweeperPart, ChunkOK, ScanOK, CacheOK, VerdictOK, AllDead, Asked, Probing, sweeper
<1>3. QED
  BY <1>1, <1>2 DEF SweeperPart

LEMMA LockFrame ==
    ASSUME SweepInv, UNCHANGED <<sweeper, pc, alive, lock>>, slot' = slot \/ lock = NoPid
    PROVE  LockPart'
<1> SUFFICES ASSUME NEW p \in Pids PROVE LockOK(p)'
  BY DEF LockPart
<1>1. LockOK(p) /\ lock # p => mode[p] # "create"
  BY DEF LockOK, Probing
<1>2. LockOK(p) /\ NoPid # p
  BY DEF SweepInv, LockPart
<1>3. QED
  BY <1>1, <1>2 DEF LockOK, Probing, sweeper, FreeSlots

LEMMA WokenType ==
    ASSUME NodePart, NEW S
    PROVE  /\ Woken(S) \in [NodeIds -> NodeRecord]
           /\ \A k \in NodeIds : /\ Woken(S)[k].own = node[k].own /\ Woken(S)[k].pid = node[k].pid
                                 /\ Woken(S)[k].on \in {node[k].on, NIL}
<1> SUFFICES ASSUME NEW k \in NodeIds
             PROVE  /\ Woken(S)[k] \in NodeRecord
                    /\ Woken(S)[k].own = node[k].own /\ Woken(S)[k].pid = node[k].pid
                    /\ Woken(S)[k].on \in {node[k].on, NIL}
  BY DEF Woken
<1>1. node[k] \in NodeRecord
  BY DEF NodePart
<1>2. Woken(S)[k] = IF node[k].on \in S THEN [node[k] EXCEPT !.on = NIL] ELSE node[k]
  BY DEF Woken
<1>3. QED
  BY <1>1, <1>2 DEF NodeRecord

LEMMA WokenNodes == ASSUME NodePart, NEW S, node' = Woken(S), fresh' = fresh PROVE NodePart'
<1>1. node' \in [NodeIds -> NodeRecord]
  BY WokenType
<1>2. \A k \in NodeIds : NodeOK(k)'
  BY WokenType DEF NodePart, NodeOK
<1>3. QED
  BY <1>1, <1>2 DEF NodePart

LEMMA KnownType ==
    ASSUME TablePart, NEW h \in Known
    PROVE  /\ h \in [idx : Slots, gen : Nat] /\ h.idx \in Slots /\ Resolves(h)
           /\ h = Handle(h.idx, slot[h.idx].gen)
<1>1. PICK s \in Slots \ {0} : h = Handle(s, slot[s].gen % GenMod) /\ Resolves(h)
  BY DEF Known
<1>2. slot[s].gen \in Nat
  BY <1>1 DEF TablePart, SlotRecord
<1>3. slot[s].gen % GenMod \in Nat /\ h.idx = s /\ h.gen = slot[s].gen % GenMod
  BY <1>1, <1>2 DEF Handle
<1>4. slot[s].gen = h.gen
  BY <1>1, <1>3 DEF Resolves
<1>5. QED
  BY <1>1, <1>2, <1>3, <1>4 DEF Handle

LEMMA SlotFreedType ==
    ASSUME NEW sl \in SlotRecord
    PROVE  /\ SlotFreed(sl) \in SlotRecord /\ SlotFreed(sl).used = FALSE
           /\ SlotFreed(sl).gen = sl.gen + 1 /\ SlotFreed(sl).holders = sl.holders
           /\ SlotFreed(sl).pid = sl.pid /\ SlotFreed(sl).over = sl.over
<1>1. /\ SlotFreed(sl).used = FALSE
      /\ SlotFreed(sl).gen = sl.gen + 1 /\ SlotFreed(sl).holders = sl.holders
      /\ SlotFreed(sl).pid = sl.pid /\ SlotFreed(sl).over = sl.over
  BY DEF SlotFreed, SlotRecord
<1>2. SlotFreed(sl) \in SlotRecord
  <2>1. sl.gen + 1 \in Nat
    BY DEF SlotRecord
  <2>2. [sl EXCEPT !.used = FALSE] \in SlotRecord
    BY DEF SlotRecord
  <2>3. [[sl EXCEPT !.used = FALSE] EXCEPT !.gen = sl.gen + 1] \in SlotRecord
    BY <2>1, <2>2 DEF SlotRecord
  <2>4. QED
    BY <2>3 DEF SlotFreed
<1>3. QED
  BY <1>1, <1>2

-----------------------------------------------------------------------------
(* What processes do between sweeps. *)

LEMMA RetainInv == ASSUME SweepInv, NEW p \in Pids, retain(p) PROVE SweepInv'
<1> USE DEF SweepInv
<1> PICK h \in Known : /\ slot' = [slot EXCEPT ![h.idx] = holder_add(@, p)]
                       /\ held' = [held EXCEPT ![p] = @ \cup {h}]
  BY DEF retain
<1>u. /\ UNCHANGED <<cursor, wrapped, nodes, sweep_ns, lock, now, alive, lives, mine, pc, sweeper>>
      /\ lock = NoPid
  BY DEF retain, Runs
<1>1. TablePart'
  <2>1. h.idx \in Slots /\ slot[h.idx] \in SlotRecord /\ Len(slot[h.idx].holders) <= MaxHolders
    BY KnownType DEF TablePart
  <2>2. holder_add(slot[h.idx], p) \in SlotRecord /\ Len(holder_add(slot[h.idx], p).holders) <= MaxHolders
    BY <2>1, AddHolder
  <2>3. QED
    BY <1>u, <2>1, <2>2 DEF TablePart
<1>2. NodePart' /\ ClockPart' /\ SweeperPart' /\ LockPart'
  BY <1>u, NodeFrame, SweeperFrame, LockFrame DEF ClockPart
<1>3. PeoplePart'
  BY <1>u, KnownType DEF PeoplePart, MineOK, nodes
<1>4. QED
  BY <1>1, <1>2, <1>3

LEMMA ReleaseInv == ASSUME SweepInv, NEW p \in Pids, release(p) PROVE SweepInv'
<1> USE DEF SweepInv
<1> PICK h \in Known : /\ slot' = [slot EXCEPT ![h.idx] = holder_remove(@, p)]
                       /\ held' = [held EXCEPT ![p] = @ \ {h}]
  BY DEF release
<1>u. /\ UNCHANGED <<cursor, wrapped, nodes, sweep_ns, lock, now, alive, lives, mine, pc, sweeper>>
      /\ lock = NoPid
  BY DEF release, Runs
<1>1. TablePart'
  <2>1. h.idx \in Slots /\ slot[h.idx] \in SlotRecord /\ Len(slot[h.idx].holders) <= MaxHolders
    BY KnownType DEF TablePart
  <2>2. holder_remove(slot[h.idx], p) \in SlotRecord /\ Len(holder_remove(slot[h.idx], p).holders) <= MaxHolders
    BY <2>1, RemoveHolder
  <2>3. QED
    BY <1>u, <2>1, <2>2 DEF TablePart
<1>2. NodePart' /\ ClockPart' /\ SweeperPart' /\ LockPart'
  BY <1>u, NodeFrame, SweeperFrame, LockFrame DEF ClockPart
<1>3. PeoplePart'
  BY <1>u DEF PeoplePart, MineOK, nodes
<1>4. QED
  BY <1>1, <1>2, <1>3

LEMMA CloseInv == ASSUME SweepInv, NEW p \in Pids, close(p) PROVE SweepInv'
<1> USE DEF SweepInv
<1> PICK h \in Known :
      /\ slot' = [slot EXCEPT ![h.idx] = SlotFreed(holder_remove(slot[h.idx], p))]
      /\ node' = Woken({h.idx})
      /\ held' = [q \in Pids |-> held[q] \ {h}]
  BY DEF close
<1>u. /\ UNCHANGED <<cursor, wrapped, fresh, sweep_ns, lock, now, alive, lives, mine, pc, sweeper>>
      /\ lock = NoPid
  BY DEF close, Runs
<1>1. TablePart'
  <2> DEFINE new == holder_remove(slot[h.idx], p)
             closed == SlotFreed(new)
  <2>1. h.idx \in Slots /\ slot[h.idx] \in SlotRecord /\ Len(slot[h.idx].holders) <= MaxHolders
    BY KnownType DEF TablePart
  <2>2. new \in SlotRecord /\ Len(new.holders) <= MaxHolders
    BY <2>1, RemoveHolder
  <2> HIDE DEF new
  <2>3. closed \in SlotRecord /\ Len(closed.holders) <= MaxHolders
    BY <2>2, SlotFreedType
  <2>4. slot' = [slot EXCEPT ![h.idx] = closed]
    BY DEF new
  <2>5. QED
    BY <1>u, <2>1, <2>3, <2>4 DEF TablePart
<1>2. NodePart'
  BY <1>u, WokenNodes
<1>3. ClockPart' /\ SweeperPart' /\ LockPart'
  BY <1>u, SweeperFrame, LockFrame DEF ClockPart
<1>4. PeoplePart'
  BY <1>u, WokenType DEF PeoplePart, MineOK
<1>5. QED
  BY <1>1, <1>2, <1>3, <1>4

LEMMA NodeAllocInv == ASSUME SweepInv, NEW p \in Pids, NodeAlloc(p) PROVE SweepInv'
<1> USE DEF SweepInv
<1> PICK k \in NodeChoice, s \in Slots \ {0} :
         /\ node' = [node EXCEPT ![k] = [own |-> TRUE, pid |-> p, on |-> s]]
         /\ fresh' = IF k < fresh THEN fresh ELSE k + 1
         /\ mine' = [mine EXCEPT ![p] = @ \cup {k}]
  BY DEF NodeAlloc
<1>u. UNCHANGED <<table, sweep_ns, lock, now, alive, lives, held, pc, sweeper>>
  BY DEF NodeAlloc
<1>0. k \in NodeIds /\ k \in Int /\ fresh \in Nat /\ (k < fresh \/ k = fresh) /\ ~node[k].own
  BY DEF NodeChoice, NodePart, NodeOK, NodeIds
<1>1. TablePart' /\ ClockPart' /\ SweeperPart' /\ LockPart'
  BY <1>u, TableFrame, SweeperFrame, LockFrame DEF ClockPart, table
<1>2. NodePart'
  <2>1. node' \in [NodeIds -> NodeRecord]
    BY <1>0 DEF NodePart, NodeRecord
  <2>2. fresh' \in 0 .. NodeCount /\ fresh <= fresh' /\ k < fresh'
    BY <1>0 DEF NodePart, NodeIds
  <2>3. ASSUME NEW j \in NodeIds PROVE NodeOK(j)'
    <3>1. j \in Int /\ fresh' \in Int
      BY <2>2 DEF NodeIds
    <3>2. CASE j = k
      BY <1>0, <2>2, <3>2 DEF NodePart, NodeOK
    <3>3. CASE j # k
      BY <1>0, <2>2, <3>1, <3>3 DEF NodePart, NodeOK
    <3>4. QED
      BY <3>2, <3>3
  <2>4. QED
    BY <2>1, <2>2, <2>3 DEF NodePart
<1>3. PeoplePart'
  <2>1. \A q \in alive : k \notin mine[q]
    BY <1>0 DEF PeoplePart, MineOK
  <2>2. \A q \in alive : MineOK(q)'
    BY <1>0, <2>1 DEF PeoplePart, MineOK, NodePart
  <2>3. QED
    BY <1>u, <1>0, <2>2 DEF PeoplePart
<1>4. QED
  BY <1>1, <1>2, <1>3

LEMMA NodeRegisterInv == ASSUME SweepInv, NEW p \in Pids, NodeRegister(p) PROVE SweepInv'
<1> USE DEF SweepInv
<1> PICK k \in mine[p], s \in Slots \ {0} : node' = [node EXCEPT ![k].on = s]
  BY DEF NodeRegister
<1>u. UNCHANGED <<table, fresh, sweep_ns, lock, now, people, pc, sweeper>> /\ p \in alive
  BY DEF NodeRegister, Runs
<1>0. k \in NodeIds /\ node[k].own /\ node[k] \in NodeRecord
  BY <1>u DEF PeoplePart, MineOK, NodePart
<1>1. TablePart' /\ ClockPart' /\ SweeperPart' /\ LockPart'
  BY <1>u, TableFrame, SweeperFrame, LockFrame DEF ClockPart, table, people
<1>2. /\ node' \in [NodeIds -> NodeRecord]
      /\ \A j \in NodeIds : /\ node'[j].own = node[j].own /\ node'[j].pid = node[j].pid
                            /\ j # k => node'[j].on = node[j].on
  BY <1>0 DEF NodePart, NodeRecord
<1>3. NodePart'
  BY <1>u, <1>0, <1>2 DEF NodePart, NodeOK
<1>4. PeoplePart'
  BY <1>u, <1>2, PeopleFrame
<1>5. QED
  BY <1>1, <1>3, <1>4

LEMMA SignalInv == ASSUME SweepInv, NEW p \in Pids, Signal(p) PROVE SweepInv'
<1> USE DEF SweepInv
<1>u. /\ UNCHANGED <<table, fresh, sweep_ns, lock, now, people, pc, sweeper>>
      /\ \E s \in Slots : node' = Woken({s})
  BY DEF Signal
<1>1. TablePart' /\ ClockPart' /\ SweeperPart' /\ LockPart'
  BY <1>u, TableFrame, SweeperFrame, LockFrame DEF ClockPart, table, people
<1>2. NodePart'
  BY <1>u, WokenNodes
<1>3. PeoplePart'
  BY <1>u, WokenType, PeopleFrame
<1>4. QED
  BY <1>1, <1>2, <1>3

LEMMA CleanupInv == ASSUME SweepInv, NEW p \in Pids, waiter_cleanup(p) PROVE SweepInv'
<1> USE DEF SweepInv
<1>u. /\ UNCHANGED <<table, fresh, sweep_ns, lock, now, alive, lives, held, pc, sweeper>>
      /\ node' = [k \in NodeIds |-> IF k \in mine[p] THEN FreeNode ELSE node[k]]
      /\ mine' = [mine EXCEPT ![p] = {}] /\ p \in alive
  BY DEF waiter_cleanup, Runs
<1>1. TablePart' /\ ClockPart' /\ SweeperPart' /\ LockPart'
  BY <1>u, TableFrame, SweeperFrame, LockFrame DEF ClockPart, table
<1>2. NodePart'
  BY <1>u DEF NodePart, NodeOK, FreeNode, NodeRecord
<1>3. PeoplePart'
  <2>1. ASSUME NEW q \in alive PROVE MineOK(q)'
    <3>1. CASE q = p
      BY <1>u, <3>1 DEF MineOK, PeoplePart
    <3>2. CASE q # p
      <4>1. \A k \in mine[q] : k \in NodeIds /\ k \notin mine[p]
        BY <1>u, <3>2 DEF PeoplePart, MineOK
      <4>2. QED
        BY <1>u, <3>2, <4>1 DEF MineOK, PeoplePart
    <3>3. QED
      BY <3>1, <3>2
  <2>2. QED
    BY <1>u, <2>1 DEF PeoplePart
<1>4. QED
  BY <1>1, <1>2, <1>3

-----------------------------------------------------------------------------
(* The beginning and the end of a sweep. *)

\* alloc_slot and slot_publish
LEMMA AllocTable ==
    ASSUME TablePart, PeoplePart, NEW p \in Pids, FreeSlots # {}, Alloc(p),
           UNCHANGED <<node, alive, lives, mine>>
    PROVE  TablePart' /\ PeoplePart'
<1> DEFINE s == NextFree
<1>1. s \in Slots /\ slot[s] \in SlotRecord /\ slot[s].gen \in Nat /\ ~slot[s].used
  BY NextFreeIn DEF FreeSlots, TablePart, SlotRecord
<1> HIDE DEF s
<1>2. (s + 1) % SlotCount \in Slots
  BY <1>1 DEF Slots
<1>3. /\ slot' = [slot EXCEPT ![s] = [used |-> TRUE, gen |-> slot[s].gen, pid |-> p,
                                      holders |-> <<>>, over |-> FALSE]]
      /\ cursor' = (s + 1) % SlotCount /\ wrapped' \in BOOLEAN
      /\ held' = [held EXCEPT ![p] = @ \cup {Handle(s, slot[s].gen % GenMod)}]
  BY DEF Alloc, s, Wraps, TablePart
<1>4. TablePart'
  <2>1. [used |-> TRUE, gen |-> slot[s].gen, pid |-> p, holders |-> <<>>, over |-> FALSE] \in SlotRecord
    BY <1>1, EmptySeq DEF SlotRecord
  <2>2. Len(<<>>) <= MaxHolders
    BY EmptySeq
  <2>3. QED
    BY <1>1, <1>2, <1>3, <2>1, <2>2 DEF TablePart
<1>5. Handle(s, slot[s].gen % GenMod) \in [idx : Slots, gen : Nat]
  BY <1>1 DEF Handle
<1>6. PeoplePart'
  BY <1>3, <1>5 DEF PeoplePart, MineOK
<1>7. QED
  BY <1>4, <1>6

LEMMA StartSweeper ==
    ASSUME SweepInv, NEW p \in Pids, NEW m \in Modes, m # "none", Start(p, m), p \in alive,
           lock = NoPid, ~Probing(p), pc[p] # "collect", UNCHANGED <<alive, slot>>
    PROVE  SweeperPart' /\ LockPart'
<1> USE DEF SweepInv
<1>1. /\ lock' = p /\ pc' = [pc EXCEPT ![p] = "collect"] /\ mode' = [mode EXCEPT ![p] = m]
      /\ scan' = [scan EXCEPT ![p] = [node_hi |-> fresh, slot_hi |-> slot_hi, pos |-> 0]]
      /\ UNCHANGED <<cands, rest, ask, dead, cache, freed>>
  BY DEF Start
<1>2. slot_hi \in Nat /\ slot_hi <= SlotCount /\ fresh \in Nat /\ fresh <= NodeCount
  BY DEF slot_hi, TablePart, NodePart, Slots
<1>3. SweeperTypes'
  BY <1>1, <1>2 DEF SweeperPart, SweeperTypes
<1>4. ASSUME NEW q \in Pids PROVE (ChunkOK(q) /\ ScanOK(q) /\ CacheOK(q) /\ VerdictOK(q))'
  <2>1. q # p => pc'[q] = pc[q] /\ scan'[q] = scan[q]
    BY <1>1 DEF SweeperPart, SweeperTypes
  <2>2. pc'[p] = "collect" /\ scan'[p] = [node_hi |-> fresh, slot_hi |-> slot_hi, pos |-> 0]
    BY <1>1 DEF SweeperPart, SweeperTypes
  <2>3. ChunkOK(q)'
    BY <1>1, <2>1, <2>2 DEF SweeperPart, ChunkOK, Probing
  <2>4. ScanOK(q)'
    BY <1>2, <2>1, <2>2 DEF SweeperPart, ScanOK
  <2>5. CacheOK(q)' /\ VerdictOK(q)'
    BY <1>1, <2>1, <2>2 DEF SweeperPart, CacheOK, VerdictOK, AllDead, Asked
  <2>6. QED
    BY <2>3, <2>4, <2>5
<1>5. ASSUME NEW q \in Pids PROVE LockOK(q)'
  <2>1. LockOK(q) /\ q # NoPid /\ LockOK(p)
    BY DEF LockPart
  <2>2. CASE q = p
    <3>1. ~freed[p]
      BY <2>1 DEF LockOK, Probing
    <3>2. QED
      BY <1>1, <2>1, <2>2, <3>1 DEF LockOK, Probing, SweeperPart, SweeperTypes, FreeSlots
  <2>3. CASE q # p
    BY <1>1, <2>1, <2>3 DEF LockOK, Probing, SweeperPart, SweeperTypes, FreeSlots
  <2>4. QED
    BY <2>2, <2>3
<1>6. QED
  BY <1>3, <1>4, <1>5 DEF SweeperPart, LockPart

\* Nothing that q keeps for a sweep of its own changes.
Keeps(q) ==
    /\ pc'[q] = pc[q] /\ mode'[q] = mode[q] /\ scan'[q] = scan[q] /\ cands'[q] = cands[q]
    /\ rest'[q] = rest[q] /\ ask'[q] = ask[q] /\ dead'[q] = dead[q] /\ cache'[q] = cache[q]
    /\ freed'[q] = freed[q]

SweepOK(q) == ChunkOK(q) /\ ScanOK(q) /\ CacheOK(q) /\ VerdictOK(q)

LEMMA OtherSweep ==
    ASSUME SweeperPart, NEW q \in Pids, Keeps(q), alive' \subseteq alive
    PROVE  SweepOK(q)'
<1>1. ChunkOK(q)'
  BY DEF SweeperPart, Keeps, ChunkOK, Probing
<1>2. ScanOK(q)'
  BY DEF SweeperPart, Keeps, ScanOK
<1>3. CacheOK(q)'
  BY DEF SweeperPart, Keeps, CacheOK
<1>4. VerdictOK(q)'
  <2>1. VerdictOK(q) /\ pc'[q] = pc[q] /\ dead'[q] = dead[q] /\ cands'[q] = cands[q]
        /\ rest'[q] = rest[q] /\ ask'[q] = ask[q]
    BY DEF SweeperPart, Keeps
  <2>2. \A j \in dead'[q] : \A u \in alive' : ~Names(cands'[q][j], u)
    BY <2>1 DEF VerdictOK, AllDead
  <2>3. pc'[q] = "probe" =>
            \A u \in alive' : Names(cands'[q][Least(rest'[q])], u)
                               => \E i \in 1 .. Len(ask'[q]) : ask'[q][i] = u
    BY <2>1 DEF VerdictOK, Asked
  <2>4. QED
    BY <2>2, <2>3 DEF VerdictOK, AllDead, Asked
<1>5. QED
  BY <1>1, <1>2, <1>3, <1>4 DEF SweepOK

\* What p does with the lock does not concern who sweeps without it.
LEMMA OtherLock ==
    ASSUME SweepInv, NEW p \in Pids, NEW q \in Pids \ {p}, Keeps(q), lock \in {p, NoPid},
           alive \subseteq alive' \cup {p}
    PROVE  LockOK(q)'
<1>1. LockOK(q) /\ q # NoPid /\ q # p
  BY DEF SweepInv, LockPart
<1>2. pc[q] # "collect" /\ (Probing(q) => mode[q] = "auto")
  BY <1>1 DEF LockOK
<1>3. mode[q] # "create"
  BY <1>1, <1>2 DEF LockOK, Probing
<1>4. QED
  BY <1>1, <1>2, <1>3 DEF LockOK, Probing, Keeps

LEMMA FinishInv ==
    ASSUME SweepInv, NEW p \in Pids, p \in alive, pc[p] = "collect", Finish(p),
           UNCHANGED <<nodes, sweep_ns, now, alive, lives, mine>>
    PROVE  SweepInv'
<1> USE DEF SweepInv
<1>0. LockOK(p) /\ lock = p
  BY DEF LockPart, LockOK
<1>1. TablePart' /\ PeoplePart'
  <2>1. CASE mode[p] = "create" /\ freed[p]
    <3>1. FreeSlots # {} /\ Alloc(p)
      BY <1>0, <2>1 DEF LockOK, Finish
    <3>2. QED
      BY <3>1, AllocTable DEF nodes
  <2>2. CASE ~(mode[p] = "create" /\ freed[p])
    <3>1. UNCHANGED <<table, held>>
      BY <2>2 DEF Finish
    <3>2. QED
      BY <3>1, TableFrame, PeopleFrame DEF people, nodes
  <2>3. QED
    BY <2>1, <2>2
<1>2. /\ lock' = NoPid /\ pc' = [pc EXCEPT ![p] = "idle"] /\ mode' = [mode EXCEPT ![p] = "none"]
      /\ scan' = [scan EXCEPT ![p] = NoScan] /\ cache' = [cache EXCEPT ![p] = <<>>]
      /\ freed' = [freed EXCEPT ![p] = FALSE] /\ UNCHANGED <<cands, rest, ask, dead>>
  BY DEF Finish, Forget
<1>3. SweeperTypes'
  BY <1>2, EmptySeq DEF SweeperPart, SweeperTypes, NoScan, Modes
<1>4. \A q \in Pids \ {p} : Keeps(q)
  BY <1>2 DEF Keeps, SweeperPart, SweeperTypes
<1>5. SweepOK(p)'
  <2>1. /\ pc'[p] = "idle" /\ scan'[p] = NoScan /\ cache'[p] = <<>> /\ cands'[p] = cands[p]
        /\ rest'[p] = rest[p] /\ dead'[p] = dead[p]
    BY <1>2 DEF SweeperPart, SweeperTypes
  <2>2. rest[p] = {} /\ dead[p] = {}
    BY DEF SweeperPart, ChunkOK, Probing
  <2>3. ChunkOK(p)'
    BY <2>1, <2>2 DEF SweeperPart, ChunkOK, Probing
  <2>4. ScanOK(p)' /\ CacheOK(p)'
    BY <2>1, EmptySeq DEF ScanOK, CacheOK, NoScan
  <2>5. VerdictOK(p)'
    BY <2>1, <2>2 DEF VerdictOK
  <2>6. QED
    BY <2>3, <2>4, <2>5 DEF SweepOK
<1>6. LockOK(p)'
  BY <1>2 DEF LockOK, Probing, SweeperPart, SweeperTypes
<1>7. NodePart' /\ ClockPart'
  BY <1>2, NodeFrame DEF ClockPart
<1>8. SweeperPart'
  BY <1>3, <1>4, <1>5, OtherSweep DEF SweeperPart, SweepOK
<1>9. LockPart'
  BY <1>0, <1>4, <1>6, OtherLock DEF LockPart
<1>10. QED
  BY <1>1, <1>7, <1>8, <1>9

LEMMA SweepDeadInv == ASSUME SweepInv, NEW p \in Pids, sweep_dead(p) PROVE SweepInv'
<1> USE DEF SweepInv
<1>1. /\ UNCHANGED <<table, nodes, sweep_ns, now, people>> /\ p \in alive /\ lock = NoPid
      /\ pc[p] = "idle" /\ Start(p, "sweep_dead") /\ lock' = p
  BY DEF sweep_dead, Runs, Start
<1>2. SweeperPart' /\ LockPart'
  BY <1>1, StartSweeper DEF Modes, Probing, people, table
<1>3. TablePart' /\ NodePart' /\ ClockPart' /\ PeoplePart'
  BY <1>1, TableFrame, NodeFrame, PeopleFrame DEF ClockPart, nodes
<1>4. QED
  BY <1>2, <1>3

LEMMA CreateInv == ASSUME SweepInv, NEW p \in Pids, create(p) PROVE SweepInv'
<1> USE DEF SweepInv
<1>1. UNCHANGED <<nodes, sweep_ns, now, alive, lives, mine>> /\ Runs(p)
  BY DEF create
<1>2. p \in alive /\ lock = NoPid /\ pc[p] = "idle"
  BY <1>1 DEF Runs
<1>3. CASE FreeSlots # {}
  <2>1. Alloc(p) /\ UNCHANGED <<lock, pc, sweeper>>
    BY <1>3 DEF create
  <2>2. TablePart' /\ PeoplePart'
    BY <1>1, <1>3, <2>1, AllocTable DEF nodes
  <2>3. NodePart' /\ ClockPart' /\ SweeperPart' /\ LockPart'
    BY <1>1, <1>2, <2>1, NodeFrame, SweeperFrame, LockFrame DEF ClockPart
  <2>4. QED
    BY <2>2, <2>3
<1>4. CASE FreeSlots = {}
  <2>1. Start(p, "create") /\ UNCHANGED <<table, held>> /\ lock' = p
    BY <1>4 DEF create, Start
  <2>2. SweeperPart' /\ LockPart'
    BY <1>1, <1>2, <2>1, StartSweeper DEF Modes, Probing, table
  <2>3. TablePart' /\ NodePart' /\ ClockPart' /\ PeoplePart'
    BY <1>1, <2>1, TableFrame, NodeFrame, PeopleFrame DEF ClockPart, nodes, people
  <2>4. QED
    BY <2>2, <2>3
<1>5. QED
  BY <1>3, <1>4

\* auto_sweep_dead moves p between idle and claim.
LEMMA OnlyPc ==
    ASSUME SweepInv, NEW p \in Pids, p \in alive, pc[p] \in {"idle", "claim"}, NEW at \in {"idle", "claim"},
           pc' = [pc EXCEPT ![p] = at], UNCHANGED <<table, nodes, sweep_ns, lock, now, people, sweeper>>
    PROVE  SweepInv'
<1> USE DEF SweepInv
<1>1. TablePart' /\ NodePart' /\ ClockPart' /\ PeoplePart'
  BY TableFrame, NodeFrame, PeopleFrame DEF ClockPart, nodes
<1>2. \A q \in Pids \ {p} : pc'[q] = pc[q]
  BY DEF SweeperPart, SweeperTypes
<1>3. pc'[p] = at
  BY DEF SweeperPart, SweeperTypes
<1>4. SweeperTypes'
  BY DEF SweeperPart, SweeperTypes, sweeper
<1>5. ASSUME NEW q \in Pids PROVE SweepOK(q)'
  <2>1. ChunkOK(q)'
    BY <1>2, <1>3 DEF SweeperPart, ChunkOK, Probing, sweeper
  <2>2. ScanOK(q)' /\ CacheOK(q)'
    BY DEF SweeperPart, ScanOK, CacheOK, sweeper, people
  <2>3. VerdictOK(q)'
    BY <1>2, <1>3 DEF SweeperPart, VerdictOK, AllDead, Asked, sweeper, people
  <2>4. QED
    BY <2>1, <2>2, <2>3 DEF SweepOK
<1>6. ASSUME NEW q \in Pids PROVE LockOK(q)'
  BY <1>2, <1>3 DEF LockPart, LockOK, Probing, sweeper, people, table, FreeSlots
<1>7. QED
  BY <1>1, <1>4, <1>5, <1>6 DEF SweeperPart, SweepOK, LockPart

LEMMA AutoCheckInv == ASSUME SweepInv, NEW p \in Pids, AutoCheck(p) PROVE SweepInv'
  BY OnlyPc DEF AutoCheck

LEMMA AutoClaimInv == ASSUME SweepInv, NEW p \in Pids, AutoClaim(p) PROVE SweepInv'
<1> USE DEF SweepInv
<1>1. UNCHANGED <<table, nodes, now, people>> /\ p \in alive /\ pc[p] = "claim" /\ lock = NoPid
  BY DEF AutoClaim
<1>2. CASE Due
  <2>1. sweep_ns' = now /\ Start(p, "auto") /\ lock' = p
    BY <1>2 DEF AutoClaim, Start
  <2>2. SweeperPart' /\ LockPart'
    BY <1>1, <2>1, StartSweeper DEF Modes, Probing, people, table
  <2>3. TablePart' /\ NodePart' /\ ClockPart' /\ PeoplePart'
    BY <1>1, <2>1, TableFrame, NodeFrame, PeopleFrame DEF ClockPart, nodes
  <2>4. QED
    BY <2>2, <2>3
<1>3. CASE ~Due
  <2>1. pc' = [pc EXCEPT ![p] = "idle"] /\ UNCHANGED <<sweep_ns, lock, sweeper>>
    BY <1>3 DEF AutoClaim
  <2>2. QED
    BY <1>1, <2>1, OnlyPc
<1>4. QED
  BY <1>2, <1>3

-----------------------------------------------------------------------------
(* The rounds of a sweep. *)

LEMMA PidsOfCand ==
    ASSUME NEW c \in CandRecord
    PROVE  /\ PidsOf(c) \in Seq(Pids) /\ PidsOf(c) # <<>>
           /\ \A q \in Pids : Names(c, q) => \E i \in 1 .. Len(PidsOf(c)) : PidsOf(c)[i] = q
           /\ \A i \in 1 .. Len(PidsOf(c)) : Names(c, PidsOf(c)[i])
<1> DEFINE one == <<c.pid>>
           hs == c.holders
<1>1. one \in Seq(Pids) /\ Len(one) = 1 /\ one[1] = c.pid /\ hs \in Seq(Pids) /\ Len(hs) \in Nat
  BY LenProperties DEF CandRecord
<1>2. /\ PidsOf(c) \in Seq(Pids) /\ Len(PidsOf(c)) = 1 + Len(hs)
      /\ \A i \in 1 .. 1 + Len(hs) : PidsOf(c)[i] = IF i <= 1 THEN one[i] ELSE hs[i - 1]
  BY <1>1, ConcatProperties DEF PidsOf
<1>3. ASSUME NEW q \in Pids, Names(c, q) PROVE \E i \in 1 .. Len(PidsOf(c)) : PidsOf(c)[i] = q
  <2>1. CASE c.pid = q
    <3>1. 1 \in 1 .. 1 + Len(hs) /\ PidsOf(c)[1] = q
      BY <1>1, <1>2, <2>1
    <3>2. QED
      BY <1>2, <3>1
  <2>2. CASE \E i \in 1 .. Len(hs) : hs[i] = q
    <3>1. PICK i \in 1 .. Len(hs) : hs[i] = q
      BY <2>2
    <3>2. i + 1 \in 1 .. 1 + Len(hs) /\ PidsOf(c)[i + 1] = q
      BY <1>1, <1>2, <3>1, SMTT(30)
    <3>3. QED
      BY <1>2, <3>2
  <2>3. QED
    BY <1>3, <2>1, <2>2 DEF Names
<1>4. PidsOf(c) # <<>>
  BY <1>1, <1>2, EmptySeq
<1>5. ASSUME NEW i \in 1 .. Len(PidsOf(c)) PROVE Names(c, PidsOf(c)[i])
  <2>1. CASE i = 1
    BY <1>1, <1>2, <2>1 DEF Names
  <2>2. CASE i # 1
    <3>1. i - 1 \in 1 .. Len(hs) /\ PidsOf(c)[i] = hs[i - 1]
      BY <1>1, <1>2, <2>2, SMTT(30)
    <3>2. QED
      BY <3>1 DEF Names
  <2>3. QED
    BY <2>1, <2>2
<1>6. QED
  BY <1>2, <1>3, <1>4, <1>5

\* What next_chunk copies is a candidate.
LEMMA CandType ==
    ASSUME SweepInv, NEW p \in Pids, NEW j \in Nat, j < scan[p].node_hi + scan[p].slot_hi,
           IsCand(j, scan[p])
    PROVE  IsCandidate(Cand(j, scan[p]))
<1> USE DEF SweepInv
<1> DEFINE lo == scan[p].node_hi
           hi == scan[p].slot_hi
<1>1. lo \in Nat /\ hi \in Nat /\ lo <= NodeCount /\ hi <= SlotCount
  BY DEF SweeperPart, SweeperTypes, ScanOK
<1>2. CASE j < lo
  <2>1. j \in NodeIds
    BY <1>1, <1>2 DEF NodeIds
  <2>2. node[j].pid \in Pids
    BY <1>2, <2>1 DEF IsCand, NodePart, NodeOK
  <2>3. Cand(j, scan[p]) = [node |-> TRUE, index |-> j, pid |-> node[j].pid, gen |-> 0,
                            holders |-> <<>>, over |-> FALSE]
    BY <1>2 DEF Cand
  <2>4. QED
    BY <2>2, <2>3, EmptySeq DEF IsCandidate, CandRecord
<1>3. CASE ~(j < lo)
  <2> DEFINE s == j - lo
  <2>1. s \in Slots /\ s \in Nat
    BY <1>1, <1>3 DEF Slots
  <2>2. slot[s] \in SlotRecord /\ slot[s].pid # NoPid
    BY <1>3, <2>1 DEF IsCand, TablePart
  <2>3. Cand(j, scan[p]) = [node |-> FALSE, index |-> s, pid |-> slot[s].pid, gen |-> slot[s].gen,
                            holders |-> slot[s].holders, over |-> slot[s].over]
    BY <1>3 DEF Cand
  <2> HIDE DEF s
  <2>4. /\ slot[s].pid \in Pids /\ slot[s].gen \in Nat /\ slot[s].holders \in Seq(Pids)
        /\ slot[s].over \in BOOLEAN
    BY <2>2 DEF SlotRecord
  <2>5. QED
    BY <2>1, <2>3, <2>4 DEF IsCandidate, CandRecord
<1>4. QED
  BY <1>2, <1>3

LEMMA CollectInv == ASSUME SweepInv, NEW p \in Pids, Collect(p) PROVE SweepInv'
<1> USE DEF SweepInv
<1> DEFINE sc == scan[p]
           found == {j \in sc.pos .. sc.node_hi + sc.slot_hi - 1 : IsCand(j, sc)}
           chunk == {j \in found : Cardinality({i \in found : i <= j}) <= SweepChunk}
           first == Least(chunk)
<1>u. UNCHANGED <<nodes, sweep_ns, now, alive, lives, mine>> /\ p \in alive /\ pc[p] = "collect"
  BY DEF Collect
<1>1. CASE chunk = {}
  <2>1. Finish(p)
    BY <1>1 DEF Collect
  <2>2. QED
    BY <1>u, <2>1, FinishInv
<1>2. CASE chunk # {}
  <2>1. /\ cands' = [cands EXCEPT ![p] = [j \in chunk |-> Cand(j, sc)]]
        /\ rest' = [rest EXCEPT ![p] = chunk]
        /\ ask' = [ask EXCEPT ![p] = PidsOf(Cand(first, sc))]
        /\ scan' = [scan EXCEPT ![p].pos = ScanEnd(sc, found, chunk)]
        /\ pc' = [pc EXCEPT ![p] = "probe"]
        /\ lock' = IF mode[p] = "auto" THEN NoPid ELSE p
        /\ UNCHANGED <<table, held, mode, dead, cache, freed>>
    BY <1>2 DEF Collect
  <2>2. /\ sc.pos \in Nat /\ sc.node_hi \in Nat /\ sc.slot_hi \in Nat
        /\ sc.node_hi <= NodeCount /\ sc.slot_hi <= SlotCount
    BY DEF SweeperPart, SweeperTypes, ScanOK
  <2>3. \A j \in chunk : /\ j \in Nat /\ j < sc.node_hi + sc.slot_hi /\ IsCand(j, sc)
                         /\ j <= sc.node_hi + sc.slot_hi
    BY <2>2
  <2> DEFINE new == [j \in chunk |-> Cand(j, sc)]
             end == ScanEnd(sc, found, chunk)
             top == CHOOSE j \in chunk : \A i \in chunk : i <= j
  <2>4. \A j \in chunk : IsCandidate(Cand(j, sc))
    BY <2>3, CandType
  <2>5. chunk \in SUBSET Nat /\ \A j \in chunk : j <= sc.node_hi + sc.slot_hi
    BY <2>3
  <2>6. sc.node_hi + sc.slot_hi \in Nat
    BY <2>2
  <2>6a. end = (IF Cardinality(found) >= SweepChunk THEN 1 + top ELSE sc.node_hi + sc.slot_hi)
    BY DEF ScanEnd
  <2>6b. scan' = [scan EXCEPT ![p].pos = end] /\ scan \in [Pids -> [node_hi : Nat, slot_hi : Nat, pos : Nat]]
    BY <2>1 DEF SweeperPart, SweeperTypes
  <2> HIDE DEF chunk, sc
  <2>7. first \in chunk
    BY <1>2, <2>5, LeastIn
  <2>8. end \in Nat
    <3>1. \E j \in chunk : \A i \in chunk : i <= j
      BY <1>2, <2>5, <2>6, GreatestExists
    <3>2. top \in chunk
      BY <3>1
    <3>3. top \in Nat
      BY <3>2, <2>5
    <3> HIDE DEF top, end
    <3>4. 1 + top \in Nat
      BY <3>3
    <3>5. QED
      BY <2>6, <2>6a, <3>4
  <2> HIDE DEF end
  <2>9. IsCandidate(Cand(first, sc))
    BY <2>4, <2>7
  <2>10. /\ PidsOf(Cand(first, sc)) \in Seq(Pids) /\ PidsOf(Cand(first, sc)) # <<>>
         /\ \A q \in Pids : Names(Cand(first, sc), q)
               => \E i \in 1 .. Len(PidsOf(Cand(first, sc))) : PidsOf(Cand(first, sc))[i] = q
    BY <2>9, PidsOfCand DEF IsCandidate
  <2>11. /\ pc'[p] = "probe" /\ cands'[p] = new /\ rest'[p] = chunk
         /\ ask'[p] = PidsOf(Cand(first, sc)) /\ dead'[p] = {} /\ cache'[p] = cache[p]
         /\ mode'[p] = mode[p] /\ freed'[p] = freed[p]
    BY <1>u, <2>1 DEF SweeperPart, SweeperTypes, ChunkOK, Probing
  <2>12. scan'[p].node_hi = scan[p].node_hi /\ scan'[p].slot_hi = scan[p].slot_hi
         /\ scan' \in [Pids -> [node_hi : Nat, slot_hi : Nat, pos : Nat]]
    BY <2>6b, <2>8
  <2>13. SweeperTypes'
    <3>1. pc' \in [Pids -> {"idle", "claim", "collect", "probe", "reap"}] /\ mode' \in [Pids -> Modes]
      BY <2>1 DEF SweeperPart, SweeperTypes
    <3>2. rest' \in [Pids -> SUBSET Nat] /\ ask' \in [Pids -> Seq(Pids)] /\ DOMAIN cands' = Pids
      BY <2>1, <2>5, <2>10 DEF SweeperPart, SweeperTypes
    <3>3. QED
      BY <2>1, <2>12, <3>1, <3>2 DEF SweeperPart, SweeperTypes
  <2>14. \A q \in Pids \ {p} : Keeps(q)
    BY <2>1 DEF Keeps, SweeperPart, SweeperTypes
  <2>15. ChunkOK(p)'
    <3>1. DOMAIN new = chunk /\ \A j \in chunk : IsCandidate(new[j])
      BY <2>4
    <3> HIDE DEF new
    <3>2. /\ DOMAIN cands'[p] \subseteq Nat /\ \A j \in DOMAIN cands'[p] : IsCandidate(cands'[p][j])
          /\ rest'[p] \cup dead'[p] \subseteq DOMAIN cands'[p]
      BY <2>5, <2>11, <3>1
    <3>3. rest'[p] # {} /\ ask'[p] # <<>> /\ pc'[p] = "probe"
      BY <1>2, <2>10, <2>11
    <3>4. QED
      BY <3>2, <3>3 DEF ChunkOK, Probing
  <2>16. ScanOK(p)' /\ CacheOK(p)'
    BY <1>u, <2>11, <2>12 DEF SweeperPart, ScanOK, CacheOK
  <2>17. VerdictOK(p)'
    <3>1. cands'[p][Least(rest'[p])] = Cand(first, sc)
      BY <2>7, <2>11
    <3>2. alive' \subseteq Pids
      BY <1>u DEF PeoplePart
    <3>3. QED
      BY <2>10, <2>11, <3>1, <3>2 DEF VerdictOK, Asked
  <2>18. SweeperPart'
    BY <1>u, <2>13, <2>14, <2>15, <2>16, <2>17, OtherSweep DEF SweeperPart, SweepOK
  <2>19. LockPart'
    <3>1. LockOK(p) /\ lock = p
      BY <1>u DEF LockPart, LockOK
    <3>2. LockOK(p)'
      BY <1>u, <2>1, <2>11, <3>1 DEF LockOK, Probing, FreeSlots, table
    <3>3. QED
      BY <1>u, <2>14, <3>1, <3>2, OtherLock DEF LockPart
  <2>20. TablePart' /\ NodePart' /\ ClockPart' /\ PeoplePart'
    <3>1. ClockPart'
      BY <1>u, <2>1 DEF ClockPart
    <3>2. QED
      BY <1>u, <2>1, <3>1, TableFrame, NodeFrame, PeopleFrame DEF nodes, people
  <2>21. QED
    BY <2>18, <2>19, <2>20
<1>3. QED
  BY <1>1, <1>2

\* A remembered death is a death: the pid is not given out again.
LEMMA VerdictDead ==
    ASSUME SweeperPart, NEW p \in Pids, NEW q \in Pids, ~Verdict(p, q)
    PROVE  q \notin alive
<1>1. CASE Cached(p, q) # {}
  <2>1. cache[p] \in Seq(Verdicts) /\ Len(cache[p]) \in Nat
    BY LenProperties DEF SweeperPart, SweeperTypes
  <2>2. Cached(p, q) \in SUBSET Nat
    BY <2>1 DEF Cached
  <2> DEFINE i == Least(Cached(p, q))
  <2>3. i \in Cached(p, q)
    BY <1>1, <2>2, LeastIn
  <2>4. ~cache[p][i].alive
    BY <1>1 DEF Verdict
  <2> HIDE DEF i
  <2>5. i \in 1 .. Len(cache[p]) /\ cache[p][i].pid = q
    BY <2>3 DEF Cached
  <2>6. QED
    BY <2>4, <2>5 DEF SweeperPart, CacheOK
<1>2. CASE Cached(p, q) = {}
  BY <1>2 DEF Verdict
<1>3. QED
  BY <1>1, <1>2

\* PidCache::alive: the ring stays within its bound, and what is new in it is
\* the truth about q.
LEMMA RememberOK ==
    ASSUME SweeperPart, NEW p \in Pids, NEW q \in Pids
    PROVE  LET new == Remember(p, q)
           IN  /\ new \in Seq(Verdicts) /\ Len(new) <= CacheSize
               /\ \A i \in 1 .. Len(new) : new[i].alive \/ new[i].pid \notin alive
               /\ \A i \in 1 .. Len(new) : \/ new[i] = [pid |-> q, alive |-> q \in alive]
                                            \/ \E k \in 1 .. Len(cache[p]) : new[i] = cache[p][k]
<1> DEFINE c == cache[p]
           e == [pid |-> q, alive |-> q \in alive]
           From(d, i) == d[i] = e \/ \E k \in 1 .. Len(c) : d[i] = c[k]
           Good(d) == d \in Seq(Verdicts) /\ \A i \in 1 .. Len(d) : From(d, i)
<1>1. /\ Good(c) /\ Len(c) \in Nat /\ Len(c) <= CacheSize /\ CacheSize \in Nat /\ CacheSize > 0
      /\ \A i \in 1 .. Len(c) : c[i].alive \/ c[i].pid \notin alive
  BY LenProperties, SMTT(30) DEF SweeperPart, SweeperTypes, CacheOK
<1>2. e \in Verdicts /\ (e.alive \/ e.pid \notin alive)
  <2>1. CASE q \in alive
    <3>1. e = [pid |-> q, alive |-> TRUE]
      BY <2>1
    <3>2. QED
      BY <3>1 DEF Verdicts
  <2>2. CASE q \notin alive
    <3>0. (q \in alive) = FALSE
      BY <2>2
    <3>1. e = [pid |-> q, alive |-> FALSE]
      BY <3>0
    <3>2. QED
      BY <2>2, <3>1 DEF Verdicts
  <2>3. QED
    BY <2>1, <2>2
<1> HIDE DEF c, e
<1>3. ASSUME NEW d, Good(d) PROVE Good(Append(d, e)) /\ Len(Append(d, e)) = Len(d) + 1 /\ Len(d) \in Nat
  <2>1. /\ Append(d, e) \in Seq(Verdicts) /\ Len(Append(d, e)) = Len(d) + 1 /\ Len(d) \in Nat
        /\ \A i \in 1 .. Len(d) : Append(d, e)[i] = d[i]
        /\ Append(d, e)[Len(d) + 1] = e
    BY <1>2, <1>3, AppendProperties, LenProperties
  <2>2. ASSUME NEW i \in 1 .. Len(Append(d, e))
        PROVE  From(Append(d, e), i)
    <3>1. i \in 1 .. Len(d) \/ i = Len(d) + 1
      BY <2>1
    <3>2. QED
      BY <1>2, <1>3, <2>1, <3>1
  <2>3. QED
    BY <2>1, <2>2
<1>4. ASSUME NEW d, Good(d) PROVE \A i \in 1 .. Len(d) : d[i].alive \/ d[i].pid \notin alive
  BY <1>1, <1>2, <1>4
<1>5. ASSUME Cached(p, q) # {} PROVE Good(Remember(p, q)) /\ Len(Remember(p, q)) <= CacheSize
  <2>1. Remember(p, q) = c
    BY <1>5 DEF Remember, c
  <2>2. QED
    BY <1>1, <2>1
<1>6. ASSUME Cached(p, q) = {} /\ Len(c) < CacheSize
      PROVE  Good(Remember(p, q)) /\ Len(Remember(p, q)) <= CacheSize
  <2>1. Remember(p, q) = Append(c, e)
    BY <1>1, <1>6, SMTT(30) DEF Remember, c, e
  <2>2. Good(Append(c, e)) /\ Len(Append(c, e)) = Len(c) + 1
    BY <1>1, <1>3
  <2>3. Len(Append(c, e)) <= CacheSize
    BY <1>1, <1>6, <2>2
  <2>4. QED
    BY <2>1, <2>2, <2>3
<1>7. ASSUME Cached(p, q) = {} /\ Len(c) >= CacheSize
      PROVE  Good(Remember(p, q)) /\ Len(Remember(p, q)) <= CacheSize
  <2>1. Remember(p, q) = Append(Tail(c), e)
    BY <1>1, <1>7 DEF Remember, c, e
  <2>2. c # <<>>
    BY <1>1, <1>7, EmptySeq
  <2>3. Tail(c) \in Seq(Verdicts) /\ Len(Tail(c)) = Len(c) - 1
        /\ \A i \in 1 .. Len(Tail(c)) : Tail(c)[i] = c[i + 1]
    BY <1>1, <2>2, HeadTailProperties
  <2>4. Good(Tail(c))
    <3>1. ASSUME NEW i \in 1 .. Len(Tail(c)) PROVE From(Tail(c), i)
      <4>1. i + 1 \in 1 .. Len(c)
        BY <1>1, <2>3
      <4>2. QED
        BY <1>1, <2>3, <4>1
    <3>2. QED
      BY <2>3, <3>1
  <2>5. Good(Append(Tail(c), e)) /\ Len(Append(Tail(c), e)) = Len(Tail(c)) + 1
    BY <1>3, <2>4
  <2>6. Len(Append(Tail(c), e)) <= CacheSize
    <3>1. Len(c) \in Nat /\ Len(c) <= CacheSize /\ CacheSize \in Nat
      BY <1>1
    <3>2. Len(Append(Tail(c), e)) = Len(c) - 1 + 1
      BY <2>3, <2>5
    <3>3. QED
      BY <3>1, <3>2
  <2>7. QED
    BY <2>1, <2>5, <2>6
<1>8. Good(Remember(p, q)) /\ Len(Remember(p, q)) <= CacheSize
  BY <1>1, <1>5, <1>6, <1>7
<1>9. QED
  BY <1>4, <1>8 DEF c, e

LEMMA LongerNotEmpty == ASSUME NEW s \in Seq(Pids), Len(s) > 0 PROVE s # <<>>
  BY EmptySeq

LEMMA OneLeft ==
    ASSUME NEW s \in Seq(Pids), s # <<>>, ~(Len(s) > 1), NEW i \in 1 .. Len(s)
    PROVE  i = 1
<1>1. Len(s) \in Nat \ {0}
  BY EmptySeq
<1>2. QED
  BY <1>1

LEMMA InTail ==
    ASSUME NEW s \in Seq(Pids), s # <<>>, NEW i \in 1 .. Len(s), i # 1
    PROVE  \E k \in 1 .. Len(Tail(s)) : Tail(s)[k] = s[i]
<1>1. Len(s) \in Nat /\ Len(Tail(s)) = Len(s) - 1 /\ \A k \in 1 .. Len(Tail(s)) : Tail(s)[k] = s[k + 1]
  BY HeadTailProperties, LenProperties
<1>2. i - 1 \in 1 .. Len(s) - 1 /\ (i - 1) + 1 = i
  BY <1>1
<1>3. QED
  BY <1>1, <1>2

LEMMA ProbeInv == ASSUME SweepInv, NEW p \in Pids, Probe(p) PROVE SweepInv'
<1> USE DEF SweepInv
<1> DEFINE q == Head(ask[p])
           up == Verdict(p, q)
           j == Least(rest[p])
           others == rest[p] \ {j}
           c == cands[p][j]
<1>u. /\ UNCHANGED <<table, nodes, sweep_ns, lock, now, people, mode, scan, cands, freed>>
      /\ p \in alive /\ pc[p] = "probe" /\ cache' = [cache EXCEPT ![p] = Remember(p, q)]
  BY DEF Probe
<1>1. /\ ask[p] \in Seq(Pids) /\ ask[p] # <<>> /\ rest[p] \in SUBSET Nat /\ rest[p] # {}
      /\ rest[p] \cup dead[p] \subseteq DOMAIN cands[p] /\ DOMAIN cands[p] \subseteq Nat
      /\ \A i \in DOMAIN cands[p] : IsCandidate(cands[p][i])
  BY <1>u DEF SweeperPart, SweeperTypes, ChunkOK
<1>2. /\ q \in Pids /\ q = ask[p][1] /\ Tail(ask[p]) \in Seq(Pids) /\ Len(Tail(ask[p])) = Len(ask[p]) - 1
      /\ \A i \in 1 .. Len(Tail(ask[p])) : Tail(ask[p])[i] = ask[p][i + 1]
      /\ Len(ask[p]) \in Nat /\ Len(ask[p]) > 0
  BY <1>1, HeadTailProperties, LenProperties, EmptySeq
<1>2a. q \in Pids /\ q = ask[p][1]
  BY <1>2
<1>3. j \in rest[p]
  BY <1>1, LeastIn
<1>4. \A r \in alive : Names(c, r) => Asked(p, r)
  BY <1>u DEF SweeperPart, VerdictOK
<1>5. ~up => q \notin alive
  BY <1>2, VerdictDead
<1>6. /\ cache' \in [Pids -> Seq(Verdicts)] /\ Len(cache'[p]) <= CacheSize
      /\ \A i \in 1 .. Len(cache'[p]) : cache'[p][i].alive \/ cache'[p][i].pid \notin alive
  <2> DEFINE new == Remember(p, q)
  <2>1. /\ new \in Seq(Verdicts) /\ Len(new) <= CacheSize
        /\ \A i \in 1 .. Len(new) : new[i].alive \/ new[i].pid \notin alive
    BY <1>2, RememberOK
  <2>2. cache \in [Pids -> Seq(Verdicts)] /\ cache' = [cache EXCEPT ![p] = new]
    BY <1>u DEF SweeperPart, SweeperTypes
  <2> HIDE DEF new
  <2>3. QED
    BY <2>1, <2>2
<1>7. TablePart' /\ NodePart' /\ ClockPart' /\ PeoplePart'
  BY <1>u, TableFrame, NodeFrame, PeopleFrame DEF ClockPart, nodes
<1>8. CacheOK(p)' /\ ScanOK(p)' /\ alive' = alive
  BY <1>u, <1>6 DEF CacheOK, ScanOK, SweeperPart, people
<1> HIDE DEF q, up, j, others
<1>9. CASE ~up /\ MoreToAsk(p)
  <2>0. q \notin alive /\ MoreToAsk(p)
    BY <1>5, <1>9
  <2>1. ask' = [ask EXCEPT ![p] = Tail(ask[p])] /\ UNCHANGED <<rest, dead, pc>>
    BY <1>9 DEF Probe, up, q
  <2>2. SweeperTypes'
    BY <1>u, <1>2, <1>6, <2>1 DEF SweeperPart, SweeperTypes
  <2>3. \A r \in Pids \ {p} : Keeps(r)
    BY <1>u, <2>1 DEF Keeps, SweeperPart, SweeperTypes
  <2>4. ask'[p] = Tail(ask[p]) /\ rest'[p] = rest[p] /\ dead'[p] = dead[p] /\ cands'[p] = cands[p]
        /\ pc'[p] = "probe"
    BY <1>u, <2>1 DEF SweeperPart, SweeperTypes
  <2>5. Tail(ask[p]) # <<>>
    <3>1. Len(Tail(ask[p])) > 0
      BY <1>2, <2>0 DEF MoreToAsk
    <3>2. QED
      BY <1>2, <3>1, LongerNotEmpty
  <2>6. ChunkOK(p)'
    BY <1>u, <2>4, <2>5 DEF SweeperPart, ChunkOK, Probing
  <2>7. VerdictOK(p)'
    <3>1. ASSUME NEW r \in alive, Asked(p, r) PROVE Asked(p, r)'
      <4>1. PICK i \in 1 .. Len(ask[p]) : ask[p][i] = r
        BY <3>1 DEF Asked
      <4>2. i # 1
        BY <1>2a, <2>0, <4>1
      <4>3. \E k \in 1 .. Len(Tail(ask[p])) : Tail(ask[p])[k] = r
        BY <1>1, <4>1, <4>2, InTail
      <4>4. QED
        BY <2>4, <4>3 DEF Asked
    <3>2. QED
      BY <1>u, <1>8, <2>4, <3>1 DEF SweeperPart, VerdictOK, AllDead
  <2>8. SweeperPart'
    BY <1>8, <2>2, <2>3, <2>6, <2>7, OtherSweep DEF SweeperPart, SweepOK
  <2>9. LockPart'
    BY <1>u, <2>1 DEF LockPart, LockOK, Probing, FreeSlots, table, people
  <2>10. QED
    BY <1>7, <2>8, <2>9
<1>10. CASE ~(~up /\ MoreToAsk(p))
  <2> DEFINE nask == IF others = {} THEN <<>> ELSE PidsOf(cands[p][Least(others)])
             npc == IF others = {} THEN "reap" ELSE "probe"
             ndead == IF up THEN dead[p] ELSE dead[p] \cup {j}
  <2>1. /\ dead' = [dead EXCEPT ![p] = ndead]
        /\ rest' = [rest EXCEPT ![p] = others]
        /\ ask' = [ask EXCEPT ![p] = nask]
        /\ pc' = [pc EXCEPT ![p] = npc]
    BY <1>10 DEF Probe, up, q, others, j
  <2>2. others \in SUBSET Nat /\ others \subseteq rest[p]
    BY <1>1 DEF others
  <2>3. others # {} => Least(others) \in others
    BY <2>2, LeastIn
  <2>4. ndead \in SUBSET Nat /\ ndead \subseteq DOMAIN cands[p]
    BY <1>1, <1>3
  <2>5. others # {} => IsCandidate(cands[p][Least(others)])
    BY <1>1, <2>2, <2>3
  <2>6. /\ nask \in Seq(Pids) /\ (others # {} => nask # <<>>)
        /\ others # {} => \A r \in Pids : Names(cands[p][Least(others)], r)
                                           => \E i \in 1 .. Len(nask) : nask[i] = r
    BY <2>5, PidsOfCand, EmptySeq DEF IsCandidate
  <2>7. \A i \in ndead : AllDead(cands[p][i])
    <3>1. \A i \in dead[p] : AllDead(cands[p][i])
      BY DEF SweeperPart, VerdictOK
    <3>2. CASE up
      BY <3>1, <3>2
    <3>3. CASE ~up
      <4>1. ~MoreToAsk(p) /\ q \notin alive
        BY <1>5, <1>10, <3>3
      <4>2. ASSUME NEW r \in alive PROVE ~Asked(p, r)
        <5>1. ~(Len(ask[p]) > 1)
          BY <4>1 DEF MoreToAsk
        <5>2. \A i \in 1 .. Len(ask[p]) : i = 1
          BY <1>1, <5>1, OneLeft
        <5>3. QED
          BY <1>2a, <4>1, <5>2 DEF Asked
      <4>3. AllDead(c)
        BY <1>4, <4>2 DEF AllDead
      <4>4. QED
        BY <3>1, <3>3, <4>3
    <3>4. QED
      BY <3>2, <3>3
  <2>8. ask'[p] = nask /\ rest'[p] = others /\ dead'[p] = ndead /\ cands'[p] = cands[p] /\ pc'[p] = npc
    BY <1>u, <2>1 DEF SweeperPart, SweeperTypes
  <2>9. (npc = "reap" /\ others = {}) \/ (npc = "probe" /\ others # {})
    <3>1. CASE others = {}
      BY <3>1
    <3>2. CASE others # {}
      BY <3>2
    <3>3. QED
      BY <3>1, <3>2
  <2> HIDE DEF nask, npc, ndead
  <2>10. SweeperTypes'
    <3>1. npc \in {"idle", "claim", "collect", "probe", "reap"}
      BY <2>9
    <3>2. QED
      BY <1>u, <1>6, <2>1, <2>2, <2>4, <2>6, <3>1 DEF SweeperPart, SweeperTypes
  <2>11. \A r \in Pids \ {p} : Keeps(r)
    BY <1>u, <2>1 DEF Keeps, SweeperPart, SweeperTypes
  <2>12. ChunkOK(p)'
    <3>1. others \cup ndead \subseteq DOMAIN cands[p]
      BY <1>1, <2>2, <2>4
    <3>2. QED
      BY <1>1, <2>6, <2>8, <2>9, <3>1 DEF ChunkOK, Probing
  <2>13. VerdictOK(p)'
    <3>1. \A i \in ndead : \A r \in alive' : ~Names(cands[p][i], r)
      BY <1>8, <2>7 DEF AllDead
    <3>2. ASSUME pc'[p] = "probe", NEW r \in alive, Names(cands[p][Least(others)], r) PROVE Asked(p, r)'
      <4>1. others # {} /\ r \in Pids
        BY <2>8, <2>9, <3>2 DEF PeoplePart
      <4>2. QED
        BY <2>6, <2>8, <3>2, <4>1 DEF Asked
    <3>3. QED
      BY <1>8, <2>8, <3>1, <3>2 DEF VerdictOK, AllDead
  <2>14. SweeperPart'
    BY <1>8, <2>10, <2>11, <2>12, <2>13, OtherSweep DEF SweeperPart, SweepOK
  <2>15. ASSUME NEW r \in Pids PROVE LockOK(r)'
    <3>1. LockOK(r) /\ LockOK(p)
      BY DEF LockPart
    <3>2. CASE r = p
      BY <1>u, <2>8, <2>9, <3>1, <3>2 DEF LockOK, Probing, FreeSlots, table, people
    <3>3. CASE r # p
      BY <1>u, <2>11, <3>1, <3>3 DEF Keeps, LockOK, Probing, FreeSlots, table, people
    <3>4. QED
      BY <3>2, <3>3
  <2>16. QED
    BY <1>7, <2>14, <2>15 DEF LockPart
<1>11. QED
  BY <1>9, <1>10

\* The slots and nodes that a reap frees, and what it knows of them: they are
\* what they were when all who use them were found dead.
Gone(p)  == {cands[p][j] : j \in dead[p]}
NodesOf(p) == {c.index : c \in {c \in Gone(p) : c.node /\ SameNode(c)}}
SlotsOf(p) == {c.index : c \in {c \in Gone(p) : ~c.node /\ SameSlot(c)}}

LEMMA ReapedAreDead ==
    ASSUME SweepInv, NEW p \in Pids
    PROVE  /\ SlotsOf(p) \subseteq Slots
           /\ \A k \in NodesOf(p) : node[k].pid \notin alive
           /\ \A s \in SlotsOf(p), q \in alive : ~Knows(s, q)
<1> USE DEF SweepInv
<1>0. /\ \A j \in DOMAIN cands[p] : IsCandidate(cands[p][j])
      /\ dead[p] \subseteq DOMAIN cands[p] /\ \A j \in dead[p] : AllDead(cands[p][j])
  BY DEF SweeperPart, ChunkOK, VerdictOK
<1>1. \A c \in Gone(p) : IsCandidate(c) /\ AllDead(c)
  BY <1>0 DEF Gone
<1>2. \A s \in SlotsOf(p) : \E c \in Gone(p) : s = c.index /\ ~c.node /\ SameSlot(c)
  BY DEF SlotsOf
<1>3. \A k \in NodesOf(p) : \E c \in Gone(p) : k = c.index /\ c.node /\ SameNode(c)
  BY DEF NodesOf
<1>4. SlotsOf(p) \subseteq Slots
  BY <1>1, <1>2 DEF IsCandidate
<1>5. ASSUME NEW k \in NodesOf(p) PROVE node[k].pid \notin alive
  <2>1. PICK c \in Gone(p) : k = c.index /\ SameNode(c)
    BY <1>3
  <2>2. QED
    BY <1>1, <2>1 DEF SameNode, AllDead, Names
<1>6. ASSUME NEW s \in SlotsOf(p), NEW q \in alive PROVE ~Knows(s, q)
  <2>1. PICK c \in Gone(p) : s = c.index /\ SameSlot(c)
    BY <1>2
  <2>2. ~slot[s].over /\ slot[s].pid = c.pid /\ slot[s].holders = c.holders
    BY <2>1 DEF SameSlot
  <2>3. ~Names(c, q)
    BY <1>1 DEF AllDead
  <2>4. QED
    BY <2>2, <2>3 DEF Knows, Names
<1>7. QED
  BY <1>4, <1>5, <1>6

LEMMA ReapStep ==
    ASSUME NEW p \in Pids, Reap(p)
    PROVE  /\ node' = [k \in NodeIds |-> IF k \in NodesOf(p) THEN FreeNode ELSE Woken(SlotsOf(p))[k]]
           /\ slot' = [s \in Slots |-> IF s \in SlotsOf(p) THEN SlotFreed(slot[s]) ELSE slot[s]]
           /\ freed' = [freed EXCEPT ![p] = @ \/ SlotsOf(p) # {}]
           /\ p \in alive /\ pc[p] = "reap" /\ lock \in {p, NoPid}
           /\ lock' = p /\ pc' = [pc EXCEPT ![p] = "collect"]
           /\ cands' = [cands EXCEPT ![p] = NoCands] /\ dead' = [dead EXCEPT ![p] = {}]
           /\ UNCHANGED <<cursor, wrapped, fresh, sweep_ns, now, people, mode, scan, rest, ask, cache>>
  BY DEF Reap, NodesOf, SlotsOf, Gone

LEMMA ReapInv == ASSUME SweepInv, NEW p \in Pids, Reap(p) PROVE SweepInv'
<1> USE DEF SweepInv
<1>1. TablePart'
  <2>1. \A s \in Slots : slot[s] \in SlotRecord /\ Len(slot[s].holders) <= MaxHolders
    BY DEF TablePart
  <2>2. \A s \in Slots : SlotFreed(slot[s]) \in SlotRecord /\ Len(SlotFreed(slot[s]).holders) <= MaxHolders
    BY <2>1, SlotFreedType
  <2>3. slot' \in [Slots -> SlotRecord] /\ \A s \in Slots : Len(slot'[s].holders) <= MaxHolders
    BY <2>1, <2>2, ReapStep
  <2>4. cursor' = cursor /\ wrapped' = wrapped
    BY ReapStep
  <2>5. QED
    BY <2>3, <2>4 DEF TablePart
<1>2. FreeNode \in NodeRecord /\ ~FreeNode.own /\ FreeNode.on = NIL
  BY DEF FreeNode, NodeRecord
<1>3. /\ fresh' = fresh /\ alive' = alive /\ mine' = mine
      /\ \A k \in NodeIds : node'[k] = IF k \in NodesOf(p) THEN FreeNode ELSE Woken(SlotsOf(p))[k]
  BY ReapStep DEF people
<1>4. /\ Woken(SlotsOf(p)) \in [NodeIds -> NodeRecord]
      /\ \A k \in NodeIds : /\ Woken(SlotsOf(p))[k].own = node[k].own
                            /\ Woken(SlotsOf(p))[k].pid = node[k].pid
                            /\ Woken(SlotsOf(p))[k].on \in {node[k].on, NIL}
  BY WokenType
<1>5. NodePart'
  <2>1. node' \in [NodeIds -> NodeRecord]
    BY <1>2, <1>4, ReapStep
  <2>2. \A k \in NodeIds : NodeOK(k)'
    BY <1>2, <1>3, <1>4 DEF NodePart, NodeOK
  <2>3. QED
    BY <1>3, <2>1, <2>2 DEF NodePart
<1>6. PeoplePart'
  <2>1. ASSUME NEW q \in alive PROVE MineOK(q)'
    <3>1. \A k \in mine[q] : k \in NodeIds /\ k \notin NodesOf(p) /\ node[k].own /\ node[k].pid = q
      BY ReapedAreDead DEF PeoplePart, MineOK
    <3>2. QED
      BY <1>3, <1>4, <3>1 DEF MineOK
  <2>2. QED
    BY <1>3, <2>1, ReapStep DEF PeoplePart, people
<1>7. ClockPart'
  BY ReapStep DEF ClockPart
<1>8. /\ pc'[p] = "collect" /\ cands'[p] = NoCands /\ dead'[p] = {} /\ rest'[p] = {}
      /\ cache'[p] = cache[p] /\ scan'[p] = scan[p] /\ mode'[p] = mode[p]
  BY ReapStep DEF SweeperPart, SweeperTypes, ChunkOK
<1>9. \A q \in Pids \ {p} : Keeps(q)
  BY ReapStep DEF Keeps, SweeperPart, SweeperTypes
<1>10. freed' \in [Pids -> BOOLEAN] /\ (freed'[p] => freed[p] \/ SlotsOf(p) # {})
  <2> DEFINE b == freed[p] \/ SlotsOf(p) # {}
  <2>1. b \in BOOLEAN /\ freed \in [Pids -> BOOLEAN] /\ freed' = [freed EXCEPT ![p] = b]
    BY ReapStep DEF SweeperPart, SweeperTypes
  <2> HIDE DEF b
  <2>2. freed' \in [Pids -> BOOLEAN] /\ freed'[p] = b
    BY <2>1
  <2>3. QED
    BY <2>2 DEF b
<1>11. SweeperTypes'
  BY <1>10, ReapStep DEF SweeperPart, SweeperTypes
<1>12. SweepOK(p)'
  <2>1. DOMAIN NoCands = {}
    BY DEF NoCands
  <2>2. ChunkOK(p)'
    BY <1>8, <2>1 DEF ChunkOK, Probing
  <2>3. ScanOK(p)' /\ CacheOK(p)' /\ VerdictOK(p)'
    BY <1>3, <1>8 DEF SweeperPart, ScanOK, CacheOK, VerdictOK
  <2>4. QED
    BY <2>2, <2>3 DEF SweepOK
<1>13. SweeperPart'
  BY <1>3, <1>9, <1>11, <1>12, OtherSweep DEF SweeperPart, SweepOK
<1>14. FreeSlots # {} \/ SlotsOf(p) # {} => FreeSlots' # {}
  <2>1. ASSUME NEW s \in Slots, s \in SlotsOf(p) PROVE ~slot'[s].used
    <3>1. slot'[s] = SlotFreed(slot[s]) /\ slot[s] \in SlotRecord
      BY <2>1, ReapStep DEF TablePart
    <3>2. QED
      BY <3>1, SlotFreedType
  <2>2. \A s \in Slots \ SlotsOf(p) : slot'[s] = slot[s]
    BY ReapStep
  <2>3. QED
    BY <2>1, <2>2, ReapedAreDead DEF FreeSlots
<1>15. LockOK(p)'
  <2>1. LockOK(p) /\ lock' = p /\ p \in alive'
    BY <1>3, ReapStep DEF LockPart
  <2>2. mode[p] # "none"
    BY <2>1, ReapStep DEF LockOK
  <2>3. QED
    BY <1>8, <1>10, <1>14, <2>1, <2>2 DEF LockOK, Probing
<1>16. LockPart'
  BY <1>3, <1>9, <1>15, ReapStep, OtherLock DEF LockPart
<1>17. QED
  BY <1>1, <1>5, <1>6, <1>7, <1>13, <1>16

LEMMA DieInv == ASSUME SweepInv, NEW p \in Pids, Die(p) PROVE SweepInv'
<1> USE DEF SweepInv
<1>u. /\ alive' = alive \ {p}
      /\ held' = [held EXCEPT ![p] = {}] /\ mine' = [mine EXCEPT ![p] = {}]
      /\ lock' = (IF lock = p THEN NoPid ELSE lock)
      /\ pc' = [pc EXCEPT ![p] = "idle"]
      /\ mode' = [mode EXCEPT ![p] = "none"]
      /\ scan' = [scan EXCEPT ![p] = NoScan] /\ cands' = [cands EXCEPT ![p] = NoCands]
      /\ rest' = [rest EXCEPT ![p] = {}] /\ ask' = [ask EXCEPT ![p] = <<>>]
      /\ dead' = [dead EXCEPT ![p] = {}] /\ cache' = [cache EXCEPT ![p] = <<>>]
      /\ freed' = [freed EXCEPT ![p] = FALSE]
      /\ UNCHANGED <<table, nodes, sweep_ns, now, lives>>
  BY DEF Die
<1>1. TablePart' /\ NodePart' /\ ClockPart'
  BY <1>u, TableFrame, NodeFrame DEF ClockPart
<1>2. PeoplePart'
  BY <1>u DEF PeoplePart, MineOK, nodes
<1>3. SweeperTypes'
  BY <1>u, EmptySeq DEF SweeperPart, SweeperTypes, NoScan, Modes
<1>4. \A q \in Pids \ {p} : Keeps(q)
  BY <1>u DEF Keeps, SweeperPart, SweeperTypes
<1>5. /\ pc'[p] = "idle" /\ mode'[p] = "none" /\ scan'[p] = NoScan /\ cands'[p] = NoCands
      /\ rest'[p] = {} /\ dead'[p] = {} /\ cache'[p] = <<>> /\ freed'[p] = FALSE
  BY <1>u DEF SweeperPart, SweeperTypes
<1>6. SweepOK(p)'
  <2>1. DOMAIN NoCands = {}
    BY DEF NoCands
  <2>2. ChunkOK(p)'
    BY <1>5, <2>1 DEF ChunkOK, Probing
  <2>3. ScanOK(p)' /\ CacheOK(p)'
    BY <1>5, EmptySeq DEF ScanOK, CacheOK, NoScan
  <2>4. VerdictOK(p)'
    BY <1>5 DEF VerdictOK
  <2>5. QED
    BY <2>2, <2>3, <2>4 DEF SweepOK
<1>7. SweeperPart'
  BY <1>u, <1>3, <1>4, <1>6, OtherSweep DEF SweeperPart, SweepOK
<1>8. ASSUME NEW q \in Pids PROVE LockOK(q)'
  <2>1. LockOK(q)
    BY DEF LockPart
  <2>2. CASE q = p
    BY <1>5, <2>2 DEF LockOK, Probing
  <2>3. CASE q # p
    BY <1>u, <1>4, <2>1, <2>3 DEF LockOK, Probing, Keeps, FreeSlots, table
  <2>4. QED
    BY <2>2, <2>3
<1>9. QED
  BY <1>1, <1>2, <1>7, <1>8 DEF LockPart

LEMMA NeverReborn == ASSUME SweepInv, MaxLives = 1, NEW p \in Pids PROVE ~Reborn(p)
  BY DEF SweepInv, PeoplePart, Reborn

LEMMA TickInv == ASSUME SweepInv, Tick PROVE SweepInv'
<1> USE DEF SweepInv
<1>1. UNCHANGED <<table, nodes, sweep_ns, lock, people, pc, sweeper>> /\ now' = now + 1
  BY DEF Tick
<1>2. TablePart' /\ NodePart' /\ ClockPart' /\ PeoplePart' /\ SweeperPart' /\ LockPart'
  BY <1>1, TableFrame, NodeFrame, PeopleFrame, SweeperFrame, LockFrame DEF ClockPart, nodes, people, table
<1>3. QED
  BY <1>2

LEMMA StutterInv == ASSUME SweepInv, UNCHANGED vars PROVE SweepInv'
<1> USE DEF SweepInv
<1>1. UNCHANGED <<table, nodes, sweep_ns, lock, now, people, pc, sweeper>>
  BY DEF vars
<1>2. TablePart' /\ NodePart' /\ ClockPart' /\ PeoplePart' /\ SweeperPart' /\ LockPart'
  BY <1>1, TableFrame, NodeFrame, PeopleFrame, SweeperFrame, LockFrame DEF ClockPart, nodes, people, table
<1>3. QED
  BY <1>2

LEMMA SweepInvInit == Init => SweepInv
<1> SUFFICES ASSUME Init PROVE SweepInv
  OBVIOUS
<1>1. TablePart
  <2>0. EmptySlot \in SlotRecord /\ EmptySlot.holders = <<>>
    <3>1. <<>> \in Seq(Pids) /\ 0 \in Nat
      BY EmptySeq
    <3>2. QED
      BY <3>1 DEF EmptySlot, SlotRecord
  <2>1. ASSUME NEW s \in Slots PROVE slot[s] \in SlotRecord /\ slot[s].holders = <<>>
    <3>1. slot[s] = [EmptySlot EXCEPT !.used = s = 0]
      BY DEF Init
    <3>2. CASE s = 0
      <4>1. slot[s] = [EmptySlot EXCEPT !.used = TRUE]
        BY <3>1, <3>2
      <4>2. QED
        BY <2>0, <4>1 DEF SlotRecord
    <3>3. CASE s # 0
      <4>0. (s = 0) = FALSE
        BY <3>3
      <4>1. slot[s] = [EmptySlot EXCEPT !.used = FALSE]
        BY <3>1, <4>0
      <4>2. QED
        BY <2>0, <4>1 DEF SlotRecord
    <3>4. QED
      BY <3>2, <3>3
  <2>2. \A s \in Slots : Len(slot[s].holders) <= MaxHolders
    <3>1. Len(<<>>) <= MaxHolders
      BY EmptySeq
    <3>2. QED
      BY <2>1, <3>1
  <2>3. slot \in [Slots -> SlotRecord]
    <3>1. DOMAIN slot = Slots /\ slot = [s \in Slots |-> slot[s]]
      BY DEF Init
    <3>2. QED
      BY <2>1, <3>1
  <2>4. cursor \in Slots /\ wrapped \in BOOLEAN
    <3>1. cursor = 0 /\ wrapped \in BOOLEAN
      BY DEF Init
    <3>2. cursor \in Slots
      BY <3>1 DEF Slots
    <3>3. QED
      BY <3>1, <3>2
  <2>5. QED
    BY <2>2, <2>3, <2>4 DEF TablePart
<1>2. NodePart
  BY DEF Init, NodePart, NodeOK, FreeNode, NodeRecord
<1>3. ClockPart /\ PeoplePart
  BY DEF Init, ClockPart, PeoplePart, MineOK
<1>4. LockPart
  BY DEF Init, LockPart, LockOK, Probing
<1>5. SweeperPart
  <2>1. SweeperTypes
    BY EmptySeq DEF Init, SweeperTypes, NoScan, Modes
  <2>2. \A p \in Pids : ChunkOK(p)
    BY DEF Init, ChunkOK, Probing, NoCands
  <2>3. \A p \in Pids : ScanOK(p) /\ CacheOK(p) /\ VerdictOK(p)
    BY EmptySeq DEF Init, ScanOK, CacheOK, VerdictOK, NoScan
  <2>4. QED
    BY <2>1, <2>2, <2>3 DEF SweeperPart
<1>6. QED
  BY <1>1, <1>2, <1>3, <1>4, <1>5 DEF SweepInv

LEMMA SweepInvStep == ASSUME MaxLives = 1, SweepInv, [Next]_vars PROVE SweepInv'
<1>1. ASSUME NEW p \in Pids, Use(p) PROVE SweepInv'
  BY <1>1, CreateInv, RetainInv, ReleaseInv, CloseInv, NodeAllocInv, NodeRegisterInv, SignalInv,
     CleanupInv DEF Use
<1>2. ASSUME NEW p \in Pids, SweepStep(p) PROVE SweepInv'
  BY <1>2, CollectInv, ProbeInv, ReapInv DEF SweepStep
<1>3. ASSUME NEW p \in Pids, sweep_dead(p) \/ AutoCheck(p) \/ AutoClaim(p) PROVE SweepInv'
  BY <1>3, SweepDeadInv, AutoCheckInv, AutoClaimInv
<1>4. ASSUME NEW p \in Pids, Die(p) \/ Reborn(p) PROVE SweepInv'
  BY <1>4, DieInv, NeverReborn
<1>5. QED
  BY <1>1, <1>2, <1>3, <1>4, TickInv, StutterInv DEF Next

-----------------------------------------------------------------------------
(* The theorems. *)

LEMMA SweepInvAlways == ASSUME MaxLives = 1 PROVE Spec => []SweepInv
<1>1. SweepInv /\ [Next]_vars => SweepInv'
  BY SweepInvStep
<1>2. QED
  BY <1>1, SweepInvInit, PTL DEF Spec

\* What the region keeps for its owners and what the sweepers keep for
\* themselves is well-formed: no holder list or pid cache outgrows its array,
\* and a verdict is about a candidate of the chunk.
THEOREM SweepTypeOK == MaxLives = 1 => (Spec => []TypeOK)
<1> SUFFICES ASSUME MaxLives = 1 PROVE Spec => []TypeOK
  OBVIOUS
<1>1. SweepInv => TypeOK
  <2> SUFFICES ASSUME SweepInv PROVE TypeOK
    OBVIOUS
  <2>1. \A p \in Pids : rest[p] \cup dead[p] \subseteq DOMAIN cands[p] /\ Len(cache[p]) <= CacheSize
    BY DEF SweepInv, SweeperPart, ChunkOK, CacheOK
  <2>2. QED
    BY <2>1 DEF SweepInv, TypeOK, TablePart, NodePart, ClockPart, PeoplePart, SweeperPart, SweeperTypes
<1>2. QED
  BY <1>1, SweepInvAlways, PTL

\* reap_dead_locked frees no node of a living waiter, though the lock was
\* dropped between the snapshot and the reap, and two living waiters never
\* share one: waiter_cleanup gives back what is its own.
THEOREM NodesStayWithTheLiving == MaxLives = 1 => (Spec => []NodesKept)
<1> SUFFICES ASSUME MaxLives = 1 PROVE Spec => []NodesKept
  OBVIOUS
<1>1. SweepInv => NodesKept
  BY DEF SweepInv, PeoplePart, MineOK, NodesKept
<1>2. QED
  BY <1>1, SweepInvAlways, PTL

-----------------------------------------------------------------------------
(* What the living hold still resolves. *)

LEMMA HandleParts ==
    ASSUME NEW h \in [idx : Slots, gen : Nat], NEW g \in [idx : Slots, gen : Nat],
           h.idx = g.idx, h.gen = g.gen
    PROVE  h = g
  OBVIOUS

LEMMA HeldTypes ==
    ASSUME SweepInv, NEW p \in alive, NEW h \in held[p]
    PROVE  h \in [idx : Slots, gen : Nat] /\ h.idx \in Slots /\ p \in Pids
  BY DEF SweepInv, PeoplePart

LEMMA HeldRetain ==
    ASSUME SweepInv, HeldInv, NEW p \in Pids, retain(p) PROVE HeldInv'
<1> PICK h \in Known : /\ slot' = [slot EXCEPT ![h.idx] = holder_add(slot[h.idx], p)]
                       /\ held' = [held EXCEPT ![p] = @ \cup {h}]
  BY DEF retain
<1> DEFINE sl == slot[h.idx]
           new == holder_add(sl, p)
<1>1. /\ h.idx \in Slots /\ Resolves(h) /\ sl \in SlotRecord /\ Len(sl.holders) <= MaxHolders
      /\ slot \in [Slots -> SlotRecord] /\ held \in [Pids -> SUBSET [idx : Slots, gen : Nat]]
  BY KnownType DEF SweepInv, TablePart, PeoplePart
<1>2. /\ new.used = sl.used /\ new.gen = sl.gen /\ (sl.over => new.over) /\ (new.over \/ Names(new, p))
      /\ \A q \in Pids : Names(sl, q) => Names(new, q)
  BY <1>1, AddHolder
<1> HIDE DEF new
<1>3. slot' = [slot EXCEPT ![h.idx] = new] /\ alive' = alive
  BY DEF retain, new
<1>4. ASSUME NEW q \in alive, NEW g \in held'[q] PROVE (Resolves(g) /\ Knows(g.idx, q))'
  <2>0. q \in Pids
    BY DEF SweepInv, PeoplePart
  <2>1. g \in held[q] \/ (q = p /\ g = h)
    BY <1>1, <2>0
  <2>2. CASE g \in held[q]
    <3>1. Resolves(g) /\ Knows(g.idx, q) /\ g.idx \in Slots
      BY <2>2, HeldTypes DEF HeldInv, HeldOK
    <3>2. CASE g.idx = h.idx
      <4>1. slot'[g.idx] = new
        BY <1>1, <1>3, <3>2
      <4>2. QED
        BY <1>2, <2>0, <3>1, <3>2, <4>1 DEF Resolves, Knows
    <3>3. CASE g.idx # h.idx
      <4>1. slot'[g.idx] = slot[g.idx]
        BY <1>1, <1>3, <3>1, <3>3
      <4>2. QED
        BY <3>1, <4>1 DEF Resolves, Knows
    <3>4. QED
      BY <3>2, <3>3
  <2>3. CASE q = p /\ g = h
    <3>1. slot'[g.idx] = new
      BY <1>1, <1>3, <2>3
    <3>2. QED
      BY <1>1, <1>2, <2>3, <3>1 DEF Resolves, Knows
  <2>4. QED
    BY <2>1, <2>2, <2>3
<1>5. QED
  BY <1>3, <1>4 DEF HeldInv, HeldOK

LEMMA HeldRelease ==
    ASSUME SweepInv, HeldInv, NEW p \in Pids, release(p) PROVE HeldInv'
<1> PICK h \in Known : /\ slot' = [slot EXCEPT ![h.idx] = holder_remove(slot[h.idx], p)]
                       /\ held' = [held EXCEPT ![p] = @ \ {h}]
  BY DEF release
<1> DEFINE sl == slot[h.idx]
           new == holder_remove(sl, p)
<1>1. /\ h.idx \in Slots /\ Resolves(h) /\ sl \in SlotRecord /\ Len(sl.holders) <= MaxHolders
      /\ slot \in [Slots -> SlotRecord] /\ held \in [Pids -> SUBSET [idx : Slots, gen : Nat]]
      /\ h \in [idx : Slots, gen : Nat]
  BY KnownType DEF SweepInv, TablePart, PeoplePart
<1>2. /\ new.used = sl.used /\ new.gen = sl.gen /\ new.over = sl.over
      /\ \A q \in Pids \ {p} : Names(sl, q) => Names(new, q)
  BY <1>1, RemoveHolder
<1> HIDE DEF new
<1>3. slot' = [slot EXCEPT ![h.idx] = new] /\ alive' = alive
  BY DEF release, new
<1>4. ASSUME NEW q \in alive, NEW g \in held'[q] PROVE (Resolves(g) /\ Knows(g.idx, q))'
  <2>0. q \in Pids
    BY DEF SweepInv, PeoplePart
  <2>1. g \in held[q] /\ (q = p => g # h)
    BY <1>1, <2>0
  <2>2. Resolves(g) /\ Knows(g.idx, q) /\ g.idx \in Slots /\ g \in [idx : Slots, gen : Nat]
    BY <2>1, HeldTypes DEF HeldInv, HeldOK
  <2>3. CASE g.idx = h.idx
    <3>1. slot'[g.idx] = new
      BY <1>1, <1>3, <2>3
    <3>2. g = h
      BY <1>1, <2>2, <2>3, HandleParts DEF Resolves
    <3>3. q # p
      BY <2>1, <3>2
    <3>4. QED
      BY <1>2, <2>0, <2>2, <2>3, <3>1, <3>3 DEF Resolves, Knows
  <2>4. CASE g.idx # h.idx
    <3>1. slot'[g.idx] = slot[g.idx]
      BY <1>1, <1>3, <2>2, <2>4
    <3>2. QED
      BY <2>2, <3>1 DEF Resolves, Knows
  <2>5. QED
    BY <2>3, <2>4
<1>5. QED
  BY <1>3, <1>4 DEF HeldInv, HeldOK

LEMMA HeldClose ==
    ASSUME SweepInv, HeldInv, NEW p \in Pids, close(p) PROVE HeldInv'
<1> PICK h \in Known :
      /\ slot' = [slot EXCEPT ![h.idx] = SlotFreed(holder_remove(slot[h.idx], p))]
      /\ held' = [q \in Pids |-> held[q] \ {h}]
  BY DEF close
<1>1. /\ h.idx \in Slots /\ Resolves(h) /\ slot \in [Slots -> SlotRecord]
      /\ h \in [idx : Slots, gen : Nat] /\ alive' = alive
  BY KnownType DEF SweepInv, TablePart, close
<1>2. ASSUME NEW q \in alive, NEW g \in held'[q] PROVE (Resolves(g) /\ Knows(g.idx, q))'
  <2>0. q \in Pids
    BY DEF SweepInv, PeoplePart
  <2>1. g \in held[q] /\ g # h
    BY <2>0
  <2>2. Resolves(g) /\ Knows(g.idx, q) /\ g.idx \in Slots /\ g \in [idx : Slots, gen : Nat]
    BY <2>1, HeldTypes DEF HeldInv, HeldOK
  <2>3. g.idx # h.idx
    BY <1>1, <2>1, <2>2, HandleParts DEF Resolves
  <2>4. slot'[g.idx] = slot[g.idx]
    BY <1>1, <2>2, <2>3
  <2>5. QED
    BY <2>2, <2>4 DEF Resolves, Knows
<1>3. QED
  BY <1>1, <1>2 DEF HeldInv, HeldOK

\* A slot is handed out under the generation it has, if that fits a handle.
LEMMA HeldAlloc ==
    ASSUME SweepInv, HeldInv, GenFits, NEW p \in Pids, FreeSlots # {}, Alloc(p), alive' = alive
    PROVE  HeldInv'
<1> DEFINE s == NextFree
           h == Handle(s, slot[s].gen % GenMod)
           new == [used |-> TRUE, gen |-> slot[s].gen, pid |-> p, holders |-> <<>>, over |-> FALSE]
<1>1. /\ s \in Slots /\ slot[s] \in SlotRecord /\ slot[s].gen \in Nat /\ ~slot[s].used
      /\ slot \in [Slots -> SlotRecord] /\ held \in [Pids -> SUBSET [idx : Slots, gen : Nat]]
      /\ slot[s].gen < GenMod
  BY NextFreeIn DEF FreeSlots, SweepInv, TablePart, SlotRecord, PeoplePart, GenFits
<1>2. slot' = [slot EXCEPT ![s] = new] /\ held' = [held EXCEPT ![p] = @ \cup {h}]
  BY DEF Alloc
<1> HIDE DEF s
<1>3. h.idx = s /\ h.gen = slot[s].gen
  <2>1. slot[s].gen % GenMod = slot[s].gen
    BY <1>1
  <2>2. QED
    BY <2>1 DEF Handle
<1>4. slot'[s] = new /\ new.used /\ new.gen = slot[s].gen /\ Names(new, p)
  BY <1>1, <1>2 DEF Names
<1> HIDE DEF h, new
<1>5. ASSUME NEW q \in alive, NEW g \in held'[q] PROVE (Resolves(g) /\ Knows(g.idx, q))'
  <2>0. q \in Pids
    BY DEF SweepInv, PeoplePart
  <2>1. g \in held[q] \/ (q = p /\ g = h)
    BY <1>1, <1>2, <2>0
  <2>2. CASE g \in held[q]
    <3>1. Resolves(g) /\ Knows(g.idx, q) /\ g.idx \in Slots
      BY <2>2, HeldTypes DEF HeldInv, HeldOK
    <3>2. g.idx # s
      BY <1>1, <3>1 DEF Resolves
    <3>3. slot'[g.idx] = slot[g.idx]
      BY <1>1, <1>2, <3>1, <3>2
    <3>4. QED
      BY <3>1, <3>3 DEF Resolves, Knows
  <2>3. CASE q = p /\ g = h
    BY <1>3, <1>4, <2>3 DEF Resolves, Knows
  <2>4. QED
    BY <2>1, <2>2, <2>3
<1>6. QED
  BY <1>5 DEF HeldInv, HeldOK

\* An object that is reaped is known to nobody who lives.
LEMMA HeldReap ==
    ASSUME SweepInv, HeldInv, NEW p \in Pids, Reap(p) PROVE HeldInv'
<1>1. /\ slot' = [s \in Slots |-> IF s \in SlotsOf(p) THEN SlotFreed(slot[s]) ELSE slot[s]]
      /\ alive' = alive /\ held' = held
  BY ReapStep DEF people
<1>2. ASSUME NEW q \in alive, NEW g \in held[q] PROVE (Resolves(g) /\ Knows(g.idx, q))'
  <2>1. Resolves(g) /\ Knows(g.idx, q) /\ g.idx \in Slots
    BY HeldTypes DEF HeldInv, HeldOK
  <2>2. g.idx \notin SlotsOf(p)
    BY <2>1, ReapedAreDead
  <2>3. slot'[g.idx] = slot[g.idx]
    BY <1>1, <2>1, <2>2
  <2>4. QED
    BY <2>1, <2>3 DEF Resolves, Knows
<1>3. QED
  BY <1>1, <1>2 DEF HeldInv, HeldOK

LEMMA HeldFrame ==
    ASSUME SweepInv, HeldInv, UNCHANGED slot, alive' \subseteq alive, \A q \in alive' : held'[q] = held[q]
    PROVE  HeldInv'
  BY DEF HeldInv, HeldOK, Resolves, Knows

LEMMA HeldInvInit == Init => HeldInv
  BY DEF Init, HeldInv, HeldOK

LEMMA HeldInvStep == ASSUME MaxLives = 1, SweepInv, HeldInv, GenFits, [Next]_vars PROVE HeldInv'
<1>1. ASSUME NEW p \in Pids, create(p) PROVE HeldInv'
  <2>1. alive' = alive /\ (FreeSlots # {} => Alloc(p)) /\ (FreeSlots = {} => UNCHANGED <<slot, held>>)
    BY <1>1 DEF create, table
  <2>2. QED
    BY <2>1, HeldAlloc, HeldFrame
<1>2. ASSUME NEW p \in Pids, Collect(p) PROVE HeldInv'
  <2>1. alive' = alive /\ pc[p] = "collect"
    BY <1>2 DEF Collect
  <2>2. UNCHANGED <<slot, held>> \/ (mode[p] = "create" /\ freed[p] /\ Alloc(p))
    BY <1>2 DEF Collect, Finish, table
  <2>3. mode[p] = "create" /\ freed[p] => FreeSlots # {}
    BY DEF SweepInv, LockPart, LockOK
  <2>4. QED
    BY <2>1, <2>2, <2>3, HeldAlloc, HeldFrame
<1>3. ASSUME NEW p \in Pids, Die(p) PROVE HeldInv'
  <2>1. alive' = alive \ {p} /\ slot' = slot /\ held' = [held EXCEPT ![p] = {}]
    BY <1>3 DEF Die, table
  <2>2. \A q \in alive' : held'[q] = held[q]
    BY <2>1 DEF SweepInv, PeoplePart
  <2>3. QED
    BY <2>1, <2>2, HeldFrame
<1>4. ASSUME NEW p \in Pids,
             \/ NodeAlloc(p) \/ NodeRegister(p) \/ Signal(p) \/ waiter_cleanup(p)
             \/ sweep_dead(p) \/ AutoCheck(p) \/ AutoClaim(p) \/ Probe(p)
      PROVE  HeldInv'
  <2>1. UNCHANGED <<slot, alive, held>>
    BY <1>4 DEF NodeAlloc, NodeRegister, Signal, waiter_cleanup, sweep_dead, AutoCheck, AutoClaim, Probe,
                table, people
  <2>2. QED
    BY <2>1, HeldFrame
<1>5. ASSUME Tick \/ UNCHANGED vars PROVE HeldInv'
  <2>1. UNCHANGED <<slot, alive, held>>
    BY <1>5 DEF Tick, vars, table, people
  <2>2. QED
    BY <2>1, HeldFrame
<1>6. QED
  BY <1>1, <1>2, <1>3, <1>4, <1>5, HeldRetain, HeldRelease, HeldClose, HeldReap, NeverReborn
     DEF Next, Use, SweepStep

\* What a living process created or retained, and nobody closed, still
\* resolves: a sweep reaps an object only when its creator and every holder
\* are dead, whatever happened while it had dropped the lock.  The generation
\* of a slot must fit the bits a handle has for it.
THEOREM LivingKeepTheirObjects ==
    MaxLives = 1 => (Spec /\ []GenFits => []HeldResolves)
<1> SUFFICES ASSUME MaxLives = 1 PROVE Spec /\ []GenFits => []HeldResolves
  OBVIOUS
<1>1. SweepInv /\ HeldInv /\ GenFits /\ [Next]_vars => HeldInv'
  BY HeldInvStep
<1>2. HeldInv => HeldResolves
  BY DEF HeldInv, HeldOK, HeldResolves
<1>3. QED
  BY <1>1, <1>2, HeldInvInit, SweepInvAlways, PTL DEF Spec


-----------------------------------------------------------------------------
(* One auto-sweep per interval. *)

Pcs == {"idle", "claim", "collect", "probe", "reap"}

\* sweep_ns is never behind the beginning of the last auto-sweep.
ClaimInv == /\ sweep_ns \in Nat /\ now \in Nat /\ began \in Int /\ began <= sweep_ns
            /\ pc \in [Pids -> Pcs]

\* A step of p, and which of its steps lead from the claim into a sweep.
LEMMA ClaimStep ==
    ASSUME NEW p \in Pids, pc \in [Pids -> Pcs],
           \/ Use(p) \/ sweep_dead(p) \/ AutoCheck(p) \/ AutoClaim(p)
           \/ SweepStep(p) \/ Die(p) \/ Reborn(p)
    PROVE  /\ now' = now
           /\ pc' = pc \/ \E l \in Pcs : pc' = [pc EXCEPT ![p] = l]
           /\ \/ Due /\ sweep_ns' = now /\ pc[p] = "claim" /\ pc' = [pc EXCEPT ![p] = "collect"]
              \/ sweep_ns' = sweep_ns /\ ~(pc[p] = "claim" /\ pc'[p] = "collect")
<1> USE DEF Pcs
<1>1. CASE AutoClaim(p)
  BY <1>1 DEF AutoClaim, Start
<1>2. CASE Collect(p)
  BY <1>2 DEF Collect, Finish, Forget
<1>3. CASE Probe(p)
  <2>1. now' = now /\ sweep_ns' = sweep_ns /\ pc[p] = "probe"
        /\ (pc' = pc \/ pc' = [pc EXCEPT ![p] = "reap"] \/ pc' = [pc EXCEPT ![p] = "probe"])
    BY <1>3 DEF Probe
  <2>2. QED
    BY <2>1
<1>4. CASE Reap(p) \/ Die(p) \/ Reborn(p) \/ AutoCheck(p) \/ sweep_dead(p)
  BY <1>4 DEF Reap, Die, Reborn, AutoCheck, sweep_dead, Start, Runs
<1>5. CASE create(p)
  BY <1>5 DEF create, Start, Runs
<1>6. CASE \/ retain(p) \/ release(p) \/ close(p) \/ NodeAlloc(p) \/ NodeRegister(p)
           \/ Signal(p) \/ waiter_cleanup(p)
  BY <1>6 DEF retain, release, close, NodeAlloc, NodeRegister, Signal, waiter_cleanup, Runs
<1>7. QED
  BY <1>1, <1>2, <1>3, <1>4, <1>5, <1>6 DEF Use, SweepStep

\* The process that begins an auto-sweep saw the interval over, and leaves the
\* time of its claim.
LEMMA ClaimBegins ==
    ASSUME ClaimInv, Next, NEW p \in Pids, Begins(p), pc[p] = "claim"
    PROVE  Due /\ sweep_ns' = now /\ now' = now /\ pc' \in [Pids -> Pcs]
<1>1. pc'[p] = "collect" /\ pc' # pc
  BY DEF Begins
<1>2. ~Tick
  BY <1>1 DEF Tick
<1>3. PICK q \in Pids : \/ Use(q) \/ sweep_dead(q) \/ AutoCheck(q) \/ AutoClaim(q)
                        \/ SweepStep(q) \/ Die(q) \/ Reborn(q)
  BY <1>2 DEF Next
<1>4. PICK l \in Pcs : pc' = [pc EXCEPT ![q] = l]
  BY <1>1, <1>3, ClaimStep DEF ClaimInv
<1>5. q = p
  BY <1>1, <1>4 DEF ClaimInv
<1>6. QED
  BY <1>1, <1>3, <1>4, <1>5, ClaimStep DEF ClaimInv

LEMMA ClaimInvStep == ASSUME ClaimInv, [HNext]_hvars PROVE ClaimInv'
<1>1. CASE UNCHANGED hvars
  BY <1>1 DEF hvars, vars, ClaimInv
<1>2. CASE HNext /\ \E p \in Pids : Begins(p) /\ pc[p] = "claim"
  <2>1. Next /\ began' = now
    BY <1>2 DEF HNext
  <2>2. sweep_ns' = now /\ now' = now /\ pc' \in [Pids -> Pcs]
    BY <1>2, <2>1, ClaimBegins
  <2>3. QED
    BY <2>1, <2>2 DEF ClaimInv
<1>3. CASE HNext /\ ~\E p \in Pids : Begins(p) /\ pc[p] = "claim"
  <2>1. Next /\ began' = began
    BY <1>3 DEF HNext
  <2>2. CASE Tick
    BY <2>1, <2>2 DEF Tick, ClaimInv
  <2>3. ASSUME NEW p \in Pids, \/ Use(p) \/ sweep_dead(p) \/ AutoCheck(p) \/ AutoClaim(p)
                               \/ SweepStep(p) \/ Die(p) \/ Reborn(p)
        PROVE  ClaimInv'
    <3>1. pc' \in [Pids -> Pcs] /\ now' = now
      BY <2>3, ClaimStep DEF ClaimInv
    <3>2. sweep_ns' = sweep_ns \/ (Due /\ sweep_ns' = now)
      BY <2>3, ClaimStep DEF ClaimInv
    <3>3. QED
      BY <2>1, <3>1, <3>2 DEF ClaimInv, Due
  <2>4. QED
    BY <2>1, <2>2, <2>3 DEF Next
<1>4. QED
  BY <1>1, <1>2, <1>3

\* auto_sweep_dead looks at the interval again under the lock: however many
\* processes saw it over, between the beginnings of two auto-sweeps lies an
\* interval, whatever pids die and are given out again.
THEOREM OneSweepPerInterval == HSpec => OnePassPerInterval
<1>1. HInit => ClaimInv
  BY DEF HInit, Init, ClaimInv, Pcs
<1>2. ClaimInv /\ [HNext]_hvars => ClaimInv'
  BY ClaimInvStep
<1>3. ClaimInv /\ [HNext]_hvars
        => [\A p \in Pids : Begins(p) /\ pc[p] = "claim" => now - began >= Interval]_hvars
  <2> SUFFICES ASSUME ClaimInv, HNext, NEW p \in Pids, Begins(p), pc[p] = "claim"
               PROVE  now - began >= Interval
    OBVIOUS
  <2>1. now - sweep_ns >= Interval
    BY ClaimBegins DEF HNext, Due
  <2>2. QED
    BY <2>1 DEF ClaimInv
<1>4. QED
  BY <1>1, <1>2, <1>3, PTL DEF HSpec, OnePassPerInterval

-----------------------------------------------------------------------------
(* A sweep is complete. *)

Snapshot(s) == [node |-> FALSE, index |-> s, pid |-> slot[s].pid, gen |-> slot[s].gen,
                holders |-> slot[s].holders, over |-> slot[s].over]

\* Where p's scan meets slot s.
Pos(p, s) == scan[p].node_hi + s

InChunk(p, j) == j \in rest[p] \cup dead[p]

\* An object that is dead ever since p's sweep began is still to be scanned, or
\* is a candidate of the chunk; then it is what it was when it was collected.
\* No remembered verdict shields it.
DoomOK(p, s) ==
    /\ s \in Doomed /\ ~Idle(p)
    /\ s < scan[p].slot_hi
    /\ Pos(p, s) >= scan[p].pos \/ InChunk(p, Pos(p, s))
    /\ InChunk(p, Pos(p, s)) => cands[p][Pos(p, s)] = Snapshot(s)
    /\ \A i \in 1 .. Len(cache[p]) : cache[p][i].alive => ~Names(slot[s], cache[p][i].pid)

\* Only pids of the candidate are asked.
AskOK(p) ==
    pc[p] = "probe" => \A i \in 1 .. Len(ask[p]) : Names(cands[p][Least(rest[p])], ask[p][i])

\* A sweep begins with nothing remembered.
FreshOK(p) == Idle(p) => cache[p] = <<>>

\* Up to slot_hi lies everything that was ever handed out.
HighOK ==
    /\ slot[0].used /\ slot[0].pid = NoPid
    /\ \A s \in Slots \ {0} : slot[s].used /\ ~wrapped => s < cursor

SweepsWell(p) == FreshOK(p) /\ AskOK(p) /\ \A s \in doomed[p] : DoomOK(p, s)

DoomInv == HighOK /\ \A p \in Pids : SweepsWell(p)

LEMMA DoomedParts ==
    ASSUME NEW s \in Doomed
    PROVE  /\ s \in Slots /\ slot[s].used /\ slot[s].pid # NoPid /\ ~slot[s].over
           /\ \A q \in alive : ~Names(slot[s], q)
  BY DEF Doomed, Names

\* What changes a slot: alloc_slot a free one, retain, release and close one
\* that is used, a reap the ones it frees.
LEMMA SlotSteps ==
    ASSUME SweepInv, [Next]_vars
    PROVE  \/ UNCHANGED table
           \/ \E p \in Pids : alive' = alive /\ FreeSlots # {} /\ Alloc(p)
           \/ /\ UNCHANGED <<cursor, wrapped, alive>>
              /\ \E p \in alive : retain(p) \/ release(p) \/ close(p) \/ Reap(p)
<1>1. ASSUME NEW p \in Pids, create(p)
      PROVE  UNCHANGED table \/ (alive' = alive /\ FreeSlots # {} /\ Alloc(p))
  BY <1>1 DEF create
<1>2. ASSUME NEW p \in Pids, Collect(p)
      PROVE  UNCHANGED table \/ (alive' = alive /\ FreeSlots # {} /\ Alloc(p))
  <2>1. alive' = alive /\ (UNCHANGED table \/ (mode[p] = "create" /\ freed[p] /\ Alloc(p)))
    BY <1>2 DEF Collect, Finish
  <2>2. mode[p] = "create" /\ freed[p] => FreeSlots # {}
    BY DEF SweepInv, LockPart, LockOK
  <2>3. QED
    BY <2>1, <2>2
<1>3. ASSUME NEW p \in Pids,
             \/ NodeAlloc(p) \/ NodeRegister(p) \/ Signal(p) \/ waiter_cleanup(p) \/ Reborn(p)
             \/ sweep_dead(p) \/ AutoCheck(p) \/ AutoClaim(p) \/ Probe(p) \/ Die(p)
      PROVE  UNCHANGED table
  BY <1>3 DEF NodeAlloc, NodeRegister, Signal, waiter_cleanup, sweep_dead, AutoCheck, AutoClaim, Probe,
              Die, Reborn
<1>4. ASSUME NEW p \in Pids, retain(p) \/ release(p) \/ close(p) \/ Reap(p)
      PROVE  UNCHANGED <<cursor, wrapped, alive>> /\ p \in alive
  BY <1>4 DEF retain, release, close, Reap, Runs, people
<1>5. ASSUME Tick \/ UNCHANGED vars PROVE UNCHANGED table
  BY <1>5 DEF Tick, vars
<1>6. QED
  BY <1>1, <1>2, <1>3, <1>4, <1>5 DEF Next, Use, SweepStep

\* An object that stays dead stays what it is: whoever picks it up is alive.
LEMMA DoomedStays ==
    ASSUME SweepInv, [Next]_vars, NEW s \in Doomed, s \in Doomed'
    PROVE  slot'[s] = slot[s]
<1>0. /\ s \in Slots /\ slot \in [Slots -> SlotRecord] /\ slot[s] \in SlotRecord
      /\ Len(slot[s].holders) <= MaxHolders /\ cursor \in Slots
  BY DoomedParts DEF SweepInv, TablePart
<1>1. /\ slot[s].used /\ slot'[s].used /\ ~slot'[s].over
      /\ \A q \in alive : ~Names(slot[s], q)
      /\ \A q \in alive' : ~Names(slot'[s], q)
  BY DEF Doomed, Names
<1>2. ASSUME NEW p \in Pids, FreeSlots # {}, Alloc(p) PROVE slot'[s] = slot[s]
  <2>1. NextFree # s
    BY <1>0, <1>1, <1>2, NextFreeIn DEF FreeSlots
  <2>2. QED
    BY <1>0, <1>2, <2>1 DEF Alloc
<1>3. ASSUME NEW p \in alive, retain(p), alive' = alive PROVE slot'[s] = slot[s]
  <2>1. PICK h \in Known : slot' = [slot EXCEPT ![h.idx] = holder_add(slot[h.idx], p)]
    BY <1>3 DEF retain
  <2>2. CASE h.idx = s
    <3>1. slot'[s] = holder_add(slot[s], p)
      BY <1>0, <2>1, <2>2
    <3>2. p \in Pids
      BY DEF SweepInv, PeoplePart
    <3>3. holder_add(slot[s], p).over \/ Names(holder_add(slot[s], p), p)
      BY <1>0, <3>2, AddHolder
    <3>4. QED
      BY <1>1, <1>3, <3>1, <3>3
  <2>3. QED
    BY <1>0, <2>1, <2>2
<1>4. ASSUME NEW p \in alive, release(p) PROVE slot'[s] = slot[s]
  <2>1. PICK h \in Known : slot' = [slot EXCEPT ![h.idx] = holder_remove(slot[h.idx], p)]
    BY <1>4 DEF release
  <2>2. ~Names(slot[s], p)
    BY <1>1
  <2>3. holder_remove(slot[s], p) = slot[s]
    BY <2>2 DEF holder_remove, Names
  <2>4. QED
    BY <1>0, <2>1, <2>3
<1>5. ASSUME NEW p \in alive, close(p) PROVE slot'[s] = slot[s]
  <2>1. PICK h \in Known : slot' = [slot EXCEPT ![h.idx] = SlotFreed(holder_remove(slot[h.idx], p))]
    BY <1>5 DEF close
  <2>2. CASE h.idx = s
    <3>1. slot'[s] = SlotFreed(holder_remove(slot[s], p)) /\ p \in Pids
      BY <1>0, <2>1, <2>2 DEF SweepInv, PeoplePart
    <3>2. holder_remove(slot[s], p) \in SlotRecord
      BY <1>0, <3>1, RemoveHolder
    <3>3. ~slot'[s].used
      BY <3>1, <3>2, SlotFreedType
    <3>4. QED
      BY <1>1, <3>3
  <2>3. QED
    BY <1>0, <2>1, <2>2
<1>6. ASSUME NEW p \in alive, Reap(p) PROVE slot'[s] = slot[s]
  <2>1. p \in Pids
    BY DEF SweepInv, PeoplePart
  <2>2. slot'[s] = IF s \in SlotsOf(p) THEN SlotFreed(slot[s]) ELSE slot[s]
    BY <1>0, <1>6, <2>1, ReapStep
  <2>3. ~SlotFreed(slot[s]).used
    BY <1>0, SlotFreedType
  <2>4. QED
    BY <1>1, <2>2, <2>3
<1>7. QED
  BY <1>2, <1>3, <1>4, <1>5, <1>6, SlotSteps DEF table

LEMMA SameModulo ==
    ASSUME NEW n \in Nat \ {0}, NEW a \in 0 .. n - 1, NEW b \in 0 .. n - 1, (a - b) % n = 0
    PROVE  a = b
<1>1. a - b \in Int /\ -n < a - b /\ a - b < n
  OBVIOUS
<1>2. CASE a - b >= 0
  <2>1. (a - b) % n = a - b
    BY <1>1, <1>2
  <2>2. QED
    BY <2>1
<1>3. CASE a - b < 0
  <2>1. (a - b) % n = a - b + n
    BY <1>1, <1>3
  <2>2. QED
    BY <1>1, <2>1
<1>4. QED
  BY <1>1, <1>2, <1>3

\* As long as the cursor has not come round, it is the first slot that was
\* never handed out.
LEMMA HighStep == ASSUME SweepInv, HighOK, [Next]_vars PROVE HighOK'
<1>0. /\ slot \in [Slots -> SlotRecord] /\ cursor \in Slots /\ 0 \in Slots /\ wrapped \in BOOLEAN
      /\ \A s \in Slots : slot[s] \in SlotRecord /\ Len(slot[s].holders) <= MaxHolders
      /\ alive \subseteq Pids
  BY DEF SweepInv, TablePart, PeoplePart, Slots
<1>1. CASE UNCHANGED table
  BY <1>1 DEF HighOK, table
<1>2. ASSUME NEW p \in Pids, FreeSlots # {}, Alloc(p) PROVE HighOK'
  <2> DEFINE n == NextFree
             next == (n + 1) % SlotCount
  <2>1. n \in Slots /\ ~slot[n].used /\ n # 0
    BY <1>0, <1>2, NextFreeIn DEF FreeSlots, HighOK
  <2>2. \A s \in Slots \ {n} : slot'[s] = slot[s]
    BY <1>0, <1>2, <2>1 DEF Alloc
  <2>3. cursor' = next /\ wrapped' = (wrapped \/ next = 0)
    BY <1>2 DEF Alloc, Wraps
  <2>4. ~wrapped => cursor <= n
    <3>1. CASE cursor = 0
      BY <2>1, <3>1 DEF Slots
    <3>2. CASE cursor # 0 /\ ~wrapped
      <4>1. cursor \in FreeSlots
        BY <1>0, <3>2 DEF HighOK, FreeSlots, Slots
      <4>3. (n - cursor) % SlotCount <= (cursor - cursor) % SlotCount
        BY <1>0, <4>1, NextFreeIn
      <4> HIDE DEF n
      <4>4. (cursor - cursor) % SlotCount = 0 /\ (n - cursor) % SlotCount \in Nat
        BY <1>0, <2>1 DEF Slots
      <4>5. (n - cursor) % SlotCount = 0
        BY <4>3, <4>4
      <4>6. n = cursor
        BY <1>0, <2>1, <4>5, SameModulo DEF Slots
      <4>7. QED
        BY <1>0, <4>6 DEF Slots
    <3>3. QED
      BY <1>0, <3>1, <3>2
  <2> HIDE DEF n
  <2>5. next = 0 \/ next = n + 1
    <3>1. CASE n + 1 < SlotCount
      BY <2>1, <3>1 DEF Slots
    <3>2. CASE n + 1 = SlotCount
      BY <2>1, <3>2 DEF Slots
    <3>3. QED
      BY <2>1, <3>1, <3>2 DEF Slots
  <2> HIDE DEF next
  <2>6. ASSUME NEW s \in Slots \ {0}, slot'[s].used, ~wrapped' PROVE s < cursor'
    <3>1. ~wrapped /\ cursor' = n + 1 /\ cursor <= n
      BY <2>3, <2>4, <2>5, <2>6
    <3>2. CASE s = n
      BY <2>1, <3>1, <3>2 DEF Slots
    <3>3. CASE s # n
      <4>1. s < cursor
        BY <2>2, <2>6, <3>1, <3>3 DEF HighOK
      <4>2. QED
        BY <1>0, <2>1, <3>1, <4>1 DEF Slots
    <3>4. QED
      BY <3>2, <3>3
  <2>7. QED
    BY <1>0, <2>1, <2>2, <2>6 DEF HighOK
<1>3. ASSUME UNCHANGED <<cursor, wrapped>>, slot'[0] = slot[0],
             \A s \in Slots : slot'[s].used => slot[s].used
      PROVE  HighOK'
  BY <1>3 DEF HighOK
<1>4. ASSUME NEW p \in alive, UNCHANGED <<cursor, wrapped>>, NEW h \in Known,
             NEW new, slot' = [slot EXCEPT ![h.idx] = new]
      PROVE  HighOK'
  <2>1. h.idx \in Slots \ {0} /\ slot[h.idx].used
    BY <1>0, KnownType DEF Known, Handle, SweepInv, Resolves
  <2>2. slot'[0] = slot[0] /\ \A s \in Slots : slot'[s].used => slot[s].used
    BY <1>0, <1>4, <2>1
  <2>3. QED
    BY <1>3, <1>4, <2>2
<1>5. ASSUME NEW p \in alive, UNCHANGED <<cursor, wrapped>>, retain(p) \/ release(p) \/ close(p)
      PROVE  HighOK'
  BY <1>4, <1>5 DEF retain, release, close
<1>6. ASSUME NEW p \in alive, UNCHANGED <<cursor, wrapped>>, Reap(p) PROVE HighOK'
  <2>1. slot' = [s \in Slots |-> IF s \in SlotsOf(p) THEN SlotFreed(slot[s]) ELSE slot[s]]
    BY <1>0, <1>6, ReapStep
  <2>2. \A s \in Slots : ~SlotFreed(slot[s]).used
    BY <1>0, SlotFreedType
  <2>3. 0 \notin SlotsOf(p)
    <3> SUFFICES ASSUME 0 \in SlotsOf(p) PROVE FALSE
      OBVIOUS
    <3>1. PICK c \in Gone(p) : c.index = 0 /\ SameSlot(c)
      BY DEF SlotsOf
    <3>2. c.pid \in Pids
      BY <1>0, <3>1 DEF Gone, SweepInv, SweeperPart, ChunkOK, IsCandidate, CandRecord
    <3>3. QED
      BY <3>1, <3>2 DEF SameSlot, HighOK
  <2>4. QED
    BY <1>0, <1>3, <1>6, <2>1, <2>2, <2>3
<1>7. QED
  BY <1>1, <1>2, <1>5, <1>6, SlotSteps

\* Who keeps what it has of its sweep, and who takes a step of it.
Moves(p) == \/ sweep_dead(p) \/ (create(p) /\ Start(p, "create") /\ UNCHANGED table)
            \/ AutoCheck(p) \/ AutoClaim(p) \/ SweepStep(p) \/ Die(p)

LEMMA KeepsOrMoves ==
    ASSUME SweepInv, [Next]_vars, NEW q \in Pids
    PROVE  Keeps(q) \/ Moves(q)
<1> USE DEF SweepInv, SweeperPart, SweeperTypes, Keeps
<1>1. ASSUME NEW p \in Pids, p # q,
             Use(p) \/ sweep_dead(p) \/ AutoCheck(p) \/ AutoClaim(p) \/ SweepStep(p) \/ Die(p) \/ Reborn(p)
      PROVE  Keeps(q)
  <2>1. CASE sweep_dead(p) \/ AutoCheck(p) \/ AutoClaim(p) \/ Die(p) \/ Reborn(p)
    BY <1>1, <2>1 DEF sweep_dead, AutoCheck, AutoClaim, Die, Reborn, Start, sweeper
  <2>2. CASE Collect(p)
    BY <1>1, <2>2 DEF Collect, Finish, Forget
  <2>3. CASE Probe(p)
    BY <1>1, <2>3 DEF Probe
  <2>4. CASE Reap(p)
    <3>1. /\ pc' = [pc EXCEPT ![p] = "collect"] /\ freed' = [freed EXCEPT ![p] = @ \/ SlotsOf(p) # {}]
          /\ cands' = [cands EXCEPT ![p] = NoCands] /\ dead' = [dead EXCEPT ![p] = {}]
          /\ UNCHANGED <<mode, scan, rest, ask, cache>>
      BY <2>4, ReapStep
    <3>2. QED
      BY <1>1, <3>1
  <2>5. CASE create(p)
    BY <1>1, <2>5 DEF create, Start, sweeper
  <2>6. CASE \/ retain(p) \/ release(p) \/ close(p) \/ NodeAlloc(p) \/ NodeRegister(p)
             \/ Signal(p) \/ waiter_cleanup(p)
    BY <2>6 DEF retain, release, close, NodeAlloc, NodeRegister, Signal, waiter_cleanup, sweeper
  <2>7. QED
    BY <1>1, <2>1, <2>2, <2>3, <2>4, <2>5, <2>6 DEF Use, SweepStep
<1>2. ASSUME Use(q) \/ Reborn(q) PROVE Keeps(q) \/ Moves(q)
  <2>1. CASE create(q)
    BY <2>1 DEF create, Moves, sweeper
  <2>2. CASE \/ retain(q) \/ release(q) \/ close(q) \/ NodeAlloc(q) \/ NodeRegister(q)
             \/ Signal(q) \/ waiter_cleanup(q) \/ Reborn(q)
    BY <2>2 DEF retain, release, close, NodeAlloc, NodeRegister, Signal, waiter_cleanup, Reborn, sweeper
  <2>3. QED
    BY <1>2, <2>1, <2>2 DEF Use
<1>3. ASSUME Tick \/ UNCHANGED vars PROVE Keeps(q)
  BY <1>3 DEF Tick, vars, sweeper
<1>4. QED
  BY <1>1, <1>2, <1>3 DEF Next, Moves

-----------------------------------------------------------------------------
(* What a step of a sweep does to the objects that are dead. *)

LEMMA DoomedNext ==
    ASSUME HNext, NEW p \in Pids
    PROVE  /\ Idle(p)' => doomed'[p] = {}
           /\ ~Idle(p)' /\ Begins(p) => doomed'[p] = Doomed
           /\ ~Idle(p)' /\ ~Begins(p) => doomed'[p] = doomed[p] \cap Doomed'
  BY DEF HNext

LEMMA KeptWell ==
    ASSUME SweepInv, HNext, NEW p \in Pids, SweepsWell(p), Keeps(p)
    PROVE  SweepsWell(p)'
<1>1. FreshOK(p)' /\ AskOK(p)' /\ (Idle(p)' <=> Idle(p)) /\ ~Begins(p)
  BY DEF SweepsWell, Keeps, FreshOK, AskOK, Idle, Begins
<1>2. ASSUME NEW s \in doomed'[p] PROVE DoomOK(p, s)'
  <2>1. ~Idle(p)' /\ s \in doomed[p] /\ s \in Doomed'
    BY <1>1, DoomedNext
  <2>2. DoomOK(p, s) /\ s \in Doomed
    BY <2>1 DEF SweepsWell, DoomOK
  <2>3. slot'[s] = slot[s]
    BY <2>1, <2>2, DoomedStays DEF HNext
  <2>4. scan'[p] = scan[p] /\ cands'[p] = cands[p] /\ rest'[p] = rest[p] /\ dead'[p] = dead[p]
        /\ cache'[p] = cache[p]
    BY DEF Keeps
  <2>5. Snapshot(s)' = Snapshot(s) /\ Pos(p, s)' = Pos(p, s)
        /\ (InChunk(p, Pos(p, s))' <=> InChunk(p, Pos(p, s)))
    BY <2>3, <2>4 DEF Snapshot, Pos, InChunk
  <2>6. QED
    BY <2>1, <2>2, <2>3, <2>4, <2>5 DEF DoomOK
<1>3. QED
  BY <1>1, <1>2 DEF SweepsWell

\* A process that is not in a sweep has nothing to answer for.
LEMMA IdleWell ==
    ASSUME HNext, NEW p \in Pids, pc'[p] \in {"idle", "claim"}, cache'[p] = <<>>
    PROVE  SweepsWell(p)'
<1>1. Idle(p)' /\ doomed'[p] = {}
  BY DoomedNext DEF Idle
<1>2. QED
  BY <1>1 DEF SweepsWell, FreshOK, AskOK

\* SweepScan::new: everything that was ever handed out lies ahead.
LEMMA StartWell ==
    ASSUME SweepInv, HighOK, HNext, NEW p \in Pids, SweepsWell(p), Idle(p), NEW m, Start(p, m),
           UNCHANGED <<slot, alive>>
    PROVE  SweepsWell(p)'
<1>1. /\ pc'[p] = "collect" /\ scan'[p] = [node_hi |-> fresh, slot_hi |-> slot_hi, pos |-> 0]
      /\ UNCHANGED <<cands, rest, ask, dead, cache>>
  BY DEF Start, SweepInv, SweeperPart, SweeperTypes
<1>2. ~Idle(p)' /\ Begins(p) /\ cache[p] = <<>> /\ Len(cache[p]) = 0
  BY <1>1, EmptySeq DEF Idle, Begins, SweepsWell, FreshOK
<1>3. rest'[p] = {} /\ dead'[p] = {}
  BY <1>1 DEF Idle, Probing, SweepInv, SweeperPart, ChunkOK
<1>4. Doomed' = Doomed /\ doomed'[p] = Doomed
  BY <1>2, DoomedNext DEF Doomed
<1>5. ASSUME NEW s \in doomed'[p] PROVE DoomOK(p, s)'
  <2>1. s \in Doomed' /\ s \in Slots \ {0} /\ slot[s].used
    BY <1>4, <1>5, DoomedParts DEF HighOK
  <2>2. s < slot_hi
    BY <2>1 DEF slot_hi, HighOK, Slots, SweepInv, TablePart
  <2>3. Pos(p, s)' = fresh + s /\ fresh + s >= 0
    BY <1>1, <2>1 DEF Pos, Slots, SweepInv, NodePart
  <2>4. ~InChunk(p, Pos(p, s))'
    BY <1>3 DEF InChunk
  <2>5. s < scan'[p].slot_hi /\ scan'[p].pos = 0
    BY <1>1, <2>2
  <2>6. \A i \in 1 .. Len(cache'[p]) : FALSE
    BY <1>1, <1>2
  <2>7. QED
    BY <1>2, <2>1, <2>3, <2>4, <2>5, <2>6 DEF DoomOK
<1>6. FreshOK(p)' /\ AskOK(p)'
  BY <1>1, <1>2 DEF FreshOK, AskOK
<1>7. QED
  BY <1>5, <1>6 DEF SweepsWell

\* reap_dead_locked frees every object of the chunk that is dead: it is still
\* what it was when it was collected.
LEMMA ReapWell ==
    ASSUME SweepInv, HNext, NEW p \in Pids, SweepsWell(p), Reap(p)
    PROVE  SweepsWell(p)'
<1>1. /\ pc'[p] = "collect" /\ pc[p] = "reap" /\ dead'[p] = {} /\ rest'[p] = rest[p] /\ rest[p] = {}
      /\ scan'[p] = scan[p] /\ cache'[p] = cache[p]
      /\ slot' = [s \in Slots |-> IF s \in SlotsOf(p) THEN SlotFreed(slot[s]) ELSE slot[s]]
  BY ReapStep DEF SweepInv, SweeperPart, SweeperTypes, ChunkOK
<1>2. ~Idle(p)' /\ ~Begins(p) /\ FreshOK(p)' /\ AskOK(p)'
  BY <1>1 DEF Idle, Begins, FreshOK, AskOK
<1>3. ASSUME NEW s \in doomed'[p] PROVE DoomOK(p, s)'
  <2>1. s \in doomed[p] /\ s \in Doomed'
    BY <1>2, DoomedNext
  <2>2. DoomOK(p, s) /\ s \in Doomed
    BY <2>1 DEF SweepsWell, DoomOK
  <2>3. slot'[s] = slot[s]
    BY <2>1, <2>2, DoomedStays DEF HNext
  <2>4. s \in Slots /\ slot[s].used /\ ~slot[s].over
    BY <2>2, DoomedParts
  <2>5. ~InChunk(p, Pos(p, s))
    <3> SUFFICES ASSUME InChunk(p, Pos(p, s)) PROVE FALSE
      OBVIOUS
    <3>1. Pos(p, s) \in dead[p] /\ cands[p][Pos(p, s)] = Snapshot(s)
      BY <1>1, <2>2 DEF InChunk, DoomOK
    <3>2. Snapshot(s) \in Gone(p) /\ ~Snapshot(s).node /\ Snapshot(s).index = s
      BY <3>1 DEF Gone, Snapshot
    <3>3. SameSlot(Snapshot(s))
      BY <2>4 DEF SameSlot, Snapshot
    <3>4. s \in SlotsOf(p)
      BY <3>2, <3>3 DEF SlotsOf
    <3>5. ~slot'[s].used
      BY <1>1, <2>4, <3>4, SlotFreedType DEF SweepInv, TablePart
    <3>6. QED
      BY <2>3, <2>4, <3>5
  <2>6. Pos(p, s)' = Pos(p, s) /\ ~InChunk(p, Pos(p, s))'
    BY <1>1 DEF Pos, InChunk
  <2>7. QED
    BY <1>1, <1>2, <2>1, <2>2, <2>3, <2>5, <2>6 DEF DoomOK
<1>4. QED
  BY <1>2, <1>3 DEF SweepsWell

-----------------------------------------------------------------------------
(* A chunk of the scan. *)

\* SweepScan::next_chunk takes the first SweepChunk of what it finds.
Found(sc)  == {j \in sc.pos .. sc.node_hi + sc.slot_hi - 1 : IsCand(j, sc)}
FirstOf(S) == {j \in S : Cardinality({i \in S : i <= j}) <= SweepChunk}

\* A chunk is empty only if nothing was found, and what was found and is not
\* in it lies behind all of it.
LEMMA ChunkOfFound ==
    ASSUME NEW S \in SUBSET Nat, IsFiniteSet(S)
    PROVE  /\ FirstOf(S) = {} => S = {}
           /\ \A j \in S \ FirstOf(S) : /\ Cardinality(S) >= SweepChunk
                                       /\ \A m \in FirstOf(S) : m < j
<1> DEFINE upto(j) == {i \in S : i <= j}
<1>1. \A j \in S : IsFiniteSet(upto(j)) /\ Cardinality(upto(j)) <= Cardinality(S)
  BY FS_Subset
<1>2. \A j \in S : Cardinality(upto(j)) \in Nat
  BY <1>1, FS_CardinalityType
<1>3. Cardinality(S) \in Nat
  BY FS_CardinalityType
<1>4. ASSUME S # {} PROVE FirstOf(S) # {}
  <2>1. PICK x \in S : \A y \in S : x <= y
    BY <1>4, LeastExists
  <2>2. upto(x) = {x}
    <3>1. ASSUME NEW y \in S, y <= x PROVE y = x
      <4>1. x \in Nat /\ y \in Nat /\ x <= y
        BY <2>1
      <4>2. QED
        BY <3>1, <4>1
    <3>2. x <= x
      BY <2>1
    <3>3. QED
      BY <3>1, <3>2
  <2>3. Cardinality(upto(x)) = 1
    BY <2>2, FS_Singleton
  <2>4. QED
    BY <2>1, <2>3 DEF FirstOf
<1>5. ASSUME NEW j \in S \ FirstOf(S) PROVE Cardinality(S) >= SweepChunk
  BY <1>1, <1>2, <1>3 DEF FirstOf
<1>6. ASSUME NEW j \in S \ FirstOf(S), NEW m \in FirstOf(S) PROVE m < j
  <2> SUFFICES ASSUME ~(m < j) PROVE FALSE
    OBVIOUS
  <2>1. m \in S /\ j \in S /\ j <= m /\ Cardinality(upto(m)) <= SweepChunk
    BY DEF FirstOf
  <2>2. upto(j) \subseteq upto(m)
    <3>1. ASSUME NEW i \in S, i <= j PROVE i <= m
      <4>1. i \in Nat /\ j \in Nat /\ m \in Nat /\ j <= m
        BY <2>1
      <4>2. QED
        BY <3>1, <4>1
    <3>2. QED
      BY <3>1
  <2>3. Cardinality(upto(j)) <= Cardinality(upto(m))
    BY <1>1, <2>1, <2>2, FS_Subset
  <2>4. Cardinality(upto(j)) <= SweepChunk
    BY <1>2, <2>1, <2>3
  <2>5. QED
    BY <2>4 DEF FirstOf
<1>7. QED
  BY <1>4, <1>5, <1>6

LEMMA FoundFinite ==
    ASSUME SweepInv, NEW p \in Pids
    PROVE  Found(scan[p]) \in SUBSET Nat /\ IsFiniteSet(Found(scan[p]))
<1> DEFINE sc == scan[p]
<1>1. sc.pos \in Nat /\ sc.node_hi \in Nat /\ sc.slot_hi \in Nat
  BY DEF SweepInv, SweeperPart, SweeperTypes
<1> DEFINE last == sc.node_hi + sc.slot_hi - 1
<1>2. sc.pos \in Int /\ last \in Int /\ \A j \in sc.pos .. last : j \in Nat
  BY <1>1
<1>3. Found(sc) \in SUBSET (sc.pos .. last)
  BY DEF Found
<1> HIDE DEF sc, last
<1>4. IsFiniteSet(sc.pos .. last)
  BY <1>2, FS_Interval
<1>5. IsFiniteSet(Found(sc)) /\ Found(sc) \in SUBSET Nat
  BY <1>2, <1>3, <1>4, FS_Subset
<1>6. QED
  BY <1>5 DEF sc

\* An object that is dead is found, unless it is in the chunk already.
LEMMA DoomedFound ==
    ASSUME SweepInv, NEW p \in Pids, NEW s, DoomOK(p, s), pc[p] = "collect"
    PROVE  Pos(p, s) \in Found(scan[p]) /\ Cand(Pos(p, s), scan[p]) = Snapshot(s)
<1> DEFINE sc == scan[p]
<1>1. sc.pos \in Nat /\ sc.node_hi \in Nat /\ sc.slot_hi \in Nat /\ s \in Nat /\ s < sc.slot_hi
  BY DoomedParts DEF SweepInv, SweeperPart, SweeperTypes, DoomOK, Slots
<1>2. ~InChunk(p, Pos(p, s))
  BY DEF SweepInv, SweeperPart, ChunkOK, Probing, InChunk
<1>3. Pos(p, s) >= sc.pos /\ s \in Doomed
  BY <1>2 DEF DoomOK
<1>4. ~(Pos(p, s) < sc.node_hi) /\ Pos(p, s) - sc.node_hi = s
      /\ Pos(p, s) \in sc.pos .. sc.node_hi + sc.slot_hi - 1
  BY <1>1, <1>3 DEF Pos
<1>5. IsCand(Pos(p, s), sc) /\ Cand(Pos(p, s), sc) = Snapshot(s)
  BY <1>3, <1>4, DoomedParts DEF IsCand, Cand, Snapshot
<1>6. QED
  BY <1>4, <1>5 DEF Found

LEMMA CollectWell ==
    ASSUME SweepInv, SweepInv', HNext, NEW p \in Pids, SweepsWell(p), Collect(p)
    PROVE  SweepsWell(p)'
<1> DEFINE sc == scan[p]
           found == Found(sc)
           chunk == FirstOf(found)
           top == CHOOSE j \in chunk : \A i \in chunk : i <= j
<1>u. pc[p] = "collect" /\ (chunk = {} => Finish(p))
  BY DEF Collect, Found, FirstOf
<1>1. CASE chunk = {}
  <2>1. pc'[p] = "idle" /\ cache'[p] = <<>>
    BY <1>u, <1>1 DEF Finish, Forget, SweepInv, SweeperPart, SweeperTypes
  <2>2. QED
    BY <2>1, IdleWell
<1>2. CASE chunk # {}
  <2>1. /\ cands' = [cands EXCEPT ![p] = [j \in chunk |-> Cand(j, sc)]]
        /\ rest' = [rest EXCEPT ![p] = chunk]
        /\ ask' = [ask EXCEPT ![p] = PidsOf(Cand(Least(chunk), sc))]
        /\ scan' = [scan EXCEPT ![p].pos = ScanEnd(sc, found, chunk)]
        /\ pc' = [pc EXCEPT ![p] = "probe"]
        /\ UNCHANGED <<table, dead, cache>>
    BY <1>2 DEF Collect, Found, FirstOf
  <2>2. /\ cands'[p] = [j \in chunk |-> Cand(j, sc)] /\ rest'[p] = chunk /\ dead'[p] = {}
        /\ ask'[p] = PidsOf(Cand(Least(chunk), sc)) /\ pc'[p] = "probe" /\ cache'[p] = cache[p]
    BY <1>u, <2>1 DEF SweepInv, SweeperPart, SweeperTypes, ChunkOK, Probing
  <2>3. /\ scan'[p].pos = ScanEnd(sc, found, chunk) /\ scan'[p].node_hi = sc.node_hi
        /\ scan'[p].slot_hi = sc.slot_hi
    BY <2>1 DEF SweepInv, SweeperPart, SweeperTypes
  <2>4. found \in SUBSET Nat /\ IsFiniteSet(found) /\ chunk \subseteq found
    BY FoundFinite DEF FirstOf
  <2>5. FreshOK(p)' /\ ~Idle(p)' /\ ~Begins(p)
    BY <1>u, <2>2 DEF FreshOK, Idle, Begins
  <2> HIDE DEF chunk, found
  <2>6. AskOK(p)'
    <3>1. Least(chunk) \in chunk
      BY <1>2, <2>4, LeastIn
    <3>2. cands'[p][Least(rest'[p])] = Cand(Least(chunk), sc)
      BY <2>2, <3>1
    <3>3. Cand(Least(chunk), sc) \in CandRecord
      BY <2>2, <3>1, <3>2 DEF SweepInv, SweeperPart, ChunkOK, IsCandidate
    <3>4. QED
      BY <2>2, <3>2, <3>3, PidsOfCand DEF AskOK
  <2>7. ASSUME NEW s \in doomed'[p] PROVE DoomOK(p, s)'
    <3>1. s \in doomed[p] /\ s \in Doomed'
      BY <2>5, DoomedNext
    <3>2. DoomOK(p, s)
      BY <3>1 DEF SweepsWell
    <3>3. slot'[s] = slot[s]
      BY <2>1 DEF table
    <3> DEFINE j == Pos(p, s)
    <3>4. j \in found /\ Cand(j, sc) = Snapshot(s)
      BY <1>u, <3>2, DoomedFound DEF found
    <3>5. Pos(p, s)' = j /\ Snapshot(s)' = Snapshot(s)
      BY <2>3, <3>3 DEF Pos, Snapshot
    <3>6. j \in chunk \/ j >= scan'[p].pos
      <4> SUFFICES ASSUME j \notin chunk PROVE j >= scan'[p].pos
        OBVIOUS
      <4> HIDE DEF j
      <4>1. Cardinality(found) >= SweepChunk /\ \A m \in chunk : m < j
        BY <2>4, <3>4, ChunkOfFound DEF chunk
      <4>2. j \in Nat /\ \A m \in chunk : m <= j
        <5>1. j \in Nat /\ chunk \subseteq Nat
          BY <2>4, <3>4
        <5>2. ASSUME NEW m \in chunk PROVE m <= j
          <6>1. m \in Nat /\ m < j
            BY <4>1, <5>1
          <6>2. QED
            BY <5>1, <6>1
        <5>3. QED
          BY <5>1, <5>2
      <4>3. \E m \in chunk : \A i \in chunk : i <= m
        BY <1>2, <2>4, <4>2, GreatestExists
      <4>4. top \in chunk
        BY <4>3
      <4>5. scan'[p].pos = 1 + top
        BY <2>3, <4>1 DEF ScanEnd
      <4>6. top < j /\ top \in Nat
        BY <2>4, <4>1, <4>4
      <4>7. QED
        BY <4>2, <4>5, <4>6
    <3>7. InChunk(p, Pos(p, s))' <=> j \in chunk
      BY <2>2, <3>5 DEF InChunk
    <3>8. j \in chunk => cands'[p][j] = Snapshot(s)
      BY <2>2, <3>4
    <3> HIDE DEF j
    <3>9. QED
      BY <2>2, <2>3, <2>5, <3>1, <3>2, <3>3, <3>5, <3>6, <3>7, <3>8 DEF DoomOK
  <2>8. QED
    BY <2>5, <2>6, <2>7 DEF SweepsWell
<1>3. QED
  BY <1>1, <1>2

\* PidCache::alive: no remembered verdict says that a pid of s is alive.
LEMMA VerdictOfDoomed ==
    ASSUME SweepInv, NEW p \in Pids, NEW s, DoomOK(p, s), NEW q \in Pids, Names(slot[s], q)
    PROVE  ~Verdict(p, q)
<1>1. q \notin alive
  BY DoomedParts DEF DoomOK
<1>2. CASE Cached(p, q) # {}
  <2>1. cache[p] \in Seq(Verdicts) /\ Len(cache[p]) \in Nat
    BY LenProperties DEF SweepInv, SweeperPart, SweeperTypes
  <2>2. Cached(p, q) \in SUBSET Nat
    BY <2>1 DEF Cached
  <2> DEFINE i == Least(Cached(p, q))
  <2>3. i \in Cached(p, q)
    BY <1>2, <2>2, LeastIn
  <2> HIDE DEF i
  <2>4. i \in 1 .. Len(cache[p]) /\ cache[p][i].pid = q
    BY <2>3 DEF Cached
  <2>5. ~cache[p][i].alive
    BY <2>4 DEF DoomOK
  <2>6. QED
    BY <1>2, <2>5 DEF Verdict, i
<1>3. QED
  BY <1>1, <1>2 DEF Verdict

LEMMA ProbeWell ==
    ASSUME SweepInv, SweepInv', HNext, NEW p \in Pids, SweepsWell(p), Probe(p)
    PROVE  SweepsWell(p)'
<1> DEFINE q == Head(ask[p])
           up == Verdict(p, q)
           j == Least(rest[p])
           others == rest[p] \ {j}
<1>1. /\ UNCHANGED <<slot, alive, scan, cands>> /\ pc[p] = "probe"
      /\ cache' = [cache EXCEPT ![p] = Remember(p, q)]
  BY DEF Probe, table, people
<1>2. /\ ask[p] \in Seq(Pids) /\ ask[p] # <<>> /\ rest[p] \in SUBSET Nat /\ rest[p] # {}
      /\ rest[p] \cup dead[p] \subseteq DOMAIN cands[p]
      /\ \A i \in DOMAIN cands[p] : IsCandidate(cands[p][i])
  BY <1>1 DEF SweepInv, SweeperPart, SweeperTypes, ChunkOK
<1>3. /\ q \in Pids /\ q = ask[p][1] /\ 1 \in 1 .. Len(ask[p])
      /\ Len(Tail(ask[p])) = Len(ask[p]) - 1
      /\ \A i \in 1 .. Len(Tail(ask[p])) : Tail(ask[p])[i] = ask[p][i + 1] /\ i + 1 \in 1 .. Len(ask[p])
  BY <1>2, HeadTailProperties, LenProperties, EmptySeq
<1>4. j \in rest[p]
  BY <1>2, LeastIn
<1>5. cache'[p] = Remember(p, q)
  BY <1>1 DEF SweepInv, SweeperPart, SweeperTypes
<1>6. Names(cands[p][j], q)
  BY <1>1, <1>3 DEF SweepsWell, AskOK
<1>7. /\ ~up /\ MoreToAsk(p) => ask'[p] = Tail(ask[p]) /\ rest'[p] = rest[p] /\ dead'[p] = dead[p]
                                /\ pc'[p] = "probe"
      /\ ~(~up /\ MoreToAsk(p)) =>
            /\ dead'[p] = IF up THEN dead[p] ELSE dead[p] \cup {j}
            /\ rest'[p] = others
            /\ ask'[p] = IF others = {} THEN <<>> ELSE PidsOf(cands[p][Least(others)])
            /\ pc'[p] = IF others = {} THEN "reap" ELSE "probe"
  <2>1. /\ ask \in [Pids -> Seq(Pids)] /\ DOMAIN rest = Pids /\ DOMAIN dead = Pids /\ DOMAIN pc = Pids
    BY DEF SweepInv, SweeperPart, SweeperTypes
  <2>2. CASE ~up /\ MoreToAsk(p)
    BY <1>1, <2>1, <2>2 DEF Probe
  <2>3. CASE ~(~up /\ MoreToAsk(p))
    BY <1>1, <2>1, <2>3 DEF Probe
  <2>4. QED
    BY <2>2, <2>3
<1> HIDE DEF q, up, j, others
<1>8. pc'[p] \in {"probe", "reap"} /\ ~Idle(p)' /\ ~Begins(p) /\ FreshOK(p)'
  <2>1. pc'[p] \in {"probe", "reap"}
    BY <1>7
  <2>2. QED
    BY <2>1 DEF Idle, Begins, FreshOK
<1>9. AskOK(p)'
  <2>1. CASE ~up /\ MoreToAsk(p)
    <3>1. \A i \in 1 .. Len(ask[p]) : Names(cands[p][j], ask[p][i])
      BY <1>1 DEF SweepsWell, AskOK, j
    <3>2. \A i \in 1 .. Len(ask'[p]) : Names(cands[p][j], ask'[p][i])
      BY <1>3, <1>7, <2>1, <3>1
    <3>3. QED
      BY <1>1, <1>7, <2>1, <3>2 DEF AskOK, j
  <2>2. CASE ~(~up /\ MoreToAsk(p)) /\ others # {}
    <3>1. Least(others) \in others /\ others \subseteq rest[p]
      BY <1>2, <2>2, LeastIn DEF others
    <3>2. cands[p][Least(others)] \in CandRecord
      BY <1>2, <3>1 DEF IsCandidate
    <3>3. QED
      BY <1>1, <1>7, <2>2, <3>2, PidsOfCand DEF AskOK
  <2>3. CASE ~(~up /\ MoreToAsk(p)) /\ others = {}
    BY <1>7, <2>3 DEF AskOK
  <2>4. QED
    BY <2>1, <2>2, <2>3
<1>10. ASSUME NEW s \in doomed'[p] PROVE DoomOK(p, s)'
  <2>1. s \in doomed[p] /\ s \in Doomed'
    BY <1>8, DoomedNext
  <2>2. DoomOK(p, s)
    BY <2>1 DEF SweepsWell
  <2>3. Pos(p, s)' = Pos(p, s) /\ Snapshot(s)' = Snapshot(s)
    BY <1>1 DEF Pos, Snapshot
  <2>4. Pos(p, s) = j => ~up
    <3> SUFFICES ASSUME Pos(p, s) = j PROVE ~up
      OBVIOUS
    <3>1. cands[p][j] = Snapshot(s)
      BY <1>4, <2>2 DEF DoomOK, InChunk
    <3>2. Names(slot[s], q)
      BY <1>6, <3>1 DEF Names, Snapshot
    <3>3. QED
      BY <1>3, <2>2, <3>2, VerdictOfDoomed DEF up
  <2>5. InChunk(p, Pos(p, s))' <=> InChunk(p, Pos(p, s))
    <3>1. InChunk(p, Pos(p, s))' <=> Pos(p, s) \in rest'[p] \cup dead'[p]
      BY <2>3 DEF InChunk
    <3>2. CASE ~up /\ MoreToAsk(p)
      BY <1>7, <3>1, <3>2 DEF InChunk
    <3>3. CASE ~(~up /\ MoreToAsk(p))
      BY <1>4, <1>7, <2>4, <3>1, <3>3 DEF InChunk, others
    <3>4. QED
      BY <3>2, <3>3
  <2>6. ASSUME NEW i \in 1 .. Len(cache'[p]), cache'[p][i].alive PROVE ~Names(slot[s], cache'[p][i].pid)
    <3>1. CASE cache'[p][i] = [pid |-> q, alive |-> q \in alive]
      <4>1. cache'[p][i].pid = q /\ q \in alive
        <5>1. CASE q \notin alive
          <6>1. (q \in alive) = FALSE
            BY <5>1
          <6>2. cache'[p][i] = [pid |-> q, alive |-> FALSE]
            BY <3>1, <6>1
          <6>3. QED
            BY <2>6, <6>2
        <5>2. QED
          BY <3>1, <5>1
      <4>2. QED
        BY <2>2, <4>1, DoomedParts DEF DoomOK
    <3>2. CASE \E k \in 1 .. Len(cache[p]) : cache'[p][i] = cache[p][k]
      BY <2>2, <2>6, <3>2 DEF DoomOK
    <3> DEFINE new == Remember(p, q)
    <3>3. \A k \in 1 .. Len(new) : \/ new[k] = [pid |-> q, alive |-> q \in alive]
                                   \/ \E l \in 1 .. Len(cache[p]) : new[k] = cache[p][l]
      BY <1>3, RememberOK DEF SweepInv
    <3> HIDE DEF new
    <3>4. cache'[p] = new
      BY <1>5 DEF new
    <3>5. QED
      BY <3>1, <3>2, <3>3, <3>4
  <2>7. QED
    BY <1>1, <1>8, <2>1, <2>2, <2>3, <2>5, <2>6 DEF DoomOK
<1>11. QED
  BY <1>8, <1>9, <1>10 DEF SweepsWell

LEMMA MovesWell ==
    ASSUME SweepInv, SweepInv', HighOK, HNext, NEW p \in Pids, SweepsWell(p), Moves(p)
    PROVE  SweepsWell(p)'
<1>0. /\ DOMAIN pc = Pids /\ DOMAIN cache = Pids /\ (Idle(p) => cache[p] = <<>>)
  BY DEF SweepInv, SweeperPart, SweeperTypes, SweepsWell, FreshOK
<1>1. CASE sweep_dead(p)
  <2>1. Idle(p) /\ Start(p, "sweep_dead") /\ UNCHANGED <<slot, alive>>
    BY <1>1 DEF sweep_dead, Runs, Idle, table, people
  <2>2. QED
    BY <2>1, StartWell
<1>2. CASE create(p) /\ Start(p, "create") /\ UNCHANGED table
  <2>1. Idle(p) /\ UNCHANGED <<slot, alive>>
    BY <1>2 DEF create, Runs, Idle, table
  <2>2. QED
    BY <1>2, <2>1, StartWell
<1>3. CASE AutoCheck(p)
  <2>1. pc'[p] = "claim" /\ cache' = cache /\ Idle(p)
    BY <1>0, <1>3 DEF AutoCheck, Idle, sweeper
  <2>2. QED
    BY <1>0, <2>1, IdleWell
<1>4. CASE AutoClaim(p)
  <2>1. Idle(p) /\ UNCHANGED <<slot, alive>>
        /\ (Start(p, "auto") \/ (pc'[p] = "idle" /\ cache' = cache))
    BY <1>0, <1>4 DEF AutoClaim, Idle, sweeper, table, people
  <2>2. QED
    BY <1>0, <2>1, StartWell, IdleWell
<1>5. CASE Die(p)
  <2>1. pc'[p] = "idle" /\ cache'[p] = <<>>
    BY <1>0, <1>5 DEF Die
  <2>2. QED
    BY <2>1, IdleWell
<1>6. QED
  BY <1>1, <1>2, <1>3, <1>4, <1>5, CollectWell, ProbeWell, ReapWell DEF Moves, SweepStep

LEMMA DoomInvInit == HInit => DoomInv
<1> SUFFICES ASSUME HInit PROVE DoomInv
  OBVIOUS
<1>1. HighOK
  <2>1. \A s \in Slots : slot[s] = [EmptySlot EXCEPT !.used = s = 0]
    BY DEF HInit, Init
  <2>2. slot[0] = [EmptySlot EXCEPT !.used = TRUE]
    <3>1. 0 \in Slots
      BY DEF Slots
    <3>2. (0 = 0) = TRUE
      OBVIOUS
    <3>3. slot[0] = [EmptySlot EXCEPT !.used = 0 = 0]
      BY <2>1, <3>1
    <3>4. QED
      BY <3>2, <3>3
  <2>3. ASSUME NEW s \in Slots \ {0} PROVE ~slot[s].used
    <3>1. (s = 0) = FALSE
      OBVIOUS
    <3>2. slot[s] = [EmptySlot EXCEPT !.used = FALSE]
      BY <2>1, <3>1
    <3>3. QED
      BY <3>2 DEF EmptySlot
  <2>4. QED
    BY <2>2, <2>3 DEF HighOK, EmptySlot
<1>2. ASSUME NEW p \in Pids PROVE SweepsWell(p)
  <2>1. doomed[p] = {} /\ cache[p] = <<>> /\ pc[p] = "idle"
    BY DEF HInit, Init
  <2>2. QED
    BY <2>1 DEF SweepsWell, FreshOK, AskOK
<1>3. QED
  BY <1>1, <1>2 DEF DoomInv

LEMMA DoomInvStep == ASSUME SweepInv, SweepInv', DoomInv, [HNext]_hvars PROVE DoomInv'
<1>1. CASE UNCHANGED hvars
  <2>1. UNCHANGED vars /\ UNCHANGED doomed
    BY <1>1 DEF hvars
  <2>2. HighOK'
    BY <2>1, HighStep DEF DoomInv
  <2>3. ASSUME NEW p \in Pids PROVE SweepsWell(p)'
    BY <2>1 DEF DoomInv, SweepsWell, FreshOK, AskOK, Idle, DoomOK, Doomed, Pos, InChunk, Snapshot, vars,
                table, people, sweeper
  <2>4. QED
    BY <2>2, <2>3 DEF DoomInv
<1>2. CASE HNext
  <2>1. [Next]_vars
    BY <1>2 DEF HNext
  <2>2. HighOK'
    BY <2>1, HighStep DEF DoomInv
  <2>3. ASSUME NEW p \in Pids PROVE SweepsWell(p)'
    <3>1. SweepsWell(p) /\ HighOK
      BY DEF DoomInv
    <3>2. Keeps(p) \/ Moves(p)
      BY <2>1, KeepsOrMoves
    <3>3. QED
      BY <1>2, <3>1, <3>2, KeptWell, MovesWell
  <2>4. QED
    BY <2>2, <2>3 DEF DoomInv
<1>3. QED
  BY <1>1, <1>2

\* When p's sweep comes to its end, nothing is ahead of it and its chunk is
\* empty.
LEMMA NothingDoomed ==
    ASSUME SweepInv, DoomInv, Next, NEW p \in Pids, Finishes(p)
    PROVE  doomed[p] = {}
<1>1. pc[p] = "collect" /\ pc'[p] = "idle" /\ p \in alive'
  BY DEF Finishes
<1>2. Collect(p)
  <2>1. Moves(p)
    BY <1>1, KeepsOrMoves DEF Keeps
  <2>2. ~Die(p)
    BY <1>1 DEF Die
  <2>3. QED
    BY <1>1, <2>1, <2>2 DEF Moves, SweepStep, sweep_dead, create, AutoCheck, AutoClaim, Probe, Reap, Runs
<1> DEFINE chunk == FirstOf(Found(scan[p]))
<1>3. chunk = {}
  <2>1. chunk # {} => pc' = [pc EXCEPT ![p] = "probe"]
    BY <1>2 DEF Collect, Found, FirstOf
  <2>2. DOMAIN pc = Pids
    BY DEF SweepInv, SweeperPart, SweeperTypes
  <2> HIDE DEF chunk
  <2>3. QED
    BY <1>1, <2>1, <2>2
<1>4. Found(scan[p]) = {}
  BY <1>3, FoundFinite, ChunkOfFound
<1>5. \A s \in doomed[p] : DoomOK(p, s)
  BY DEF DoomInv, SweepsWell
<1>6. QED
  BY <1>1, <1>4, <1>5, DoomedFound

\* A sweep frees every object that was dead when it began and that nobody has
\* picked up since: none is beyond the ranges SweepScan::new takes, between
\* two chunks, taken for another by reap_dead_locked, or shielded by a verdict
\* of PidCache.
THEOREM SweepFreesTheDead == MaxLives = 1 => (HSpec => SweepComplete)
<1> SUFFICES ASSUME MaxLives = 1 PROVE HSpec => SweepComplete
  OBVIOUS
<1>1. HSpec => []SweepInv
  <2>1. HInit => Init
    BY DEF HInit
  <2>2. [HNext]_hvars => [Next]_vars
    BY DEF HNext, hvars
  <2>3. SweepInv /\ [Next]_vars => SweepInv'
    BY SweepInvStep
  <2>4. QED
    BY <2>1, <2>2, <2>3, SweepInvInit, PTL DEF HSpec
<1>2. SweepInv /\ SweepInv' /\ DoomInv /\ [HNext]_hvars => DoomInv'
  BY DoomInvStep
<1>3. SweepInv /\ DoomInv /\ [HNext]_hvars
        => [\A p \in Pids : Finishes(p) => doomed[p] = {}]_hvars
  BY NothingDoomed DEF HNext
<1>4. QED
  BY <1>1, <1>2, <1>3, DoomInvInit, PTL DEF HSpec, SweepComplete
=============================================================================
