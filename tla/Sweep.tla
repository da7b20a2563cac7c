------------------------------- MODULE Sweep -------------------------------
(***************************************************************************)
(* Who owns what in the shared region, and how the dead are swept up:      *)
(* slot allocation, holders, close, waiter nodes, and the sweep of         *)
(* src/core.rs that frees the objects and nodes of processes that died.    *)
(*                                                                         *)
(* A sweep takes a snapshot of the ranges to scan and then goes round:     *)
(*                                                                         *)
(*   claim      (auto_sweep_dead) the interval has passed; wants the lock  *)
(*   collect    holds the lock and fills a chunk of candidates             *)
(*   probe      asks one pid after the other whether it is alive           *)
(*   reap       wants the lock, or has it, and frees what is still dead    *)
(*                                                                         *)
(* sweep_dead, and a create that finds the table full, keep the lock all   *)
(* the way; auto_sweep_dead gives it up while it probes.  A process may    *)
(* die at any of these steps and leaves behind what it has in the region.  *)
(* A death inside one critical section is not modelled here.               *)
(***************************************************************************)
EXTENDS Integers, Sequences, FiniteSets

CONSTANTS
    Pids,          \* process ids
    NoPid,         \* pid 0
    SlotCount,     \* SLOT_COUNT, slot 0 included
    NodeCount,     \* NODE_COUNT
    MaxHolders,    \* MAX_HOLDERS
    SweepChunk,    \* SWEEP_CHUNK
    CacheSize,     \* PID_CACHE
    GenMod,        \* 2^18: what is left of a generation in a handle
    Interval,      \* NTSYNC_SWEEP_INTERVAL_SEC; 0 turns auto-sweeping off
    MaxCreates,    \* bound: objects created
    MaxWaits,      \* bound: nodes one process has at a time
    MaxLives,      \* bound: processes that one after the other have one pid
    MaxNow         \* bound: the clock

ASSUME SweepAssumption ==
    /\ NoPid \notin Pids
    /\ SlotCount \in Nat \ {0}
    /\ SweepChunk \in Nat \ {0}
    /\ CacheSize \in Nat \ {0}
    /\ GenMod \in Nat \ {0}
    /\ {NodeCount, MaxHolders, Interval, MaxCreates, MaxWaits, MaxLives, MaxNow} \subseteq Nat

Slots   == 0 .. SlotCount - 1
NodeIds == 0 .. NodeCount - 1
NIL     == -1        \* no slot

\* How a sweep was started; "none" outside of one.
Modes == {"none", "sweep_dead", "create", "auto"}

VARIABLES
    slot,      \* [used, gen, pid, holders, over]; over is HOLDER_OVERFLOW
    cursor,    \* next_scan without its high bit ...
    wrapped,   \* ... and the high bit, SCAN_WRAPPED
    node,      \* [own: is not free, pid, on: the slot it is registered on or NIL]
    fresh,     \* node_fresh
    sweep_ns,
    lock,      \* the process that holds the region lock, or NoPid
    now,
    alive,     \* pids of running processes
    lives,     \* how many processes each pid has named so far
    held,      \* held[p]: the handles that p believes it holds
    mine,      \* mine[p]: the nodes of p's waits
    pc,
    mode,
    scan,      \* [node_hi, slot_hi, pos]: nodes first, then slots
    cands,     \* the chunk, by position
    rest,      \* positions of the chunk that have no verdict yet
    ask,       \* pids still to be asked about the first of them
    dead,      \* positions of the chunk found dead
    cache,     \* PidCache, oldest first
    freed      \* this sweep has freed an object

table   == <<slot, cursor, wrapped>>
nodes   == <<node, fresh>>
people  == <<alive, lives, held, mine>>
sweeper == <<mode, scan, cands, rest, ask, dead, cache, freed>>
vars    == <<table, nodes, sweep_ns, lock, now, people, pc, sweeper>>

EmptySlot == [used |-> FALSE, gen |-> 0, pid |-> NoPid, holders |-> <<>>, over |-> FALSE]
\* The pid of a free node is never read.
FreeNode  == [own |-> FALSE, pid |-> NoPid, on |-> NIL]
NoScan    == [node_hi |-> 0, slot_hi |-> 0, pos |-> 0]
NoCands   == [j \in {} |-> 0]

Init ==
    /\ slot = [s \in Slots |-> [EmptySlot EXCEPT !.used = s = 0]]
    /\ cursor = 0 /\ wrapped = FALSE
    /\ node = [k \in NodeIds |-> FreeNode] /\ fresh = 0
    /\ sweep_ns = 0 /\ now = 0
    /\ lock = NoPid
    /\ alive = Pids /\ lives = [p \in Pids |-> 1]
    /\ held = [p \in Pids |-> {}] /\ mine = [p \in Pids |-> {}]
    /\ pc = [p \in Pids |-> "idle"] /\ mode = [p \in Pids |-> "none"]
    /\ scan = [p \in Pids |-> NoScan] /\ cands = [p \in Pids |-> NoCands]
    /\ rest = [p \in Pids |-> {}] /\ ask = [p \in Pids |-> <<>>]
    /\ dead = [p \in Pids |-> {}] /\ cache = [p \in Pids |-> <<>>]
    /\ freed = [p \in Pids |-> FALSE]

Least(S) == CHOOSE x \in S : \A y \in S : x <= y

-----------------------------------------------------------------------------
(* Slots and handles. *)

Handle(s, g) == [idx |-> s, gen |-> g]

\* Region::slot
Resolves(h) == slot[h.idx].used /\ slot[h.idx].gen = h.gen

FreeSlots == {s \in Slots : ~slot[s].used}

\* The first free slot at or after the cursor, all the way round.
NextFree == CHOOSE s \in FreeSlots :
              \A x \in FreeSlots : (s - cursor) % SlotCount <= (x - cursor) % SlotCount

\* Faulty: SCAN_WRAPPED is not set.
NeverWraps(next) == wrapped

Wraps(next) == wrapped \/ next = 0

\* alloc_slot and slot_publish.
Alloc(p) ==
    LET s    == NextFree
        next == (s + 1) % SlotCount
    IN  /\ slot' = [slot EXCEPT ![s] = [used |-> TRUE, gen |-> @.gen, pid |-> p,
                                        holders |-> <<>>, over |-> FALSE]]
        /\ cursor' = next
        /\ wrapped' = Wraps(next)
        /\ held' = [held EXCEPT ![p] = @ \cup {Handle(s, slot[s].gen % GenMod)}]

\* Freed, and of the next generation: handles that were given out are stale.
SlotFreed(sl) == [sl EXCEPT !.used = FALSE, !.gen = sl.gen + 1]

\* The slot with pid out of its holders: the last one takes its place.
holder_remove(sl, p) ==
    LET hs  == sl.holders
        cap == Len(hs)
        at  == {i \in 1 .. cap : hs[i] = p}
    IN  IF at = {} THEN sl
        ELSE [sl EXCEPT !.holders = SubSeq([hs EXCEPT ![Least(at)] = hs[cap]], 1, cap - 1)]

\* Faulty: the holders are not counted.
holder_add_unbounded(sl, p) ==
    IF \E i \in 1 .. Len(sl.holders) : sl.holders[i] = p THEN sl
    ELSE [sl EXCEPT !.holders = Append(@, p)]

holder_add(sl, p) ==
    CASE \E i \in 1 .. Len(sl.holders) : sl.holders[i] = p -> sl
      [] (\A i \in 1 .. Len(sl.holders) : sl.holders[i] # p) /\ Len(sl.holders) = MaxHolders ->
           [sl EXCEPT !.over = TRUE]
      [] OTHER -> [sl EXCEPT !.holders = Append(@, p)]

\* The nodes once everything registered on a slot of S has been woken.
Woken(S) == [k \in NodeIds |-> IF node[k].on \in S THEN [node[k] EXCEPT !.on = NIL] ELSE node[k]]

\* A handle of an object that exists, however the caller came by it.  A handle
\* that does not resolve is refused and nothing changes.
Known == {h \in {Handle(s, slot[s].gen % GenMod) : s \in Slots \ {0}} : Resolves(h)}

\* Bound: objects created so far.
Created == Cardinality({x \in (Slots \ {0}) \X (0 .. MaxCreates) :
                          x[2] < slot[x[1]].gen + (IF slot[x[1]].used THEN 1 ELSE 0)})

-----------------------------------------------------------------------------
(* What processes do between sweeps; all of it under the lock. *)

Runs(p) == p \in alive /\ pc[p] = "idle" /\ lock = NoPid

\* retain: p got the handle from another process.
retain(p) ==
    /\ Runs(p)
    /\ \E h \in Known :
         /\ slot' = [slot EXCEPT ![h.idx] = holder_add(@, p)]
         /\ held' = [held EXCEPT ![p] = @ \cup {h}]
    /\ UNCHANGED <<cursor, wrapped, nodes, sweep_ns, lock, now, alive, lives, mine, pc, sweeper>>

release(p) ==
    /\ Runs(p)
    /\ \E h \in Known :
         /\ slot' = [slot EXCEPT ![h.idx] = holder_remove(@, p)]
         /\ held' = [held EXCEPT ![p] = @ \ {h}]
    /\ UNCHANGED <<cursor, wrapped, nodes, sweep_ns, lock, now, alive, lives, mine, pc, sweeper>>

\* close frees the object for everybody: nobody holds it any more.
close(p) ==
    /\ Runs(p)
    /\ \E h \in Known :
         /\ slot' = [slot EXCEPT ![h.idx] = SlotFreed(holder_remove(@, p))]
         /\ node' = Woken({h.idx})
         /\ held' = [q \in Pids |-> held[q] \ {h}]
    /\ UNCHANGED <<cursor, wrapped, fresh, sweep_ns, lock, now, alive, lives, mine, pc, sweeper>>

\* node_alloc: one off the free list, or a fresh one if the list is empty.
NodeChoice ==
    LET list == {k \in NodeIds : k < fresh /\ ~node[k].own}
    IN  IF list # {} THEN list ELSE NodeIds \cap {fresh}

\* A wait puts a new node on the list of an object.
NodeAlloc(p) ==
    /\ Runs(p) /\ Cardinality(mine[p]) < MaxWaits
    /\ \E k \in NodeChoice, s \in Slots \ {0} :
         /\ slot[s].used
         /\ node' = [node EXCEPT ![k] = [own |-> TRUE, pid |-> p, on |-> s]]
         /\ fresh' = IF k < fresh THEN fresh ELSE k + 1
         /\ mine' = [mine EXCEPT ![p] = @ \cup {k}]
    /\ UNCHANGED <<table, sweep_ns, lock, now, alive, lives, held, pc, sweeper>>

\* A woken waiter goes round and registers its node again.
NodeRegister(p) ==
    /\ Runs(p)
    /\ \E k \in mine[p], s \in Slots \ {0} :
         /\ slot[s].used /\ node[k].on = NIL
         /\ node' = [node EXCEPT ![k].on = s]
    /\ UNCHANGED <<table, fresh, sweep_ns, lock, now, people, pc, sweeper>>

\* A signal operation walks the list of an object.
Signal(p) ==
    /\ Runs(p)
    /\ \E s \in Slots \ {0} :
         /\ slot[s].used /\ \E k \in NodeIds : node[k].on = s
         /\ node' = Woken({s})
    /\ UNCHANGED <<table, fresh, sweep_ns, lock, now, people, pc, sweeper>>

\* waiter_cleanup: the wait is over and its nodes go back.
waiter_cleanup(p) ==
    /\ Runs(p) /\ mine[p] # {}
    /\ node' = [k \in NodeIds |-> IF k \in mine[p] THEN FreeNode ELSE node[k]]
    /\ mine' = [mine EXCEPT ![p] = {}]
    /\ UNCHANGED <<table, fresh, sweep_ns, lock, now, alive, lives, held, pc, sweeper>>

-----------------------------------------------------------------------------
(* The sweep. *)

\* Only what was ever handed out is scanned.
slot_hi == IF wrapped THEN SlotCount ELSE cursor

\* SweepScan::new, PidCache::new; the caller has the lock.
Start(p, m) ==
    /\ lock' = p
    /\ pc' = [pc EXCEPT ![p] = "collect"]
    /\ mode' = [mode EXCEPT ![p] = m]
    /\ scan' = [scan EXCEPT ![p] = [node_hi |-> fresh, slot_hi |-> slot_hi, pos |-> 0]]
    /\ UNCHANGED <<cands, rest, ask, dead, cache, freed>>

\* The sweep is over: everything it kept is gone.
Forget(p) ==
    /\ pc' = [pc EXCEPT ![p] = "idle"]
    /\ mode' = [mode EXCEPT ![p] = "none"]
    /\ scan' = [scan EXCEPT ![p] = NoScan]
    /\ cache' = [cache EXCEPT ![p] = <<>>]
    /\ freed' = [freed EXCEPT ![p] = FALSE]
    /\ UNCHANGED <<cands, rest, ask, dead>>

sweep_dead(p) ==
    /\ Runs(p)
    /\ Start(p, "sweep_dead")
    /\ UNCHANGED <<table, nodes, sweep_ns, now, people>>

\* create_*: alloc_slot, or a sweep first if the table is full.
create(p) ==
    /\ Runs(p) /\ Created < MaxCreates
    /\ IF FreeSlots # {}
       THEN /\ Alloc(p)
            /\ UNCHANGED <<lock, pc, sweeper>>
       ELSE /\ Start(p, "create")
            /\ UNCHANGED <<table, held>>
    /\ UNCHANGED <<nodes, sweep_ns, now, alive, lives, mine>>

Due == now - sweep_ns >= Interval

\* auto_sweep_dead: the look without the lock ...
AutoCheck(p) ==
    /\ p \in alive /\ pc[p] = "idle" /\ Interval > 0 /\ Due
    /\ pc' = [pc EXCEPT ![p] = "claim"]
    /\ UNCHANGED <<table, nodes, sweep_ns, lock, now, people, sweeper>>

\* Faulty: the interval is not looked at again under the lock.
AutoClaimUnchecked(p) ==
    /\ p \in alive /\ pc[p] = "claim" /\ lock = NoPid
    /\ sweep_ns' = now
    /\ Start(p, "auto")
    /\ UNCHANGED <<table, nodes, now, people>>

\* ... and the claim under it.
AutoClaim(p) ==
    /\ p \in alive /\ pc[p] = "claim" /\ lock = NoPid
    /\ IF Due
       THEN /\ sweep_ns' = now
            /\ Start(p, "auto")
       ELSE /\ pc' = [pc EXCEPT ![p] = "idle"]
            /\ UNCHANGED <<sweep_ns, lock, sweeper>>
    /\ UNCHANGED <<table, nodes, now, people>>

\* The candidate at position j, as it is now.
Cand(j, sc) ==
    IF j < sc.node_hi
    THEN [node |-> TRUE, index |-> j, pid |-> node[j].pid, gen |-> 0,
          holders |-> <<>>, over |-> FALSE]
    ELSE LET s == j - sc.node_hi
         IN  [node |-> FALSE, index |-> s, pid |-> slot[s].pid, gen |-> slot[s].gen,
              holders |-> slot[s].holders, over |-> slot[s].over]

IsCand(j, sc) ==
    IF j < sc.node_hi
    THEN node[j].on # NIL
    ELSE LET s == j - sc.node_hi IN slot[s].used /\ slot[s].pid # NoPid

\* The creator first, then the holders.
PidsOf(c) == <<c.pid>> \o c.holders

\* The end of a sweep: a create that freed something tries again.
Finish(p) ==
    /\ IF mode[p] = "create" /\ freed[p]
       THEN Alloc(p) ELSE UNCHANGED <<table, held>>
    /\ lock' = NoPid
    /\ Forget(p)

\* Faulty: the last candidate of a full chunk is the first of the next.
ScanEndInclusive(sc, found, chunk) ==
    IF Cardinality(found) >= SweepChunk
    THEN CHOOSE j \in chunk : \A i \in chunk : i <= j
    ELSE sc.node_hi + sc.slot_hi

\* Where the scan goes on: behind the last candidate of a full chunk.
ScanEnd(sc, found, chunk) ==
    IF Cardinality(found) >= SweepChunk
    THEN 1 + (CHOOSE j \in chunk : \A i \in chunk : i <= j)
    ELSE sc.node_hi + sc.slot_hi

\* SweepScan::next_chunk, and the unlock of an auto-sweep.
Collect(p) ==
    /\ p \in alive /\ pc[p] = "collect"
    /\ LET sc    == scan[p]
           found == {j \in sc.pos .. sc.node_hi + sc.slot_hi - 1 : IsCand(j, sc)}
           chunk == {j \in found : Cardinality({i \in found : i <= j}) <= SweepChunk}
       IN  IF chunk = {}
           THEN Finish(p)
           ELSE /\ cands' = [cands EXCEPT ![p] = [j \in chunk |-> Cand(j, sc)]]
                /\ rest' = [rest EXCEPT ![p] = chunk]
                /\ ask' = [ask EXCEPT ![p] = PidsOf(Cand(Least(chunk), sc))]
                /\ scan' = [scan EXCEPT ![p].pos = ScanEnd(sc, found, chunk)]
                /\ pc' = [pc EXCEPT ![p] = "probe"]
                /\ lock' = IF mode[p] = "auto" THEN NoPid ELSE p
                /\ UNCHANGED <<table, held, mode, dead, cache, freed>>
    /\ UNCHANGED <<nodes, sweep_ns, now, alive, lives, mine>>

Cached(p, q) == {i \in 1 .. Len(cache[p]) : cache[p][i].pid = q}

\* PidCache::alive: a remembered answer, or kill(pid, 0).
Verdict(p, q) ==
    IF Cached(p, q) # {} THEN cache[p][Least(Cached(p, q))].alive ELSE q \in alive

\* The ring of CacheSize entries with one more in it.
Remember(p, q) ==
    LET c == cache[p]
        e == [pid |-> q, alive |-> q \in alive]
    IN  CASE Cached(p, q) # {} -> c
          [] Cached(p, q) = {} /\ Len(c) < CacheSize -> Append(c, e)
          [] Cached(p, q) = {} /\ Len(c) >= CacheSize -> Append(Tail(c), e)

MoreToAsk(p) == Len(ask[p]) > 1

\* cand_alive, one pid at a time.  Alive settles the candidate; so does the
\* last pid.
Probe(p) ==
    /\ p \in alive /\ pc[p] = "probe"
    /\ LET q    == Head(ask[p])
           up   == Verdict(p, q)
           j    == Least(rest[p])
           left == rest[p] \ {j}
       IN  /\ cache' = [cache EXCEPT ![p] = Remember(p, q)]
           /\ IF ~up /\ MoreToAsk(p)
              THEN /\ ask' = [ask EXCEPT ![p] = Tail(@)]
                   /\ UNCHANGED <<rest, dead, pc>>
              ELSE /\ dead' = [dead EXCEPT ![p] = IF up THEN @ ELSE @ \cup {j}]
                   /\ rest' = [rest EXCEPT ![p] = left]
                   /\ ask' = [ask EXCEPT ![p] = IF left = {} THEN <<>>
                                                ELSE PidsOf(cands[p][Least(left)])]
                   /\ pc' = [pc EXCEPT ![p] = IF left = {} THEN "reap" ELSE "probe"]
    /\ UNCHANGED <<table, nodes, sweep_ns, lock, now, people, mode, scan, cands, freed>>

\* Faulty: the holders are not compared with the snapshot.
SameSlotNoHolders(c) ==
    LET sl == slot[c.index]
    IN  sl.used /\ sl.pid = c.pid /\ sl.gen = c.gen /\ ~sl.over

\* A slot candidate is still what it was when it was collected.
SameSlot(c) ==
    LET sl == slot[c.index]
    IN  /\ sl.used /\ sl.pid = c.pid /\ sl.gen = c.gen
        /\ sl.holders = c.holders /\ sl.over = c.over
        /\ ~sl.over

\* Faulty: whatever has the index is taken for the candidate.
SameNodeByIndex(c) == node[c.index].on # NIL

SameNode(c) == node[c.index].on # NIL /\ node[c.index].pid = c.pid

\* reap_dead_locked: nodes come before slots, so a waiter that is freed is
\* not woken.
Reap(p) ==
    /\ p \in alive /\ pc[p] = "reap" /\ lock \in {p, NoPid}
    /\ LET gone == {cands[p][j] : j \in dead[p]}
           ns   == {c.index : c \in {c \in gone : c.node /\ SameNode(c)}}
           ss   == {c.index : c \in {c \in gone : ~c.node /\ SameSlot(c)}}
       IN  /\ node' = [k \in NodeIds |-> IF k \in ns THEN FreeNode
                                         ELSE Woken(ss)[k]]
           /\ slot' = [s \in Slots |-> IF s \in ss THEN SlotFreed(slot[s]) ELSE slot[s]]
           /\ freed' = [freed EXCEPT ![p] = @ \/ ss # {}]
    /\ lock' = p
    /\ pc' = [pc EXCEPT ![p] = "collect"]
    /\ cands' = [cands EXCEPT ![p] = NoCands]
    /\ dead' = [dead EXCEPT ![p] = {}]
    /\ UNCHANGED <<cursor, wrapped, fresh, sweep_ns, now, people, mode, scan, rest, ask, cache>>

-----------------------------------------------------------------------------
(* The world. *)

\* The process is gone: with it what it knew, and its hold on the robust lock.
Die(p) ==
    /\ p \in alive
    /\ alive' = alive \ {p}
    /\ held' = [held EXCEPT ![p] = {}] /\ mine' = [mine EXCEPT ![p] = {}]
    /\ lock' = IF lock = p THEN NoPid ELSE lock
    /\ pc' = [pc EXCEPT ![p] = "idle"]
    /\ mode' = [mode EXCEPT ![p] = "none"]
    /\ scan' = [scan EXCEPT ![p] = NoScan] /\ cands' = [cands EXCEPT ![p] = NoCands]
    /\ rest' = [rest EXCEPT ![p] = {}] /\ ask' = [ask EXCEPT ![p] = <<>>]
    /\ dead' = [dead EXCEPT ![p] = {}] /\ cache' = [cache EXCEPT ![p] = <<>>]
    /\ freed' = [freed EXCEPT ![p] = FALSE]
    /\ UNCHANGED <<table, nodes, sweep_ns, now, lives>>

\* The system gives the pid to a new process.
Reborn(p) ==
    /\ p \notin alive /\ lives[p] < MaxLives
    /\ alive' = alive \cup {p}
    /\ lives' = [lives EXCEPT ![p] = @ + 1]
    /\ UNCHANGED <<table, nodes, sweep_ns, lock, now, held, mine, pc, sweeper>>

Tick ==
    /\ now < MaxNow
    /\ now' = now + 1
    /\ UNCHANGED <<table, nodes, sweep_ns, lock, people, pc, sweeper>>

SweepStep(p) == Collect(p) \/ Probe(p) \/ Reap(p)

Use(p) == \/ create(p) \/ retain(p) \/ release(p) \/ close(p)
          \/ NodeAlloc(p) \/ NodeRegister(p) \/ Signal(p) \/ waiter_cleanup(p)

Next ==
    \/ \E p \in Pids : \/ Use(p) \/ sweep_dead(p) \/ AutoCheck(p) \/ AutoClaim(p)
                       \/ SweepStep(p) \/ Die(p) \/ Reborn(p)
    \/ Tick

Spec == Init /\ [][Next]_vars

\* A process inside a sweep keeps running, and gets the lock if it is free
\* again and again.  Nobody has to do anything else.
FairSpec == Spec /\ \A p \in Pids : SF_vars(SweepStep(p))

-----------------------------------------------------------------------------
SlotRecord == [used : BOOLEAN, gen : Nat, pid : Pids \cup {NoPid},
               holders : Seq(Pids), over : BOOLEAN]
NodeRecord == [own : BOOLEAN, pid : Pids \cup {NoPid}, on : Slots \cup {NIL}]

TypeOK ==
    /\ slot \in [Slots -> SlotRecord] /\ cursor \in Slots /\ wrapped \in BOOLEAN
    /\ \A s \in Slots : Len(slot[s].holders) <= MaxHolders
    /\ node \in [NodeIds -> NodeRecord] /\ fresh \in 0 .. NodeCount
    /\ sweep_ns \in Nat /\ now \in Nat /\ lock \in Pids \cup {NoPid}
    /\ alive \subseteq Pids /\ lives \in [Pids -> Nat]
    /\ held \in [Pids -> SUBSET [idx : Slots, gen : Nat]] /\ mine \in [Pids -> SUBSET NodeIds]
    /\ pc \in [Pids -> {"idle", "claim", "collect", "probe", "reap"}]
    /\ mode \in [Pids -> Modes]
    /\ scan \in [Pids -> [node_hi : Nat, slot_hi : Nat, pos : Nat]]
    /\ \A p \in Pids : rest[p] \cup dead[p] \subseteq DOMAIN cands[p]
    /\ ask \in [Pids -> Seq(Pids)] /\ freed \in [Pids -> BOOLEAN]
    /\ \A p \in Pids : Len(cache[p]) <= CacheSize

\* `An object is reaped only when its creator and every holder are dead': what
\* a living process created or retained, and nobody closed, still resolves,
\* whoever sweeps meanwhile and whatever changed while the lock was dropped.
HeldResolves == \A p \in alive : \A h \in held[p] : Resolves(h)

\* A sweep frees no node of a living waiter: the nodes of a wait are its own
\* until it gives them back, so its cleanup frees none a second time.
NodesKept ==
    \A p \in alive : \A k \in mine[p] :
        /\ node[k].own /\ node[k].pid = p
        /\ \A q \in alive \ {p} : k \notin mine[q]

\* Every sweep comes to its end, however many objects and nodes are created
\* while it runs: the ranges it scans are those of its beginning.
SweepEnds ==
    \A p \in Pids : (pc[p] \in {"collect", "probe", "reap"}) ~> (pc[p] \in {"idle", "claim"})
=============================================================================
