# ntsync-android in TLA+

`ntsync-android` is a userspace version of the Linux `ntsync` driver: semaphores,
mutexes and events with the semantics of NT, kept in one file that every process of
a Wine prefix maps. This directory holds TLA+ models of its core (`src/core.rs`), the TLC
runs that check them on small instances, and TLAPS proofs about them.

## The system

| part | state | operations | interacts by |
|---|---|---|---|
| object words | `w0` (packed state), `d` (pulse counter) per slot | `sem_release`, `event_set/reset/pulse`, `mutex_unlock/kill`, `read_*`, `try_acquire`, `rollback_acquire` | CAS on `w0`, by anybody, without the lock |
| wait engine | per call: position, pulse snapshot, nodes, deadline, what a wait-all has taken | `wait_any`, `wait_all`: fast path, locked path, spin, spin tail, futex sleep, cleanup | tries words without the lock; registers nodes under it; sleeps on its head node's `seq` |
| slot table | `state`, `generation`, `obj_type`, `pid`, `next_scan` | `create_*`, `close`, `slot()` | under the region lock, read without it |
| holders and sweep | `holders`, `holders_len`, `sweep_ns` | `retain`, `release`, `sweep_dead`, `auto_sweep_dead`, sweep of a full table | the lock, dropped while an auto-sweep probes pids |
| waiter nodes | pool, free list, one list per object | `node_alloc/free/register/detach`, `wake_object` | the lock; `seq` and `registered` are also read without it |
| region lock | robust process-shared mutex, signal mask | `lock_guard` | everybody |
| region file | size, header, inode | `open_and_map` | `flock`, `unlink`, `mmap` |
| spin budget | thread-local credit and token bucket | `spin_budget`, `tail_budget` | decides how long a wait spins |
| C ABI | none | `ntsync_*` | errno and timeout conversion |

What is hard in it: a signal is a CAS *followed by* a look at a list, a wait is a
registration *followed by* a try, and nothing but that order keeps a wakeup from
being lost; a wait-all takes and puts back objects that others see in between; handles
are validated without the lock and used later; processes die anywhere; the sweep
decides with the lock dropped and acts with it taken again. `PROJECT.json` lists these
hazards line by line with the properties that watch them.

What makes each part correct: words stay within their type; no sleeper misses what it waits
for, its alert, a pulse or a close, and none times out on what was there all the time;
every exit of a wait gives back what it took; to its callers each operation and each wait-any happens at one
instant, a pulse at three; what the tail may spin is bounded, and comes back; a timeout is neither early nor late by more than one round; a node has one owner and one list, whoever dies; a handle names one object; the sweep
frees nothing that a living process holds and leaves nothing that is dead; one sweep
per interval; everything that waits for the lock gets it.

## Modules

* `NtObject` - the word and the pure part of each operation on it: from the loaded
  word to the word to store and what the caller is told. `MaxRec` stands for `0x7fff_ffff`;
  the 31-bit mask is kept (`% (MaxRec + 1)`).
* `WaitEngine` (extends `NtObject`) - threads that signal, pulse, close, create and wait. `pc[t]`
  says where in the code a thread stands; the module's head lists the labels. A thread's
  name is the owner id it waits with.
* `Ffi` - the return codes of the C ABI: what an outcome of an operation or a wait becomes for the caller.
* `NtSync` (extends `Ffi`) - the abstract specification: objects as the driver has them (a count, an owner, a flag; no words,
  slots, nodes, lock or sleep) on which every call but a pulse takes effect at one instant. A pulse takes effect at three - it reads what it
  will report, lets go those who wait, and clears the event - and others may act in between: a set that comes before the clear is taken away by it, even if its
  caller was itself let go by this pulse. A wait-any takes the first of its objects that it can have,
  gives up only after a pass in which each was unavailable at its own instant, and once it has blocked is reached by every pulse. Of a
  wait-all it says only which objects it touches and what it may reply. `close` and `create` are not part of it.
* `WaitRefinement` (extends `WaitEngine`, `Ffi`) - the refinement mapping and `Linearizable`.
* `NodeList` - the waiter nodes in memory, store by store, and processes that die between any two stores.
* `WaitHistory` - adds two history variables: which objects of a wait have been there
  ever since it was last up, and whether it was pulsed after it registered.
* `Sweep` - processes that create, retain, release, close and wait, die and come back
  under the same pid, and three kinds of sweep.
* `SweepHistory` - adds what was dead when a sweep began and when the last auto-sweep began.
* `RegionOpen` - processes that open the region file at once: open, `flock`, `fstat` with `ftruncate`, the header, the
  rest of the initialisation, the check of a file found, `unlink` and retry. A file is its size and how far it is
  initialised; the path names an inode or nothing.
* `SpinBudget` - the time of one thread: the caller's absolute timeout turned into a duration (`src/ffi.rs`), a deadline, and what is left
  of it in each round; the settings, spin credit and tail allowance, in the order in which a round of `wait` asks them. The
  history variable `exact` is a token bucket that never rounds; `due` and `lag` say when the wait should end and what delayed it.
* `MCWaitEngine`, `MCWaitHistory`, `MCNodeList`, `MCSweep`, `MCSweepHistory`, `MCRegionOpen`, `MCSpinBudget` - workloads and symmetry for TLC.
* `WaitEngineProofs` and, on top of it, `WakeProofs` - theorems about `WaitEngine` and `WaitHistory`; `RefinementProofs` - that it implements `NtSync`.
* `NodeListProofs` and, on top of it, `NodeLinkProofs` - theorems about `NodeList`.
* `RegionOpenProofs`, `SpinBudgetProofs`, `SweepProofs` - theorems about those modules, the last also about `SweepHistory`.

Operators marked *Faulty* are plausible mistakes in the definition that follows them.
They are used nowhere; substituted for it they must break the property `PROJECT.json` names.

### Where a step begins and ends

`WaitEngine` splits the code where another thread can look in between, and only there.

* A pass of a CAS loop is one step: a CAS that fails retries with a newer word.
* A critical section that shows nothing half-done to lock-free readers is one step
  (`Walk`, `close`, `Create`, `Cleanup`). The locked part of `wait` is several, since
  signalers change words under it.
* `event_pulse` is four steps under one hold of the lock, since sets, resets and attempts need no lock: the lookup and the load of
  what is reported (`event_pulse`), the store to the counter (`PulseCount`), the load of the word (`PulseLoad`, into `old`), and the store
  without the signal (`PulseStore`), which overwrites whatever others have made of the word meanwhile. The walk belongs to the last step: until it is done
  nobody can join or leave a list, since that needs the lock; a signaler who finds the list not yet empty waits for the lock and walks over nothing; a sleeper just sleeps a little longer; and a spinner that
  is not bumped yet does what it could do had it looked at its `seq` before.
* An attempt at an event is two steps, the word (`TryAny`, `TryAll`) and then, if it is not signaled, the pulse counter (`TryPulseAny`,
  `TryPulseAll`): a pulse, or the rest of one, may come between them. Both loads of the word in the code are one, since the second only repeats the first.
* The registration of several nodes is one step: nobody else registers for this thread, and
  a signaler reads the head of one list.
* `slot()` and the test of the type are one step. Afterwards the slot is used by index and
  not looked up again, as in the code: `Cas`, `TryAny`, `TryAll` and `Rollback` act on whatever the slot holds by then.
* `Peek` reads all objects, word and counter, at once. It only decides whether an attempt is made; a look that finds nothing because things change under it
  is an attempt that misses, and leads to the same place.
* `reg[t]` is the set of slots on whose lists `t` has a node. A walk wakes everybody on a list, so the
  order of a list and its links do not matter to this module. `Sweep` likewise keeps the owner and
  the list of a node, not its links. That the links deliver what both assume is `ListsSound` of `NodeList`.
* How long a thread spins, and whether it spins its tail, is left open: every outcome of the
  spin credit and of the tail allowance is allowed. With `NTSYNC_DEBUG` a wait without a deadline is cut into slices of 5 s; a slice
  that ends is an `Interrupt`, and a slice that ends in a spin tail is left out.
* Which free slot `create` takes is left open in `WaitEngine`; `Sweep` has the cursor.
* Memory is sequentially consistent. The code's fence between registration and try asks for no less;
  weaker orders are not modelled.

In `Sweep`, everything a process does under one hold of the lock is one step, except that
a sweep is split into chunks and single pids: while it has the lock the others can still die.
A handle is an index and what is left of the generation in 18 bits (`GenMod`). A wait is its nodes.

In `RegionOpen`, a step is a system call, or a part of the initialisation that a death can separate from the next one:
openers look at magic, version and the two capacities, so what is written after those is a step of its own. `Fail` is an error of any of the
calls, after which the process gives up; a failing `unlink` is a step of its own because the code goes on. In `SpinBudget` the
tail is charged and spun in one step, since nothing else reads the thread-local bucket; whatever takes time without being a wait (the entry, the
lock, a spin, the sweep, oversleeping) is a delay of up to `MaxLag` at the step it precedes. The clock is the monotonic one; a jump of
`CLOCK_REALTIME` after `timeout_to_duration` has sampled it is not followed by the code and not modelled.

In `NodeList` a step is one store to the region. The holder of the lock has a list of calls that it still has to make (`todo`) and the stores that are left of the one it is in (`stores`).
What a call stores is worked out from the memory when the call is reached; nobody else writes, so reading a call's operands at its start
is reading them where the code does. The alert event's node is the last of its wait. `Die` takes a process away between any two
stores and frees the lock, as a robust mutex does; a pointer computed from `NIL` lies outside of the mapping and kills whoever uses it (`Fault`).
`torn` remembers that somebody died inside a critical section.

### The refinement

`Linearizable` is `NtSync!Spec` under this mapping: an object is what `read_sem`, `read_mutex` or `read_event` would report of its word; a call is
pending until the step that decides it (the CAS of a signal operation, the successful CAS of a try, the look at the deadline), so the walk over
the waiters and the cleanup that follow are invisible; a wait has blocked from its validation under the lock on; it has missed
the handles that its current pass has been over, an event from the load of its word on; a pulse has reached it if an event's counter is no longer the one it sampled; and a pulse has
let go those who wait from its store to the counter on, and ends with its store to the word. The reply is the outcome
as `Ffi` reports it. Two things that one might expect of the driver are not in `NtSync`, because the code does not deliver them: a wait-any that times out
need not have found all its objects unavailable at *one* instant, and a pulse does not happen at *one* instant. The following is possible, in the code and in `NtSync`: a pulse
moves the counter, a poll that sampled it before succeeds, the poller sets the event and is told that it was not set, the pulse clears the word, and the next poll times out. No order of whole
calls explains that. Likewise a set between the first load of a pulse and its store is erased, and both calls report that the event was not set, although it ends unset:
`src/include/ntsync_user.h:129-130` says that "set/reset/pulse store the previous signaled state in *prev (if non-NULL), like the kernel ioctls", which have set and pulse exclude each other.

## Runs

Bounds are constants of the modules; each instance is the smallest in which the named cases happen.

| run | instance | shows |
|---|---|---|
| `any` | 2 waiters, 1 signaler, semaphore 0/1, mutex, 2 nodes, spin tail on, fair | `TypeOK`, `NoLostWakeup`, `WordsWellFormed`, `Linearizable`, `SignalWakes`, `TimedWaitReturns`: wait-any with release, unlock and `mutex_kill` under it; a wait on two objects and one on one exhaust the pool |
| `event` | 1 waiter for either or both objects, 1 that polls and sets the event that is pulsed, 1 signaler that pulses it and sets and resets the other; an auto-reset and a manual-reset event, spin and tail on, 1 pulse | `NoLostWakeup`, `NoFalseTimeout`, `PulseReaches`, `Linearizable`, with sets and polls between the stores of the pulse; wait-all when no other wait sleeps on what it takes and puts back |
| `reuse` | alertable waits and a polling wait-all, close, create and pulse, generations up to 2, duplicate handles | `NotStranded`, `TriesNamedObjects`, `FreeSlotUnlisted`, `NothingLeftBehind` |
| `sweep` | 3 processes, 1 object slot used twice, 1 node, 1 holder, chunk and cache of 1 | `TypeOK`, `HeldResolves`, `NodesKept`, `SweepComplete`, `OnePassPerInterval` |
| `sweep_ends` | 2 processes with 2 lives each, 1 slot, 1 node, fair | `SweepEnds` |
| `region` | 3 processes, 2 attempts each, no file, a leftover of another size or layout, one left blank or half-made, or a good file, fair | `TypeOK`, `RegionReady`, `RetryEnough`, `NeverHarmed`, `OpenEnds` |
| `budget` | 1 thread, a second of 10 units, percentages out of 10, credit -2 to 3, a probe every 4 rounds, timeouts from 1 ago to 3 ahead, delays of 1 | `TypeOK`, `RateBound`, `RefillsByHalf`, `ReEarned`, `Punctual` |
| `nodes` | 3 waiters of one object, one of which has it as its alert too and may die anywhere, another of which also signals, closes, creates and sweeps; 3 nodes, fair | `TypeOK`, `ListsSound`, `NoWildPointer`, `NoDoubleUse`, `SectionEnds` |

With one slot and one node there are two candidates, so a chunk of one makes a sweep drop the lock
between them; one holder makes the second one overflow; the cursor wraps at the first create, and
the table is full after it, so the next create sweeps; three processes are a sweeper, a dead owner and one that
picks the object or the node up meanwhile.
`CHECK_DEADLOCK FALSE` is set for the sweep, the region and the nodes: all processes may be dead or done, or bounds used up.
In `nodes` the waiters want four nodes and there are three: enough for a list with a middle, where a detach has both neighbours, and too few for all, so that
an allocation fails half-way. One mortal process suffices for a torn list, and the faults it leads to take the others.
In `region` the second attempt is the one that meets a file made meanwhile, and three processes are one that dies in the middle, and two
that race over what it left; seven inodes are one for each attempt and the first file, so that bound is never met. In `budget` the clock runs
long enough for the bucket to fill from empty and for the product in the refill to saturate; credit and allowance share nothing but the clock, so no
setting has both in play.

Runs expected to fail show where the code does not do what its comments or README say:

| run | property | what happens |
|---|---|---|
| `v_rollback` | `NoLostWakeup` | a wait-all polls, takes the semaphore, finds its event unset and puts the semaphore back; a thread that registered and tried in between sleeps with the semaphore available |
| `v_alert` | `AlertNotLost` | the alert event is set between its test and the registration of its node |
| `v_leak` | `DeadNodesPurged` | a waiter dies after a signal detached its node; no sweep collects it |
| `v_split` | `OneRegion` | two processes find the same leftover file; the first unlinks it and makes a region, the second then unlinks that one by path and makes another |

`PulseReaches` disagrees with a comment as well, and this time the code does better than it says: `src/core.rs:1667-1669` has it that "The entry_seqs snapshot is not refreshed during the spin, so a pulse shorter
than the window can be missed". A pulse is never undone: the event is clear again at once, but its counter stays moved, and just because the sample is kept, each later attempt of this wait sees that - in the spin, or
in the round after it. `event` has the spin on and `PulsesReach` is proved for every length of it. A statement that something *can* happen is not one that a behaviour violates, so there is no run for it.

`RefillsByHalf` says nothing of calls of `tail_budget` that are closer together than the time that a token takes to come back (`Second / budget`: 7 ns at 15 %, 100 ns at 1 %): `src/core.rs:2181-2185` stores the time of a refill
even if the refill was truncated to nothing, so a thread that called it that often would never get any allowance back. Between two calls of a thread lies a round of `wait`, with the region lock and an attempt at every object.

Two more that `WaitEngine` can do have no run: the alert event closed between its validation and a later lookup, which
is unwrapped, on the fast path as well as in a spin (label `panic`; `src/README.md:243` says that a close fails the wait), and a slot closed and reused between the
fast path's validation and its attempt, which goes by index. `TriesNamedObjects` shows that it is the fast path alone.

A death inside a critical section is what `ListsSound` and `NoWildPointer` except, because the code does not survive it as the comment at `src/core.rs:392-394` says
("the object states are still structurally valid because every op is a small, single-pass mutation"). Without the exception, `NodeList` shows: a process that dies in
`node_register` between `registered = 1` and the store to `obj` leaves a node that every later sweep takes for a dead waiter's and detaches
through `slot_ptr(NIL)`, so that each sweeper dies in turn; and one that dies in `node_detach` after relinking leaves a node that is still `registered` with old
links, and the sweep that detaches it again writes them over the list as it is by then, cutting off living waiters. What does survive any death is
`NoDoubleUse` - `waiter_cleanup` detaches all nodes before it frees one, and a node without `registered` is never reaped - and `SectionEnds`: a walk detaches
what it passes and follows the link it read first, so it cannot go round.

`RegionReady` excepts one kind of file: if its maker dies after `node_capacity` and before slot 0 is reserved, openers
take the region for complete (`torn`).

The rollback has further consequences that `WordsWellFormed` meets once wait-all is in the workload of
`any`: a semaphore released to its maximum in between ends above it, and a mutex killed in between gets an
owner with a count of 0 - 1. For that reason `WordsWellFormed` is checked for wait-any only. `HeldResolves`
assumes that a pid is not reused (`MaxLives = 1`) and that no slot was freed 2^18 times (`GenMod` above
`MaxCreates`); with `MaxLives = 2` a new process that retains an object under a dead holder's
pid loses it to a sweep under way, and with `GenMod = 1` the second object in a slot gets a handle that does not resolve.

### Fairness

`FairSpec` of `WaitEngine`: strong fairness of each thread's steps inside a call - the scheduler runs it, and it gets
the region lock if that is free again and again (a pthread mutex queues its waiters on a futex and
critical sections are short) - and weak fairness of the passing of each deadline. Nobody has to make
a call, and no sleep has to be interrupted: `SignalWakes` may not lean on either. `FairSpec` of `Sweep` asks
the same of a process inside a sweep and nothing of anybody else. `FairSpec` of `NodeList`: weak fairness of the steps of whoever has the lock; `lock_guard` blocks
`SIGUSR1`, with which Wine suspends threads, for exactly this. A holder may still die. `FairSpec` of `RegionOpen`: strong fairness of each opener, since the kernel
queues those who wait for a `flock`; an opener may still fail or die instead.

## Proofs

TLAPS proves, for every number of threads, table and pool size and bound, and every workload unless said otherwise:

* `WaitEngineProofs!TypeCorrect` - `TypeOK`. Not inductive as it stands: `TypeInv` adds, per thread, that a
  call's arguments are well formed and its snapshot has the right length (`CallOK`), that a try stands on one of its
  handles and has taken only earlier ones (`TryOK`), and what a thread holds at each label (`HoldOK`: the lock, its nodes).
  The lemma `AttemptType` shows that `try_acquire` succeeds exactly when `is_locked` says so.
* `WakeProofs!NobodyStranded`, `TriesWhatWasNamed`, `FreeSlotsUnlisted`, `WaitLeavesNothing` - the four properties of `reuse`. The inductive
  invariant `ListInv` adds to `TypeInv` that listed slots are in use, that nodes and lists go
  together, and that a thread that holds the lock past its validation, or is parked and not yet woken, stands on
  the lists of all its objects and all of them exist. `close` breaks the second part only for threads it wakes.
* `WakeProofs!WakeupsNotLost` - `NoLostWakeup`, if no wait-all runs, no slot is created and every
  thread unlocks with its own id (`AnyOnly`). `WakeInv` adds to `ListInv` that a thread past its registration has been *heard*: each object it
  has tried without success, or sleeps on, is unavailable to it unless a signaler has changed it, or a pulse has moved its counter, and not yet walked;
  of an event whose counter is still to be looked at, that goes for the word.
  The step that matters is a try that fails under the lock: whoever changes the object afterwards finds the node.
  `v_rollback` shows that the first assumption is needed.
* `WakeProofs!NoTimeoutIsFalse` - `NoFalseTimeout`. `GiveInv` adds to `TypeInv` that what has been there ever since a thread was up is still there and not behind its try, and that a thread
  whose try has failed, up to its timeout, has missed something. A failing attempt is on an object that was not there at that moment, and until the thread sleeps again nothing comes back into the history variable.
* `WakeProofs!PulsesReach` - `PulseReaches`. `PulseInv` adds to `ListInv` that each object of a wait that has registered is there or was closed (its slot has a later generation), that its pulse counter is
  not behind the wait's sample, that a pulsed wait has an object whose counter shows it, not yet passed by its try if it holds the lock, and that a wait about to time out keeps the lock until it has returned.
  Keeping the sample of the first round is what this rests on, and that `close` raises the generation: the counter of a slot starts again at zero when the slot is used again.
* `WaitEngineProofs!WordsStayWellFormed` - `WordsWellFormed`, if no wait-all runs, no slot gets a second object and objects are made well formed (`NoReuseNoAll`).
  `WordInv` adds to `TypeInv` that a signaler that has resolved its handle stands on a slot of its type: the slot is used by index from then on, and only because
  a slot never gets an object of another type does the CAS that follows fit the word.
* `RefinementProofs!WaitEngineRefines` - `Linearizable`: `WaitEngine` implements `NtSync` under the mapping above, for every finite set of threads, every table, pool and
  workload without wait-all, `close` and `create`, which `NtSync` does not have (`Promised`). Initial states map to initial states, and each action of `WaitEngine` to a step of
  `NtSync` or to none, one lemma per action (`CasSemSim` ... `StepRefines`). `RInv` adds to `WordInv` what the mapping leans on: past its validation a wait has only handles
  that name an object; the counters it sampled are not ahead of the objects'; while it holds the lock, no pulse comes between its attempts and its look at the deadline, so a wait that
  times out was not reached; a pulse that is to store the word has loaded one with the same kind of event (no other step changes that, `ManualKept`), so what it stores is the event as it is by then, cleared; and the nodes that threads have are those the pool is short of, so a wait fails for want of nodes only when `NtSync` lets it. The instance of `any` satisfies `Promised`.
* `RegionOpenProofs!RegionTypeOK`, `OpenedIsReady`, `MappedNeverHarmed`, `AttemptsSuffice` - `TypeOK`, `RegionReady`, `NeverHarmed` and `RetryEnough`, for every number of openers and attempts
  and every file found, if a file of size zero has no header (`FilesAssumption`). `FlockInv` says what the position of an opener tells of its file - from `flock` to the end it is the holder, before
  the header is written the file is blank - and of a header that passes the checks that its writer is still at it, has finished, or died. `AttemptInv`
  counts: every attempt that ended met a file that nobody can use, files are made with rising numbers, so no attempt meets one twice, and there are no more of them than openers that are gone, and the one found.
* `SpinBudgetProofs!WaitsPunctual`, `AllowanceEnforced`, `AllowanceReturns`, `CreditReEarned`, `SpinTypeOK` - all properties of `budget`, for every setting in the environment, every clock and every value of the code's
  constants for which the product in the refill saturates no sooner than a second after the last one (`SpinAssumption`; the code's constants meet it by far). `WaitInv` relates deadline, time left and the delays so far at each phase; `BucketInv` is `RateBound` and
  `RefillsByHalf` with the types, inductive because division rounds down, and loses no more than it leaves of a refill that is worth a token; `CreditInv` says
  how deep the debt can still be, given how many blocked waits in a row have won and how far the next probe is.
* `SweepProofs!SweepTypeOK`, `NodesStayWithTheLiving`, `LivingKeepTheirObjects` - `TypeOK`, `NodesKept` and `HeldResolves`, for every number of processes, slots, nodes and holders and every chunk and cache size, if no pid is
  used again (`MaxLives = 1`); the last one as long as generations fit the bits of a handle (`[]GenFits`). `SweepInv` says what a verdict is worth after the lock was dropped: a candidate found dead names nobody
  who lives, a cached `dead` is of a dead pid, and whoever lives and is named by the candidate at hand is still to be asked. The reap compares pid, generation and holders with the snapshot, so what it frees
  is what the verdict was about. `HeldInv` adds that the region knows of every living user, or that it does not know them all (`HOLDER_OVERFLOW`). Both assumptions are needed, as said under Runs; with pid reuse
  a stale verdict also frees a living waiter's node.
* `SweepProofs!SweepFreesTheDead`, `OneSweepPerInterval` - `SweepComplete`, if no pid is used again, and `OnePassPerInterval`, whatever happens to pids; the module extends `SweepHistory`. `DoomInv` follows an object that is dead
  ever since a sweep began: it lies in front of the scan, or is a candidate of the chunk and still what it was when it was collected, so that the comparison in the reap does not spare it; only its own pids are asked about,
  and none of them is remembered as living. `HighOK` says that nothing in use lies past the mark up to which a sweep looks. For the interval it is enough that the last auto-sweep began no later than `sweep_ns`.
* `NodeListProofs!TypeCorrect`, `NodesHaveOneUser` - `TypeOK` and `NoDoubleUse`, for every number of processes, nodes and objects, every set of waits, and deaths between any two stores. `ShapeInv` says
  what the holder of the lock can still have to do: which calls, in which order, and that the pending stores are the end of those of one call; a wait allocates no more than it wants, a cleanup
  detaches before it frees. `UseInv` adds who has a node: a wait, a cleanup that has not freed it yet, a sweep, a pending `node_alloc` or `node_free`, or the free list, and never two of them.
  That the free list is apart from the rest cannot be said by following it, since what a list holds is defined by recursion; it is said by a set
  that has the head, is closed under the link, and along which some rank rises. `UseInv` speaks of the memory as it is, so a death anywhere keeps it.
* `NodeLinkProofs!ListsStaySound`, `PointersStayInside` - `ListsSound` and `NoWildPointer`, for the same constants, as long as nobody has died inside a critical section (the properties themselves say so, and the code needs it). In the middle of
  `node_register` or `node_detach` the links do not agree, so `ListInv` says of the memory *as it will be once the pending stores are done* that it is linked both ways, that a rank rises along every list,
  and that what is registered has its object and its word. A store moves the memory towards that and changes nothing of it (`ListStore`); a call is then one step on sound lists, and `UnlinkedSound`, `InsertedSound` and `ClearedSound` say what
  `node_detach`, `node_register` and `node_alloc` make of them. Two parts are about more than one call: the node that `wake_object` has read ahead is still registered when it gets there (`Walk`),
  and a slot that is freed has no waiters left when its walk is over, so that `create` cuts nobody off (`Drains`). A list of rising rank ends within `NodeCount` steps by the pigeonhole principle
  (`ChainEnds`), and holds every registered node because one of least rank that it missed would have a neighbour before it (`AllListed`). TLC checked `ListInv` on the instance of `nodes` first, with ranks and future memory as witnesses.

Only model-checked, and why:

* liveness (`SignalWakes`, `TimedWaitReturns`, `SweepEnds`, `OpenEnds`, `SectionEnds`): fairness is outside the prover's reach;
* `NoLostWakeup` and `Linearizable` with wait-all in the workload: they hold in `event` because nobody sleeps on what the wait-all puts back, which is a property of that workload.

## Not modelled, and the plan

Left out for good: statistics and debug output, the tests, the soak test, the benchmark and the engine simulation (no behaviour of the library),
build scripts, memory orders below sequential consistency, the error returns of `lock_guard` (whose sign `errno` turns round once more, so that a caller would see a
positive number), the sweep and the dump after a futex timeout (`futex_wait` returns a negative errno and the match at `src/core.rs:1790` compares with positive ones, so they never run, and neither changes an object), the null-pointer checks of the C ABI, and the functions of it that pass on what `create`, `close`, `retain`, `release` and the sweep return.

`NtSync` has neither wait-all nor `close`: of both the code promises too little to state. What a wait-all does to others is shown by `v_rollback`; what a close does to waits, by `reuse`.

Every safety property of a passing run is stated by a theorem; what remains for TLC alone is liveness, and the two properties above for workloads with wait-all.
