----------------------------- MODULE RegionOpen -----------------------------
(***************************************************************************)
(* open_and_map of src/core.rs: processes that start at about the same     *)
(* time and each open, lock, size, map and, if it is new, initialise the   *)
(* region file; a file that does not fit is unlinked and another made.     *)
(*                                                                         *)
(*   start      wants to open the path        half    header written, rest *)
(*   opened     wants the flock                       of the region not    *)
(*   locked     has it; fstat and ftruncate   check   reads the header     *)
(*   init       maps a file it has sized      stale   wants to unlink      *)
(*   done, failed, refused (ESTALE), dead     how it ended                 *)
(*                                                                         *)
(* A process may die, or a system call of its fail, at every step.         *)
(***************************************************************************)
EXTENDS Integers, FiniteSets

CONSTANTS
    Procs,
    NoProc,       \* nobody holds the flock
    MaxTries,     \* the 4 of `for _ in 0..4'
    MaxInodes,    \* bound: files made, the first one included
    FirstFiles    \* what may be found at the path: a subset of Files

ASSUME RegionAssumption ==
    /\ NoProc \notin Procs /\ IsFiniteSet(Procs)
    /\ MaxTries \in Nat \ {0}
    /\ MaxInodes \in Nat \ {0}

(***************************************************************************)
(* A file: its size (of this layout, another, or zero) and how much of it  *)
(* is initialised: nothing, another layout, the fields that an opener      *)
(* looks at, or everything.                                                *)
(***************************************************************************)
Files == [size : {"zero", "right", "wrong"},
          head : {"none", "other", "checks", "complete"}]

File(size, head) == [size |-> size, head |-> head]
EmptyFile == File("zero", "none")
Inodes    == 1 .. MaxInodes
NoInode   == 0

\* A file without a byte has no header.
ASSUME FilesAssumption ==
    FirstFiles \subseteq {f \in Files : f.size = "zero" => f.head = "none"}

VARIABLES
    name,     \* the inode the path names, or NoInode
    file,     \* file[i]
    last,     \* inodes made so far
    holder,   \* holder[i]: who has the flock on i
    pc,
    ino,      \* ino[p]: the inode p has open or mapped
    tries,    \* attempts of p that ended with ESTALE
    torn,     \* inodes whose initialiser died halfway
    denied    \* processes an unlink of which has failed

vars == <<name, file, last, holder, pc, ino, tries, torn, denied>>

\* The file found at the path, if there is one, is in use by processes that
\* are running already, or was left by one that died.
Init ==
    /\ \/ /\ name = 1 /\ last = 1
          /\ file \in [Inodes -> FirstFiles \cup {EmptyFile}]
          /\ file[1] \in FirstFiles /\ \A i \in Inodes \ {1} : file[i] = EmptyFile
       \/ /\ name = NoInode /\ last = 0
          /\ file = [i \in Inodes |-> EmptyFile]
    /\ holder = [i \in Inodes |-> NoProc]
    /\ pc = [p \in Procs |-> "start"]
    /\ ino = [p \in Procs |-> NoInode]
    /\ tries = [p \in Procs |-> 0]
    /\ torn = {i \in Inodes : file[i].head = "checks"} /\ denied = {}

Goto(p, label) == pc' = [pc EXCEPT ![p] = label]
Unlocked(p)    == [i \in Inodes |-> IF holder[i] = p THEN NoProc ELSE holder[i]]

-----------------------------------------------------------------------------
\* open with O_CREAT
Open(p) ==
    /\ pc[p] = "start"
    /\ IF name # NoInode
       THEN /\ ino' = [ino EXCEPT ![p] = name]
            /\ UNCHANGED <<name, last>>
       ELSE /\ last < MaxInodes
            /\ last' = last + 1
            /\ name' = last'
            /\ ino' = [ino EXCEPT ![p] = last']
    /\ Goto(p, "opened")
    /\ UNCHANGED <<file, holder, tries, torn, denied>>

\* Faulty: the initialisation is not serialised.
FlockFreeAlways(i) == TRUE

FlockFree(i) == holder[i] = NoProc

Flock(p) ==
    /\ pc[p] = "opened" /\ FlockFree(ino[p])
    /\ holder' = [holder EXCEPT ![ino[p]] = p]
    /\ Goto(p, "locked")
    /\ UNCHANGED <<name, file, last, ino, tries, torn, denied>>

\* Faulty: a file of another size is brought to this one's.
StatResizes(p) ==
    /\ pc[p] = "locked"
    /\ CASE file[ino[p]].size \in {"zero", "wrong"} ->
              /\ file' = [file EXCEPT ![ino[p]].size = "right"]
              /\ Goto(p, "init") /\ UNCHANGED holder
         [] file[ino[p]].size = "right" ->
              Goto(p, "check") /\ UNCHANGED <<file, holder>>
    /\ UNCHANGED <<name, last, ino, tries, torn, denied>>

\* Faulty: the flock of a stale file is kept.
StatKeepsFlock(p) ==
    /\ pc[p] = "locked"
    /\ CASE file[ino[p]].size = "wrong" ->
              Goto(p, "stale") /\ UNCHANGED <<file, holder>>
         [] file[ino[p]].size = "zero" ->
              /\ file' = [file EXCEPT ![ino[p]].size = "right"]
              /\ Goto(p, "init") /\ UNCHANGED holder
         [] file[ino[p]].size = "right" ->
              Goto(p, "check") /\ UNCHANGED <<file, holder>>
    /\ UNCHANGED <<name, last, ino, tries, torn, denied>>

\* fstat, and ftruncate of an empty file.
Stat(p) ==
    /\ pc[p] = "locked"
    /\ CASE file[ino[p]].size = "wrong" ->
              /\ holder' = Unlocked(p)
              /\ Goto(p, "stale") /\ UNCHANGED file
         [] file[ino[p]].size = "zero" ->
              /\ file' = [file EXCEPT ![ino[p]].size = "right"]
              /\ Goto(p, "init") /\ UNCHANGED holder
         [] file[ino[p]].size = "right" ->
              Goto(p, "check") /\ UNCHANGED <<file, holder>>
    /\ UNCHANGED <<name, last, ino, tries, torn, denied>>

\* The lock and the fields that say what the file is ...
InitHeader(p) ==
    /\ pc[p] = "init"
    /\ file' = [file EXCEPT ![ino[p]].head = "checks"]
    /\ Goto(p, "half")
    /\ UNCHANGED <<name, last, holder, ino, tries, torn, denied>>

\* ... and after them the pools, the cursor and slot 0.
InitRest(p) ==
    /\ pc[p] = "half"
    /\ file' = [file EXCEPT ![ino[p]].head = "complete"]
    /\ holder' = Unlocked(p)
    /\ Goto(p, "done")
    /\ UNCHANGED <<name, last, ino, tries, torn, denied>>

\* A file of the right size: is it of this layout?
Check(p) ==
    /\ pc[p] = "check"
    /\ holder' = Unlocked(p)
    /\ Goto(p, IF file[ino[p]].head \in {"checks", "complete"} THEN "done" ELSE "stale")
    /\ UNCHANGED <<name, file, last, ino, tries, torn, denied>>

\* Faulty: one attempt too many.
RetryOnceMore(p) ==
    /\ pc[p] = "stale"
    /\ tries' = [tries EXCEPT ![p] = @ + 1]
    /\ Goto(p, IF tries[p] < MaxTries THEN "start" ELSE "refused")
    /\ ino' = [ino EXCEPT ![p] = NoInode]
    /\ UNCHANGED <<file, last, holder, torn>>

\* The end of an attempt that met a stale file.
Retry(p) ==
    /\ pc[p] = "stale"
    /\ tries' = [tries EXCEPT ![p] = @ + 1]
    /\ Goto(p, IF tries'[p] < MaxTries THEN "start" ELSE "refused")
    /\ ino' = [ino EXCEPT ![p] = NoInode]
    /\ UNCHANGED <<file, last, holder, torn>>

\* Faulty: the stale file stays.
UnlinkForgotten(p) == Retry(p) /\ UNCHANGED <<name, denied>>

\* unlink takes away whatever the path names by now ...
Unlink(p) == Retry(p) /\ name' = NoInode /\ UNCHANGED denied

\* ... or fails, which nobody looks at.
UnlinkFails(p) == Retry(p) /\ denied' = denied \cup {p} /\ UNCHANGED name

\* open, flock, fstat, ftruncate or mmap fails: the error is final.
Fail(p) ==
    /\ pc[p] \in {"start", "opened", "locked", "init", "check"}
    /\ holder' = Unlocked(p)
    /\ Goto(p, "failed")
    /\ ino' = [ino EXCEPT ![p] = NoInode]
    /\ UNCHANGED <<name, file, last, tries, torn, denied>>

\* How the opening ends, once for each process: `init' keeps what it got.
Over == {"done", "failed", "refused", "dead"}

Die(p) ==
    /\ pc[p] \notin Over
    /\ holder' = Unlocked(p)
    /\ torn' = IF pc[p] = "half" THEN torn \cup {ino[p]} ELSE torn
    /\ Goto(p, "dead")
    /\ ino' = [ino EXCEPT ![p] = NoInode]
    /\ UNCHANGED <<name, file, last, tries, denied>>

Step(p) == \/ Open(p) \/ Flock(p) \/ Stat(p) \/ InitHeader(p) \/ InitRest(p)
           \/ Check(p) \/ Unlink(p)

Next == \E p \in Procs : Step(p) \/ UnlinkFails(p) \/ Fail(p) \/ Die(p)

Spec == Init /\ [][Next]_vars

\* A process keeps running, and gets the flock if that is free again and again.
FairSpec == Spec /\ \A p \in Procs : SF_vars(Step(p))

-----------------------------------------------------------------------------
\* The type invariant; an opener makes at most MaxTries attempts.
TypeOK ==
    /\ name \in Inodes \cup {NoInode} /\ last \in 0 .. MaxInodes
    /\ file \in [Inodes -> Files]
    /\ holder \in [Inodes -> Procs \cup {NoProc}]
    /\ pc \in [Procs -> {"start", "opened", "locked", "init", "half", "check", "stale"} \cup Over]
    /\ ino \in [Procs -> Inodes \cup {NoInode}]
    /\ tries \in [Procs -> 0 .. MaxTries]
    /\ torn \subseteq Inodes /\ denied \subseteq Procs

Done == {p \in Procs : pc[p] = "done"}

\* Somebody may have it mapped: an opener that has succeeded, or processes
\* that found it complete, or of their own layout, before.
InUse == {ino[p] : p \in Done} \cup {i \in Inodes : file[i].head \in {"other", "complete"}}

\* `never truncated or zeroed in place': nothing an opener does, whoever races
\* it, changes a file that somebody may have mapped.
NeverHarmed == [][\A i \in InUse : file'[i] = file[i]]_vars

\* Who succeeds has a region that is initialised to the last field, unless the
\* process that initialised it died after the fields that openers look at.
RegionReady ==
    \A p \in Done : file[ino[p]].head = "complete" \/ ino[p] \in torn

\* The attempts are enough: whoever is refused with ESTALE, and could unlink,
\* met in each attempt but one a file left by a process that died or failed.
RetryEnough ==
    \A p \in Procs \ denied : pc[p] = "refused" =>
        Cardinality({q \in Procs : pc[q] \in {"dead", "failed"}}) >= MaxTries - 1

\* Every opener that goes on running comes to an end.
OpenEnds == \A p \in Procs : <>(pc[p] \in Over)

\* `any process that opens the same region path sees the same handles': those
\* who have succeeded have mapped the same file.
OneRegion == \A p, q \in Done : ino[p] = ino[q]
=============================================================================
