-------------------------- MODULE RegionOpenProofs --------------------------
(***************************************************************************)
(* RegionOpen for every number of openers, files and attempts: the file    *)
(* that an opener gets is initialised, no opener changes a file that may   *)
(* be mapped, and MaxTries attempts are enough.                            *)
(*                                                                         *)
(* The argument is the flock.  Whoever is between `locked' and the end of  *)
(* its attempt holds the flock of its file, so at most one process is at   *)
(* "init" or "half" with it; a header that an opener accepts is then that  *)
(* of a file whose initialiser has finished, or has died halfway.          *)
(***************************************************************************)
EXTENDS RegionOpen, FiniteSetTheorems, TLAPS

USE RegionAssumption, FilesAssumption

Locked  == {"locked", "init", "half", "check"}
HasFile == {"opened", "stale", "done"} \cup Locked

\* What the position of an opener says of the file it has open.
OpenerOK(p) ==
    /\ pc[p] \in HasFile => ino[p] \in Inodes
    /\ pc[p] \in Locked => holder[ino[p]] = p
    /\ pc[p] = "init" => file[ino[p]] = File("right", "none")
    /\ pc[p] = "check" => file[ino[p]].size = "right"
    /\ pc[p] = "half" => file[ino[p]] = File("right", "checks") /\ ino[p] \notin torn
    /\ pc[p] \in {"start", "opened", "stale"} \cup Locked => tries[p] < MaxTries
    /\ pc[p] = "done" => file[ino[p]].head = "complete" \/ ino[p] \in torn

\* What a file's content says of its past.
FileOK(i) ==
    /\ file[i].size = "zero" => file[i].head = "none"
    /\ file[i].head = "checks" => i \in torn \/ \E p \in Procs : pc[p] = "half" /\ ino[p] = i
    /\ i \in torn => file[i].head = "checks"

FlockInv ==
    /\ TypeOK
    /\ \A p \in Procs : OpenerOK(p)
    /\ \A i \in Inodes : FileOK(i)

-----------------------------------------------------------------------------
(* How often an opener meets a file that does not fit. *)

\* A file that nobody can use any more and nobody is initialising.
Unfit(i) ==
    \/ file[i].size = "wrong"
    \/ /\ file[i].size = "right" /\ file[i].head \in {"none", "other"}
       /\ \A p \in Procs : ~(pc[p] = "init" /\ ino[p] = i)

Unfits == {i \in Inodes : Unfit(i)}

\* Every file that p has met in an attempt that is over has at most this number.
Met(p) == IF pc[p] \in HasFile THEN ino[p] - 1
          ELSE IF pc[p] = "start" /\ name # NoInode THEN name - 1
          ELSE last

Gone == {q \in Procs : pc[q] \in {"dead", "failed"}}

AttemptOK(p) ==
    /\ pc[p] = "stale" => ino[p] \in Unfits
    /\ pc[p] \in HasFile => ino[p] <= last
    /\ pc[p] = "refused" => tries[p] = MaxTries
    /\ p \notin denied => tries[p] <= Cardinality({i \in Unfits : i <= Met(p)})

AttemptInv ==
    /\ FlockInv
    /\ name <= last
    /\ \A p \in Procs : AttemptOK(p)
    /\ Cardinality(Unfits) <= 1 + Cardinality(Gone)

-----------------------------------------------------------------------------
(* The flock. *)

LEMMA FlockInit == Init => FlockInv
<1> SUFFICES ASSUME Init PROVE FlockInv
  OBVIOUS
<1>1. file \in [Inodes -> Files]
  BY DEF Init, Files, File, EmptyFile
<1>2. TypeOK
  BY <1>1 DEF Init, TypeOK, Inodes, NoInode
<1>3. \A p \in Procs : OpenerOK(p)
  BY DEF Init, OpenerOK, HasFile, Locked
<1>4. \A i \in Inodes : FileOK(i)
  BY DEF Init, FileOK, File, EmptyFile
<1>5. QED
  BY <1>2, <1>3, <1>4 DEF FlockInv

\* A step of p that leaves the files alone, or writes to the file of which p
\* has the flock, keeps what the others know of theirs.
LEMMA OthersOK ==
    ASSUME FlockInv, NEW p \in Procs, NEW q \in Procs \ {p},
           pc'[q] = pc[q], ino'[q] = ino[q], tries'[q] = tries[q],
           \A i \in Inodes : holder[i] = q => holder'[i] = q,
           \A i \in Inodes : i # ino[p] => file'[i] = file[i] /\ (i \in torn' <=> i \in torn),
           file' = file \/ file[ino[p]].head \notin {"complete"},
           pc[p] \in Locked \/ (file' = file /\ torn' = torn),
           torn \subseteq torn',
           file' # file => ino[p] \notin torn
    PROVE  OpenerOK(q)'
<1>1. OpenerOK(q) /\ OpenerOK(p)
  BY DEF FlockInv
<1>2. CASE pc[p] \in Locked /\ pc[q] \in Locked
  <2>1. ino[q] # ino[p]
    BY <1>1, <1>2 DEF OpenerOK
  <2>2. QED
    BY <1>1, <1>2, <2>1 DEF OpenerOK, HasFile, Locked
<1>3. CASE pc[q] \notin Locked \/ (file' = file /\ torn' = torn)
  BY <1>1, <1>3 DEF OpenerOK, HasFile, Locked
<1>4. QED
  BY <1>2, <1>3

LEMMA UnlockedOK ==
    ASSUME TypeOK, NEW p \in Procs
    PROVE  /\ Unlocked(p) \in [Inodes -> Procs \cup {NoProc}]
           /\ \A q \in Procs \ {p}, i \in Inodes : holder[i] = q => Unlocked(p)[i] = q
  BY DEF TypeOK, Unlocked

\* A step that leaves the files alone, and nobody at "half".
LEMMA FilesOK ==
    ASSUME FlockInv, file' = file, torn' = torn,
           \A p \in Procs : pc[p] = "half" => pc'[p] = "half" /\ ino'[p] = ino[p]
    PROVE  \A i \in Inodes : FileOK(i)'
  BY DEF FlockInv, FileOK

LEMMA OpenFlock == ASSUME FlockInv, NEW p \in Procs, Open(p) PROVE FlockInv'
<1> USE DEF FlockInv
<1>1. TypeOK'
  BY DEF TypeOK, Open, Goto, Inodes, NoInode
<1>2. OpenerOK(p)'
  BY DEF TypeOK, Open, Goto, Inodes, NoInode, OpenerOK, HasFile, Locked
<1>3. ASSUME NEW q \in Procs \ {p} PROVE OpenerOK(q)'
  BY OthersOK DEF Open, Goto, TypeOK
<1>4. \A i \in Inodes : FileOK(i)'
  BY FilesOK DEF Open, Goto, TypeOK
<1>5. QED
  BY <1>1, <1>2, <1>3, <1>4

LEMMA FlockFlock == ASSUME FlockInv, NEW p \in Procs, Flock(p) PROVE FlockInv'
<1> USE DEF FlockInv
<1>0. ino[p] \in Inodes
  BY DEF Flock, OpenerOK, HasFile, Locked
<1>1. TypeOK'
  BY <1>0 DEF TypeOK, Flock, Goto
<1>2. OpenerOK(p)'
  BY <1>0 DEF TypeOK, Flock, Goto, OpenerOK, HasFile, Locked
<1>3. ASSUME NEW q \in Procs \ {p} PROVE OpenerOK(q)'
  <2>1. \A i \in Inodes : holder[i] = q => holder'[i] = q
    BY <1>0 DEF Flock, FlockFree, TypeOK
  <2>2. QED
    BY <2>1, OthersOK DEF Flock, Goto, TypeOK
<1>4. \A i \in Inodes : FileOK(i)'
  BY FilesOK DEF Flock, Goto, TypeOK
<1>5. QED
  BY <1>1, <1>2, <1>3, <1>4

\* The three outcomes of fstat; only an empty file is written to.
LEMMA StatCases ==
    ASSUME FlockInv, NEW p \in Procs, Stat(p)
    PROVE  /\ ino[p] \in Inodes /\ holder[ino[p]] = p
           /\ \/ /\ file[ino[p]].size = "wrong"
                 /\ file' = file /\ holder' = Unlocked(p) /\ pc' = [pc EXCEPT ![p] = "stale"]
              \/ /\ file[ino[p]].size = "right"
                 /\ file' = file /\ holder' = holder /\ pc' = [pc EXCEPT ![p] = "check"]
              \/ /\ file[ino[p]] = File("zero", "none")
                 /\ file' = [file EXCEPT ![ino[p]] = File("right", "none")]
                 /\ holder' = holder /\ pc' = [pc EXCEPT ![p] = "init"]
<1>1. ino[p] \in Inodes /\ holder[ino[p]] = p
  BY DEF Stat, FlockInv, OpenerOK, HasFile, Locked
<1>2. file[ino[p]] \in Files /\ FileOK(ino[p])
  BY <1>1 DEF FlockInv, TypeOK
<1>3. CASE file[ino[p]].size = "wrong"
  BY <1>1, <1>3 DEF Stat, Goto
<1>4. CASE file[ino[p]].size = "right"
  BY <1>1, <1>4 DEF Stat, Goto
<1>5. CASE file[ino[p]].size = "zero"
  <2>1. file[ino[p]] = File("zero", "none")
    BY <1>2, <1>5 DEF FileOK, Files, File
  <2>2. [file[ino[p]] EXCEPT !.size = "right"] = File("right", "none")
    BY <2>1 DEF File
  <2>3. file' = [file EXCEPT ![ino[p]].size = "right"]
    BY <1>5 DEF Stat
  <2>4. file' = [file EXCEPT ![ino[p]] = File("right", "none")]
    BY <2>2, <2>3
  <2>5. holder' = holder /\ pc' = [pc EXCEPT ![p] = "init"]
    BY <1>5 DEF Stat, Goto
  <2>6. QED
    BY <1>1, <2>1, <2>4, <2>5
<1>6. QED
  BY <1>2, <1>3, <1>4, <1>5 DEF Files

LEMMA StatFlock == ASSUME FlockInv, NEW p \in Procs, Stat(p) PROVE FlockInv'
<1> USE DEF FlockInv
<1>0. ino[p] \in Inodes /\ holder[ino[p]] = p
  BY StatCases
<1>u. UNCHANGED <<name, last, ino, tries, torn, denied>> /\ pc[p] = "locked"
  BY DEF Stat
<1>1. TypeOK'
  <2>1. file' \in [Inodes -> Files]
    BY <1>0, StatCases DEF TypeOK, Files, File
  <2>2. QED
    BY <1>0, <1>u, <2>1, StatCases, UnlockedOK DEF TypeOK
<1>2. OpenerOK(p)'
  BY <1>0, <1>u, StatCases DEF TypeOK, OpenerOK, HasFile, Locked
<1>3. ASSUME NEW q \in Procs \ {p} PROVE OpenerOK(q)'
  <2>1. \A i \in Inodes : holder[i] = q => holder'[i] = q
    BY <1>0, StatCases, UnlockedOK DEF TypeOK
  <2>2. file' = file \/ (file[ino[p]].head = "none" /\ ino[p] \notin torn)
    BY <1>0, StatCases DEF FileOK, File
  <2>3. \A i \in Inodes : i # ino[p] => file'[i] = file[i]
    BY <1>0, StatCases DEF TypeOK
  <2>4. pc'[q] = pc[q]
    BY <1>u, StatCases DEF TypeOK
  <2>5. QED
    BY <1>u, <2>1, <2>2, <2>3, <2>4, OthersOK DEF Locked
<1>4. ASSUME NEW i \in Inodes PROVE FileOK(i)'
  <2>1. \A q \in Procs : pc[q] = "half" => pc'[q] = "half" /\ ino'[q] = ino[q]
    BY <1>u, StatCases DEF TypeOK
  <2>2. CASE file'[i] = file[i]
    BY <1>u, <2>1, <2>2 DEF FileOK
  <2>3. CASE file'[i] # file[i]
    <3>1. i = ino[p] /\ file[i] = File("zero", "none") /\ file'[i] = File("right", "none")
      BY <1>0, <2>3, StatCases DEF TypeOK
    <3>2. QED
      BY <1>u, <3>1 DEF FileOK, File
  <2>4. QED
    BY <2>2, <2>3
<1>5. QED
  BY <1>1, <1>2, <1>3, <1>4

LEMMA InitHeaderFlock == ASSUME FlockInv, NEW p \in Procs, InitHeader(p) PROVE FlockInv'
<1> USE DEF FlockInv
<1>0. ino[p] \in Inodes /\ holder[ino[p]] = p /\ file[ino[p]] = File("right", "none") /\ ino[p] \notin torn
  BY DEF InitHeader, OpenerOK, HasFile, Locked, FileOK, File
<1>1. /\ file' \in [Inodes -> Files]
      /\ file'[ino[p]] = File("right", "checks")
      /\ \A i \in Inodes : i # ino[p] => file'[i] = file[i]
  BY <1>0 DEF InitHeader, TypeOK, Files, File
<1>2. TypeOK'
  BY <1>1 DEF TypeOK, InitHeader, Goto
<1>3. OpenerOK(p)'
  BY <1>0, <1>1 DEF TypeOK, InitHeader, Goto, OpenerOK, HasFile, Locked
<1>4. ASSUME NEW q \in Procs \ {p} PROVE OpenerOK(q)'
  BY <1>0, <1>1, OthersOK DEF InitHeader, Goto, TypeOK, Locked, File
<1>5. ASSUME NEW i \in Inodes PROVE FileOK(i)'
  BY <1>0, <1>1 DEF InitHeader, Goto, FileOK, TypeOK, File
<1>6. QED
  BY <1>2, <1>3, <1>4, <1>5

LEMMA InitRestFlock == ASSUME FlockInv, NEW p \in Procs, InitRest(p) PROVE FlockInv'
<1> USE DEF FlockInv
<1>0. ino[p] \in Inodes /\ holder[ino[p]] = p /\ file[ino[p]] = File("right", "checks") /\ ino[p] \notin torn
  BY DEF InitRest, OpenerOK, HasFile, Locked, FileOK
<1>1. /\ file' \in [Inodes -> Files]
      /\ file'[ino[p]] = File("right", "complete")
      /\ \A i \in Inodes : i # ino[p] => file'[i] = file[i]
  BY <1>0 DEF InitRest, TypeOK, Files, File
<1>2. TypeOK'
  BY <1>1, UnlockedOK DEF TypeOK, InitRest, Goto, Over
<1>3. OpenerOK(p)'
  BY <1>0, <1>1 DEF TypeOK, InitRest, Goto, OpenerOK, HasFile, Locked, File
<1>4. ASSUME NEW q \in Procs \ {p} PROVE OpenerOK(q)'
  BY <1>0, <1>1, OthersOK, UnlockedOK DEF InitRest, Goto, TypeOK, Locked, File
<1>5. ASSUME NEW i \in Inodes PROVE FileOK(i)'
  BY <1>0, <1>1 DEF InitRest, Goto, FileOK, TypeOK, File
<1>6. QED
  BY <1>2, <1>3, <1>4, <1>5

LEMMA CheckFlock == ASSUME FlockInv, NEW p \in Procs, Check(p) PROVE FlockInv'
<1> USE DEF FlockInv
<1>0. ino[p] \in Inodes /\ holder[ino[p]] = p
  BY DEF Check, OpenerOK, HasFile, Locked
<1>1. TypeOK'
  BY UnlockedOK DEF TypeOK, Check, Goto, Over
<1>2. OpenerOK(p)'
  <2>1. file[ino[p]].head = "checks" => ino[p] \in torn
    BY <1>0 DEF FileOK, OpenerOK, Check, Locked
  <2>2. QED
    BY <1>0, <2>1 DEF TypeOK, Check, Goto, OpenerOK, HasFile, Locked
<1>3. ASSUME NEW q \in Procs \ {p} PROVE OpenerOK(q)'
  BY OthersOK, UnlockedOK DEF Check, Goto, TypeOK
<1>4. \A i \in Inodes : FileOK(i)'
  BY FilesOK DEF Check, Goto, TypeOK
<1>5. QED
  BY <1>1, <1>2, <1>3, <1>4

\* The end of an attempt, with or without the unlink.
LEMMA RetryFlock ==
    ASSUME FlockInv, NEW p \in Procs, Retry(p), name' \in {name, NoInode},
           denied' \in {denied, denied \cup {p}}
    PROVE  FlockInv'
<1> USE DEF FlockInv
<1>0. tries[p] \in Nat /\ tries[p] < MaxTries /\ tries'[p] = tries[p] + 1
  BY DEF Retry, OpenerOK, TypeOK
<1>1. TypeOK'
  BY <1>0 DEF TypeOK, Retry, Goto, Over
<1>2. OpenerOK(p)'
  BY <1>0 DEF TypeOK, Retry, Goto, OpenerOK, HasFile, Locked
<1>3. ASSUME NEW q \in Procs \ {p} PROVE OpenerOK(q)'
  BY OthersOK DEF Retry, Goto, TypeOK
<1>4. \A i \in Inodes : FileOK(i)'
  BY FilesOK DEF Retry, Goto, TypeOK
<1>5. QED
  BY <1>1, <1>2, <1>3, <1>4

LEMMA FailFlock == ASSUME FlockInv, NEW p \in Procs, Fail(p) PROVE FlockInv'
<1> USE DEF FlockInv
<1>1. TypeOK'
  BY UnlockedOK DEF TypeOK, Fail, Goto, Over
<1>2. OpenerOK(p)'
  BY DEF TypeOK, Fail, Goto, OpenerOK, HasFile, Locked
<1>3. ASSUME NEW q \in Procs \ {p} PROVE OpenerOK(q)'
  BY OthersOK, UnlockedOK DEF Fail, Goto, TypeOK
<1>4. \A i \in Inodes : FileOK(i)'
  BY FilesOK DEF Fail, Goto, TypeOK
<1>5. QED
  BY <1>1, <1>2, <1>3, <1>4

LEMMA DieFlock == ASSUME FlockInv, NEW p \in Procs, Die(p) PROVE FlockInv'
<1> USE DEF FlockInv
<1>0. pc[p] = "half" => ino[p] \in Inodes /\ file[ino[p]].head = "checks"
  BY DEF OpenerOK, HasFile, Locked, File
<1>1. TypeOK'
  BY <1>0, UnlockedOK DEF TypeOK, Die, Goto, Over
<1>2. OpenerOK(p)'
  BY DEF TypeOK, Die, Goto, OpenerOK, HasFile, Locked
<1>3. ASSUME NEW q \in Procs \ {p} PROVE OpenerOK(q)'
  BY OthersOK, UnlockedOK DEF Die, Goto, TypeOK, Locked
<1>4. ASSUME NEW i \in Inodes PROVE FileOK(i)'
  BY <1>0 DEF Die, Goto, TypeOK, FileOK
<1>5. QED
  BY <1>1, <1>2, <1>3, <1>4

LEMMA FlockStep == FlockInv /\ [Next]_vars => FlockInv'
<1> SUFFICES ASSUME FlockInv, [Next]_vars PROVE FlockInv'
  OBVIOUS
<1>1. CASE UNCHANGED vars
  BY <1>1 DEF vars, FlockInv, TypeOK, OpenerOK, FileOK
<1>2. CASE Next
  <2> PICK p \in Procs : Step(p) \/ UnlinkFails(p) \/ Fail(p) \/ Die(p)
    BY <1>2 DEF Next
  <2>1. CASE Unlink(p)
    BY <2>1, RetryFlock DEF Unlink
  <2>2. CASE UnlinkFails(p)
    BY <2>2, RetryFlock DEF UnlinkFails
  <2>3. QED
    BY <2>1, <2>2, OpenFlock, FlockFlock, StatFlock, InitHeaderFlock, InitRestFlock,
       CheckFlock, FailFlock, DieFlock DEF Step
<1>3. QED
  BY <1>1, <1>2

LEMMA FlockAlways == Spec => []FlockInv
  BY FlockInit, FlockStep, PTL DEF Spec

\* The type invariant; in particular nobody makes more than MaxTries attempts
\* and every file and holder is where the code can put it.
THEOREM RegionTypeOK == Spec => []TypeOK
<1>1. FlockInv => TypeOK
  BY DEF FlockInv
<1>2. QED
  BY <1>1, FlockAlways, PTL

\* An opener that open_and_map lets through has a region initialised to the
\* last field, or one whose initialiser died after the fields that are checked.
THEOREM OpenedIsReady == Spec => []RegionReady
<1>1. FlockInv => RegionReady
  BY DEF FlockInv, OpenerOK, RegionReady, Done
<1>2. QED
  BY <1>1, FlockAlways, PTL

\* No step of an opener writes to a file that somebody may have mapped.
LEMMA HarmlessStep ==
    ASSUME FlockInv, [Next]_vars, NEW i \in InUse
    PROVE  file'[i] = file[i]
<1> USE DEF FlockInv
<1>1. i \in Inodes /\ file[i].head \in {"other", "complete"} \cup {file[j].head : j \in torn \cap {i}}
  BY DEF InUse, Done, OpenerOK, HasFile
<1>2. file[i].head # "none" /\ \A p \in Procs : pc[p] \in {"init", "half"} => ino[p] # i
  BY <1>1 DEF FileOK, OpenerOK, File
<1>3. CASE UNCHANGED vars
  BY <1>3 DEF vars
<1>4. CASE Next
  <2> PICK p \in Procs : Step(p) \/ UnlinkFails(p) \/ Fail(p) \/ Die(p)
    BY <1>4 DEF Next
  <2>1. CASE Stat(p)
    BY <1>1, <1>2, <2>1, StatCases DEF TypeOK, File
  <2>2. CASE InitHeader(p) \/ InitRest(p)
    BY <1>1, <1>2, <2>2 DEF InitHeader, InitRest, TypeOK
  <2>3. QED
    BY <2>1, <2>2 DEF Step, Open, Flock, Check, Unlink, UnlinkFails, Retry, Fail, Die
<1>5. QED
  BY <1>3, <1>4

\* Whatever is mapped is never truncated or zeroed in place by an opener.
THEOREM MappedNeverHarmed == Spec => NeverHarmed
<1>1. FlockInv /\ [Next]_vars => [\A i \in InUse : file'[i] = file[i]]_vars
  BY HarmlessStep
<1>2. QED
  BY <1>1, FlockAlways, PTL DEF Spec, NeverHarmed

-----------------------------------------------------------------------------
(* The attempts. *)

LEMMA CountMonotone ==
    ASSUME NEW S \in SUBSET Inodes, NEW T \in SUBSET Inodes, S \subseteq T,
           NEW m \in Int, NEW n \in Int, m <= n
    PROVE  LET A == {i \in S : i <= m}
               B == {i \in T : i <= n}
           IN  /\ IsFiniteSet(A) /\ IsFiniteSet(B)
               /\ Cardinality(A) \in Nat /\ Cardinality(B) \in Nat
               /\ Cardinality(A) <= Cardinality(B)
<1> DEFINE A == {i \in S : i <= m}
           B == {i \in T : i <= n}
<1>1. A \in SUBSET B
  <2> SUFFICES ASSUME NEW i \in A PROVE i \in B
    OBVIOUS
  <2>1. i \in T /\ i \in Int /\ i <= m
    BY DEF Inodes
  <2>2. QED
    BY <2>1
<1>2. IsFiniteSet(Inodes)
  BY FS_Interval DEF Inodes
<1>3. IsFiniteSet(B)
  BY <1>2, FS_Subset
<1>4. IsFiniteSet(A) /\ Cardinality(A) <= Cardinality(B)
  BY <1>1, <1>3, FS_Subset
<1>5. Cardinality(A) \in Nat /\ Cardinality(B) \in Nat
  BY <1>3, <1>4, FS_CardinalityType
<1>6. QED
  BY <1>3, <1>4, <1>5

LEMMA GoneFinite == IsFiniteSet(Gone) /\ Cardinality(Gone) \in Nat
  BY FS_Subset, FS_CardinalityType DEF Gone

\* A step that neither fails nor kills a process at "init" leaves the set of
\* unfit files as it is: a file stops being empty only under the flock of a
\* process at "init", and loses its bare header the same way.
LEMMA UnfitsSame ==
    ASSUME FlockInv, NEW p \in Procs,
           Step(p) \/ UnlinkFails(p) \/ ((Fail(p) \/ Die(p)) /\ pc[p] # "init")
    PROVE  Unfits' = Unfits
<1> USE DEF FlockInv
<1>1. CASE Stat(p)
  <2> SUFFICES ASSUME NEW i \in Inodes PROVE Unfit(i)' <=> Unfit(i)
    BY DEF Unfits
  <2>u. ino' = ino
    BY <1>1 DEF Stat
  <2>1. CASE file' = file
    <3>0. file[ino[p]] # File("zero", "none") \/ file' # [file EXCEPT ![ino[p]] = File("right", "none")]
      BY <1>1, <2>1, StatCases DEF TypeOK, File
    <3>1. \A q \in Procs : pc'[q] = "init" <=> pc[q] = "init"
      <4>1. pc' = [pc EXCEPT ![p] = "stale"] \/ pc' = [pc EXCEPT ![p] = "check"]
        BY <1>1, <3>0, StatCases
      <4>2. pc[p] = "locked"
        BY <1>1 DEF Stat
      <4>3. QED
        BY <4>1, <4>2 DEF TypeOK
    <3>2. QED
      BY <2>u, <2>1, <3>1 DEF Unfit
  <2>2. CASE file' # file
    <3>1. /\ file[ino[p]] = File("zero", "none") /\ file'[ino[p]] = File("right", "none")
          /\ \A j \in Inodes : j # ino[p] => file'[j] = file[j]
          /\ pc'[p] = "init"
          /\ \A q \in Procs : q # p => pc'[q] = pc[q]
      BY <1>1, <2>2, StatCases DEF TypeOK
    <3>2. pc[p] = "locked"
      BY <1>1 DEF Stat
    <3>3. CASE i = ino[p]
      BY <2>u, <3>1, <3>3 DEF Unfit, File
    <3>4. CASE i # ino[p]
      BY <2>u, <3>1, <3>2, <3>4 DEF Unfit
    <3>5. QED
      BY <3>3, <3>4
  <2>3. QED
    BY <2>1, <2>2
<1>2. CASE InitHeader(p)
  <2>1. ino[p] \in Inodes /\ file[ino[p]] = File("right", "none")
    BY <1>2 DEF InitHeader, OpenerOK, HasFile, Locked
  <2>2. /\ file'[ino[p]].size = "right" /\ file'[ino[p]].head = "checks"
        /\ \A i \in Inodes : i # ino[p] => file'[i] = file[i]
    BY <1>2, <2>1 DEF InitHeader, TypeOK, Files, File
  <2>3. \A q \in Procs : q # p => pc'[q] = pc[q] /\ ino'[q] = ino[q]
    BY <1>2 DEF InitHeader, Goto, TypeOK
  <2>4. ~Unfit(ino[p]) /\ ~Unfit(ino[p])'
    BY <1>2, <2>1, <2>2 DEF Unfit, InitHeader, File
  <2>5. ino'[p] = ino[p]
    BY <1>2 DEF InitHeader
  <2>6. \A i \in Inodes : i # ino[p] => (Unfit(i)' <=> Unfit(i))
    BY <2>2, <2>3, <2>5 DEF Unfit
  <2>7. QED
    BY <2>4, <2>5, <2>6 DEF Unfits
<1>3. CASE InitRest(p)
  <2>1. ino[p] \in Inodes /\ file[ino[p]] = File("right", "checks")
    BY <1>3 DEF InitRest, OpenerOK, HasFile, Locked
  <2>2. /\ file'[ino[p]].size = "right" /\ file'[ino[p]].head = "complete"
        /\ \A i \in Inodes : i # ino[p] => file'[i] = file[i]
    BY <1>3, <2>1 DEF InitRest, TypeOK, Files, File
  <2>3. \A q \in Procs : (pc'[q] = "init" <=> pc[q] = "init") /\ ino'[q] = ino[q]
    BY <1>3 DEF InitRest, Goto, TypeOK
  <2>4. \A i \in Inodes : Unfit(i)' <=> Unfit(i)
    BY <2>1, <2>2, <2>3 DEF Unfit, File
  <2>5. QED
    BY <2>4 DEF Unfits
<1>4. CASE file' = file /\ \A q \in Procs : /\ pc'[q] = "init" <=> pc[q] = "init"
                                            /\ pc[q] = "init" => ino'[q] = ino[q]
  BY <1>4 DEF Unfits, Unfit
<1>5. QED
  BY <1>1, <1>2, <1>3, <1>4
     DEF Step, Open, Flock, Check, Unlink, UnlinkFails, Retry, Fail, Die, Goto, TypeOK

\* A process that fails or dies at "init" leaves one unfit file more.
LEMMA UnfitsMore ==
    ASSUME FlockInv, NEW p \in Procs, Fail(p) \/ Die(p), pc[p] = "init"
    PROVE  ino[p] \in Inodes /\ Unfits' = Unfits \cup {ino[p]}
<1> USE DEF FlockInv
<1>1. ino[p] \in Inodes /\ file[ino[p]] = File("right", "none") /\ holder[ino[p]] = p
  BY DEF OpenerOK, HasFile, Locked
<1>2. \A q \in Procs : q # p /\ pc[q] = "init" => ino[q] # ino[p]
  BY <1>1 DEF OpenerOK, Locked
<1>3. /\ file' = file /\ pc'[p] # "init"
      /\ \A q \in Procs : q # p => pc'[q] = pc[q] /\ ino'[q] = ino[q]
  BY DEF Fail, Die, Goto, TypeOK
<1>4. ASSUME NEW i \in Inodes, i = ino[p] PROVE Unfit(i)'
  <2>1. file'[i] = File("right", "none")
    BY <1>1, <1>3, <1>4
  <2>2. \A q \in Procs : ~(pc'[q] = "init" /\ ino'[q] = i)
    BY <1>2, <1>3, <1>4
  <2>3. QED
    BY <2>1, <2>2 DEF Unfit, File
<1>5. \A i \in Inodes : i # ino[p] => (Unfit(i)' <=> Unfit(i))
  BY <1>3 DEF Unfit
<1>6. QED
  BY <1>1, <1>4, <1>5 DEF Unfits

LEMMA MetType ==
    ASSUME AttemptInv, NEW p \in Procs
    PROVE  Met(p) \in Int /\ Met(p) <= last
<1>1. name \in Nat /\ last \in Nat /\ ino[p] \in Nat /\ name <= last
  BY DEF AttemptInv, FlockInv, TypeOK, Inodes, NoInode
<1>2. pc[p] \in HasFile => ino[p] <= last
  BY DEF AttemptInv, AttemptOK
<1>3. QED
  BY <1>1, <1>2 DEF Met

\* How a step may change what the path names and how many files there are.
PathMoves ==
    \/ name' = name /\ last' = last
    \/ name' = NoInode /\ last' = last
    \/ name = NoInode /\ name' = last + 1 /\ last' = last + 1

LEMMA OthersAttempt ==
    ASSUME AttemptInv, FlockInv', NEW q \in Procs, PathMoves,
           pc'[q] = pc[q], ino'[q] = ino[q], tries'[q] = tries[q],
           denied \subseteq denied', Unfits \subseteq Unfits'
    PROVE  AttemptOK(q)'
<1>1. AttemptOK(q) /\ name <= last /\ name \in Nat /\ last \in Nat /\ tries[q] \in Nat
  BY DEF AttemptInv, FlockInv, TypeOK, Inodes, NoInode
<1>2. ino[q] \in Nat
  BY DEF AttemptInv, FlockInv, TypeOK, Inodes, NoInode
<1>3. Met(q) \in Int /\ Met(q)' \in Int /\ Met(q) <= Met(q)'
  BY <1>1, <1>2 DEF Met, PathMoves, NoInode
<1>4. Unfits \in SUBSET Inodes /\ Unfits' \in SUBSET Inodes
  BY DEF Unfits
<1>5. /\ Cardinality({i \in Unfits : i <= Met(q)}) \in Nat
      /\ Cardinality({i \in Unfits' : i <= Met(q)'}) \in Nat
      /\ Cardinality({i \in Unfits : i <= Met(q)}) <= Cardinality({i \in Unfits' : i <= Met(q)'})
  BY <1>3, <1>4, CountMonotone
<1>6. q \notin denied' => tries'[q] <= Cardinality({i \in Unfits' : i <= Met(q)'})
  BY <1>1, <1>5 DEF AttemptOK
<1>7. QED
  BY <1>1, <1>2, <1>6 DEF AttemptOK, PathMoves

\* The same for the process that steps, if it stays within its attempt.
LEMMA SelfAttempt ==
    ASSUME AttemptInv, NEW p \in Procs, tries'[p] = tries[p],
           denied \subseteq denied', Unfits \subseteq Unfits',
           Met(p)' \in Int, Met(p) <= Met(p)'
    PROVE  p \notin denied' => tries'[p] <= Cardinality({i \in Unfits : i <= Met(p)})'
<1>1. AttemptOK(p) /\ tries[p] \in Nat /\ Met(p) \in Int
  BY MetType DEF AttemptInv, FlockInv, TypeOK
<1>2. Unfits \in SUBSET Inodes /\ Unfits' \in SUBSET Inodes
  BY DEF Unfits
<1>3. /\ Cardinality({i \in Unfits : i <= Met(p)}) \in Nat
      /\ Cardinality({i \in Unfits' : i <= Met(p)'}) \in Nat
      /\ Cardinality({i \in Unfits : i <= Met(p)}) <= Cardinality({i \in Unfits' : i <= Met(p)'})
  BY <1>1, <1>2, CountMonotone
<1>4. QED
  BY <1>1, <1>3 DEF AttemptOK

LEMMA AttemptInit == Init => AttemptInv
<1> SUFFICES ASSUME Init PROVE AttemptInv
  OBVIOUS
<1>1. FlockInv
  BY FlockInit
<1>2. name <= last
  BY DEF Init, NoInode
<1>3. Unfits \in SUBSET {1}
  BY DEF Init, Unfits, Unfit, EmptyFile, File
<1>4. IsFiniteSet(Unfits) /\ Cardinality(Unfits) \in Nat /\ Cardinality(Unfits) <= 1
  <2>1. IsFiniteSet({1}) /\ Cardinality({1}) = 1
    BY FS_Singleton
  <2>2. IsFiniteSet(Unfits) /\ Cardinality(Unfits) <= Cardinality({1})
    BY <1>3, <2>1, FS_Subset
  <2>3. QED
    BY <2>1, <2>2, FS_CardinalityType
<1>5. ASSUME NEW p \in Procs PROVE AttemptOK(p)
  <2>1. pc[p] = "start" /\ tries[p] = 0
    BY DEF Init
  <2>2. Unfits \in SUBSET Inodes /\ Met(p) \in Int
    BY DEF Unfits, Met, Init, HasFile, Locked, NoInode
  <2>3. Cardinality({i \in Unfits : i <= Met(p)}) \in Nat
    <3>1. Met(p) <= Met(p)
      BY <2>2
    <3>2. QED
      BY <2>2, <3>1, CountMonotone
  <2>4. QED
    BY <2>1, <2>3 DEF AttemptOK, HasFile, Locked
<1>6. Cardinality(Unfits) <= 1 + Cardinality(Gone)
  BY <1>4, GoneFinite
<1>7. QED
  BY <1>1, <1>2, <1>5, <1>6 DEF AttemptInv

\* Every step but the end of an attempt, a failure and a death.
Ahead(p) == Open(p) \/ Flock(p) \/ Stat(p) \/ InitHeader(p) \/ InitRest(p) \/ Check(p)

LEMMA AheadFrame ==
    ASSUME FlockInv, NEW p \in Procs, Ahead(p)
    PROVE  /\ tries' = tries /\ denied' = denied /\ PathMoves
           /\ pc[p] \in {"start", "opened"} \cup Locked /\ pc'[p] \in HasFile
           /\ \A q \in Procs : q # p => pc'[q] = pc[q] /\ ino'[q] = ino[q]
           /\ pc[p] = "start" => ino'[p] = name' /\ (name # NoInode => name' = name)
           /\ pc[p] = "start" => name' # NoInode
           /\ pc[p] # "start" => ino' = ino /\ name' = name /\ last' = last
<1> USE DEF FlockInv, TypeOK, Goto, HasFile, Locked, PathMoves
<1>1. CASE Open(p)
  BY <1>1 DEF Open, NoInode
<1>2. CASE Stat(p)
  <2>1. pc'[p] \in HasFile /\ \A q \in Procs : q # p => pc'[q] = pc[q]
    BY <1>2, StatCases
  <2>2. QED
    BY <1>2, <2>1 DEF Stat
<1>3. CASE Flock(p) \/ InitHeader(p) \/ InitRest(p) \/ Check(p)
  BY <1>3 DEF Flock, InitHeader, InitRest, Check
<1>4. QED
  BY <1>1, <1>2, <1>3 DEF Ahead

LEMMA AheadAttempt ==
    ASSUME AttemptInv, NEW p \in Procs, Ahead(p)
    PROVE  AttemptInv'
<1>0. FlockInv /\ FlockInv'
  BY FlockStep DEF AttemptInv, Next, Ahead, Step
<1>1. Unfits' = Unfits
  BY <1>0, UnfitsSame DEF Ahead, Step
<1>2. name' <= last'
  BY <1>0, AheadFrame DEF PathMoves, AttemptInv, FlockInv, TypeOK, NoInode, Inodes
<1>3. ASSUME NEW q \in Procs, q # p PROVE AttemptOK(q)'
  BY <1>0, <1>1, <1>3, AheadFrame, OthersAttempt
<1>4. AttemptOK(p)'
  <2>1. pc'[p] = "stale" => ino'[p] \in Unfits'
    <3>1. CASE Stat(p)
      <4>1. pc'[p] = "stale" => file[ino[p]].size = "wrong" /\ ino'[p] = ino[p] /\ ino[p] \in Inodes
        <5>1. ino[p] \in Inodes /\ ino' = ino /\ p \in DOMAIN pc
          BY <1>0, <3>1, StatCases DEF Stat, FlockInv, TypeOK
        <5>2. \/ file[ino[p]].size = "wrong"
              \/ pc' = [pc EXCEPT ![p] = "check"] \/ pc' = [pc EXCEPT ![p] = "init"]
          BY <1>0, <3>1, StatCases
        <5>3. QED
          BY <5>1, <5>2
      <4>2. QED
        BY <1>1, <4>1 DEF Unfits, Unfit
    <3>2. CASE Check(p)
      <4>1. ino[p] \in Inodes /\ file[ino[p]].size = "right" /\ holder[ino[p]] = p /\ file[ino[p]] \in Files
        BY <1>0, <3>2 DEF Check, FlockInv, TypeOK, OpenerOK, HasFile, Locked
      <4>2. \A q \in Procs : ~(pc[q] = "init" /\ ino[q] = ino[p])
        BY <1>0, <3>2, <4>1 DEF Check, FlockInv, OpenerOK, Locked
      <4>3. pc'[p] = "stale" => file[ino[p]].head \in {"none", "other"} /\ ino'[p] = ino[p]
        BY <1>0, <3>2, <4>1 DEF Check, Goto, FlockInv, TypeOK, Files
      <4>4. QED
        BY <1>1, <4>1, <4>2, <4>3 DEF Unfits, Unfit
    <3>3. CASE Open(p) \/ Flock(p) \/ InitHeader(p) \/ InitRest(p)
      BY <1>0, <3>3 DEF Open, Flock, InitHeader, InitRest, Goto, FlockInv, TypeOK
    <3>4. QED
      BY <3>1, <3>2, <3>3 DEF Ahead
  <2>2. ino'[p] <= last'
    BY <1>0, <1>2, AheadFrame DEF AttemptInv, AttemptOK, HasFile, Locked, PathMoves
  <2>3. pc'[p] # "refused"
    BY <1>0, AheadFrame DEF HasFile, Locked
  <2>4. Met(p)' \in Int /\ Met(p) <= Met(p)'
    <3>1. name \in Nat /\ last \in Nat /\ ino[p] \in Nat /\ name' \in Nat /\ ino'[p] \in Nat
      BY <1>0 DEF FlockInv, TypeOK, Inodes, NoInode
    <3>2. Met(p)' = ino'[p] - 1
      BY <1>0, AheadFrame DEF Met
    <3>3. CASE pc[p] = "start"
      BY <1>0, <3>1, <3>2, <3>3, AheadFrame DEF Met, HasFile, Locked, PathMoves, NoInode
    <3>4. CASE pc[p] # "start"
      BY <1>0, <3>1, <3>2, <3>4, AheadFrame DEF Met, HasFile
    <3>5. QED
      BY <3>3, <3>4
  <2>5. p \notin denied' => tries'[p] <= Cardinality({i \in Unfits : i <= Met(p)})'
    BY <1>0, <1>1, <2>4, AheadFrame, SelfAttempt
  <2>6. QED
    BY <2>1, <2>2, <2>3, <2>5 DEF AttemptOK
<1>5. Gone' = Gone
  BY <1>0, AheadFrame DEF Gone, HasFile, Locked
<1>6. QED
  BY <1>0, <1>1, <1>2, <1>3, <1>4, <1>5 DEF AttemptInv

\* The end of an attempt: the file that p has met in it is one more that it
\* will not meet again, if it could unlink it.
LEMMA RetryAttempt ==
    ASSUME AttemptInv, NEW p \in Procs, Unlink(p) \/ UnlinkFails(p)
    PROVE  AttemptInv'
<1>0. FlockInv /\ FlockInv'
  BY FlockStep DEF AttemptInv, Next, Step
<1>1. Unfits' = Unfits
  BY <1>0, UnfitsSame DEF Step
<1>2. /\ Retry(p) /\ last' = last /\ PathMoves /\ denied \subseteq denied'
      /\ p \notin denied' => name' = NoInode
  BY DEF Unlink, UnlinkFails, Retry, PathMoves
<1>3. name \in Nat /\ last \in Nat /\ ino[p] \in Nat /\ tries[p] \in Nat /\ name <= last
  BY <1>0 DEF FlockInv, TypeOK, Inodes, NoInode, AttemptInv
<1>4. name' <= last'
  BY <1>2, <1>3 DEF PathMoves, NoInode
<1>5. pc[p] = "stale" /\ ino[p] \in Unfits /\ ino[p] <= last /\ tries[p] < MaxTries
  BY <1>0, <1>2 DEF Retry, AttemptInv, AttemptOK, HasFile, FlockInv, OpenerOK
<1>6. tries'[p] = tries[p] + 1 /\ pc'[p] = (IF tries'[p] < MaxTries THEN "start" ELSE "refused")
  BY <1>0, <1>2 DEF Retry, Goto, FlockInv, TypeOK
<1>7. ASSUME NEW q \in Procs, q # p PROVE AttemptOK(q)'
  <2>1. pc'[q] = pc[q] /\ ino'[q] = ino[q] /\ tries'[q] = tries[q]
    BY <1>0, <1>2, <1>7 DEF Retry, Goto, FlockInv, TypeOK
  <2>2. QED
    BY <1>0, <1>1, <1>2, <2>1, OthersAttempt
<1>8. ASSUME p \notin denied' PROVE tries'[p] <= Cardinality({i \in Unfits : i <= Met(p)})'
  <2> DEFINE A == {i \in Unfits : i <= ino[p] - 1}
             B == {i \in Unfits : i <= ino[p]}
             C == {i \in Unfits : i <= last}
  <2>1. Met(p) = ino[p] - 1 /\ Met(p)' = last
    BY <1>2, <1>5, <1>6, <1>8 DEF Met, HasFile, Locked
  <2>2. tries[p] <= Cardinality(A)
    BY <1>2, <1>8, <2>1 DEF AttemptInv, AttemptOK
  <2>3. Unfits \in SUBSET Inodes /\ \A i \in Unfits : i \in Int
    BY DEF Unfits, Inodes
  <2>4. IsFiniteSet(A) /\ Cardinality(A) \in Nat /\ Cardinality(B) \in Nat
    <3>1. ino[p] - 1 \in Int /\ ino[p] \in Int /\ ino[p] - 1 <= ino[p]
      BY <1>3
    <3>2. QED
      BY <2>3, <3>1, CountMonotone
  <2>5. Cardinality(C) \in Nat /\ Cardinality(B) <= Cardinality(C)
    <3>1. ino[p] \in Int /\ last \in Int /\ ino[p] <= last
      BY <1>3, <1>5
    <3>2. QED
      BY <2>3, <3>1, CountMonotone
  <2>6. B = A \cup {ino[p]} /\ ino[p] \notin A
    BY <1>3, <1>5, <2>3
  <2>7. Cardinality(B) = Cardinality(A) + 1
    BY <2>4, <2>6, FS_AddElement
  <2>8. tries'[p] <= Cardinality(C)
    BY <1>3, <1>6, <2>2, <2>4, <2>5, <2>7
  <2>9. QED
    BY <1>1, <2>1, <2>8
<1>9. AttemptOK(p)'
  BY <1>3, <1>5, <1>6, <1>8 DEF AttemptOK, HasFile, Locked
<1>10. Gone' = Gone
  BY <1>0, <1>2 DEF Retry, Goto, Gone, FlockInv, TypeOK
<1>11. QED
  BY <1>0, <1>1, <1>4, <1>7, <1>9, <1>10 DEF AttemptInv

\* A failure or a death: at most one unfit file more, and one process gone.
LEMMA GoneAttempt ==
    ASSUME AttemptInv, NEW p \in Procs, Fail(p) \/ Die(p)
    PROVE  AttemptInv'
<1>0. FlockInv /\ FlockInv'
  BY FlockStep DEF AttemptInv, Next
<1>1. Unfits' = Unfits \/ (ino[p] \in Inodes /\ Unfits' = Unfits \cup {ino[p]})
  BY <1>0, UnfitsSame, UnfitsMore
<1>2. /\ name' = name /\ last' = last /\ tries' = tries /\ denied' = denied /\ PathMoves
      /\ pc'[p] \in {"dead", "failed"} /\ pc[p] \notin {"dead", "failed"}
      /\ \A q \in Procs : q # p => pc'[q] = pc[q] /\ ino'[q] = ino[q]
  BY <1>0 DEF Fail, Die, Goto, FlockInv, TypeOK, Over, PathMoves
<1>3. name' <= last'
  BY <1>2 DEF AttemptInv
<1>4. ASSUME NEW q \in Procs, q # p PROVE AttemptOK(q)'
  BY <1>0, <1>1, <1>2, <1>4, OthersAttempt
<1>5. AttemptOK(p)'
  <2>1. Met(p)' = last /\ last \in Int
    BY <1>0, <1>2 DEF Met, HasFile, Locked, FlockInv, TypeOK
  <2>2. p \notin denied' => tries'[p] <= Cardinality({i \in Unfits : i <= Met(p)})'
    BY <1>1, <1>2, <2>1, MetType, SelfAttempt
  <2>3. QED
    BY <1>2, <2>2 DEF AttemptOK, HasFile, Locked
<1>6. Cardinality(Unfits') <= 1 + Cardinality(Gone')
  <2>1. Gone' = Gone \cup {p} /\ p \notin Gone
    BY <1>2 DEF Gone
  <2>2. Cardinality(Gone) \in Nat /\ Cardinality(Gone') = Cardinality(Gone) + 1
    BY <2>1, GoneFinite, FS_AddElement
  <2>3. IsFiniteSet(Unfits) /\ Cardinality(Unfits) \in Nat
    <3>1. IsFiniteSet(Inodes)
      BY FS_Interval DEF Inodes
    <3>2. IsFiniteSet(Unfits)
      BY <3>1, FS_Subset DEF Unfits
    <3>3. QED
      BY <3>2, FS_CardinalityType
  <2>4. Cardinality(Unfits') \in {Cardinality(Unfits), Cardinality(Unfits) + 1}
    BY <1>1, <2>3, FS_AddElement
  <2>5. QED
    BY <2>2, <2>3, <2>4 DEF AttemptInv
<1>7. QED
  BY <1>0, <1>3, <1>4, <1>5, <1>6 DEF AttemptInv

LEMMA AttemptStep == AttemptInv /\ [Next]_vars => AttemptInv'
<1> SUFFICES ASSUME AttemptInv, [Next]_vars PROVE AttemptInv'
  OBVIOUS
<1>1. CASE UNCHANGED vars
  <2>1. FlockInv' /\ Unfits' = Unfits /\ Gone' = Gone
    BY <1>1, FlockStep DEF AttemptInv, vars, Unfits, Unfit, Gone
  <2>2. ASSUME NEW p \in Procs PROVE AttemptOK(p)'
    BY <1>1, <2>1, OthersAttempt DEF vars, PathMoves
  <2>3. QED
    BY <1>1, <2>1, <2>2 DEF AttemptInv, vars
<1>2. CASE Next
  BY <1>2, AheadAttempt, RetryAttempt, GoneAttempt DEF Next, Step, Ahead
<1>3. QED
  BY <1>1, <1>2

\* MaxTries attempts are enough: an opener that could unlink is refused only if
\* all but one of its attempts met a file left by a process that is gone.
THEOREM AttemptsSuffice == Spec => []RetryEnough
<1>1. AttemptInv => RetryEnough
  <2> SUFFICES ASSUME AttemptInv, NEW p \in Procs \ denied, pc[p] = "refused"
               PROVE  Cardinality(Gone) >= MaxTries - 1
    BY DEF RetryEnough, Gone
  <2>1. tries[p] = MaxTries /\ tries[p] <= Cardinality({i \in Unfits : i <= Met(p)})
    BY DEF AttemptInv, AttemptOK
  <2>2. Unfits \in SUBSET Inodes /\ Met(p) \in Int /\ MaxInodes \in Int
    BY MetType DEF Unfits
  <2>3. {i \in Unfits : i <= MaxInodes} = Unfits /\ Met(p) <= MaxInodes
    BY <2>2, MetType DEF Unfits, Inodes, AttemptInv, FlockInv, TypeOK
  <2>4. /\ Cardinality({i \in Unfits : i <= Met(p)}) \in Nat /\ Cardinality(Unfits) \in Nat
        /\ Cardinality({i \in Unfits : i <= Met(p)}) <= Cardinality(Unfits)
    <3>1. Unfits \subseteq Unfits /\ Met(p) <= MaxInodes
      BY <2>3
    <3>2. /\ Cardinality({i \in Unfits : i <= Met(p)}) \in Nat
          /\ Cardinality({i \in Unfits : i <= MaxInodes}) \in Nat
          /\ Cardinality({i \in Unfits : i <= Met(p)}) <= Cardinality({i \in Unfits : i <= MaxInodes})
      BY <2>2, <3>1, CountMonotone
    <3>3. QED
      BY <2>3, <3>2
  <2>5. QED
    BY <2>1, <2>4, GoneFinite DEF AttemptInv
<1>2. QED
  BY <1>1, AttemptInit, AttemptStep, PTL DEF Spec
=============================================================================
