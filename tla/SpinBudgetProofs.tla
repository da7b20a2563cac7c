-------------------------- MODULE SpinBudgetProofs --------------------------
(***************************************************************************)
(* SpinBudget for every setting, every clock and every length of a second: *)
(* the types, the allowance of the spin tail, the credit of the spin and   *)
(* the time at which a wait times out.                                     *)
(*                                                                         *)
(* The three parts share the settings and the clock only, so each has an   *)
(* inductive invariant of its own on top of the type of its variables.     *)
(***************************************************************************)
EXTENDS SpinBudget, TLAPS

Configured ==
    /\ spin_max_iters \in 0 .. ItersCap /\ spin_tail \in 0 .. TailCap
    /\ budget \in 0 .. PctCap * Percent

Clocked == now \in 1 .. MaxTime

BucketOK ==
    /\ last \in 0 .. now
    /\ tokens \in 0 .. tail_budget_cap /\ exact \in Int /\ least \in Nat

CreditOK ==
    /\ credit \in CreditMin .. CreditMax /\ probe \in 0 .. ProbeWords - 1
    /\ iters \in Nat /\ streak \in 0 .. ReEarnedIn

Waiting == {"fast", "try", "spin", "tail", "expired"}

WaitTyped ==
    /\ phase \in {"idle", "enter"} \cup Waiting
    /\ left \in 0 .. MaxLeft \cup {Forever}
    /\ deadline \in Nat \cup {Forever} /\ due \in Nat \cup {Forever}
    /\ lag \in [entry : Nat, round : Nat]

-----------------------------------------------------------------------------
(* Numbers. *)

LEMMA Constants ==
    /\ ItersCap \in Nat \ {0} /\ TailCap \in Nat \ {0} /\ PctCap \in Nat \ {0}
    /\ CreditMax \in Nat \ {0} /\ CreditMin \in Int /\ CreditMin < 0
    /\ ProbeEvery \in Nat \ {0} /\ ProbeWords \in Nat \ {0} /\ ProbeWords % ProbeEvery = 0
    /\ Second \in Nat \ {0} /\ Percent \in Nat \ {0} /\ BurstPart \in Nat \ {0}
    /\ PctDefault \in 0 .. PctCap
    /\ MaxWord \in Nat /\ MaxWord >= Second * PctCap * Percent
    /\ MaxLeft \in Nat /\ MaxLag \in Nat /\ MaxTime \in Nat \ {0} /\ Forever \notin Int
  BY SpinAssumption

LEMMA MinOfTwo ==
    ASSUME NEW a \in Int, NEW b \in Int
    PROVE  Min({a, b}) = IF a <= b THEN a ELSE b
  BY DEF Min

LEMMA MaxOfTwo ==
    ASSUME NEW a \in Int, NEW b \in Int
    PROVE  Max({a, b}) = IF a >= b THEN a ELSE b
  BY DEF Max

LEMMA AboveLeast ==
    ASSUME NEW a \in Int, NEW b \in Int, NEW x \in a .. b
    PROVE  x - a \in Nat
  OBVIOUS

LEMMA ProductNat == ASSUME NEW a \in Nat, NEW b \in Nat PROVE a * b \in Nat
  OBVIOUS

LEMMA ProductMonotone ==
    ASSUME NEW a \in Int, NEW b \in Int, NEW c \in Nat, a <= b
    PROVE  a * c <= b * c
  OBVIOUS

LEMMA Division ==
    ASSUME NEW x \in Nat, NEW d \in Nat \ {0}
    PROVE  /\ x \div d \in Nat /\ x % d \in 0 .. d - 1
           /\ d * (x \div d) <= x /\ x < d * (x \div d) + d
<1>1. x \div d \in Nat /\ x % d \in 0 .. d - 1
  OBVIOUS
<1>2. d * (x \div d) <= x
  OBVIOUS
<1>3. x = d * (x \div d) + (x % d)
  BY SMTT(30)
<1>4. QED
  BY <1>1, <1>2, <1>3

LEMMA RemainderNat == ASSUME NEW x \in Nat, NEW d \in Nat \ {0} PROVE x % d \in Nat
  OBVIOUS

LEMMA Remainder ==
    ASSUME NEW x \in Int, NEW d \in Nat \ {0}, NEW q \in Int, NEW r \in 0 .. d - 1,
           x = d * q + r
    PROVE  x % d = r
  OBVIOUS

LEMMA QuotientSmaller == ASSUME NEW x \in Nat, NEW d \in Nat \ {0} PROVE x \div d <= x
<1> DEFINE q == x \div d
<1>1. q \in Nat /\ d * q <= x
  BY Division
<1> HIDE DEF q
<1>2. q <= d * q
  BY <1>1
<1>3. q <= x
  BY <1>1, <1>2
<1>4. QED
  BY <1>3 DEF q

LEMMA CapPositive ==
    ASSUME budget \in Nat
    PROVE  /\ tail_budget_cap \in Nat \ {0}
           /\ budget # 0 => tail_budget_cap <= budget
<1>1. budget \div BurstPart \in Nat /\ budget \div BurstPart <= budget
  BY Constants, Division, QuotientSmaller
<1>2. QED
  BY <1>1, MaxOfTwo DEF tail_budget_cap

LEMMA ReEarnedInPositive == ReEarnedIn \in Nat \ {0}
<1>1. ProbeEvery \in Nat \ {0} /\ 1 - CreditMin \in Nat \ {0}
  BY Constants
<1>2. QED
  BY <1>1 DEF ReEarnedIn

LEMMA LongerType == ASSUME NEW n \in 0 .. ReEarnedIn PROVE Longer(n) \in 0 .. ReEarnedIn
  BY ReEarnedInPositive, MinOfTwo DEF Longer

LEMMA SettingType ==
    ASSUME NEW v \in Nat \cup {Unset}, NEW cap \in Nat, NEW default \in Nat
    PROVE  Setting(v, default, cap) \in 0 .. cap
<1>1. (IF v = Unset THEN default ELSE v) \in Nat
  OBVIOUS
<1>2. QED
  BY <1>1, MinOfTwo DEF Setting

-----------------------------------------------------------------------------
(* The time of a wait. *)

\* Where the clock, what is left, the deadline and the delays of the round
\* stand to one another.
Timed ==
    /\ deadline # Forever => deadline <= now + MaxLeft
    /\ phase = "idle" => left = Forever /\ due = Forever
    /\ phase \in {"idle", "enter"} => deadline = Forever /\ lag = NoLag
    /\ phase = "enter" => /\ due = Forever <=> left = Forever
                          /\ left # Forever => due = now + left
    /\ phase \in Waiting => /\ due = Forever <=> deadline = Forever
                            /\ deadline # Forever => deadline = due + lag.entry
    /\ phase \in {"fast", "spin", "tail"} =>
          /\ left = Forever <=> deadline = Forever
          /\ left # Forever => now + left = deadline + lag.round
    /\ phase = "try" /\ deadline # Forever => now <= deadline + lag.round
    /\ phase = "expired" => /\ deadline # Forever
                            /\ deadline <= now /\ now <= deadline + lag.round

WaitInv == Configured /\ Clocked /\ WaitTyped /\ Timed

LEMMA WaitInit == Init => WaitInv
<1> SUFFICES ASSUME Init PROVE WaitInv
  OBVIOUS
<1>1. Configured
  <2> PICK v \in Environments :
         /\ spin_max_iters = Setting(v.iters, 0, ItersCap)
         /\ spin_tail = Setting(v.tail, 0, TailCap)
         /\ budget = Setting(v.pct, PctDefault, PctCap) * Percent
    BY DEF Init
  <2>1. v.iters \in Nat \cup {Unset} /\ v.tail \in Nat \cup {Unset} /\ v.pct \in Nat \cup {Unset}
    BY SpinAssumption
  <2>2. PctDefault \in Nat /\ ItersCap \in Nat /\ TailCap \in Nat /\ PctCap \in Nat /\ Percent \in Nat
    BY Constants
  <2>3. Setting(v.pct, PctDefault, PctCap) \in 0 .. PctCap
    BY <2>1, <2>2, SettingType
  <2>4. budget \in 0 .. PctCap * Percent
    <3> DEFINE x == Setting(v.pct, PctDefault, PctCap)
    <3>1. x \in Nat /\ x <= PctCap
      BY <2>2, <2>3
    <3> HIDE DEF x
    <3>2. x * Percent \in Nat /\ x * Percent <= PctCap * Percent /\ PctCap * Percent \in Nat
      BY <2>2, <3>1, ProductMonotone, ProductNat
    <3>3. QED
      BY <3>2 DEF x
  <2>5. QED
    BY <2>1, <2>2, <2>4, SettingType DEF Configured
<1>2. Clocked /\ WaitTyped /\ Timed
  BY Constants DEF Init, Clocked, WaitTyped, Timed, Waiting, NoLag
<1>3. QED
  BY <1>1, <1>2 DEF WaitInv

LEMMA CallTimed ==
    ASSUME WaitInv, NEW timeout \in (now - 1 .. now + MaxLeft) \cup {Forever}, Call(timeout)
    PROVE  WaitInv'
<1> USE DEF WaitInv, Configured, Clocked
<1>1. CASE timeout = Forever
  BY <1>1, Constants DEF Call, timeout_to_duration, WaitTyped, Timed, Waiting
<1>2. CASE timeout # Forever
  <2>1. timeout \in Int /\ now \in Nat /\ timeout <= now + MaxLeft /\ timeout - now \in Int
    BY <1>2, Constants
  <2>2. left' = IF timeout >= now THEN timeout - now ELSE 0
    BY <1>2, <2>1, MaxOfTwo DEF Call, timeout_to_duration
  <2>3. due' = IF timeout >= now THEN timeout ELSE now
    BY <1>2, <2>1, MaxOfTwo DEF Call
  <2>4. left' \in 0 .. MaxLeft /\ due' \in Nat /\ due' = now + left'
    BY <2>1, <2>2, <2>3, Constants
  <2>5. QED
    BY <2>4, Constants DEF Call, WaitTyped, Timed, Waiting
<1>3. QED
  BY <1>1, <1>2

LEMMA DelayedClock ==
    ASSUME Clocked, NEW d \in 0 .. MaxLag, Delayed(d)
    PROVE  Clocked' /\ now' = now + d /\ d \in Nat
  BY Constants DEF Clocked, Delayed

LEMMA EnterTimed == ASSUME WaitInv, Enter PROVE WaitInv'
<1> PICK d \in 0 .. MaxLag : Delayed(d) /\ lag' = [lag EXCEPT !.entry = d]
  BY DEF Enter
<1>1. Clocked' /\ now' = now + d /\ d \in Nat /\ now \in Nat
  BY Constants, DelayedClock DEF WaitInv, Clocked
<1>2. lag' = [entry |-> d, round |-> 0]
  BY DEF WaitInv, Timed, Enter, NoLag
<1>3. CASE left = Forever
  BY <1>1, <1>2, <1>3, Constants DEF Enter, WaitInv, Configured, WaitTyped, Timed, Waiting, config
<1>4. CASE left # Forever
  BY <1>1, <1>2, <1>4, Constants DEF Enter, WaitInv, Configured, WaitTyped, Timed, Waiting, config
<1>5. QED
  BY <1>3, <1>4

LEMMA SatisfiedTimed == ASSUME WaitInv, Over, UNCHANGED <<config, now>> PROVE WaitInv'
  BY DEF Over, WaitInv, Configured, Clocked, WaitTyped, Timed, Waiting, NoLag, config

LEMMA FastMissTimed == ASSUME WaitInv, FastMiss PROVE WaitInv'
  BY Constants DEF FastMiss, Expires, WaitInv, Configured, Clocked, WaitTyped, Timed, Waiting, config, timing

LEMMA TimeUpTimed == ASSUME WaitInv, TimeUp PROVE WaitInv'
<1> PICK d \in 0 .. MaxLag : Delayed(d) /\ lag' = [lag EXCEPT !.round = @ + d]
  BY DEF TimeUp
<1>1. Clocked' /\ now' = now + d /\ d \in Nat /\ now \in Nat
  BY Constants, DelayedClock DEF WaitInv, Clocked
<1>2. lag' = [entry |-> lag.entry, round |-> lag.round + d] /\ lag.entry \in Nat /\ lag.round \in Nat
  BY DEF WaitInv, WaitTyped
<1>3. QED
  BY <1>1, <1>2, Constants DEF TimeUp, Expires, WaitInv, Configured, WaitTyped, Timed, Waiting, config

LEMMA BlockTimed == ASSUME WaitInv, Block PROVE WaitInv'
<1> PICK d \in 0 .. MaxLag : Delayed(d)
  BY DEF Block
<1>1. Clocked' /\ now' = now + d /\ d \in Nat /\ now \in Nat
  BY Constants, DelayedClock DEF WaitInv, Clocked
<1>2. lag' = [entry |-> lag.entry, round |-> 0] /\ lag.entry \in Nat
  BY DEF WaitInv, WaitTyped, Block
<1>3. /\ phase = "try" /\ phase' = "spin" /\ deadline' = deadline /\ due' = due
      /\ UNCHANGED config /\ left' = Remaining /\ (deadline # Forever => now' < deadline)
  BY DEF Block
<1>4. CASE deadline = Forever
  BY <1>1, <1>2, <1>3, <1>4, Constants DEF Remaining, WaitInv, Configured, WaitTyped, Timed, Waiting, config
<1>5. CASE deadline # Forever
  BY <1>1, <1>2, <1>3, <1>5, Constants DEF Remaining, WaitInv, Configured, WaitTyped, Timed, Waiting, config
<1>6. QED
  BY <1>4, <1>5

LEMMA ProceedTimed == ASSUME WaitInv, phase = "spin", Proceed PROVE WaitInv'
<1> PICK d \in 0 .. MaxLag : Delayed(d) /\ lag' = [lag EXCEPT !.round = @ + d]
  BY DEF Proceed
<1>1. Clocked' /\ now' = now + d /\ d \in Nat /\ now \in Nat
  BY Constants, DelayedClock DEF WaitInv, Clocked
<1>2. lag' = [entry |-> lag.entry, round |-> lag.round + d] /\ lag.entry \in Nat /\ lag.round \in Nat
  BY DEF WaitInv, WaitTyped
<1>3. QED
  BY <1>1, <1>2, Constants DEF Proceed, WaitInv, Configured, WaitTyped, Timed, Waiting, config

\* However the round rests, it does not rest past its deadline, apart from
\* what the round was late when it began to.
LEMMA RestedTimed ==
    ASSUME WaitInv, phase = "tail", Rested,
           NEW most \in Nat, left # Forever => most <= left, Spend(most)
    PROVE  WaitInv'
<1> PICK d \in 0 .. most : now + d <= MaxTime /\ now' = now + d
  BY DEF Spend
<1>1. Clocked' /\ now' = now + d /\ d \in Nat /\ now \in Nat
  BY Constants DEF WaitInv, Clocked
<1>2. lag.entry \in Nat /\ lag.round \in Nat
  BY DEF WaitInv, WaitTyped
<1>3. left # Forever => left \in Nat /\ d <= left /\ deadline \in Nat
  BY DEF WaitInv, WaitTyped, Timed
<1>4. QED
  BY <1>1, <1>2, <1>3, Constants DEF Rested, WaitInv, Configured, WaitTyped, Timed, Waiting, config, timing

LEMMA PassTimed == ASSUME WaitInv, Pass PROVE WaitInv'
  BY Constants DEF Pass, WaitInv, Configured, Clocked, WaitTyped, Timed, Waiting, config, timing

LEMMA WaitStep == WaitInv /\ [Next]_vars => WaitInv'
<1> SUFFICES ASSUME WaitInv, [Next]_vars PROVE WaitInv'
  OBVIOUS
<1>0. CASE UNCHANGED vars
  BY <1>0 DEF vars, config, timing, WaitInv, Configured, Clocked, WaitTyped, Timed
<1>1. CASE \E timeout \in (now - 1 .. now + MaxLeft) \cup {Forever} : Call(timeout)
  BY <1>1, CallTimed
<1>2. CASE Enter \/ FastMiss \/ TimeUp \/ Block \/ Pass
  BY <1>2, EnterTimed, FastMissTimed, TimeUpTimed, BlockTimed, PassTimed
<1>3. CASE FastHit \/ Hit \/ Return \/ SpinWins
  BY <1>3, SatisfiedTimed DEF FastHit, Hit, Return, SpinWins, Satisfied
<1>4. CASE SpinFails \/ NoSpin
  BY <1>4, ProceedTimed DEF SpinFails, NoSpin
<1>5. CASE Sleep
  <2> DEFINE most == IF left = Forever THEN MaxTime ELSE left
  <2>1. most \in Nat /\ (left # Forever => most <= left)
    BY Constants DEF WaitInv, WaitTyped
  <2>2. QED
    BY <1>5, <2>1, RestedTimed DEF Sleep
<1>6. CASE SleepShort
  <2> DEFINE most == IF Allows(spin_tail) THEN left - spin_tail ELSE left
  <2>1. most \in Nat /\ most <= left
    BY <1>6, Constants DEF SleepShort, WaitInv, WaitTyped, Configured
  <2>2. QED
    BY <1>6, <2>1, RestedTimed DEF SleepShort
<1>7. CASE SpinTail
  <2>1. left \in Nat /\ left <= left
    BY <1>7, Constants DEF SpinTail, WaitInv, WaitTyped
  <2>2. QED
    BY <1>7, <2>1, RestedTimed DEF SpinTail
<1>8. QED
  BY <1>0, <1>1, <1>2, <1>3, <1>4, <1>5, <1>6, <1>7 DEF Next

LEMMA WaitAlways == Spec => []WaitInv
  BY WaitInit, WaitStep, PTL DEF Spec

\* A wait never times out before the time its caller gave, and is late by no
\* more than the delay before its deadline was computed and one round's.
THEOREM WaitsPunctual == Spec => []Punctual
<1>1. WaitInv => Punctual
  BY Constants DEF WaitInv, WaitTyped, Timed, Punctual, Waiting, Clocked
<1>2. QED
  BY <1>1, WaitAlways, PTL

-----------------------------------------------------------------------------
(* The allowance of the spin tail. *)

\* The bucket of the code is never fuller than one that does not round, and
\* never emptier than one that is refilled at half the rate by refills that are
\* worth a token.
BucketInv ==
    /\ BucketOK
    /\ last = 0 => tokens = 0 /\ exact = 0 /\ least = 0
    /\ RateBound /\ RefillsByHalf

\* A refill of the code and the two others, over the same time.
LEMMA Refill ==
    ASSUME WaitInv, BucketInv, budget # 0
    PROVE  /\ Refilled \in 0 .. tail_budget_cap /\ RefilledExactly \in Int
           /\ Refilled * Second <= RefilledExactly
           /\ RefilledAtLeast \in Nat /\ RefilledAtLeast <= Refilled * 2 * Second
<1> DEFINE cap == tail_budget_cap
           gain == SatMul(now - last, budget) \div Second
           span == (now - last) * budget
<1>1. cap \in Nat /\ cap > 0 /\ cap <= budget /\ budget \in Nat
  BY Constants, CapPositive DEF WaitInv, Configured
<1>2. /\ tokens \in Nat /\ tokens <= cap /\ exact \in Int /\ least \in Nat
      /\ tokens * Second <= exact /\ least <= tokens * 2 * Second
      /\ last \in Nat /\ now \in Nat /\ last <= now /\ Second \in Nat \ {0}
  BY <1>1, Constants DEF BucketInv, BucketOK, RateBound, RefillsByHalf, WaitInv, Clocked
<1>3. RefilledExactly = IF last = 0 THEN cap * Second
                        ELSE IF exact + span <= cap * Second THEN exact + span ELSE cap * Second
  <2>1. exact + span \in Int /\ cap * Second \in Int
    BY <1>1, <1>2
  <2>2. QED
    BY <2>1, MinOfTwo DEF RefilledExactly, tail_budget_cap
<1>4. span \in Nat
  BY <1>1, <1>2
<1>5. SatMul(now - last, budget) = IF span <= MaxWord THEN span ELSE MaxWord
  BY <1>4, Constants, MinOfTwo DEF SatMul
<1>6. /\ gain \in Nat /\ Second * gain <= span
      /\ \/ span < Second * gain + Second
         \/ gain >= budget
  <2>1. CASE span <= MaxWord
    BY <1>2, <1>4, <1>5, <2>1, Division
  <2>2. CASE ~(span <= MaxWord)
    <3>1. gain = MaxWord \div Second /\ gain \in Nat /\ Second * gain <= MaxWord /\ MaxWord < Second * gain + Second
      BY <1>2, <1>5, <2>2, Constants, Division
    <3>2. Second * budget <= MaxWord
      <4>1. PctCap * Percent \in Nat /\ budget <= PctCap * Percent
        BY Constants DEF WaitInv, Configured
      <4>2. budget * Second <= (PctCap * Percent) * Second
        BY <1>1, <1>2, <4>1, ProductMonotone
      <4>3. Second * PctCap * Percent = (PctCap * Percent) * Second
        BY Constants
      <4>4. budget * Second = Second * budget /\ budget * Second \in Int
        BY <1>1, <1>2
      <4>5. QED
        BY <4>2, <4>3, <4>4, Constants
    <3>3. Second * budget < Second * (gain + 1)
      BY <1>1, <1>2, <3>1, <3>2, Constants
    <3>4. budget < gain + 1
      BY <1>1, <1>2, <3>1, <3>3
    <3>5. QED
      BY <1>1, <1>4, <2>2, <3>1, <3>4, Constants
  <2>3. QED
    BY <2>1, <2>2
<1>7. Refilled = IF last = 0 THEN cap ELSE IF tokens + gain <= cap THEN tokens + gain ELSE cap
  BY <1>1, <1>2, <1>6, MinOfTwo DEF Refilled
<1> DEFINE worth == IF span >= Second THEN span ELSE 0
<1>8. RefilledAtLeast = IF last = 0 THEN cap * 2 * Second
                        ELSE IF least + worth <= cap * 2 * Second THEN least + worth ELSE cap * 2 * Second
  <2>1. least + worth \in Int /\ cap * 2 * Second \in Int
    BY <1>1, <1>2, <1>4
  <2>2. QED
    BY <2>1, MinOfTwo DEF RefilledAtLeast, tail_budget_cap
<1>9. worth \in Nat /\ (worth <= 2 * (Second * gain) \/ gain >= budget)
  <2>1. worth \in Nat
    BY <1>4
  <2>2. CASE gain = 0 /\ ~(gain >= budget)
    <3>1. Second * gain = 0
      BY <1>2, <2>2
    <3>2. QED
      BY <1>2, <1>4, <1>6, <2>1, <2>2, <3>1
  <2>3. CASE gain > 0
    <3>1. Second <= Second * gain
      BY <1>2, <1>6, <2>3
    <3>2. Second * gain \in Nat
      BY <1>2, <1>6
    <3> HIDE DEF gain, span
    <3>3. QED
      BY <1>2, <1>4, <1>6, <2>1, <3>1, <3>2
  <2>4. QED
    BY <1>6, <2>1, <2>2, <2>3
<1> HIDE DEF cap, gain, span, worth
<1>10. /\ Refilled \in 0 .. cap /\ RefilledExactly \in Int /\ RefilledAtLeast \in Nat
       /\ cap * Second \in Nat /\ cap * 2 * Second = 2 * (cap * Second)
       /\ tokens * Second \in Nat /\ tokens * 2 * Second = 2 * (tokens * Second)
       /\ Refilled * Second \in Nat /\ Refilled * 2 * Second = 2 * (Refilled * Second)
  <2>1. Refilled \in 0 .. cap /\ RefilledExactly \in Int
    BY <1>1, <1>2, <1>3, <1>4, <1>6, <1>7
  <2>2. cap * Second \in Nat /\ tokens * Second \in Nat /\ Refilled * Second \in Nat
    BY <1>1, <1>2, <2>1
  <2>3. \A x \in Nat : x * 2 * Second = 2 * (x * Second)
    BY <1>2
  <2>4. QED
    BY <1>1, <1>2, <1>8, <1>9, <2>1, <2>2, <2>3
<1>11. CASE Refilled = cap
  <2>1. cap * Second <= RefilledExactly
    <3>1. CASE last = 0
      BY <1>3, <1>10, <3>1
    <3>2. CASE last # 0
      <4>1. cap <= tokens + gain
        BY <1>1, <1>2, <1>6, <1>7, <1>11, <3>2
      <4>2. cap * Second <= (tokens + gain) * Second
        BY <1>1, <1>2, <1>6, <4>1, ProductMonotone
      <4>3. (tokens + gain) * Second = tokens * Second + Second * gain
        BY <1>1, <1>2, <1>6
      <4>4. cap * Second <= exact + span
        BY <1>1, <1>2, <1>4, <1>6, <1>10, <4>2, <4>3
      <4>5. QED
        BY <1>3, <1>10, <3>2, <4>4
    <3>3. QED
      BY <3>1, <3>2
  <2>2. RefilledAtLeast <= cap * 2 * Second
    BY <1>2, <1>8, <1>9, <1>10
  <2>3. QED
    BY <1>10, <1>11, <2>1, <2>2 DEF cap
<1>12. CASE Refilled # cap
  <2>1. last # 0 /\ Refilled = tokens + gain /\ tokens + gain < cap
    BY <1>1, <1>2, <1>6, <1>7, <1>12
  <2>2. Refilled * Second = tokens * Second + Second * gain /\ Refilled * Second <= cap * Second
    BY <1>1, <1>2, <1>6, <2>1, ProductMonotone
  <2>3. Refilled * Second <= RefilledExactly
    BY <1>1, <1>2, <1>3, <1>4, <1>6, <2>1, <2>2
  <2>4. worth <= 2 * (Second * gain) /\ Second * gain \in Nat
    BY <1>1, <1>2, <1>6, <1>9, <2>1
  <2>5. RefilledAtLeast <= least + worth
    BY <1>2, <1>8, <1>9, <1>10, <2>1
  <2>6. RefilledAtLeast <= Refilled * 2 * Second
    BY <1>2, <1>9, <1>10, <2>2, <2>4, <2>5
  <2>7. QED
    BY <1>10, <2>3, <2>6 DEF cap
<1>13. QED
  BY <1>11, <1>12

LEMMA BucketInit == Init => BucketInv
<1> SUFFICES ASSUME Init PROVE BucketInv
  OBVIOUS
<1>1. budget \in Nat
  BY WaitInit, Constants DEF WaitInv, Configured
<1>2. QED
  BY <1>1, Constants, CapPositive DEF Init, BucketInv, BucketOK, RateBound, RefillsByHalf

LEMMA BucketKept ==
    ASSUME WaitInv, BucketInv, UNCHANGED <<bucket, budget>>, now' \in Nat, now <= now'
    PROVE  BucketInv'
<1>1. tail_budget_cap' = tail_budget_cap
  BY DEF tail_budget_cap
<1>2. BucketOK'
  BY <1>1 DEF BucketInv, BucketOK, bucket, WaitInv, Clocked
<1>3. RateBound' /\ RefillsByHalf'
  BY DEF BucketInv, RateBound, RefillsByHalf, bucket
<1>4. QED
  BY <1>2, <1>3 DEF BucketInv, bucket

LEMMA BucketCharged ==
    ASSUME WaitInv, BucketInv, NEW want \in Nat, NEW charge \in BOOLEAN,
           tail_budget(want, charge), budget' = budget, now' \in Nat, now <= now'
    PROVE  BucketInv'
<1>1. CASE budget = 0
  BY <1>1, BucketKept DEF tail_budget
<1>2. CASE budget # 0
  <2> DEFINE spent == IF charge /\ Refilled >= want THEN want ELSE 0
             due2  == RefilledAtLeast - spent * 2 * Second
  <2>1. /\ tokens' = Refilled - spent /\ last' = now
        /\ exact' = RefilledExactly - spent * Second /\ least' = Max({due2, 0})
    BY <1>2 DEF tail_budget
  <2>2. /\ Refilled \in 0 .. tail_budget_cap /\ RefilledExactly \in Int
        /\ Refilled * Second <= RefilledExactly
        /\ RefilledAtLeast \in Nat /\ RefilledAtLeast <= Refilled * 2 * Second
    BY <1>2, Refill
  <2>3. tail_budget_cap \in Nat /\ Second \in Nat /\ now \in Nat /\ now > 0
    BY Constants, CapPositive DEF WaitInv, Configured, Clocked, BucketInv, BucketOK
  <2>4. Refilled \in Nat /\ spent \in Nat /\ spent <= Refilled
    BY <2>2, <2>3
  <2> HIDE DEF spent
  <2>5. /\ (Refilled - spent) * Second = Refilled * Second - spent * Second
        /\ (Refilled - spent) * 2 * Second = Refilled * 2 * Second - spent * 2 * Second
        /\ (Refilled - spent) * 2 * Second >= 0
        /\ Refilled * Second \in Int /\ spent * Second \in Int
        /\ Refilled * 2 * Second \in Int /\ spent * 2 * Second \in Int
    BY <2>3, <2>4
  <2>10. /\ due2 \in Int /\ due2 <= (Refilled - spent) * 2 * Second
    BY <2>2, <2>5
  <2> HIDE DEF due2
  <2>11. Max({due2, 0}) = IF due2 >= 0 THEN due2 ELSE 0
    BY <2>10, MaxOfTwo
  <2>12. least' \in Nat /\ least' <= (Refilled - spent) * 2 * Second
    BY <2>1, <2>5, <2>10, <2>11
  <2>6. tail_budget_cap' = tail_budget_cap
    BY DEF tail_budget_cap
  <2>7. BucketOK'
    BY <2>1, <2>2, <2>3, <2>4, <2>6, <2>12 DEF BucketOK
  <2>8. RateBound' /\ RefillsByHalf'
    BY <2>1, <2>2, <2>3, <2>4, <2>5, <2>12 DEF RateBound, RefillsByHalf
  <2>9. QED
    BY <2>1, <2>3, <2>7, <2>8 DEF BucketInv
<1>3. QED
  BY <1>1, <1>2

\* The clock does not go back, and the settings stay.
LEMMA Forward ==
    ASSUME WaitInv, [Next]_vars
    PROVE  now' \in Nat /\ now <= now' /\ UNCHANGED config
<1>0. now \in Nat
  BY Constants DEF WaitInv, Clocked
<1>1. now' \in Nat
  BY WaitStep, Constants DEF WaitInv, Clocked
<1>2. CASE UNCHANGED now
  <2>1. UNCHANGED config
    BY <1>2 DEF Next, vars, Call, Enter, FastHit, FastMiss, Hit, TimeUp, Block, SpinWins, SpinFails, NoSpin, Sleep,
       SleepShort, SpinTail, Return, Pass, Satisfied, Expires, Proceed, Rested
  <2>2. QED
    BY <1>0, <1>2, <2>1
<1>3. CASE Enter \/ TimeUp \/ Block \/ SpinFails \/ NoSpin
  BY <1>0, <1>3, Constants DEF Enter, TimeUp, Block, SpinFails, NoSpin, Proceed, Delayed, Expires
<1>4. CASE Sleep \/ SleepShort \/ SpinTail
  <2>1. PICK m : Spend(m)
    BY <1>4 DEF Sleep, SleepShort, SpinTail
  <2>2. now <= now'
    BY <1>0, <2>1 DEF Spend
  <2>3. QED
    BY <1>1, <1>4, <2>2 DEF Sleep, SleepShort, SpinTail, Rested
<1>5. CASE Pass
  BY <1>0, <1>1, <1>5 DEF Pass
<1>6. QED
  BY <1>2, <1>3, <1>4, <1>5 DEF Next, vars, Call, FastHit, FastMiss, Hit, SpinWins, Return, Satisfied

LEMMA BucketStep == WaitInv /\ BucketInv /\ [Next]_vars => BucketInv'
<1> SUFFICES ASSUME WaitInv, BucketInv, [Next]_vars PROVE BucketInv'
  OBVIOUS
<1>1. now' \in Nat /\ now <= now' /\ budget' = budget
  BY Forward DEF config
<1>2. CASE UNCHANGED bucket
  BY <1>1, <1>2, BucketKept
<1>3. CASE SleepShort
  <2>1. spin_tail \in Nat
    BY Constants DEF WaitInv, Configured
  <2>2. tail_budget(spin_tail, FALSE)
    BY <1>3 DEF SleepShort
  <2>3. QED
    BY <1>1, <2>1, <2>2, BucketCharged
<1>4. CASE SpinTail
  <2>1. left # Forever
    BY <1>4 DEF SpinTail
  <2>2. left \in Nat
    BY <2>1, Constants DEF WaitInv, WaitTyped
  <2>3. tail_budget(left, TRUE)
    BY <1>4 DEF SpinTail
  <2>4. QED
    BY <1>1, <2>2, <2>3, BucketCharged
<1>5. QED
  BY <1>2, <1>3, <1>4 DEF Next, vars, Call, Enter, FastHit, FastMiss, Hit, TimeUp, Block, SpinWins,
     SpinFails, NoSpin, Sleep, Return, Pass, Satisfied, Expires, Proceed

LEMMA BucketAlways == Spec => []BucketInv
  BY WaitAlways, BucketInit, BucketStep, PTL DEF Spec

\* The tails that the bucket grants are within one burst and the share of the
\* time: a bucket that never rounds would have granted them too.
THEOREM AllowanceEnforced == Spec => []RateBound
<1>1. BucketInv => RateBound
  BY DEF BucketInv
<1>2. QED
  BY <1>1, BucketAlways, PTL

\* The allowance of a thread that stops spending comes back, at half the rate or
\* faster, while refills are worth a token.
THEOREM AllowanceReturns == Spec => []RefillsByHalf
<1>1. BucketInv => RefillsByHalf
  BY DEF BucketInv
<1>2. QED
  BY <1>1, BucketAlways, PTL

-----------------------------------------------------------------------------
(* The credit of the spin. *)

\* So many blocked waits a credit in debt stands for: ProbeEvery for each
\* probe that has won since the deepest debt, and those since the last probe.
Earned == ProbeEvery * (credit - CreditMin) + (probe % ProbeEvery)

\* In debt, a streak is no longer than what has been earned; a wait that is
\* about to spin or not has its probe counted already.
InDebt ==
    /\ phase # "spin" => streak <= Earned
    /\ phase = "spin" /\ iters = 0 => streak + 1 <= Earned
    /\ phase = "spin" /\ iters # 0 =>
          probe % ProbeEvery = 0 /\ streak + 1 <= Earned + ProbeEvery

CreditInv ==
    /\ CreditOK
    /\ spin_max_iters # 0 /\ credit <= 0 => InDebt
    /\ spin_max_iters # 0 /\ phase = "spin" /\ iters = 0 => credit <= 0

\* One more blocked wait, one more step towards the next probe.
LEMMA ProbeCounts ==
    ASSUME probe \in 0 .. ProbeWords - 1, probe' = (probe + 1) % ProbeWords
    PROVE  LET r == probe % ProbeEvery
           IN  /\ probe' \in 0 .. ProbeWords - 1 /\ r \in 0 .. ProbeEvery - 1
               /\ probe' % ProbeEvery = IF r = ProbeEvery - 1 THEN 0 ELSE r + 1
<1> DEFINE r == probe % ProbeEvery
           q == probe \div ProbeEvery
<1>0. ProbeEvery \in Nat \ {0} /\ ProbeWords \in Nat \ {0} /\ probe \in Nat
  BY Constants
<1>1. r \in 0 .. ProbeEvery - 1 /\ q \in Nat /\ probe = ProbeEvery * q + r
  <2>1. r \in 0 .. ProbeEvery - 1 /\ q \in Nat
    BY <1>0, Division
  <2>2. probe = ProbeEvery * q + r
    BY <1>0, SMTT(30)
  <2>3. QED
    BY <2>1, <2>2
<1>2. probe' \in 0 .. ProbeWords - 1
  BY <1>0, Division
<1> HIDE DEF r, q
<1>3. (probe + 1) % ProbeEvery = IF r = ProbeEvery - 1 THEN 0 ELSE r + 1
  <2>1. CASE r = ProbeEvery - 1
    <3>1. probe + 1 = ProbeEvery * (q + 1) + 0 /\ q + 1 \in Int /\ 0 \in 0 .. ProbeEvery - 1
      BY <1>0, <1>1, <2>1
    <3>2. QED
      BY <1>0, <2>1, <3>1, Remainder, SMTT(30)
  <2>2. CASE r # ProbeEvery - 1
    <3>1. probe + 1 = ProbeEvery * q + (r + 1) /\ r + 1 \in 0 .. ProbeEvery - 1
      BY <1>0, <1>1, <2>2
    <3>2. probe + 1 \in Int /\ q \in Int
      BY <1>0, <1>1
    <3>3. (probe + 1) % ProbeEvery = r + 1
      BY <1>0, <3>1, <3>2, Remainder
    <3>4. QED
      BY <2>2, <3>3
  <2>3. QED
    BY <2>1, <2>2
<1>4. probe' % ProbeEvery = (probe + 1) % ProbeEvery
  <2>1. CASE probe + 1 < ProbeWords
    <3>1. probe + 1 = ProbeWords * 0 + (probe + 1) /\ probe + 1 \in 0 .. ProbeWords - 1
      BY <1>0, <2>1
    <3>2. probe' = probe + 1
      BY <1>0, <3>1, Remainder
    <3>3. QED
      BY <3>2
  <2>2. CASE probe + 1 = ProbeWords
    <3>1. ProbeWords = ProbeWords * 1 + 0 /\ 0 \in 0 .. ProbeWords - 1
      BY <1>0
    <3>2. probe' = 0
      BY <1>0, <2>2, <3>1, Remainder
    <3>3. 0 = ProbeEvery * 0 + 0 /\ 0 \in 0 .. ProbeEvery - 1
      BY <1>0
    <3>4. 0 % ProbeEvery = 0
      BY <1>0, <3>3, Remainder
    <3>5. QED
      BY <2>2, <3>2, <3>4, Constants
  <2>3. QED
    BY <1>0, <2>1, <2>2
<1>5. QED
  BY <1>1, <1>2, <1>3, <1>4 DEF r

LEMMA EarnedType ==
    ASSUME CreditOK
    PROVE  /\ Earned \in Nat /\ probe % ProbeEvery \in 0 .. ProbeEvery - 1
           /\ credit \in Int /\ credit - CreditMin \in Nat /\ ProbeEvery \in Nat \ {0}
           /\ ProbeEvery * (credit - CreditMin) \in Nat
<1>1. credit \in Int /\ credit - CreditMin \in Nat /\ ProbeEvery \in Nat \ {0} /\ probe \in Nat
  BY Constants DEF CreditOK
<1>2. probe % ProbeEvery \in 0 .. ProbeEvery - 1 /\ ProbeEvery * (credit - CreditMin) \in Nat
  BY <1>1, Division, ProductNat
<1>3. QED
  BY <1>1, <1>2 DEF Earned

LEMMA CreditInit == Init => CreditInv
  BY Constants, ReEarnedInPositive DEF Init, CreditInv, CreditOK

\* A step outside of the spin that leaves the credit alone.
LEMMA CreditKept ==
    ASSUME CreditInv, UNCHANGED <<credit, probe, streak, spin_max_iters>>,
           phase # "spin", phase' # "spin", iters' \in Nat
    PROVE  CreditInv'
  BY DEF CreditInv, CreditOK, InDebt, Earned, ReEarnedIn

LEMMA BlockCredit == ASSUME WaitInv, CreditInv, Block PROVE CreditInv'
<1>0. /\ phase = "try" /\ phase' = "spin"
      /\ UNCHANGED <<spin_max_iters, credit, streak>>
  BY DEF Block, config
<1>1. CASE spin_max_iters = 0
  BY <1>0, <1>1 DEF Block, CreditInv, CreditOK, ReEarnedIn
<1>2. CASE spin_max_iters # 0 /\ credit > 0
  <2>1. iters' = spin_max_iters /\ probe' = probe
    BY <1>2 DEF Block
  <2>2. credit \in Int /\ spin_max_iters \in Nat
    BY Constants DEF CreditInv, CreditOK, WaitInv, Configured
  <2>3. QED
    BY <1>0, <1>2, <2>1, <2>2 DEF CreditInv, CreditOK, ReEarnedIn
<1>3. CASE spin_max_iters # 0 /\ ~(credit > 0)
  <2> DEFINE few == Min({Max({spin_max_iters \div 8, 8}), 64})
  <2>1. probe' = (probe + 1) % ProbeWords /\ iters' = IF Probes THEN few ELSE 0
    BY <1>3 DEF Block
  <2>2. few \in Nat /\ few > 0
    <3>1. spin_max_iters \div 8 \in Nat
      BY Constants DEF WaitInv, Configured
    <3>2. Max({spin_max_iters \div 8, 8}) \in Nat /\ Max({spin_max_iters \div 8, 8}) >= 8
      BY <3>1, MaxOfTwo
    <3>3. QED
      BY <3>2, MinOfTwo
  <2> HIDE DEF few
  <2>3. /\ probe' \in 0 .. ProbeWords - 1
        /\ probe' % ProbeEvery = IF probe % ProbeEvery = ProbeEvery - 1 THEN 0
                                 ELSE (probe % ProbeEvery) + 1
    BY <2>1, ProbeCounts DEF CreditInv, CreditOK
  <2>4. credit \in Int /\ credit <= 0 /\ streak \in Nat /\ streak <= Earned
    BY <1>0, <1>3, Constants, ReEarnedInPositive DEF CreditInv, CreditOK, InDebt
  <2>5. CreditOK'
    BY <1>0, <2>1, <2>2, <2>3 DEF CreditInv, CreditOK, ReEarnedIn
  <2>6. CASE Probes
    <3>1. probe' % ProbeEvery = 0 /\ probe % ProbeEvery = ProbeEvery - 1
      BY <2>3, <2>6, EarnedType DEF Probes, CreditInv
    <3>2. streak + 1 <= Earned' + ProbeEvery
      <4>1. Earned' = ProbeEvery * (credit - CreditMin) + 0
        BY <1>0, <3>1 DEF Earned
      <4>2. QED
        BY <2>4, <3>1, <4>1, EarnedType DEF Earned, CreditInv
    <3>3. QED
      BY <1>0, <2>1, <2>2, <2>5, <2>6, <3>1, <3>2 DEF CreditInv, InDebt
  <2>7. CASE ~Probes
    <3>1. probe' % ProbeEvery = (probe % ProbeEvery) + 1
      BY <2>3, <2>7 DEF Probes
    <3>2. streak + 1 <= Earned'
      BY <1>0, <2>4, <3>1, EarnedType DEF Earned, CreditInv
    <3>3. QED
      BY <1>0, <2>1, <2>4, <2>5, <2>7, <3>2 DEF CreditInv, InDebt
  <2>8. QED
    BY <2>6, <2>7
<1>4. QED
  BY <1>1, <1>2, <1>3

LEMMA RewardType ==
    ASSUME CreditOK
    PROVE  /\ spin_credit_reward \in CreditMin .. CreditMax /\ spin_credit_reward <= credit + 1
           /\ credit <= 0 => spin_credit_reward = credit + 1
           /\ credit > 0 => spin_credit_reward > 0
           /\ spin_credit_penalize \in CreditMin .. CreditMax
  BY Constants, MinOfTwo, MaxOfTwo DEF CreditOK, spin_credit_reward, spin_credit_penalize

LEMMA WinsCredit == ASSUME CreditInv, SpinWins PROVE CreditInv'
<1>0. /\ phase = "spin" /\ phase' = "idle" /\ iters # 0 /\ iters' = 0 /\ probe' = probe
      /\ credit' = spin_credit_reward /\ streak' = Longer(streak) /\ spin_max_iters' = spin_max_iters
  BY DEF SpinWins, Over, config, CreditInv, CreditOK
<1>1. CreditOK'
  BY <1>0, RewardType, LongerType DEF CreditInv, CreditOK, ReEarnedIn
<1>2. ASSUME spin_max_iters # 0, credit' <= 0 PROVE InDebt'
  <2>1. credit \in Int /\ credit <= 0 /\ credit' = credit + 1
    BY <1>0, <1>2, RewardType, EarnedType DEF CreditInv
  <2>2. streak + 1 <= Earned + ProbeEvery /\ probe % ProbeEvery = 0
    BY <1>0, <1>2, <2>1 DEF CreditInv, InDebt
  <2>3. streak \in Nat /\ streak' <= streak + 1 /\ streak' \in Nat
    BY <1>0, <1>1, Constants, ReEarnedInPositive, MinOfTwo DEF CreditInv, CreditOK, Longer
  <2>4. Earned' = Earned + ProbeEvery
    <3>1. ProbeEvery * (credit + 1 - CreditMin) = ProbeEvery * (credit - CreditMin) + ProbeEvery
      BY EarnedType, Constants DEF CreditInv
    <3>2. Earned' = ProbeEvery * (credit + 1 - CreditMin) + (probe % ProbeEvery)
      <4>1. Earned' = ProbeEvery * (credit' - CreditMin) + (probe' % ProbeEvery)
        BY DEF Earned
      <4>2. credit' - CreditMin = credit + 1 - CreditMin /\ probe' % ProbeEvery = probe % ProbeEvery
        BY <1>0, <2>1, Constants
      <4>3. QED
        BY <4>1, <4>2
    <3>3. QED
      BY <3>1, <3>2, EarnedType DEF Earned, CreditInv
  <2>5. QED
    BY <1>0, <2>2, <2>3, <2>4, EarnedType DEF InDebt, CreditInv
<1>3. QED
  BY <1>0, <1>1, <1>2 DEF CreditInv

LEMMA FailsCredit == ASSUME CreditInv, SpinFails PROVE CreditInv'
<1>0. /\ phase' = "tail" /\ iters' = iters /\ probe' = probe /\ streak' = 0
      /\ credit' \in {credit, spin_credit_penalize} /\ spin_max_iters' = spin_max_iters
  BY DEF SpinFails, Proceed, config
<1>1. CreditOK'
  <2>1. streak' \in 0 .. ReEarnedIn
    BY <1>0, ReEarnedInPositive
  <2>0. ReEarnedIn' = ReEarnedIn
    BY DEF ReEarnedIn
  <2>2. QED
    BY <1>0, <2>0, <2>1, RewardType DEF CreditInv, CreditOK
<1>2. Earned' \in Nat
  <2>1. credit' \in CreditMin .. CreditMax /\ probe' \in 0 .. ProbeWords - 1
    BY <1>1 DEF CreditOK
  <2>2. probe' \in Nat
    BY <2>1, Constants
  <2>3. probe' % ProbeEvery \in Nat
    <3>1. ProbeEvery \in Nat \ {0}
      BY Constants
    <3>2. QED
      BY <2>2, <3>1, RemainderNat
  <2>4. credit' - CreditMin \in Nat
    <3>1. CreditMin \in Int /\ CreditMax \in Int
      BY Constants
    <3>2. QED
      BY <2>1, <3>1, AboveLeast
  <2>5. ProbeEvery * (credit' - CreditMin) \in Nat
    BY <2>4, Constants, ProductNat
  <2>6. QED
    BY <2>3, <2>5 DEF Earned
<1>3. QED
  BY <1>0, <1>1, <1>2 DEF CreditInv, InDebt

LEMMA NoSpinCredit == ASSUME CreditInv, NoSpin PROVE CreditInv'
<1>0. /\ phase = "spin" /\ phase' = "tail" /\ iters = 0 /\ iters' = iters /\ probe' = probe
      /\ credit' = credit /\ streak' = Longer(streak) /\ spin_max_iters' = spin_max_iters
  BY DEF NoSpin, Proceed, config
<1>1. CreditOK'
  BY <1>0, LongerType DEF CreditInv, CreditOK, ReEarnedIn
<1>2. ASSUME spin_max_iters # 0, credit <= 0 PROVE InDebt'
  <2>1. streak \in Nat /\ streak' <= streak + 1 /\ streak' \in Nat
    BY <1>0, <1>1, Constants, ReEarnedInPositive, MinOfTwo DEF CreditInv, CreditOK, Longer
  <2>2. streak + 1 <= Earned /\ Earned' = Earned
    BY <1>0, <1>2 DEF CreditInv, InDebt, Earned
  <2>3. QED
    BY <1>0, <2>1, <2>2, EarnedType DEF InDebt, CreditInv
<1>3. QED
  BY <1>0, <1>1, <1>2 DEF CreditInv

LEMMA CreditStep == WaitInv /\ CreditInv /\ [Next]_vars => CreditInv'
<1> SUFFICES ASSUME WaitInv, CreditInv, [Next]_vars PROVE CreditInv'
  OBVIOUS
<1>0. CASE UNCHANGED vars
  BY <1>0 DEF vars, config, CreditInv, CreditOK, InDebt, Earned, ReEarnedIn
<1>1. CASE SpinWins \/ SpinFails \/ NoSpin \/ Block
  BY <1>1, WinsCredit, FailsCredit, NoSpinCredit, BlockCredit
<1>2. CASE \/ \E timeout \in (now - 1 .. now + MaxLeft) \cup {Forever} : Call(timeout)
           \/ Enter \/ FastMiss \/ TimeUp \/ Pass
  <2>1. /\ UNCHANGED <<credit, probe, streak, spin_max_iters, iters>>
        /\ phase # "spin" /\ phase' # "spin"
    BY <1>2 DEF Call, Enter, FastMiss, TimeUp, Expires, Pass, config
  <2>2. QED
    BY <2>1, CreditKept DEF CreditInv, CreditOK
<1>3. CASE FastHit \/ Hit \/ Return
  <2>1. /\ UNCHANGED <<credit, probe, streak, spin_max_iters>> /\ iters' = 0
        /\ phase # "spin" /\ phase' # "spin"
    BY <1>3 DEF FastHit, Hit, Return, Satisfied, Over, config
  <2>2. QED
    BY <2>1, CreditKept
<1>4. CASE Sleep \/ SleepShort \/ SpinTail
  <2>1. Rested /\ phase = "tail"
    BY <1>4 DEF Sleep, SleepShort, SpinTail
  <2>2. /\ UNCHANGED <<credit, probe, streak, spin_max_iters>> /\ iters' = 0
        /\ phase # "spin" /\ phase' # "spin"
    BY <2>1 DEF Rested, config
  <2>3. QED
    BY <2>2, CreditKept
<1>5. QED
  BY <1>0, <1>1, <1>2, <1>3, <1>4 DEF Next

LEMMA CreditAlways == Spec => []CreditInv
  BY WaitAlways, CreditInit, CreditStep, PTL DEF Spec

\* A thread whose spins win is out of any debt after ReEarnedIn blocked waits.
THEOREM CreditReEarned == Spec => []ReEarned
<1>1. CreditInv => ReEarned
  <2> SUFFICES ASSUME CreditInv, spin_max_iters # 0, streak = ReEarnedIn, ~(credit > 0)
               PROVE  FALSE
    BY DEF ReEarned
  <2> DEFINE k == credit - CreditMin
             r == probe % ProbeEvery
  <2>1. credit \in Int /\ credit <= 0 /\ InDebt
    BY EarnedType DEF CreditInv
  <2>2. /\ k \in Nat /\ r \in 0 .. ProbeEvery - 1 /\ ProbeEvery \in Nat \ {0} /\ CreditMin \in Int
        /\ ProbeEvery * k \in Nat /\ Earned = ProbeEvery * k + r
    BY EarnedType, Constants DEF CreditInv, Earned
  <2>3. streak <= ProbeEvery * k + ProbeEvery - 1
    <3>1. streak \in Nat
      BY ReEarnedInPositive
    <3>2. QED
      <4>1. CASE phase # "spin" \/ iters = 0
        BY <2>1, <2>2, <3>1, <4>1 DEF InDebt
      <4>2. CASE phase = "spin" /\ iters # 0
        <5>1. streak + 1 <= Earned + ProbeEvery /\ r = 0
          BY <2>1, <4>2 DEF InDebt
        <5>2. QED
          BY <2>2, <3>1, <5>1
      <4>3. QED
        BY <4>1, <4>2
  <2>4. k * ProbeEvery <= (0 - CreditMin) * ProbeEvery
    BY <2>1, <2>2, ProductMonotone
  <2>5. ReEarnedIn = (0 - CreditMin) * ProbeEvery + ProbeEvery
    BY <2>2 DEF ReEarnedIn
  <2> HIDE DEF k, r
  <2>6. QED
    BY <2>2, <2>3, <2>4, <2>5
<1>2. QED
  BY <1>1, CreditAlways, PTL

\* The settings within their caps, the credit and the bucket in bounds, the
\* times of a wait within the bounds of the model.
THEOREM SpinTypeOK == Spec => []TypeOK
<1>1. WaitInv /\ BucketInv /\ CreditInv => TypeOK
  BY DEF WaitInv, Configured, Clocked, WaitTyped, Waiting, BucketInv, BucketOK, CreditInv, CreditOK, TypeOK
<1>2. QED
  BY <1>1, WaitAlways, BucketAlways, CreditAlways, PTL
=============================================================================
