----------------------------- MODULE SpinBudget -----------------------------
(***************************************************************************)
(* The time of one thread in `wait' (src/core.rs): the absolute timeout of *)
(* src/ffi.rs turned into a deadline and measured again in every round;    *)
(* the settings from the environment, the adaptive credit of the spin      *)
(* before a sleep, and the token bucket that rations the spin tail before  *)
(* a deadline.                                                             *)
(*                                                                         *)
(*   idle     outside wait                                                 *)
(*   enter    the timeout is a duration, `left', not yet a deadline        *)
(*   fast     about to try without the lock                                *)
(*   try      about to take the lock, try, and look at the clock           *)
(*   spin     nodes registered, about to spin `iters' times                *)
(*   tail     about to spin or sleep until its deadline, `left' away       *)
(*   expired  has reported a timeout                                       *)
(***************************************************************************)
EXTENDS Integers, FiniteSetsExt

CONSTANTS
    Unset,            \* an environment variable that is not there, or no number
    Environments,     \* what the three variables may say: [iters, tail, pct]
    ItersCap, TailCap, PctCap,      \* 100_000, 2000 us and 100
    PctDefault,                     \* 15
    CreditMin, CreditMax,           \* -8 and 16
    ProbeEvery, ProbeWords,         \* 8, and the 2^32 values of SPIN_PROBE
    Second, Percent, BurstPart,     \* 10^9 ns, 10^7 ns, and the 100 of tail_budget_cap
    MaxWord,                        \* 2^64 - 1
    Forever,                        \* no deadline
    MaxLeft, MaxLag, MaxTime        \* bounds: a wait's length, a delay, the clock

ASSUME SpinAssumption ==
    /\ \A n \in {ItersCap, TailCap, PctCap, CreditMax, ProbeEvery, Second, Percent, BurstPart} :
          n \in Nat \ {0}
    /\ PctDefault \in 0 .. PctCap /\ CreditMin \in Int /\ CreditMin < 0
    /\ ProbeWords \in Nat \ {0} /\ ProbeWords % ProbeEvery = 0
    /\ MaxWord \in Nat /\ MaxWord >= Second * PctCap * Percent
    /\ MaxLeft \in Nat /\ MaxLag \in Nat /\ MaxTime \in Nat \ {0} /\ Forever \notin Int
    /\ Environments \subseteq [iters : Nat \cup {Unset}, tail : Nat \cup {Unset},
                               pct : Nat \cup {Unset}]

VARIABLES
    spin_max_iters, spin_tail, budget,   \* settings, read once
    now,
    tokens, last,       \* TAIL_BUDGET
    credit, probe,      \* SPIN_CREDIT, SPIN_PROBE
    phase, iters, left, deadline,
    exact,   \* history: tokens * Second of a bucket that never rounds
    least,   \* history: tokens * 2 * Second of a bucket that is refilled at half
             \* the rate, and by nothing if less than a token has come together
    streak,  \* history: rounds since a spin that did not win
    due,     \* history: when the wait is to time out
    lag      \* history: how long it did neither sleep nor spin its tail,
             \* before it had a deadline and since it last looked at the clock

config == <<spin_max_iters, spin_tail, budget>>
bucket == <<tokens, last, exact, least>>
timing == <<deadline, due, lag>>
vars   == <<config, now, bucket, credit, probe, phase, iters, left, streak, timing>>

Setting(value, default, cap) == Min({IF value = Unset THEN default ELSE value, cap})

\* Faulty: a bucket of a whole second.
tail_budget_cap_second == Max({budget, 1})

tail_budget_cap == Max({budget \div BurstPart, 1})

NoLag == [entry |-> 0, round |-> 0]

Init ==
    /\ \E v \in Environments :
         /\ spin_max_iters = Setting(v.iters, 0, ItersCap)
         /\ spin_tail = Setting(v.tail, 0, TailCap)
         /\ budget = Setting(v.pct, PctDefault, PctCap) * Percent
    /\ now = 1
    /\ tokens = 0 /\ last = 0
    /\ credit = 1 /\ probe = 0
    /\ phase = "idle" /\ iters = 0 /\ left = Forever
    /\ deadline = Forever /\ due = Forever /\ lag = NoLag
    /\ exact = 0 /\ least = 0 /\ streak = 0

-----------------------------------------------------------------------------
\* After how many blocked waits the credit is back, if every spin wins.
ReEarnedIn == ProbeEvery * (1 - CreditMin)
Longer(n)  == Min({n + 1, ReEarnedIn})

Probes == probe' % ProbeEvery = 0

\* Something takes its time: a lock, a spin, a sweep, the scheduler.
Delayed(d) == d \in 0 .. MaxLag /\ now + d <= MaxTime /\ now' = now + d

\* The wait is over, and with it its locals.
Over ==
    /\ phase' = "idle" /\ iters' = 0 /\ left' = Forever
    /\ deadline' = Forever /\ due' = Forever /\ lag' = NoLag

Satisfied == Over /\ UNCHANGED <<config, now, bucket, credit, probe, streak>>

Expires ==
    /\ phase' = "expired"
    /\ UNCHANGED <<config, bucket, credit, probe, iters, left, streak, deadline, due>>

timeout_to_duration(timeout) ==
    IF timeout = Forever THEN Forever ELSE Max({timeout - now, 0})

\* read_wait: the timeout is a time of the monotonic clock, past or future.
Call(timeout) ==
    /\ phase = "idle"
    /\ left' = timeout_to_duration(timeout)
    /\ due' = IF timeout = Forever THEN Forever ELSE Max({timeout, now})
    /\ phase' = "enter"
    /\ UNCHANGED <<config, now, bucket, credit, probe, iters, streak, deadline, lag>>

\* The checks of the arguments, and the region if this is the first call.
Enter ==
    /\ phase = "enter"
    /\ \E d \in 0 .. MaxLag : Delayed(d) /\ lag' = [lag EXCEPT !.entry = d]
    /\ deadline' = IF left = Forever THEN Forever ELSE now' + left
    /\ phase' = "fast"
    /\ UNCHANGED <<config, bucket, credit, probe, iters, left, streak, due>>

FastHit  == phase = "fast" /\ Satisfied

FastMiss ==
    /\ phase = "fast"
    /\ \/ left = 0 /\ Expires /\ UNCHANGED <<now, lag>>
       \/ /\ left # 0 /\ phase' = "try"
          /\ UNCHANGED <<config, now, bucket, credit, probe, iters, left, streak, timing>>

Hit == phase = "try" /\ Satisfied

\* Registered, tried in vain, and then it is late.
TimeUp ==
    /\ phase = "try" /\ deadline # Forever
    /\ \E d \in 0 .. MaxLag : Delayed(d) /\ lag' = [lag EXCEPT !.round = @ + d]
    /\ now' >= deadline
    /\ Expires

\* Faulty: the time that was left last time.
RemainingStale == left

Remaining == IF deadline = Forever THEN Forever ELSE deadline - now'

\* Registered, tried in vain, and there is time: spin_budget.
Block ==
    /\ phase = "try"
    /\ \E d \in 0 .. MaxLag : Delayed(d)
    /\ deadline # Forever => now' < deadline
    /\ left' = Remaining
    /\ lag' = [lag EXCEPT !.round = 0]
    /\ phase' = "spin"
    /\ IF spin_max_iters = 0
       THEN iters' = 0 /\ UNCHANGED probe
       ELSE IF credit > 0
       THEN iters' = spin_max_iters /\ UNCHANGED probe
       ELSE /\ probe' = (probe + 1) % ProbeWords
            /\ iters' = IF Probes THEN Min({Max({spin_max_iters \div 8, 8}), 64}) ELSE 0
    /\ UNCHANGED <<config, bucket, credit, streak, deadline, due>>

\* Faulty: credit without an end.
spin_credit_reward_unbounded == credit + 1

spin_credit_reward == Min({credit + 1, CreditMax})

\* Faulty: debt without an end.
spin_credit_penalize_unbounded == credit - 2

spin_credit_penalize == Max({credit - 2, CreditMin})

\* The spin acquires something or sees the alert: the wait returns.
SpinWins ==
    /\ phase = "spin" /\ iters > 0
    /\ credit' = spin_credit_reward
    /\ streak' = Longer(streak)
    /\ Over
    /\ UNCHANGED <<config, now, bucket, probe>>

\* On to the sleep, by way of auto_sweep_dead.
Proceed ==
    /\ \E d \in 0 .. MaxLag : Delayed(d) /\ lag' = [lag EXCEPT !.round = @ + d]
    /\ phase' = "tail"
    /\ UNCHANGED <<config, bucket, probe, iters, left, deadline, due>>

\* It does not: detached by a signaler, which is neutral, or to the end.
SpinFails ==
    /\ phase = "spin" /\ iters > 0
    /\ credit' \in {credit, spin_credit_penalize}
    /\ streak' = 0
    /\ Proceed

NoSpin ==
    /\ phase = "spin" /\ iters = 0
    /\ streak' = Longer(streak)
    /\ Proceed /\ UNCHANGED credit

-----------------------------------------------------------------------------
\* Faulty: the product wraps.
SatMulWraps(x, y) == (x * y) % (MaxWord + 1)

SatMul(x, y) == Min({x * y, MaxWord})

\* What the thread has at this moment, in the code, exactly, and at least.
Refilled == IF last = 0 THEN tail_budget_cap
            ELSE Min({tokens + SatMul(now - last, budget) \div Second, tail_budget_cap})
RefilledExactly ==
    IF last = 0 THEN Max({budget \div BurstPart, 1}) * Second
    ELSE Min({exact + (now - last) * budget, Max({budget \div BurstPart, 1}) * Second})
RefilledAtLeast ==
    LET full  == Max({budget \div BurstPart, 1}) * 2 * Second
        share == (now - last) * budget
    IN  IF last = 0 THEN full
        ELSE Min({least + (IF share >= Second THEN share ELSE 0), full})

Allows(want) == budget = 0 \/ Refilled >= want

\* tail_budget_take if it charges, tail_budget_can if it does not.
tail_budget(want, charge) ==
    IF budget = 0
    THEN UNCHANGED bucket
    ELSE LET spent == IF charge /\ Refilled >= want THEN want ELSE 0
         IN  /\ tokens' = Refilled - spent
             /\ last' = now
             /\ exact' = RefilledExactly - spent * Second
             /\ least' = Max({RefilledAtLeast - spent * 2 * Second, 0})

\* Spinning or asleep for at most this long; a wake may end it before.
Spend(most) == \E d \in 0 .. most : now + d <= MaxTime /\ now' = now + d

\* Round again, woken or not.
Rested == phase' = "try" /\ iters' = 0 /\ UNCHANGED <<config, credit, probe, left, streak, timing>>

\* No tail, or no deadline: sleep until woken.
Sleep ==
    /\ phase = "tail" /\ (spin_tail = 0 \/ left = Forever)
    /\ Spend(IF left = Forever THEN MaxTime ELSE left)
    /\ Rested /\ UNCHANGED bucket

\* Further away than the tail: sleep, and up to the tail only if it is allowed.
SleepShort ==
    /\ phase = "tail" /\ spin_tail # 0 /\ left # Forever /\ left > spin_tail
    /\ tail_budget(spin_tail, FALSE)
    /\ Spend(IF Allows(spin_tail) THEN left - spin_tail ELSE left)
    /\ Rested

\* Inside the tail: spin if it is allowed, else sleep.
SpinTail ==
    /\ phase = "tail" /\ spin_tail # 0 /\ left # Forever /\ left <= spin_tail
    /\ tail_budget(left, TRUE)
    /\ Spend(left)
    /\ Rested

Return == phase = "expired" /\ Satisfied

\* The thread does something else.
Pass ==
    /\ phase = "idle" /\ now < MaxTime
    /\ now' \in now + 1 .. MaxTime
    /\ UNCHANGED <<config, bucket, credit, probe, phase, iters, left, streak, timing>>

Next ==
    \/ \E timeout \in (now - 1 .. now + MaxLeft) \cup {Forever} : Call(timeout)
    \/ Enter \/ FastHit \/ FastMiss \/ Hit \/ TimeUp \/ Block
    \/ SpinWins \/ SpinFails \/ NoSpin
    \/ Sleep \/ SleepShort \/ SpinTail
    \/ Return \/ Pass

Spec == Init /\ [][Next]_vars

-----------------------------------------------------------------------------
\* The settings stay within their caps, the credit and the bucket in bounds.
TypeOK ==
    /\ spin_max_iters \in 0 .. ItersCap /\ spin_tail \in 0 .. TailCap
    /\ budget \in 0 .. PctCap * Percent
    /\ now \in 1 .. MaxTime /\ last \in 0 .. now
    /\ tokens \in 0 .. tail_budget_cap /\ exact \in Int /\ least \in Nat
    /\ credit \in CreditMin .. CreditMax /\ probe \in 0 .. ProbeWords - 1
    /\ phase \in {"idle", "enter", "fast", "try", "spin", "tail", "expired"} /\ iters \in Nat
    /\ left \in 0 .. MaxLeft \cup {Forever} /\ streak \in 0 .. ReEarnedIn
    /\ deadline \in Nat \cup {Forever} /\ due \in Nat \cup {Forever}
    /\ lag \in [entry : Nat, round : Nat]

\* `the allowance is enforced rather than trusted': in every stretch of time
\* the tails that tail_budget grants stay within one burst and the share of
\* that time, since a bucket that never rounds would have granted them too.
RateBound == budget # 0 => tokens * Second <= exact

\* `its waits park normally until it has allowance again': whenever a thread
\* stops spending, its allowance comes back, at half the rate or faster, as long
\* as the calls of tail_budget are a token's worth of time apart (Second / budget:
\* 7 ns at 15 %, 100 ns at 1 %).  Of closer calls nothing is said: a refill that
\* truncates to nothing moves the clock on all the same.
RefillsByHalf == budget # 0 => least <= tokens * 2 * Second

\* `a workload that changed back to short waits can re-earn credit': once its
\* spins win, even a thread deepest in debt spins fully again after so many
\* blocked waits.
ReEarned == spin_max_iters # 0 /\ streak = ReEarnedIn => credit > 0

\* `Absolute timeout in ns': however often the wait is woken, goes round, spins
\* and sleeps short of its deadline, it does not time out before the time that
\* its caller gave, and is late by no more than the delay before it had a
\* deadline and the delays of one round: spin, sweep and lock do not add up
\* over the rounds, and what the tail overruns is the part of its own round.
Punctual ==
    phase = "expired" => due <= now /\ now <= due + lag.entry + lag.round
=============================================================================
