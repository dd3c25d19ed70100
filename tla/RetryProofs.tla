----------------------------- MODULE RetryProofs -----------------------------
(***************************************************************************)
(* Theorems about module Retry: its types, the sleep budget, and that a    *)
(* rate limit is retried before it is terminal.                            *)
(***************************************************************************)
EXTENDS Retry, TLAPS

\* What the loop knows at each attempt: the counter stands for retries made,
\* and a sleep is under way only when a retry is left.
Loop ==
  /\ RetryTypeOK
  /\ st = "sleeping" => attempt < MaxRetries
  /\ slept <= CumulativeCap
  /\ attempt = 0 /\ st = "calling" => slept = 0
  /\ outcome # "none" => st = "done"
  /\ RateLimitIsRetried

LEMMA HintNat ==
  ASSUME NEW exchange \in Exchanges
  PROVE  /\ Base(exchange.after) \in Nat
         /\ Clamped(exchange.after) \in Nat
         /\ Clamped(exchange.after) <= PerAttemptCap
<1>1. exchange.after \in Seq(Nat)
  BY RetryAssumption DEF Exchange
<1>2. exchange.after # <<>> => Head(exchange.after) \in Nat
  BY <1>1
<1>3. QED
  BY <1>2, RetryAssumption DEF Base, Clamped

LEMMA LoopInit == Init => Loop
BY RetryAssumption DEF Init, Loop, RetryTypeOK, RateLimitIsRetried

LEMMA LoopNext == Loop /\ [Next]_retryVars => Loop'
<1> SUFFICES ASSUME Loop, [Next]_retryVars PROVE Loop'
  OBVIOUS
<1> USE RetryAssumption
<1>1. CASE CallEnds
  <2>1. ASSUME NEW exchange \in Exchanges, Returns(exchange)
        PROVE  Loop'
    <3>1. Verdict(exchange) \in {"ok", "short", "other"}
      BY <2>1 DEF Returns, Verdict
    <3>2. QED
      BY <2>1, <3>1 DEF Returns, Loop, RetryTypeOK, RateLimitIsRetried
  <2>2. ASSUME NEW exchange \in Exchanges, GivesUp(exchange)
        PROVE  Loop'
    <3>1. Clamped(exchange.after) \in Nat /\ Clamped(exchange.after) <= PerAttemptCap
      BY HintNat
    <3>2. InBudget(exchange.after) \/ slept + PerAttemptCap > CumulativeCap
      BY <3>1 DEF InBudget, Loop, RetryTypeOK
    <3>3. exchange.sane /\ ~InBudget(exchange.after) => attempt > 0
      BY <2>2, <3>1 DEF InBudget, GivesUp, Loop, RetryTypeOK
    <3>4. attempt = MaxRetries \/ (attempt > 0 /\ slept + PerAttemptCap > CumulativeCap)
      BY <2>2, <3>2, <3>3 DEF GivesUp
    <3>5. QED
      BY <2>2, <3>4 DEF GivesUp, Loop, RetryTypeOK, RateLimitIsRetried
  <2>3. ASSUME NEW exchange \in Exchanges, Naps(exchange)
        PROVE  Loop'
    <3>1. Clamped(exchange.after) \in Nat
      BY HintNat
    <3>2. /\ slept' \in Nat /\ nap' \in Nat
          /\ slept' <= slept + Clamped(exchange.after)
      BY <2>3, <3>1 DEF Naps, Loop, RetryTypeOK
    <3>3. slept' <= CumulativeCap
      BY <2>3, <3>1, <3>2 DEF Naps, InBudget, Loop, RetryTypeOK
    <3>4. QED
      BY <2>3, <3>2, <3>3 DEF Naps, Loop, RetryTypeOK, RateLimitIsRetried
  <2>4. ASSUME NEW exchange \in Exchanges, Panics(exchange)
        PROVE  Loop'
    BY <2>4 DEF Panics, Loop, RetryTypeOK, RateLimitIsRetried
  <2>5. QED
    BY <1>1, <2>1, <2>2, <2>3, <2>4 DEF CallEnds
<1>2. CASE Wakes
  BY <1>2 DEF Wakes, Loop, RetryTypeOK, RateLimitIsRetried
<1>3. CASE UNCHANGED retryVars
  BY <1>3 DEF retryVars, Loop, RetryTypeOK, RateLimitIsRetried
<1>4. QED
  BY <1>1, <1>2, <1>3 DEF Next

\* At most max_retries + 1 attempts are made.
THEOREM RetryTypes == Spec => []RetryTypeOK
<1>1. Loop => RetryTypeOK
  BY DEF Loop
<1>2. QED
  BY <1>1, LoopInit, LoopNext, PTL DEF Spec

\* execute_with_backoff never sleeps for more than cumulative_cap in all.
THEOREM SleepBounded == Spec => []SleepWithinBudget
<1>1. Loop => SleepWithinBudget
  BY DEF Loop, SleepWithinBudget
<1>2. QED
  BY <1>1, LoopInit, LoopNext, PTL DEF Spec

\* A terminal 429 was retried to the end of the retries or of the budget, as
\* the validated relation of the two caps promises.
THEOREM RateLimitRetried == Spec => []RateLimitIsRetried
<1>1. Loop => RateLimitIsRetried
  BY DEF Loop
<1>2. QED
  BY <1>1, LoopInit, LoopNext, PTL DEF Spec

LEMMA Nearer ==
  ASSUME Loop, Next PROVE StepsLeft' < StepsLeft
<1>1. MaxRetries - attempt \in Nat
  BY RetryAssumption DEF Loop, RetryTypeOK
<1>2. CASE CallEnds
  <2>1. st = "calling" /\ attempt' = attempt
        /\ (st' = "done" \/ (st' = "sleeping" /\ attempt # MaxRetries))
    BY <1>2 DEF CallEnds, Returns, Panics, GivesUp, Naps
  <2> QED
    BY <1>1, <2>1 DEF StepsLeft
<1>3. CASE Wakes
  <2>1. st = "sleeping" /\ st' = "calling" /\ attempt' = attempt + 1
    BY <1>3 DEF Wakes
  <2>2. MaxRetries - attempt' = (MaxRetries - attempt) - 1
    BY <2>1, RetryAssumption DEF Loop, RetryTypeOK
  <2> QED
    BY <1>1, <2>1, <2>2 DEF StepsLeft
<1> QED
  BY <1>2, <1>3 DEF Next

\* The loop ends after at most 2 * max_retries + 1 calls and sleeps, whatever
\* the provider answers and however the jitter falls.
THEOREM LoopRunsDown ==
  Spec => [](StepsLeft \in 0 .. 2 * MaxRetries + 1) /\ CallRunsDown
<1>1. Loop => StepsLeft \in 0 .. 2 * MaxRetries + 1
  <2> SUFFICES ASSUME Loop PROVE StepsLeft \in 0 .. 2 * MaxRetries + 1
    OBVIOUS
  <2>1. MaxRetries - attempt \in 0 .. MaxRetries /\ MaxRetries \in Nat
        /\ st \in {"calling", "sleeping", "done"}
    BY RetryAssumption DEF Loop, RetryTypeOK
  <2> QED
    BY <2>1 DEF StepsLeft
<1>2. Loop /\ [Next]_retryVars => [StepsLeft' < StepsLeft]_retryVars
  BY Nearer
<1> QED
  BY <1>1, <1>2, LoopInit, LoopNext, PTL DEF Spec, CallRunsDown

=============================================================================
