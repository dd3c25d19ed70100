-------------------------------- MODULE Retry --------------------------------
(***************************************************************************)
(* execute_with_backoff of src/retry/mod.rs: one provider call inside a    *)
(* flush task, repeated on a 429 after a jittered sleep, within a number   *)
(* of retries, a cap on each sleep and a cap on all of them.  What a call  *)
(* returns is what module Adapter makes of an HTTP exchange.  Durations    *)
(* are whole units of time.                                                *)
(***************************************************************************)
EXTENDS Adapter

CONSTANTS MaxRetries,      \* max_retries
          PerAttemptCap,   \* per_attempt_cap
          CumulativeCap,   \* cumulative_cap
          DefaultBase,     \* default_base, for a 429 without Retry-After
          Exchanges        \* what may come of a request to the provider

\* The caps are those of a configuration that emr config validate accepts; the
\* server does not validate its own.
ASSUME RetryAssumption ==
  /\ MaxRetries \in Nat
  /\ PerAttemptCap \in Nat \ {0} /\ CumulativeCap \in Nat \ {0}
  /\ PerAttemptCap <= CumulativeCap
  /\ DefaultBase \in Nat
  /\ Texts \in Nat \ {0}
  /\ Exchanges \subseteq Exchange
  /\ \A e \in Exchanges : Len(e.after) <= 1

VARIABLES attempt,   \* the for loop's counter
          slept,     \* cumulative_sleep
          nap,       \* the sleep under way
          st,        \* where the task is
          outcome    \* what the call returned, once it did

retryVars == <<attempt, slept, nap, st, outcome>>

Init ==
  /\ attempt = 0 /\ slept = 0 /\ nap = 0
  /\ st = "calling" /\ outcome = "none"

\* Ok, or an error that is no 429.
Returns(exchange) ==
  /\ st = "calling" /\ ~RateLimited(exchange)
  /\ st' = "done" /\ outcome' = Verdict(exchange)
  /\ UNCHANGED <<attempt, slept, nap>>

\* A Retry-After that Duration::from_secs_f64 panics on (negative, NaN, huge).
Panics(exchange) ==
  /\ st = "calling" /\ RateLimited(exchange)
  /\ attempt # MaxRetries /\ ~exchange.sane
  /\ st' = "done" /\ outcome' = "panic"
  /\ UNCHANGED <<attempt, slept, nap>>

Base(hint) == IF hint = <<>> THEN DefaultBase ELSE Head(hint)

\* Mutant: a Retry-After is taken as it comes.
NoClamp(hint) == Base(hint)

Clamped(hint) ==
  IF Base(hint) <= PerAttemptCap THEN Base(hint) ELSE PerAttemptCap

\* Mutant: the budget is looked at before the sleep is added.
PastBudget(hint) == slept <= CumulativeCap

\* The sleep fits what is left of the budget.
InBudget(hint) == slept + Clamped(hint) <= CumulativeCap

\* A 429 on the last attempt, or one whose sleep would not fit the budget.
GivesUp(exchange) ==
  /\ st = "calling" /\ RateLimited(exchange)
  /\ attempt = MaxRetries \/ (exchange.sane /\ ~InBudget(exchange.after))
  /\ st' = "done" /\ outcome' = "rate_limited"
  /\ UNCHANGED <<attempt, slept, nap>>

\* Any other 429: sleep between nothing and the clamped duration.
Naps(exchange) ==
  /\ st = "calling" /\ RateLimited(exchange)
  /\ attempt # MaxRetries /\ exchange.sane /\ InBudget(exchange.after)
  /\ \E jittered \in 0 .. Clamped(exchange.after) :
       nap' = jittered /\ slept' = slept + jittered
  /\ st' = "sleeping"
  /\ UNCHANGED <<attempt, outcome>>

\* Mutant: an attempt that did not sleep is not counted.
FreeRetry ==
  /\ st = "sleeping"
  /\ st' = "calling" /\ nap' = 0
  /\ attempt' = IF nap = 0 THEN attempt ELSE attempt + 1
  /\ UNCHANGED <<slept, outcome>>

\* The sleep is over, the next attempt begins.
Wakes ==
  /\ st = "sleeping"
  /\ st' = "calling" /\ nap' = 0
  /\ attempt' = attempt + 1
  /\ UNCHANGED <<slept, outcome>>

\* Mutant: a rate limit is never terminal.
EndlessRetry ==
  \E exchange \in Exchanges :
    \/ Returns(exchange)
    \/ /\ st = "calling" /\ RateLimited(exchange) /\ attempt <= MaxRetries
       /\ st' = "sleeping" /\ UNCHANGED <<attempt, slept, nap, outcome>>

\* One call to the provider ends, one way or another.
CallEnds ==
  \E exchange \in Exchanges :
    Returns(exchange) \/ Panics(exchange) \/ GivesUp(exchange) \/ Naps(exchange)

Next == CallEnds \/ Wakes

Spec == Init /\ [][Next]_retryVars

\* Calls to the provider end, and so do sleeps.
FairSpec == Spec /\ WF_retryVars(Next)

-----------------------------------------------------------------------------
(* Properties *)

RetryTypeOK ==
  /\ attempt \in 0 .. MaxRetries
  /\ slept \in Nat /\ nap \in Nat
  /\ st \in {"calling", "sleeping", "done"}
  /\ outcome \in {"none", "ok", "short", "rate_limited", "other", "panic"}

\* "Hard cap on the total accumulated sleep across all retries": whatever the
\* provider asks for and however the jitter falls, no sleep is begun that
\* would take the total past the cap.
SleepWithinBudget == slept <= CumulativeCap

\* A 429 is terminal only when it has been retried: out of retries, or with so
\* much slept that the longest sleep would not fit.  In particular no
\* Retry-After, however long, ends the call at its first 429.
RateLimitIsRetried ==
  outcome = "rate_limited" =>
    attempt = MaxRetries \/ (attempt > 0 /\ slept + PerAttemptCap > CumulativeCap)

\* What is left of the loop: two steps, a call and a sleep, for each retry left.
StepsLeft ==
  CASE st = "done" -> 0
    [] st = "sleeping" -> 2 * (MaxRetries - attempt)
    [] st = "calling" -> 2 * (MaxRetries - attempt) + 1

\* Every call and every sleep brings the loop nearer to its end, even a sleep of
\* nothing and a Retry-After of 0, which leave the sleep budget as it is.
CallRunsDown == [][StepsLeft' < StepsLeft]_retryVars

\* The loop returns: the flush task ends if its provider calls do.
CallReturns == <>(st = "done")

=============================================================================
