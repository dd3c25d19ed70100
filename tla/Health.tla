-------------------------------- MODULE Health --------------------------------
(***************************************************************************)
(* The circuit breaker of src/health/mod.rs: consecutive failures, the     *)
(* sin-bin with its exponential back-off, and the recovery probe tasks     *)
(* spawned for each sin-bin.  The rolling window of latencies, which       *)
(* nothing here depends on, is left out.                                   *)
(*                                                                         *)
(* Time is counted down: left is what remains of a sin-bin and wait what   *)
(* remains of a probe's sleep, in ticks.  sinbin_rounds is represented by  *)
(* the duration it leads to (variable next), which stops at the maximum.   *)
(***************************************************************************)
EXTENDS Naturals

CONSTANTS Provider,          \* the registered providers
          FailureThreshold,  \* failure_threshold
          Initial,           \* sinbin_initial_duration
          MaxDuration,       \* sinbin_max_duration
          Multiplier,        \* sinbin_multiplier, a whole number here
          ProbeInterval,     \* recovery_probe_interval
          MaxProbes,         \* max_probes of one probe task
          Answers,           \* how health_probe may end
          Answering,         \* the providers whose health_probe always succeeds
          Prompt,            \* whether due timers fire before time goes on
          MaxLive            \* bound: probe tasks of a provider at once

ASSUME HealthAssumption ==
  /\ FailureThreshold \in Nat \ {0}
  /\ Initial \in Nat \ {0} /\ MaxDuration \in Nat \ {0}
  /\ Multiplier \in Nat \ {0}
  /\ ProbeInterval \in Nat \ {0} /\ MaxProbes \in Nat \ {0}
  /\ Answers \subseteq {"ok", "error"}
  /\ Answering \subseteq Provider
  /\ Prompt \in BOOLEAN
  /\ MaxLive \in Nat \ {0}

VARIABLES fails,    \* consecutive failures, saturating at FailureThreshold
          left,     \* what is left of the sin-bin, 0 when there is none
          next,     \* the duration of the next sin-bin
          probe,    \* the recovery probe tasks of each provider
          spawned   \* history: the providers a probe was ever spawned for

healthVars == <<fails, left, next, probe, spawned>>

\* filter_available sees the module as the multiplexer does: without time.
Binned == {p \in Provider : left[p] > 0}

Abstract == INSTANCE SinBin WITH binned <- Binned, probed <- spawned

Slots == 1 .. MaxLive

ProbeState == [st : {"none", "sleeping", "calling"},
               wait : 0 .. ProbeInterval,      \* left of the sleep
               tries : 0 .. MaxProbes - 1]     \* probes that failed

NoProbe == [st |-> "none", wait |-> 0, tries |-> 0]

Asleep(tries) == [st |-> "sleeping", wait |-> ProbeInterval, tries |-> tries]

MinOf(x, y) == IF x <= y THEN x ELSE y

Init ==
  /\ fails = [p \in Provider |-> 0]
  /\ left = [p \in Provider |-> 0]
  /\ next = [p \in Provider |-> MinOf(Initial, MaxDuration)]
  /\ probe = [p \in Provider |-> [i \in Slots |-> NoProbe]]
  /\ spawned = {}

-----------------------------------------------------------------------------
(* What the multiplexer records *)

\* record_success resets the count; the sin-bin and its rounds stay.
RecordSuccess(p) ==
  /\ fails' = [fails EXCEPT ![p] = 0]
  /\ UNCHANGED <<left, next, probe, spawned>>

OneMoreFailure(n) == IF n >= FailureThreshold THEN n ELSE n + 1

\* Mutant: the duration grows past its maximum.
Unbounded(d) == Multiplier * d

\* sinbin_duration of one round more.
Longer(d) == MinOf(Multiplier * d, MaxDuration)

\* spawn_recovery_probe
Spawn(p) ==
  /\ \E i \in Slots : /\ probe[p][i] = NoProbe
                      /\ probe' = [probe EXCEPT ![p][i] = Asleep(0)]
  /\ spawned' = spawned \cup {p}

\* Mutant: a failure during a sin-bin starts it again.
FailureExtends(p) ==
  LET count == OneMoreFailure(fails[p])
  IN /\ fails' = [fails EXCEPT ![p] = count]
     /\ IF count < FailureThreshold
        THEN UNCHANGED <<left, next, probe, spawned>>
        ELSE /\ left' = [left EXCEPT ![p] = next[p]]
             /\ next' = [next EXCEPT ![p] = Longer(@)]
             /\ IF left[p] = 0 THEN Spawn(p) ELSE UNCHANGED <<probe, spawned>>

\* Mutant: a new sin-bin resets the count.
CountsAnew(p) ==
  LET count == OneMoreFailure(fails[p])
  IN IF count >= FailureThreshold /\ left[p] = 0
     THEN /\ fails' = [fails EXCEPT ![p] = 0]
          /\ left' = [left EXCEPT ![p] = next[p]]
          /\ next' = [next EXCEPT ![p] = Longer(@)]
          /\ Spawn(p)
     ELSE /\ fails' = [fails EXCEPT ![p] = count]
          /\ UNCHANGED <<left, next, probe, spawned>>

\* record_failure, and the probe the multiplexer spawns when it returns true:
\* at the threshold, unless the provider is sin-binned already.
RecordFailure(p) ==
  LET count == OneMoreFailure(fails[p])
  IN /\ fails' = [fails EXCEPT ![p] = count]
     /\ IF count >= FailureThreshold /\ left[p] = 0
        THEN /\ left' = [left EXCEPT ![p] = next[p]]
             /\ next' = [next EXCEPT ![p] = Longer(@)]
             /\ Spawn(p)
        ELSE UNCHANGED <<left, next, probe, spawned>>

-----------------------------------------------------------------------------
(* Time *)

Due(t) == t.st = "sleeping" /\ t.wait = 0

Sooner(t) == IF t.st = "sleeping" /\ t.wait > 0 THEN [t EXCEPT !.wait = @ - 1] ELSE t

\* One unit of time passes.  Without Prompt a due probe may be kept waiting.
Tick ==
  /\ \/ Binned # {}
     \/ \E p \in Provider, i \in Slots : Sooner(probe[p][i]) # probe[p][i]
  /\ Prompt => \A p \in Provider, i \in Slots : ~Due(probe[p][i])
  /\ left' = [p \in Provider |-> IF left[p] > 0 THEN left[p] - 1 ELSE 0]
  /\ probe' = [p \in Provider |-> [i \in Slots |-> Sooner(probe[p][i])]]
  /\ UNCHANGED <<fails, next, spawned>>

-----------------------------------------------------------------------------
(* The recovery probe tasks *)

\* The sleep is over: the task ends when the provider is not sin-binned any
\* more, and calls health_probe otherwise.
ProbeWakes(p, i) ==
  /\ Due(probe[p][i])
  /\ probe' = [probe EXCEPT ![p][i] =
                 IF left[p] = 0 THEN NoProbe ELSE [@ EXCEPT !.st = "calling"]]
  /\ UNCHANGED <<fails, left, next, spawned>>

\* Mutant: recovery ends the sin-bin and leaves the failure count.
KeepsTheCount(p, i) ==
  /\ "ok" \in Answers /\ probe[p][i].st = "calling"
  /\ left' = [left EXCEPT ![p] = 0]
  /\ next' = [next EXCEPT ![p] = MinOf(Initial, MaxDuration)]
  /\ probe' = [probe EXCEPT ![p][i] = NoProbe]
  /\ UNCHANGED <<fails, spawned>>

\* clear_sinbin, for whatever sin-bin is running now, and the task ends.
ProbeSucceeds(p, i) ==
  /\ "ok" \in Answers /\ probe[p][i].st = "calling"
  /\ fails' = [fails EXCEPT ![p] = 0]
  /\ left' = [left EXCEPT ![p] = 0]
  /\ next' = [next EXCEPT ![p] = MinOf(Initial, MaxDuration)]
  /\ probe' = [probe EXCEPT ![p][i] = NoProbe]
  /\ UNCHANGED spawned

\* Mutant: the loop runs once too few.
OneProbeFewer(t) ==
  IF t.tries + 2 >= MaxProbes THEN NoProbe ELSE Asleep(t.tries + 1)

\* The loop bound of the probe task.
AfterFailure(t) ==
  IF t.tries + 1 >= MaxProbes THEN NoProbe ELSE Asleep(t.tries + 1)

\* The probe failed: sleep again, up to max_probes times.
ProbeFails(p, i) ==
  /\ "error" \in Answers /\ p \notin Answering /\ probe[p][i].st = "calling"
  /\ probe' = [probe EXCEPT ![p][i] = AfterFailure(@)]
  /\ UNCHANGED <<fails, left, next, spawned>>

ProbeAnswers(p, i) == ProbeSucceeds(p, i) \/ ProbeFails(p, i)

-----------------------------------------------------------------------------

Next ==
  \/ \E p \in Provider : RecordSuccess(p) \/ RecordFailure(p)
  \/ Tick
  \/ \E p \in Provider, i \in Slots : ProbeWakes(p, i) \/ ProbeAnswers(p, i)

Spec == Init /\ [][Next]_healthVars

\* Time passes and timers fire; answering providers end their probe calls.
\* Nothing makes the multiplexer record anything.
Fairness ==
  /\ WF_healthVars(Tick)
  /\ \A p \in Provider, i \in Slots : WF_healthVars(ProbeWakes(p, i))
  /\ \A p \in Answering, i \in Slots : WF_healthVars(ProbeAnswers(p, i))

FairSpec == Spec /\ Fairness

-----------------------------------------------------------------------------
(* Properties *)

\* Types, with the bound sinbin_max_duration puts on every sin-bin.
HealthTypeOK ==
  /\ fails \in [Provider -> 0 .. FailureThreshold]
  /\ left \in [Provider -> 0 .. MaxDuration]
  /\ next \in [Provider -> 1 .. MaxDuration]
  /\ probe \in [Provider -> [Slots -> ProbeState]]
  /\ spawned \subseteq Provider

\* max_probes probes reach at least as far as the longest sin-bin.
ProbesReachFar == MaxProbes * ProbeInterval >= MaxDuration

\* A sin-binned provider always has a probe task that will look at it again:
\* max_probes never runs out first, though a stale task may end at any time.
BinnedIsProbed ==
  \A p \in Binned : \E i \in Slots : probe[p][i].st # "none"

\* The breaker does what the multiplexer relies on: module SinBin.
ImplementsSinBin == Abstract!SinBinSpec

\* The probe interval is shorter than the shortest sin-bin, as it is not by
\* default, where the two are equal.
ProbesComeEarly == ProbeInterval < MinOf(Initial, MaxDuration)

\* spawn_recovery_probe_bounded: a provider that would answer is asked while it
\* is still sin-binned: some probe is on its way, or wakes before the sin-bin
\* ends, whatever stale tasks of earlier sin-bins do in between.
AskedInTime ==
  \A p \in Answering \cap Binned : \E i \in Slots :
    \/ probe[p][i].st = "calling"
    \/ probe[p][i].st = "sleeping" /\ probe[p][i].wait < left[p]

\* Time runs a sin-bin down, and nothing sets it back: not one of the failures
\* that in-flight batches still report, nor the end of a stale probe.
SinBinRunsDown ==
  [][\A p \in Binned : left'[p] <= left[p] /\ (Tick => left'[p] < left[p])]_healthVars

\* A sin-bin ends, however many failures are recorded meanwhile and whether or
\* not the provider ever answers a probe.
EveryBinEnds == \A p \in Provider : left[p] > 0 ~> left[p] = 0

\* health/mod.rs: "Recovery probes clear the sin-bin when the provider
\* responds successfully": a provider that answers leaves the state in which
\* one more failure is enough to sin-bin it.
RecoveryHolds ==
  \A p \in Answering : left[p] > 0 ~> fails[p] < FailureThreshold

=============================================================================
