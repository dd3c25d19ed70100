---------------------------- MODULE HealthProofs ----------------------------
(***************************************************************************)
(* Theorems about module Health: its types, that a sin-bin is never left   *)
(* without a probe task, and that it implements module SinBin.             *)
(***************************************************************************)
EXTENDS Health, Integers, TLAPS

\* The time a probe task will still be there to look at its provider, if its
\* probes take no time: what it sleeps now and the sleeps it has after this.
Reach(t) ==
  (IF t.st = "sleeping" THEN t.wait ELSE 0)
    + (MaxProbes - 1 - t.tries) * ProbeInterval

\* Some task of p outlasts the sin-bin of p.
Outlasted(p) ==
  \E i \in Slots : probe[p][i].st # "none" /\ left[p] <= Reach(probe[p][i])

EverySinBinOutlasted == \A p \in Binned : Outlasted(p)

-----------------------------------------------------------------------------

LEMMA MinOfNat ==
  ASSUME NEW x \in Nat, NEW y \in Nat
  PROVE  MinOf(x, y) \in Nat /\ MinOf(x, y) <= y /\ MinOf(x, y) <= x
                             /\ (x >= 1 /\ y >= 1 => MinOf(x, y) >= 1)
BY DEF MinOf

LEMMA ProductPositive ==
  ASSUME NEW x \in Nat \ {0}, NEW y \in Nat \ {0}
  PROVE  x * y \in Nat /\ x * y >= 1
OBVIOUS

\* The first duration and every longer one are within the maximum.
LEMMA DurationsBounded ==
  /\ MinOf(Initial, MaxDuration) \in 1 .. MaxDuration
  /\ \A d \in 1 .. MaxDuration : Longer(d) \in 1 .. MaxDuration
<1>1. MinOf(Initial, MaxDuration) \in 1 .. MaxDuration
  BY HealthAssumption DEF MinOf
<1>2. ASSUME NEW d \in 1 .. MaxDuration
      PROVE  Longer(d) \in 1 .. MaxDuration
  <2>1. d \in Nat \ {0} /\ Multiplier \in Nat \ {0} /\ MaxDuration \in Nat \ {0}
    BY HealthAssumption
  <2>2. Multiplier * d \in Nat /\ Multiplier * d >= 1
    BY <2>1, ProductPositive
  <2>3. QED
    BY <2>1, <2>2, MinOfNat DEF Longer
<1>3. QED
  BY <1>1, <1>2

\* What the probe loop does to a task stays a task.
LEMMA TasksTyped ==
  /\ NoProbe \in ProbeState
  /\ Asleep(0) \in ProbeState
  /\ \A t \in ProbeState : /\ Sooner(t) \in ProbeState
                           /\ AfterFailure(t) \in ProbeState
                           /\ [t EXCEPT !.st = "calling"] \in ProbeState
<1>1. NoProbe \in ProbeState /\ Asleep(0) \in ProbeState
  BY HealthAssumption DEF NoProbe, Asleep, ProbeState
<1>2. ASSUME NEW t \in ProbeState
      PROVE  /\ Sooner(t) \in ProbeState
             /\ AfterFailure(t) \in ProbeState
             /\ [t EXCEPT !.st = "calling"] \in ProbeState
  BY <1>1, HealthAssumption DEF Sooner, AfterFailure, Asleep, ProbeState
<1>3. QED
  BY <1>1, <1>2

-----------------------------------------------------------------------------

LEMMA TypeInit == Init => HealthTypeOK
BY HealthAssumption, DurationsBounded, TasksTyped DEF Init, HealthTypeOK

LEMMA SpawnTyped ==
  ASSUME HealthTypeOK, NEW p \in Provider, Spawn(p)
  PROVE  /\ probe' \in [Provider -> [Slots -> ProbeState]]
         /\ spawned' \subseteq Provider
<1>1. PICK i \in Slots : probe' = [probe EXCEPT ![p][i] = Asleep(0)]
  BY DEF Spawn
<1>2. probe' \in [Provider -> [Slots -> ProbeState]]
  BY <1>1, TasksTyped DEF HealthTypeOK
<1>3. QED
  BY <1>2 DEF Spawn, HealthTypeOK

LEMMA TypeNext == HealthTypeOK /\ [Next]_healthVars => HealthTypeOK'
<1> SUFFICES ASSUME HealthTypeOK, [Next]_healthVars
             PROVE  HealthTypeOK'
  OBVIOUS
<1>1. ASSUME NEW p \in Provider, RecordSuccess(p)
      PROVE  HealthTypeOK'
  BY <1>1, HealthAssumption DEF RecordSuccess, HealthTypeOK
<1>2. ASSUME NEW p \in Provider, RecordFailure(p)
      PROVE  HealthTypeOK'
  <2>1. OneMoreFailure(fails[p]) \in 0 .. FailureThreshold
    BY HealthAssumption DEF OneMoreFailure, HealthTypeOK
  <2>2. fails' \in [Provider -> 0 .. FailureThreshold]
    BY <1>2, <2>1 DEF RecordFailure, HealthTypeOK
  <2>3. next[p] \in 0 .. MaxDuration /\ Longer(next[p]) \in 1 .. MaxDuration
    BY DurationsBounded DEF HealthTypeOK
  <2>4. left' \in [Provider -> 0 .. MaxDuration] /\ next' \in [Provider -> 1 .. MaxDuration]
    BY <1>2, <2>3 DEF RecordFailure, HealthTypeOK
  <2>5. /\ probe' \in [Provider -> [Slots -> ProbeState]]
        /\ spawned' \subseteq Provider
    BY <1>2, SpawnTyped DEF RecordFailure, HealthTypeOK
  <2>6. QED
    BY <2>2, <2>4, <2>5 DEF HealthTypeOK
<1>3. CASE Tick
  <2>1. left' \in [Provider -> 0 .. MaxDuration]
    BY <1>3, HealthAssumption DEF Tick, HealthTypeOK
  <2>2. probe' \in [Provider -> [Slots -> ProbeState]]
    BY <1>3, TasksTyped DEF Tick, HealthTypeOK
  <2>3. QED
    BY <1>3, <2>1, <2>2 DEF Tick, HealthTypeOK
<1>4. ASSUME NEW p \in Provider, NEW i \in Slots, ProbeWakes(p, i)
      PROVE  HealthTypeOK'
  BY <1>4, TasksTyped DEF ProbeWakes, HealthTypeOK
<1>5. ASSUME NEW p \in Provider, NEW i \in Slots, ProbeSucceeds(p, i)
      PROVE  HealthTypeOK'
  BY <1>5, TasksTyped, DurationsBounded, HealthAssumption
  DEF ProbeSucceeds, HealthTypeOK
<1>6. ASSUME NEW p \in Provider, NEW i \in Slots, ProbeFails(p, i)
      PROVE  HealthTypeOK'
  BY <1>6, TasksTyped DEF ProbeFails, HealthTypeOK
<1>7. CASE UNCHANGED healthVars
  BY <1>7 DEF healthVars, HealthTypeOK
<1>8. QED
  BY <1>1, <1>2, <1>3, <1>4, <1>5, <1>6, <1>7 DEF Next, ProbeAnswers

\* The breaker's state stays in its types: no sin-bin is longer than
\* sinbin_max_duration, whatever the round (apply_sinbin, sinbin_duration).
THEOREM HealthTypes == Spec => []HealthTypeOK
<1>1. QED
  BY TypeInit, TypeNext, PTL DEF Spec
-----------------------------------------------------------------------------
(* No sin-bin without a probe task.  The invariant is stronger than          *)
(* BinnedIsProbed: some task has enough sleeps left to reach the end.        *)

\* One failed probe and one more sleep reach as far as the failed probe did.
LEMMA OneSleepMore ==
  ASSUME NEW n \in Nat \ {0}, NEW d \in Nat
  PROVE  d + (n - 1) * d = n * d
OBVIOUS

LEMMA ReachOfNew == ProbesReachFar => MaxDuration <= Reach(Asleep(0))
<1> SUFFICES ASSUME ProbesReachFar PROVE MaxDuration <= Reach(Asleep(0))
  OBVIOUS
<1>1. Reach(Asleep(0)) = ProbeInterval + (MaxProbes - 1 - 0) * ProbeInterval
  BY DEF Reach, Asleep
<1>2. MaxProbes - 1 - 0 = MaxProbes - 1
  BY HealthAssumption
<1>3. ProbeInterval + (MaxProbes - 1) * ProbeInterval = MaxProbes * ProbeInterval
  BY OneSleepMore, HealthAssumption
<1>4. QED
  BY <1>1, <1>2, <1>3 DEF ProbesReachFar

\* A failed probe is not the last while a sin-bin is within the task's reach.
LEMMA ReachAfterFailure ==
  ASSUME NEW t \in ProbeState, t.st = "calling",
         NEW n \in Nat \ {0}, n <= Reach(t)
  PROVE  AfterFailure(t).st # "none" /\ n <= Reach(AfterFailure(t))
<1> DEFINE m == MaxProbes - 1 - t.tries
<1>1. m \in Nat /\ t.tries \in Nat /\ ProbeInterval \in Nat \ {0} /\ MaxProbes \in Nat
  BY HealthAssumption DEF ProbeState
<1>2. Reach(t) = 0 + m * ProbeInterval
  BY DEF Reach
<1>3. m # 0
  <2>1. SUFFICES ASSUME m = 0 PROVE FALSE
    OBVIOUS
  <2>2. Reach(t) = 0
    BY <1>1, <1>2, <2>1
  <2>3. QED
    BY <2>2
<1>4. AfterFailure(t) = Asleep(t.tries + 1)
  BY <1>1, <1>3 DEF AfterFailure
<1>5. Reach(Asleep(t.tries + 1)) = ProbeInterval + (m - 1) * ProbeInterval
  <2>1. Reach(Asleep(t.tries + 1))
          = ProbeInterval + (MaxProbes - 1 - (t.tries + 1)) * ProbeInterval
    BY DEF Reach, Asleep
  <2>2. MaxProbes - 1 - (t.tries + 1) = m - 1
    BY <1>1
  <2>3. QED
    BY <2>1, <2>2
<1>6. ProbeInterval + (m - 1) * ProbeInterval = m * ProbeInterval
  <2> HIDE DEF m
  <2>1. QED
    BY OneSleepMore, <1>1, <1>3
<1>7. Reach(Asleep(t.tries + 1)) = Reach(t)
  <2> HIDE DEF m
  <2>1. m * ProbeInterval \in Nat
    BY <1>1, <1>3, ProductPositive
  <2>2. QED
    BY <1>2, <1>5, <1>6, <2>1
<1>8. QED
  BY <1>4, <1>7 DEF Asleep

\* A tick takes at most one from a task's reach.
LEMMA ReachSooner ==
  ASSUME NEW t \in ProbeState, t.st # "none", NEW n \in Nat \ {0}, n <= Reach(t)
  PROVE  Sooner(t).st # "none" /\ n - 1 <= Reach(Sooner(t))
<1> DEFINE rest == (MaxProbes - 1 - t.tries) * ProbeInterval
<1>1. rest \in Int
  BY HealthAssumption DEF ProbeState
<1>2. CASE t.st = "sleeping" /\ t.wait > 0
  <2>1. Sooner(t) = [t EXCEPT !.wait = t.wait - 1]
    BY <1>2 DEF Sooner
  <2>2. Sooner(t).st = "sleeping" /\ Sooner(t).wait = t.wait - 1
          /\ Sooner(t).tries = t.tries
    BY <1>2, <2>1 DEF ProbeState
  <2>3. Reach(t) = t.wait + rest /\ Reach(Sooner(t)) = (t.wait - 1) + rest
    BY <1>2, <2>2 DEF Reach
  <2>4. t.wait \in Nat
    BY HealthAssumption DEF ProbeState
  <2> HIDE DEF rest
  <2>5. QED
    BY <1>1, <2>2, <2>3, <2>4
<1>3. CASE ~(t.st = "sleeping" /\ t.wait > 0)
  <2>1. Sooner(t) = t
    BY <1>3 DEF Sooner
  <2>2. Reach(t) \in Int
    <3>1. (IF t.st = "sleeping" THEN t.wait ELSE 0) \in Int
      BY HealthAssumption DEF ProbeState
    <3>2. Reach(t) = (IF t.st = "sleeping" THEN t.wait ELSE 0) + rest
      BY DEF Reach
    <3> HIDE DEF rest
    <3>3. QED
      BY <1>1, <3>1, <3>2
  <2>3. QED
    BY <2>1, <2>2
<1>4. QED
  BY <1>2, <1>3

\* What happens to other tasks does not shorten the reach of this one.
LEMMA StaysOutlasted ==
  ASSUME NEW p \in Provider, NEW i \in Slots,
         probe'[p][i].st # "none", left'[p] <= Reach(probe'[p][i])
  PROVE  Outlasted(p)'
<1>1. \E j \in Slots : probe'[p][j].st # "none" /\ left'[p] <= Reach(probe'[p][j])
  OBVIOUS
<1>2. QED
  BY <1>1 DEF Outlasted, Reach

LEMMA OutlastedNext ==
  ASSUME ProbesReachFar, HealthTypeOK, EverySinBinOutlasted, [Next]_healthVars
  PROVE  EverySinBinOutlasted'
<1> SUFFICES ASSUME NEW q \in Provider, left'[q] > 0
             PROVE  Outlasted(q)'
  BY DEF EverySinBinOutlasted, Binned
<1>0. /\ left[q] \in 0 .. MaxDuration /\ next[q] \in 1 .. MaxDuration
      /\ \A i \in Slots : probe[q][i] \in ProbeState
      /\ left[q] > 0 => Outlasted(q)
  BY DEF HealthTypeOK, EverySinBinOutlasted, Binned
<1>1. ASSUME left'[q] = left[q], probe'[q] = probe[q]
      PROVE  Outlasted(q)'
  <2>1. PICK i \in Slots : probe[q][i].st # "none" /\ left[q] <= Reach(probe[q][i])
    BY <1>0, <1>1 DEF Outlasted
  <2>2. QED
    BY <1>1, <2>1, StaysOutlasted
<1>2. ASSUME NEW p \in Provider, RecordFailure(p)
      PROVE  Outlasted(q)'
  <2>1. CASE left' = left /\ probe' = probe
    BY <1>1, <2>1
  <2>2. CASE left' = [left EXCEPT ![p] = next[p]] /\ Spawn(p)
    <3>1. PICK i \in Slots : probe' = [probe EXCEPT ![p][i] = Asleep(0)]
      BY <2>2 DEF Spawn
    <3>2. CASE p # q
      BY <1>1, <2>2, <3>1, <3>2 DEF HealthTypeOK
    <3>3. CASE p = q
      <4>1. probe'[q][i] = Asleep(0) /\ left'[q] = next[q]
        BY <2>2, <3>1, <3>3 DEF HealthTypeOK
      <4>2. next[q] <= Reach(Asleep(0))
        <5>1. Reach(Asleep(0)) \in Int
          BY HealthAssumption DEF Reach, Asleep
        <5>2. QED
          BY <1>0, <5>1, ReachOfNew, HealthAssumption
      <4>3. QED
        BY <4>1, <4>2, StaysOutlasted DEF Asleep
    <3>4. QED
      BY <3>2, <3>3
  <2>3. QED
    BY <1>2, <2>1, <2>2 DEF RecordFailure
<1>3. CASE Tick
  <2>1. left[q] > 0 /\ left'[q] = left[q] - 1
    BY <1>3, <1>0 DEF Tick
  <2>2. PICK i \in Slots : probe[q][i].st # "none" /\ left[q] <= Reach(probe[q][i])
    BY <1>0, <2>1 DEF Outlasted
  <2>3. probe'[q][i] = Sooner(probe[q][i])
    BY <1>3 DEF Tick
  <2>4. left[q] \in Nat \ {0} /\ probe[q][i] \in ProbeState
    BY <1>0, <2>1
  <2>5. /\ Sooner(probe[q][i]).st # "none"
        /\ left[q] - 1 <= Reach(Sooner(probe[q][i]))
    BY <2>2, <2>4, ReachSooner
  <2>6. QED
    BY <2>1, <2>3, <2>5, StaysOutlasted
<1>4. ASSUME NEW p \in Provider, NEW i \in Slots, ProbeWakes(p, i)
      PROVE  Outlasted(q)'
  <2>1. left' = left
    BY <1>4 DEF ProbeWakes
  <2>2. CASE p # q
    BY <1>1, <1>4, <2>1, <2>2 DEF ProbeWakes, HealthTypeOK
  <2>3. CASE p = q
    <3>1. PICK j \in Slots : probe[q][j].st # "none" /\ left[q] <= Reach(probe[q][j])
      BY <1>0, <2>1 DEF Outlasted
    <3>2. CASE j # i
      <4>1. probe'[q][j] = probe[q][j]
        BY <1>4, <2>3, <3>2 DEF ProbeWakes, HealthTypeOK
      <4>2. QED
        BY <2>1, <3>1, <4>1, StaysOutlasted
    <3>3. CASE j = i
      <4> DEFINE t == probe[q][i]
      <4>1. probe'[q][i] = [t EXCEPT !.st = "calling"]
        BY <1>4, <2>1, <2>3 DEF ProbeWakes, HealthTypeOK
      <4>2. t \in ProbeState /\ t.st = "sleeping" /\ t.wait = 0
        BY <1>0, <1>4, <2>3 DEF ProbeWakes, Due
      <4>3. /\ probe'[q][i].st = "calling"
            /\ probe'[q][i].wait = 0 /\ probe'[q][i].tries = t.tries
        BY <4>1, <4>2 DEF ProbeState
      <4>4. Reach(probe'[q][i]) = Reach(t)
        BY <4>2, <4>3 DEF Reach
      <4>5. QED
        BY <2>1, <3>1, <3>3, <4>3, <4>4, StaysOutlasted
    <3>4. QED
      BY <3>2, <3>3
  <2>4. QED
    BY <2>2, <2>3
<1>5. ASSUME NEW p \in Provider, NEW i \in Slots, ProbeSucceeds(p, i)
      PROVE  Outlasted(q)'
  <2>1. p # q
    BY <1>5 DEF ProbeSucceeds, HealthTypeOK
  <2>2. QED
    BY <1>1, <1>5, <2>1 DEF ProbeSucceeds, HealthTypeOK
<1>6. ASSUME NEW p \in Provider, NEW i \in Slots, ProbeFails(p, i)
      PROVE  Outlasted(q)'
  <2>1. left' = left
    BY <1>6 DEF ProbeFails
  <2>2. CASE p # q
    BY <1>1, <1>6, <2>1, <2>2 DEF ProbeFails, HealthTypeOK
  <2>3. CASE p = q
    <3>1. PICK j \in Slots : probe[q][j].st # "none" /\ left[q] <= Reach(probe[q][j])
      BY <1>0, <2>1 DEF Outlasted
    <3>2. CASE j # i
      <4>1. probe'[q][j] = probe[q][j]
        BY <1>6, <2>3, <3>2 DEF ProbeFails, HealthTypeOK
      <4>2. QED
        BY <2>1, <3>1, <4>1, StaysOutlasted
    <3>3. CASE j = i
      <4>1. probe'[q][i] = AfterFailure(probe[q][i])
        BY <1>6, <2>3 DEF ProbeFails, HealthTypeOK
      <4>2. probe[q][i] \in ProbeState /\ probe[q][i].st = "calling"
        BY <1>0, <1>6, <2>3 DEF ProbeFails
      <4>3. left[q] \in Nat \ {0}
        BY <1>0, <2>1
      <4>4. /\ AfterFailure(probe[q][i]).st # "none"
            /\ left[q] <= Reach(AfterFailure(probe[q][i]))
        BY <3>1, <3>3, <4>2, <4>3, ReachAfterFailure
      <4>5. QED
        BY <2>1, <4>1, <4>4, StaysOutlasted
    <3>4. QED
      BY <3>2, <3>3
  <2>4. QED
    BY <2>2, <2>3
<1>7. ASSUME NEW p \in Provider, RecordSuccess(p)
      PROVE  Outlasted(q)'
  BY <1>1, <1>7 DEF RecordSuccess
<1>8. CASE UNCHANGED healthVars
  BY <1>1, <1>8 DEF healthVars
<1>9. QED
  BY <1>2, <1>3, <1>4, <1>5, <1>6, <1>7, <1>8 DEF Next, ProbeAnswers

\* A sin-binned provider always has a probe task (spawn_recovery_probe_bounded):
\* max_probes sleeps, if they reach as far as the longest sin-bin, never run
\* out before it ends.
THEOREM Probed == ProbesReachFar => (Spec => []BinnedIsProbed)
<1>1. Init => EverySinBinOutlasted
  <2>1. SUFFICES ASSUME Init, NEW p \in Provider PROVE ~(left[p] > 0)
    BY DEF EverySinBinOutlasted, Binned
  <2>2. left[p] = 0
    BY <2>1 DEF Init
  <2>3. QED
    BY <2>2
<1>2. ProbesReachFar /\ HealthTypeOK /\ EverySinBinOutlasted /\ [Next]_healthVars
        => EverySinBinOutlasted'
  BY OutlastedNext
<1>3. EverySinBinOutlasted => BinnedIsProbed
  BY DEF EverySinBinOutlasted, BinnedIsProbed, Outlasted
<1>4. ASSUME ProbesReachFar PROVE Spec => []BinnedIsProbed
  <2>1. HealthTypeOK /\ EverySinBinOutlasted /\ [Next]_healthVars
          => EverySinBinOutlasted'
    BY <1>2, <1>4
  <2>2. QED
    BY <1>1, <1>3, <2>1, HealthTypes, PTL DEF Spec
<1>5. QED
  BY <1>4
-----------------------------------------------------------------------------
(* The breaker implements SinBin *)

\* The history variable: a task was spawned for its provider.
TasksWereSpawned ==
  \A p \in Provider : \A i \in Slots : probe[p][i].st # "none" => p \in spawned

LEMMA SpawnedNext ==
  ASSUME HealthTypeOK, TasksWereSpawned, [Next]_healthVars
  PROVE  TasksWereSpawned'
<1> SUFFICES ASSUME NEW q \in Provider, NEW j \in Slots, probe'[q][j].st # "none"
             PROVE  q \in spawned'
  BY DEF TasksWereSpawned
<1>1. probe[q][j].st # "none" \/ q \in spawned'
  <2>1. CASE UNCHANGED probe
    BY <2>1
  <2>2. ASSUME NEW p \in Provider, Spawn(p) PROVE probe[q][j].st # "none" \/ q \in spawned'
    BY <2>2 DEF Spawn, HealthTypeOK
  <2>3. CASE Tick
    <3>1. probe'[q][j] = Sooner(probe[q][j]) /\ probe[q][j] \in ProbeState
      BY <2>3 DEF Tick, HealthTypeOK
    <3>2. QED
      BY <3>1 DEF Sooner, ProbeState
  <2>4. ASSUME NEW p \in Provider, NEW i \in Slots,
               ProbeWakes(p, i) \/ ProbeSucceeds(p, i) \/ ProbeFails(p, i)
        PROVE  probe[q][j].st # "none"
    <3>1. probe[p][i].st # "none"
      BY <2>4 DEF ProbeWakes, Due, ProbeSucceeds, ProbeFails
    <3>2. p # q \/ i # j => probe'[q][j] = probe[q][j]
      BY <2>4 DEF ProbeWakes, ProbeSucceeds, ProbeFails, HealthTypeOK
    <3>3. QED
      BY <3>1, <3>2
  <2>5. QED
    BY <2>1, <2>2, <2>3, <2>4
    DEF Next, ProbeAnswers, RecordSuccess, RecordFailure, healthVars
<1>2. spawned \subseteq spawned'
  BY DEF Next, ProbeAnswers, RecordSuccess, RecordFailure, Spawn, Tick,
         ProbeWakes, ProbeSucceeds, ProbeFails, healthVars
<1>3. QED
  BY <1>1, <1>2 DEF TasksWereSpawned

LEMMA SinBinStep ==
  ASSUME HealthTypeOK, TasksWereSpawned, [Next]_healthVars
  PROVE  [Abstract!SinBinNext]_(Abstract!sinBinVars)
<1> USE DEF Abstract!sinBinVars
<1>1. ASSUME NEW p \in Provider, RecordSuccess(p)
      PROVE  Abstract!RecordHealthSuccess(p)
  BY <1>1 DEF RecordSuccess, Abstract!RecordHealthSuccess, Binned
<1>2. ASSUME NEW p \in Provider, RecordFailure(p)
      PROVE  Abstract!RecordHealthFailure(p)
  <2> DEFINE count == OneMoreFailure(fails[p])
  <2>1. count = Abstract!OneMoreFailure(fails[p])
    BY DEF OneMoreFailure, Abstract!OneMoreFailure
  <2>2. fails' = [fails EXCEPT ![p] = count]
    BY <1>2 DEF RecordFailure
  <2>3. p \in Binned <=> left[p] # 0
    BY HealthAssumption DEF Binned, HealthTypeOK
  <2>4. CASE count >= FailureThreshold /\ left[p] = 0
    <3>1. left' = [left EXCEPT ![p] = next[p]] /\ next[p] > 0
            /\ spawned' = spawned \cup {p}
      BY <1>2, <2>4, HealthAssumption DEF RecordFailure, Spawn, HealthTypeOK
    <3>2. Binned' = Binned \cup {p}
      BY <3>1 DEF Binned, HealthTypeOK
    <3>3. QED
      BY <2>1, <2>2, <2>3, <2>4, <3>1, <3>2 DEF Abstract!RecordHealthFailure
  <2>5. CASE ~(count >= FailureThreshold /\ left[p] = 0)
    <3>1. left' = left /\ spawned' = spawned
      BY <1>2, <2>5 DEF RecordFailure
    <3>2. Binned' = Binned
      BY <3>1 DEF Binned
    <3>3. QED
      BY <2>1, <2>2, <2>3, <2>5, <3>1, <3>2 DEF Abstract!RecordHealthFailure
  <2>6. QED
    BY <2>4, <2>5
<1>3. ASSUME Tick
      PROVE  Abstract!SinBinEnvironment \/ UNCHANGED Abstract!sinBinVars
  <2> DEFINE ps == {p \in Provider : left[p] = 1}
  <2>1. \A p \in Provider : left'[p] > 0 <=> left[p] > 0 /\ left[p] # 1
    BY <1>3, HealthAssumption DEF Tick, HealthTypeOK
  <2>2. Binned' = Binned \ ps /\ ps \subseteq Binned
    BY <2>1 DEF Binned
  <2>3. UNCHANGED <<fails, spawned>>
    BY <1>3 DEF Tick
  <2>4. CASE ps = {}
    BY <2>2, <2>3, <2>4
  <2>5. CASE ps # {}
    <3>1. Abstract!SinBinExpires(ps)
      BY <2>2, <2>3, <2>5 DEF Abstract!SinBinExpires
    <3>2. QED
      BY <3>1 DEF Abstract!SinBinEnvironment
  <2>6. QED
    BY <2>4, <2>5
<1>4. ASSUME NEW p \in Provider, NEW i \in Slots, ProbeWakes(p, i) \/ ProbeFails(p, i)
      PROVE  UNCHANGED Abstract!sinBinVars
  BY <1>4 DEF ProbeWakes, ProbeFails, Binned
<1>5. ASSUME NEW p \in Provider, NEW i \in Slots, ProbeSucceeds(p, i)
      PROVE  Abstract!ProbeClears(p)
  <2>0. p \in spawned
    BY <1>5 DEF ProbeSucceeds, TasksWereSpawned
  <2>1. left' = [left EXCEPT ![p] = 0]
    BY <1>5 DEF ProbeSucceeds
  <2>2. Binned' = Binned \ {p}
    BY <2>1 DEF Binned, HealthTypeOK
  <2>3. QED
    BY <1>5, <2>0, <2>2 DEF ProbeSucceeds, Abstract!ProbeClears
<1>6. CASE UNCHANGED healthVars
  BY <1>6 DEF healthVars, Binned
<1>7. QED
  BY <1>1, <1>2, <1>3, <1>4, <1>5, <1>6
  DEF Next, ProbeAnswers, Abstract!SinBinNext, Abstract!SinBinEnvironment

\* The breaker does what the multiplexer relies on: every step of it is a step
\* of SinBin, or one SinBin does not see.
THEOREM ImplementsBreaker == Spec => ImplementsSinBin
<1>1. Init => Abstract!SinBinInit
  <2>1. SUFFICES ASSUME Init PROVE Abstract!SinBinInit
    OBVIOUS
  <2>2. \A p \in Provider : left[p] = 0
    BY <2>1 DEF Init
  <2>3. Binned = {}
    BY <2>2 DEF Binned
  <2>4. QED
    BY <2>1, <2>3 DEF Init, Abstract!SinBinInit
<1>2. Init => TasksWereSpawned
  <2>1. SUFFICES ASSUME Init, NEW p \in Provider, NEW i \in Slots
                 PROVE  probe[p][i].st = "none"
    BY DEF TasksWereSpawned
  <2>2. probe[p][i] = NoProbe
    BY <2>1 DEF Init
  <2>3. QED
    BY <2>2 DEF NoProbe
<1>3. HealthTypeOK /\ TasksWereSpawned /\ [Next]_healthVars => TasksWereSpawned'
  BY SpawnedNext
<1>4. HealthTypeOK /\ TasksWereSpawned /\ [Next]_healthVars
        => [Abstract!SinBinNext]_(Abstract!sinBinVars)
  BY SinBinStep
<1>5. QED
  BY <1>1, <1>2, <1>3, <1>4, HealthTypes, PTL
  DEF Spec, ImplementsSinBin, Abstract!SinBinSpec

-----------------------------------------------------------------------------
(* Recovery probes that come in time *)

\* Durations never fall below the first one.
LEMMA LongerIsNoShorter ==
  ASSUME NEW d \in 1 .. MaxDuration PROVE d <= Longer(d)
<1>1. d \in Nat \ {0} /\ MaxDuration \in Nat /\ d <= MaxDuration
  BY HealthAssumption
<1>2. Multiplier \in Nat \ {0} /\ Multiplier * d \in Nat
  BY <1>1, HealthAssumption
<1>3. (Multiplier - 1) * d \in Nat /\ Multiplier * d = (Multiplier - 1) * d + d
  BY <1>1, <1>2
<1>4. d <= Multiplier * d
  <2>1. \A m, k \in Nat : k = m + d => d <= k
    BY <1>1
  <2> QED
    BY <1>2, <1>3, <2>1
<1> QED
  BY <1>1, <1>2, <1>4 DEF Longer, MinOf

\* No sin-bin to come is shorter than the first.
NextIsLongEnough == \A p \in Provider : MinOf(Initial, MaxDuration) <= next[p]

LEMMA NextStaysLongEnough ==
  ASSUME HealthTypeOK, NextIsLongEnough, [Next]_healthVars
  PROVE  NextIsLongEnough'
<1> SUFFICES ASSUME NEW q \in Provider
             PROVE  MinOf(Initial, MaxDuration) <= next'[q]
  BY DEF NextIsLongEnough
<1>1. /\ MinOf(Initial, MaxDuration) <= next[q] /\ next[q] <= Longer(next[q])
      /\ MinOf(Initial, MaxDuration) \in Int /\ next[q] \in Int /\ Longer(next[q]) \in Int
  BY DurationsBounded, LongerIsNoShorter DEF NextIsLongEnough, HealthTypeOK
<1>2. next'[q] \in {next[q], Longer(next[q]), MinOf(Initial, MaxDuration)}
  <2>1. ASSUME NEW p \in Provider, RecordFailure(p)
        PROVE  next'[q] \in {next[q], Longer(next[q])}
    BY <2>1 DEF RecordFailure, HealthTypeOK
  <2>2. ASSUME NEW p \in Provider, NEW i \in Slots, ProbeSucceeds(p, i)
        PROVE  next'[q] \in {next[q], MinOf(Initial, MaxDuration)}
    BY <2>2 DEF ProbeSucceeds, HealthTypeOK
  <2> QED
    BY <2>1, <2>2 DEF Next, RecordSuccess, Tick, ProbeWakes, ProbeAnswers, ProbeFails,
                      healthVars
<1> QED
  BY <1>1, <1>2

\* Task i of p will ask p while it is sin-binned.
Asks(p, i) ==
  \/ probe[p][i].st = "calling"
  \/ probe[p][i].st = "sleeping" /\ probe[p][i].wait < left[p]

LEMMA AskedNext ==
  ASSUME ProbesComeEarly, Prompt, HealthTypeOK, NextIsLongEnough, AskedInTime,
         [Next]_healthVars
  PROVE  AskedInTime'
<1> SUFFICES ASSUME NEW q \in Answering, left'[q] > 0
             PROVE  \E i \in Slots : Asks(q, i)'
  BY HealthAssumption DEF AskedInTime, Binned, Asks
<1>1. /\ q \in Provider /\ left[q] \in Nat /\ next[q] \in Nat
      /\ \A i \in Slots : probe[q][i] \in ProbeState
  BY HealthAssumption DEF HealthTypeOK
<1>2. left[q] > 0 => \E i \in Slots : Asks(q, i)
  BY <1>1 DEF AskedInTime, Binned, Asks
<1>3. ASSUME left'[q] = left[q], probe'[q] = probe[q] PROVE \E i \in Slots : Asks(q, i)'
  BY <1>2, <1>3 DEF Asks
<1>4. ASSUME NEW p \in Provider, RecordFailure(p) PROVE \E i \in Slots : Asks(q, i)'
  <2>1. CASE UNCHANGED <<left, probe>>
    BY <1>3, <2>1
  <2>2. CASE left' = [left EXCEPT ![p] = next[p]] /\ Spawn(p)
    <3>1. PICK i \in Slots : probe' = [probe EXCEPT ![p][i] = Asleep(0)]
      BY <2>2 DEF Spawn
    <3>2. CASE p # q
      BY <1>1, <1>3, <2>2, <3>1, <3>2 DEF HealthTypeOK
    <3>3. CASE p = q
      <4>1. probe'[q][i] = Asleep(0) /\ left'[q] = next[q]
        BY <1>1, <2>2, <3>1, <3>3 DEF HealthTypeOK
      <4>2. ProbeInterval < next[q]
        BY <1>1, DurationsBounded, HealthAssumption DEF ProbesComeEarly, NextIsLongEnough
      <4> QED
        BY <4>1, <4>2 DEF Asks, Asleep
    <3> QED
      BY <3>2, <3>3
  <2> QED
    BY <1>4, <2>1, <2>2 DEF RecordFailure
<1>5. CASE Tick
  <2>1. left[q] > 0 /\ left'[q] = left[q] - 1
    BY <1>1, <1>5 DEF Tick
  <2>2. PICK i \in Slots : Asks(q, i)
    BY <1>2, <2>1
  <2>3. probe'[q][i] = Sooner(probe[q][i]) /\ ~Due(probe[q][i])
    BY <1>1, <1>5 DEF Tick
  <2>4. CASE probe[q][i].st = "calling"
    BY <2>3, <2>4 DEF Asks, Sooner
  <2>5. CASE probe[q][i].st = "sleeping" /\ probe[q][i].wait < left[q]
    <3>1. probe[q][i].wait \in Nat /\ probe[q][i].wait > 0
      BY <1>1, <2>3, <2>5, HealthAssumption DEF Due, ProbeState
    <3>2. probe'[q][i] = [probe[q][i] EXCEPT !.wait = probe[q][i].wait - 1]
      BY <2>3, <2>5, <3>1 DEF Sooner
    <3>3. probe'[q][i].st = "sleeping" /\ probe'[q][i].wait = probe[q][i].wait - 1
      BY <1>1, <2>5, <3>2 DEF ProbeState
    <3> QED
      BY <1>1, <2>1, <2>5, <3>1, <3>3 DEF Asks
  <2> QED
    BY <2>2, <2>4, <2>5 DEF Asks
<1>6. ASSUME NEW p \in Provider, NEW i \in Slots, ProbeWakes(p, i)
      PROVE  \E j \in Slots : Asks(q, j)'
  <2>1. left' = left
    BY <1>6 DEF ProbeWakes
  <2>2. PICK j \in Slots : Asks(q, j)
    BY <1>2, <2>1
  <2>3. CASE p = q /\ j = i
    <3>1. probe'[q][i] = [probe[q][i] EXCEPT !.st = "calling"]
      BY <1>1, <1>6, <2>1, <2>3 DEF ProbeWakes, HealthTypeOK
    <3> QED
      BY <1>1, <3>1 DEF Asks, ProbeState
  <2>4. CASE ~(p = q /\ j = i)
    <3>1. probe'[q][j] = probe[q][j]
      BY <1>1, <1>6, <2>4 DEF ProbeWakes, HealthTypeOK
    <3> QED
      BY <2>1, <2>2, <3>1 DEF Asks
  <2> QED
    BY <2>3, <2>4
<1>7. ASSUME NEW p \in Provider, NEW i \in Slots, ProbeSucceeds(p, i)
      PROVE  \E j \in Slots : Asks(q, j)'
  <2>1. p # q
    BY <1>1, <1>7 DEF ProbeSucceeds, HealthTypeOK
  <2> QED
    BY <1>1, <1>3, <1>7, <2>1 DEF ProbeSucceeds, HealthTypeOK
<1>8. ASSUME NEW p \in Provider, NEW i \in Slots, ProbeFails(p, i)
      PROVE  \E j \in Slots : Asks(q, j)'
  <2>1. p # q
    BY <1>8 DEF ProbeFails
  <2> QED
    BY <1>1, <1>3, <1>8, <2>1 DEF ProbeFails, HealthTypeOK
<1>9. ASSUME NEW p \in Provider, RecordSuccess(p) PROVE \E i \in Slots : Asks(q, i)'
  BY <1>3, <1>9 DEF RecordSuccess
<1>10. CASE UNCHANGED healthVars
  BY <1>3, <1>10 DEF healthVars
<1> QED
  BY <1>4, <1>5, <1>6, <1>7, <1>8, <1>9, <1>10 DEF Next, ProbeAnswers

\* If probes come more often than sin-bins end and timers fire on time, each
\* sin-bin of a provider that would answer has a probe that asks it before the
\* end, however many rounds there were and whatever stale tasks are left: the
\* condition on the settings that the defaults miss by one unit of time.
THEOREM RecoveryReaches ==
  ASSUME ProbesComeEarly, Prompt PROVE Spec => []AskedInTime
<1>1. Init => NextIsLongEnough /\ AskedInTime
  <2>1. SUFFICES ASSUME Init PROVE NextIsLongEnough /\ AskedInTime
    OBVIOUS
  <2>2. \A p \in Provider : left[p] = 0 /\ next[p] = MinOf(Initial, MaxDuration)
    BY <2>1 DEF Init
  <2>3. MinOf(Initial, MaxDuration) \in Int
    BY DurationsBounded
  <2> QED
    BY <2>2, <2>3 DEF NextIsLongEnough, AskedInTime, Binned
<1>2. HealthTypeOK /\ NextIsLongEnough /\ AskedInTime /\ [Next]_healthVars
        => NextIsLongEnough' /\ AskedInTime'
  BY NextStaysLongEnough, AskedNext
<1> QED
  BY <1>1, <1>2, HealthTypes, PTL DEF Spec

\* The step SinBinRunsDown allows.
RunsDown ==
  \A p \in Binned : left'[p] <= left[p] /\ (Tick => left'[p] < left[p])

LEMMA RunningDown ==
  ASSUME HealthTypeOK, [Next]_healthVars, NEW q \in Binned
  PROVE  left'[q] <= left[q] /\ (Tick => left'[q] < left[q])
<1>1. q \in Provider /\ left[q] \in Nat /\ left[q] > 0 /\ 0 <= left[q]
  BY DEF Binned, HealthTypeOK
<1>2. ASSUME NEW p \in Provider, RecordFailure(p) PROVE left'[q] = left[q]
  BY <1>1, <1>2 DEF RecordFailure, HealthTypeOK
<1>3. ASSUME NEW p \in Provider, NEW i \in Slots, ProbeSucceeds(p, i)
      PROVE  left'[q] \in {0, left[q]}
  BY <1>1, <1>3 DEF ProbeSucceeds, HealthTypeOK
<1>4. Tick => left'[q] = left[q] - 1
  BY <1>1 DEF Tick
<1>5. Tick \/ left'[q] \in {0, left[q]}
  BY <1>2, <1>3 DEF Next, RecordSuccess, ProbeWakes, ProbeAnswers, ProbeFails, healthVars
<1> QED
  BY <1>1, <1>4, <1>5

\* A sin-bin is over after at most sinbin_max_duration units of time: each one
\* shortens it and nothing ever lengthens it (record_failure returns early).
THEOREM BinsRunDown == Spec => SinBinRunsDown
<1>1. HealthTypeOK /\ [Next]_healthVars => [RunsDown]_healthVars
  BY RunningDown DEF RunsDown
<1>2. Spec => [][RunsDown]_healthVars
  BY <1>1, HealthTypes, PTL DEF Spec
<1> QED
  BY <1>2, PTL DEF SinBinRunsDown, RunsDown

=============================================================================
