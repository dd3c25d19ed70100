------------------------------- MODULE SinBin -------------------------------
(***************************************************************************)
(* What the health tracker promises the multiplexer: the circuit breaker   *)
(* of src/health/mod.rs without its clock.  A provider with too many       *)
(* consecutive failures is sin-binned; the sin-bin ends when its time is   *)
(* up (the failure count stays) or when a recovery probe clears it (the    *)
(* count goes too).  Module Health is the same with time, rounds and the   *)
(* probe tasks, and is checked to implement this one.                      *)
(***************************************************************************)
EXTENDS Naturals

CONSTANTS Provider,          \* the registered providers
          FailureThreshold   \* consecutive failures that sin-bin a provider

ASSUME FailureThresholdAssumption == FailureThreshold \in Nat

VARIABLES fails,    \* consecutive failures, saturating at FailureThreshold
          binned,   \* the providers currently sin-binned
          probed    \* the providers some recovery probe was spawned for

sinBinVars == <<fails, binned, probed>>

SinBinTypeOK ==
  /\ fails \in [Provider -> Nat]
  /\ binned \subseteq Provider
  /\ probed \subseteq Provider

SinBinInit ==
  /\ fails = [p \in Provider |-> 0]
  /\ binned = {}
  /\ probed = {}

\* record_success: only the failure count is reset; a sin-bin runs on.
RecordHealthSuccess(p) ==
  /\ fails' = [fails EXCEPT ![p] = 0]
  /\ UNCHANGED <<binned, probed>>

\* The count only matters against the threshold, so it saturates there.
OneMoreFailure(n) == IF n >= FailureThreshold THEN n ELSE n + 1

\* record_failure, and the probe spawned when it reports a new sin-bin.
RecordHealthFailure(p) ==
  LET count == OneMoreFailure(fails[p])
      bin   == count >= FailureThreshold /\ p \notin binned
  IN /\ fails' = [fails EXCEPT ![p] = count]
     /\ binned' = IF bin THEN binned \cup {p} ELSE binned
     /\ probed' = IF bin THEN probed \cup {p} ELSE probed

\* sinbin_until passes, for several providers when they were due together:
\* they are available again, their counts are not reset.
SinBinExpires(ps) ==
  /\ ps # {} /\ ps \subseteq binned
  /\ binned' = binned \ ps
  /\ UNCHANGED <<fails, probed>>

\* A recovery probe that succeeded clears the sin-bin, whether or not it is
\* still the one the probe was spawned for.
ProbeClears(p) ==
  /\ p \in probed
  /\ fails' = [fails EXCEPT ![p] = 0]
  /\ binned' = binned \ {p}
  /\ UNCHANGED probed

SinBinEnvironment ==
  \/ \E ps \in SUBSET Provider : SinBinExpires(ps)
  \/ \E p \in Provider : ProbeClears(p)

SinBinNext ==
  \/ \E p \in Provider : RecordHealthSuccess(p) \/ RecordHealthFailure(p)
  \/ SinBinEnvironment

SinBinSpec == SinBinInit /\ [][SinBinNext]_sinBinVars

\* filter_available: the positions of a list that are attempted, those of the
\* providers not sin-binned, unless that leaves none: then the whole list.
FilterAvailable(ps) ==
  LET available == {i \in DOMAIN ps : ps[i] \notin binned}
  IN IF available = {} THEN DOMAIN ps ELSE available

=============================================================================
