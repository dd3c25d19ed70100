------------------------------ MODULE MCHealth ------------------------------
(***************************************************************************)
(* Instances of Health for TLC: durations of a few ticks, so that the      *)
(* sin-bin doubles once and then stays at its maximum, and probes that     *)
(* reach exactly as far as that maximum.                                   *)
(***************************************************************************)
EXTENDS Health, TLC

ASSUME MCProbesReachFar == ProbesReachFar

=============================================================================
