----------------------------- MODULE AdaptiveK -----------------------------
(***************************************************************************)
(* The AIMD batch-size controller of src/mux/adaptive.rs: the per-provider *)
(* flush threshold K, decremented after a streak of successful flushes and *)
(* doubled, up to the provider's hard limit, on a terminal 429.            *)
(*                                                                         *)
(* Only the arithmetic is here; module Mux applies it to each flush        *)
(* outcome.  last_429_time is written and never read, so it has no field.  *)
(***************************************************************************)
EXTENDS Naturals

AimdState == [k : Nat, streak : Nat]

MinOf(a, b) == IF a <= b THEN a ELSE b

\* A provider is first seen with K = min(initial_k, hard_max).
InitialAimd(initialK, hardMax) == [k |-> MinOf(initialK, hardMax), streak |-> 0]

\* Mutant: K is lowered without a floor.
NoFloor(s, threshold) ==
  IF s.streak + 1 >= threshold
  THEN [k |-> s.k - 1, streak |-> 0]
  ELSE [s EXCEPT !.streak = @ + 1]

\* One successful flush: the streak grows, and at the threshold K drops by
\* one (never below 1) and the streak starts again.
RecordSuccess(s, threshold) ==
  IF s.streak + 1 >= threshold
  THEN [k |-> IF s.k <= 1 THEN 1 ELSE s.k - 1, streak |-> 0]
  ELSE [s EXCEPT !.streak = @ + 1]

\* Mutant: the doubling forgets the provider's hard limit.
UncappedDouble(s, hardMax) == [k |-> 2 * s.k, streak |-> 0]

\* One terminal 429: K doubles up to hard_max and the streak is lost.
RecordTerminal429(s, hardMax) == [k |-> MinOf(2 * s.k, hardMax), streak |-> 0]

=============================================================================
