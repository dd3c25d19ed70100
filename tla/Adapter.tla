------------------------------- MODULE Adapter -------------------------------
(***************************************************************************)
(* What the Voyage and Cohere adapters make of one HTTP exchange with      *)
(* their provider: the two differ in the shape of the JSON alone.          *)
(*                                                                         *)
(* An exchange is [status, after, sane, found]: the status, or "none" if   *)
(* there was no response; Retry-After if it parses as a number; whether    *)
(* that number is one a Duration can be made of; and the embeddings in the *)
(* body, none if it is not the JSON expected.                              *)
(***************************************************************************)
EXTENDS Naturals, Sequences

CONSTANT Texts   \* the texts of the batch

Exchange == [status : {"none", "success", "429", "else"}, after : Seq(Nat),
             sane : BOOLEAN, found : Nat]

\* The one error that is retried.
RateLimited(exchange) == exchange.status = "429"

\* An answer is taken for the batch if there is anything in it: that there is an
\* embedding for each text is not checked.
Verdict(exchange) ==
  CASE RateLimited(exchange) -> "rate_limited"
    [] exchange.status = "success" /\ exchange.found >= Texts -> "ok"
    [] exchange.status = "success" /\ exchange.found \in 1 .. Texts - 1 -> "short"
    [] OTHER -> "other"

=============================================================================
