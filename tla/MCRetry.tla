------------------------------- MODULE MCRetry -------------------------------
(***************************************************************************)
(* An instance of Retry for TLC: retries enough for the budget to run out  *)
(* before they do, and Retry-After absent, zero, within and past the cap.  *)
(***************************************************************************)
EXTENDS Retry

MCAfter == {<<>>, <<0>>, <<2>>, <<9>>}

Plain == [status |-> "none", after |-> <<>>, sane |-> TRUE, found |-> 0]

\* Every status; no, fewer or enough embeddings; every hint, usable or not.
MCExchanges ==
  {[Plain EXCEPT !.status = status, !.found = found] :
     status \in {"none", "success", "else"}, found \in 0 .. 2}
  \cup {[Plain EXCEPT !.status = "429", !.after = after] : after \in MCAfter}
  \cup {[Plain EXCEPT !.status = "429", !.sane = FALSE]}

=============================================================================
