-------------------------- MODULE EmbeddingService --------------------------
(***************************************************************************)
(* What a caller of the multiplexer is promised, with no batching in       *)
(* sight.  A request is accepted or refused at once; an accepted one gets  *)
(* at most one answer, and the answer accounts for its providers: each one *)
(* attempted either returned the embeddings of exactly the caller's texts  *)
(* or is listed as failed, and policy "all" attempts every one.            *)
(***************************************************************************)
EXTENDS Naturals, Sequences

CONSTANTS Req, Shapes

VARIABLES shape,    \* what each request asked
          state,    \* where it stands
          answer    \* the MuxResponse it was given

serviceVars == <<shape, state, answer>>

NoAnswer == [results |-> [p \in {} |-> <<>>], failed |-> [p \in {} |-> <<>>]]

ServiceInit ==
  /\ state = [r \in Req |-> "idle"]
  /\ answer = [r \in Req |-> NoAnswer]

Asked(s) == {s.providers[i] : i \in DOMAIN s.providers}

\* The answers that are right for request r with shape s.
RightAnswer(r, s, a) ==
  LET reported == DOMAIN a.results \cup DOMAIN a.failed
  IN /\ reported # {} /\ reported \subseteq Asked(s)
     /\ s.policy = "all" => reported = Asked(s)
     /\ \A p \in DOMAIN a.results :
          a.results[p] = [i \in 1 .. s.n |-> <<r, i>>]

\* Steps of one request.  Several requests may take theirs at once, as when
\* one provider call answers a whole batch.
Accept(r) ==
  /\ state[r] = "idle" /\ state'[r] \in {"pending", "refused"}
  /\ shape'[r] \in Shapes
  /\ answer'[r] = answer[r]

Answer(r) ==
  /\ state[r] = "pending" /\ state'[r] = "answered"
  /\ shape'[r] = shape[r]
  /\ RightAnswer(r, shape[r], answer'[r])

Abandon(r) ==
  /\ state[r] = "pending" /\ state'[r] = "gone"
  /\ shape'[r] = shape[r] /\ answer'[r] = answer[r]

Rest(r) ==
  /\ state'[r] = state[r] /\ shape'[r] = shape[r] /\ answer'[r] = answer[r]

ServiceNext == \A r \in Req : Rest(r) \/ Accept(r) \/ Answer(r) \/ Abandon(r)

ServiceSpec == ServiceInit /\ [][ServiceNext]_serviceVars

=============================================================================
