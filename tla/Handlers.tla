------------------------------ MODULE Handlers ------------------------------
(***************************************************************************)
(* The embedding endpoints of src/server/handlers/embeddings.rs: embed     *)
(* turns one HTTP request into one multiplexer request, embed_batch one    *)
(* into several, submitted one after the other and awaited in the same     *)
(* order; the answers become a status, a Retry-After and results.          *)
(*                                                                         *)
(* The multiplexer is the service of module EmbeddingService, which Mux    *)
(* implements within its providers' limits, and which here may also drop   *)
(* a request, as it does when it crashes.                                  *)
(***************************************************************************)
EXTENDS FiniteSetsExt, Sequences

CONSTANTS Http,         \* HTTP requests, each used once
          MaxSubs,      \* bound: sub-requests of one batch
          Name,         \* the provider names a request may contain
          Registered,   \* the providers of the registry
          Bodies,       \* what the requests may say
          Failures      \* the MuxFailures a provider may have

\* A rate limit may come with a Retry-After, here in half seconds.
Failure == [kind : {"rate_limited", "other"}, retry : Seq(Nat)]

\* EmbedRequest, its optional fields as sequences of length 0 or 1.
EmbedBody == [kind : {"embed"}, n : Nat, provider : Seq(Name),
              providers : Seq(Seq(Name)), policy : Seq({"all", "any"})]

\* BatchEmbedRequest
BatchBody == [kind : {"batch"}, subs : Seq([n : Nat, providers : Seq(Name)])]

ASSUME HandlersAssumption ==
  /\ MaxSubs \in Nat \ {0}
  /\ Registered \subseteq Name
  /\ Bodies \subseteq EmbedBody \cup BatchBody
  /\ \A b \in Bodies : b.kind = "batch" => Len(b.subs) <= MaxSubs
  /\ Failures \subseteq Failure
  /\ \A f \in Failures : Len(f.retry) <= 1

Req == Http \X (1 .. MaxSubs)

VARIABLES body,     \* the body of each HTTP request
          at,       \* where its handler is
          cursor,   \* the sub-request it submits or awaits
          found,    \* the results it has collected
          reply,    \* the HTTP response
          shape,    \* what each multiplexer request asks
          state,    \* the state of its oneshot
          answer    \* the MuxResponse it got

handlerVars == <<body, at, cursor, found, reply, shape, state, answer>>

Service == INSTANCE EmbeddingService WITH Shapes <- {}

NoBody == [kind |-> "none"]
NoReply == [status |-> 0, retry |-> <<>>, results |-> <<>>]
NoShape == [n |-> 0, providers |-> <<>>, policy |-> "any"]

Init ==
  /\ body = [h \in Http |-> NoBody]
  /\ at = [h \in Http |-> "idle"]
  /\ cursor = [h \in Http |-> 1]
  /\ found = [h \in Http |-> <<>>]
  /\ reply = [h \in Http |-> NoReply]
  /\ shape = [r \in Req |-> NoShape]
  /\ state = [r \in Req |-> "idle"]
  /\ answer = [r \in Req |-> Service!NoAnswer]

-----------------------------------------------------------------------------
(* What is asked *)

Given(option, default) == IF option = <<>> THEN default ELSE Head(option)

\* embed: the field provider wins over providers, policy defaults to any.
EmbedAsks(b) ==
  IF b.provider # <<>>
  THEN [n |-> b.n, providers |-> b.provider, policy |-> "any"]
  ELSE [n |-> b.n, providers |-> Given(b.providers, <<>>),
        policy |-> Given(b.policy, "any")]

\* embed_batch: the first provider of each sub-request is used.
SubAsks(sub) ==
  [n |-> sub.n, policy |-> "any",
   providers |-> IF sub.providers = <<>> THEN <<>> ELSE <<Head(sub.providers)>>]

Asks(b) ==
  IF b.kind = "embed" THEN <<EmbedAsks(b)>>
  ELSE [i \in DOMAIN b.subs |-> SubAsks(b.subs[i])]

\* A provider is named, all that are named exist, and embed, unlike
\* embed_batch, has something to embed.
Valid(b, s) ==
  /\ s.providers # <<>> /\ Service!Asked(s) \subseteq Registered
  /\ b.kind = "embed" => s.n > 0

-----------------------------------------------------------------------------
(* What is answered *)

RateLimited(a) == {p \in DOMAIN a.failed : a.failed[p].kind = "rate_limited"}

Hints(a) == {a.failed[p].retry[1] :
               p \in {q \in RateLimited(a) : a.failed[q].retry # <<>>}}

\* Mutant: the header is rounded down.
RoundedDown(a) == IF Hints(a) = {} THEN <<>> ELSE <<Max(Hints(a)) \div 2>>

\* The longest Retry-After, if any was given, in whole seconds rounded up.
RetryAfter(a) == IF Hints(a) = {} THEN <<>> ELSE <<(Max(Hints(a)) + 1) \div 2>>

Status(code) == [NoReply EXCEPT !.status = code]

\* Mutant: a rate limit is passed through only if it was the only failure.
OnlyRateLimits(a) ==
  IF RateLimited(a) = DOMAIN a.failed
  THEN [Status(429) EXCEPT !.retry = RetryAfter(a)]
  ELSE Status(502)

\* Any rate limit among the failures makes the response a 429.
FailureReply(a) ==
  IF RateLimited(a) # {}
  THEN [Status(429) EXCEPT !.retry = RetryAfter(a)]
  ELSE Status(502)

\* Mutant: policy all is content with one result.
OneIsEnough(s, a) == DOMAIN a.results # {}

\* The routing policy is met.
Met(s, a) ==
  IF s.policy = "all" THEN DOMAIN a.failed = {} ELSE DOMAIN a.results # {}

-----------------------------------------------------------------------------
(* The handlers *)

\* Mutant: the receivers outlive the handler.
KeepsReceivers(h) == state

\* A handler that returns, or whose client disconnects, drops its receivers.
Left(h) ==
  [r \in Req |-> IF r[1] = h /\ state[r] = "pending" THEN "gone" ELSE state[r]]

\* The handler of h returns the response m.
Return(h, m) ==
  /\ reply' = [reply EXCEPT ![h] = m]
  /\ at' = [at EXCEPT ![h] = "done"]
  /\ UNCHANGED <<body, cursor, found>>

Receive(h, b) ==
  /\ at[h] = "idle"
  /\ body' = [body EXCEPT ![h] = b]
  /\ at' = [at EXCEPT ![h] = IF Asks(b) = <<>> THEN "waiting" ELSE "submitting"]
  /\ UNCHANGED <<cursor, found, reply, shape, state, answer>>

\* One turn of the submission loop: refuse an invalid sub-request, although
\* the ones before it are submitted; otherwise try_send it.
Submit(h) ==
  LET i == cursor[h]
      s == Asks(body[h])[i]
      r == <<h, i>>
      last == i = Len(Asks(body[h]))
  IN /\ at[h] = "submitting"
     /\ \/ /\ ~Valid(body[h], s)
           /\ Return(h, Status(400))
           /\ state' = Left(h) /\ UNCHANGED <<shape, answer>>
        \/ /\ Valid(body[h], s)
           /\ Return(h, Status(503))
           /\ shape' = [shape EXCEPT ![r] = s]
           /\ state' = [Left(h) EXCEPT ![r] = "refused"] /\ UNCHANGED answer
        \/ /\ Valid(body[h], s)
           /\ shape' = [shape EXCEPT ![r] = s]
           /\ state' = [state EXCEPT ![r] = "pending"]
           /\ at' = [at EXCEPT ![h] = IF last THEN "waiting" ELSE @]
           /\ cursor' = [cursor EXCEPT ![h] = IF last THEN 1 ELSE i + 1]
           /\ UNCHANGED <<body, found, reply, answer>>

\* Mutant: results are collected in front.
InFront(h, a) == [found EXCEPT ![h] = <<a.results>> \o @]

Collected(h, a) == [found EXCEPT ![h] = Append(@, a.results)]

\* The oneshot of the sub-request at the cursor has an answer: keep its
\* results and await the next one, or return what failed.
AwaitAnswer(h) ==
  LET i == cursor[h]
      r == <<h, i>>
  IN /\ at[h] = "waiting" /\ i <= Len(Asks(body[h])) /\ state[r] = "answered"
     /\ IF Met(shape[r], answer[r])
        THEN /\ found' = Collected(h, answer[r])
             /\ cursor' = [cursor EXCEPT ![h] = i + 1]
             /\ UNCHANGED <<body, at, reply, state>>
        ELSE /\ Return(h, FailureReply(answer[r]))
             /\ state' = Left(h)
     /\ UNCHANGED <<shape, answer>>

\* Mutant: a dropped oneshot is waited for.
WaitOn(h) == FALSE /\ UNCHANGED handlerVars

\* The oneshot at the cursor was dropped: "multiplexer dropped response".
AwaitDropped(h) ==
  /\ at[h] = "waiting" /\ cursor[h] <= Len(Asks(body[h]))
  /\ state[<<h, cursor[h]>>] = "dropped"
  /\ Return(h, Status(502))
  /\ state' = Left(h) /\ UNCHANGED <<shape, answer>>

\* Everything was collected.
Finish(h) ==
  /\ at[h] = "waiting" /\ cursor[h] > Len(Asks(body[h]))
  /\ Return(h, [Status(200) EXCEPT !.results = found[h]])
  /\ UNCHANGED <<shape, state, answer>>

\* The client goes while the handler awaits: hyper drops its future.
Disconnect(h) ==
  /\ at[h] = "waiting"
  /\ at' = [at EXCEPT ![h] = "gone"]
  /\ state' = Left(h)
  /\ UNCHANGED <<body, cursor, found, reply, shape, answer>>

Handler(h) == Submit(h) \/ AwaitAnswer(h) \/ AwaitDropped(h) \/ Finish(h)

-----------------------------------------------------------------------------
(* The service *)

\* Any right answer, with whatever failures.  Policy any may leave out
\* providers that are sin-binned.
Answer(r) ==
  /\ state[r] = "pending"
  /\ \E tried \in SUBSET Service!Asked(shape[r]) : \E good \in SUBSET tried :
     \E fs \in [tried \ good -> Failures] :
       LET texts == [i \in 1 .. shape[r].n |-> <<r, i>>]
           a == [results |-> [p \in good |-> texts], failed |-> fs]
       IN Service!RightAnswer(r, shape[r], a) /\ answer' = [answer EXCEPT ![r] = a]
  /\ state' = [state EXCEPT ![r] = "answered"]
  /\ UNCHANGED <<body, at, cursor, found, reply, shape>>

Drop(r) ==
  /\ state[r] = "pending"
  /\ state' = [state EXCEPT ![r] = "dropped"]
  /\ UNCHANGED <<body, at, cursor, found, reply, shape, answer>>

-----------------------------------------------------------------------------

Next ==
  \/ \E h \in Http : Handler(h) \/ Disconnect(h) \/ \E b \in Bodies : Receive(h, b)
  \/ \E r \in Req : Answer(r) \/ Drop(r)

Spec == Init /\ [][Next]_handlerVars

Settle(r) == shape[r].n > 0 /\ (Answer(r) \/ Drop(r))

\* Handlers are scheduled, and the service settles what it accepted, unless it
\* has no texts: nothing makes the multiplexer flush those.
Fairness ==
  /\ \A h \in Http : WF_handlerVars(Handler(h))
  /\ \A r \in Req : WF_handlerVars(Settle(r))

FairSpec == Spec /\ Fairness

-----------------------------------------------------------------------------
(* Properties *)

\* Types, and what a handler owns: while it awaits, a result of each
\* sub-request before the cursor; once it has ended, no receiver.
HandlersTypeOK ==
  /\ body \in [Http -> Bodies \cup {NoBody}]
  /\ at \in [Http -> {"idle", "submitting", "waiting", "done", "gone"}]
  /\ cursor \in [Http -> 1 .. MaxSubs + 1]
  /\ \A h \in Http :
       /\ at[h] = "waiting" => Len(found[h]) = cursor[h] - 1
       /\ at[h] \in {"done", "gone"} => \A i \in 1 .. MaxSubs : state[<<h, i>>] # "pending"
       /\ reply[h].status \in {0, 200, 400, 429, 502, 503}
       /\ at[h] = "done" <=> reply[h].status # 0
  /\ shape \in [Req -> [n : Nat, providers : Seq(Name), policy : {"all", "any"}]]
  /\ state \in [Req -> {"idle", "pending", "refused", "answered", "dropped", "gone"}]

\* What reaches the multiplexer is what it is built for: it has no answer for a
\* provider that is not registered and never answers a request without
\* providers.  embed, unlike embed_batch, sends no empty input either.
SubmitsWhatMuxTakes ==
  \A r \in Req : state[r] # "idle" =>
    /\ shape[r].providers # <<>> /\ Service!Asked(shape[r]) \subseteq Registered
    /\ body[r[1]].kind = "embed" => shape[r].n > 0

\* policy.rs: under all, a 200 has results of every provider asked; under any,
\* of at least one.
PolicyKept ==
  \A h \in Http : reply[h].status = 200 =>
    \A i \in DOMAIN Asks(body[h]) :
      LET s == Asks(body[h])[i]
          got == DOMAIN reply[h].results[i]
      IN IF s.policy = "all" THEN got = Service!Asked(s) ELSE got # {}

\* Whatever order the multiplexer answers a batch in, the results are those of
\* the sub-requests, one each, in the order they were sent.
ResultsInOrder ==
  \A h \in Http : reply[h].status = 200 =>
    /\ Len(reply[h].results) = Len(Asks(body[h]))
    /\ \A i \in DOMAIN reply[h].results : \A p \in DOMAIN reply[h].results[i] :
         reply[h].results[i][p] =
           [j \in 1 .. Asks(body[h])[i].n |-> <<<<h, i>>, j>>]

\* The request of h whose answer the handler ended with.
Deciding(h) == <<h, cursor[h]>>

\* A client is told to slow down exactly when a provider said so: a rate limit
\* hidden behind another provider's error is not turned into a 502.
RateLimitsPassThrough ==
  \A h \in Http : reply[h].status \in {429, 502} =>
    (reply[h].status = 429 <=>
       state[Deciding(h)] = "answered" /\ RateLimited(answer[Deciding(h)]) # {})

\* Retry-After is enough for every provider that asked for a pause.
RetryAfterIsEnough ==
  \A h \in Http : reply[h].status = 429 =>
    \A hint \in Hints(answer[Deciding(h)]) :
      reply[h].retry # <<>> /\ 2 * reply[h].retry[1] >= hint

\* Every request is replied to unless its client goes, whatever becomes of
\* the multiplexer.  Only embed refuses empty inputs, and a batch with one may
\* wait for ever.
EveryHttpReplied ==
  \A h \in Http :
    (at[h] # "idle" /\ \A i \in DOMAIN Asks(body[h]) : Asks(body[h])[i].n > 0)
      ~> at[h] \in {"done", "gone"}

\* What a handler awaits can come: no receiver it is at was refused, taken
\* already or never sent.
NobodyWaitsInVain ==
  \A h \in Http : at[h] = "waiting" =>
    \/ cursor[h] > Len(Asks(body[h]))
    \/ state[<<h, cursor[h]>>] \in {"pending", "answered", "dropped"}

\* The sub-requests to submit and the answers to await that are left, and the end.
TurnsLeft(stage, i, n) ==
  CASE stage = "submitting" -> 2 * n + 3 - i
    [] stage = "waiting" -> n + 2 - i
    [] OTHER -> 0

\* The safety part of EveryHttpReplied: a handler stands still or gets nearer to
\* its end, which is at most twice as many turns away as there are sub-requests.
HandlersRunDown ==
  [][\A h \in Http : at[h] # "idle" =>
       LET n == Len(Asks(body[h]))
       IN /\ body'[h] = body[h]
          /\ \/ UNCHANGED <<at[h], cursor[h]>>
             \/ TurnsLeft(at'[h], cursor'[h], n) < TurnsLeft(at[h], cursor[h], n)]_handlerVars

\* Requests that name providers, and registered ones only.
Takes ==
  {s \in [n : Nat, providers : Seq(Name), policy : {"all", "any"}] :
     s.providers # <<>> /\ Service!Asked(s) \subseteq Registered}

\* To the service, a receiver that is dropped and one that is answered by being
\* dropped are the same.
Promised == INSTANCE EmbeddingService WITH
  Shapes <- Takes,
  state <- [r \in Req |-> IF state[r] = "dropped" THEN "gone" ELSE state[r]]

\* The handlers keep to their side of the contract that Mux implements: requests
\* it can serve, each sent once, whose answers nobody touches.
KeepsToService == Promised!ServiceSpec

=============================================================================
