-------------------------------- MODULE Mux --------------------------------
(***************************************************************************)
(* The request multiplexer of src/mux/multiplexer.rs and                   *)
(* src/mux/accumulator.rs: callers put requests on a bounded channel, one  *)
(* task accumulates their texts in a slot per provider, flushes a slot as  *)
(* one provider call when it is full enough or its window has passed, and  *)
(* hands each caller the part of the answer that is its own.               *)
(*                                                                         *)
(* Processes: the callers, the mux task (variable mux is its place in the  *)
(* biased select! loop), one flush task per provider call in flight, one   *)
(* relay task per provider of a multi-provider request and one collector   *)
(* per such request.  The release build is modelled: debug_assert! is off. *)
(* Token counts, latencies and the snapshot published for the health page, *)
(* which nothing here reads, are left out.                                 *)
(***************************************************************************)
EXTENDS SinBin, AdaptiveK, Sequences, FiniteSets

CONSTANTS Req,               \* request identities, each used at most once
          HardMax,           \* max_texts_per_request of each provider
          InitialK,          \* initial_batch_size
          StreakThreshold,   \* success_streak_threshold
          ChannelCapacity,   \* channel_capacity
          Shapes,            \* what callers may ask: [n, providers, policy]
          Outcomes,          \* how a flush task may end, see FlushTaskEnds
          Responsive,        \* the providers whose calls always end
          Leavers,           \* bound: the requests whose caller may leave
          MayClose           \* bound: whether the instance shuts down

Policy == {"all", "any"}

Shape == [n : Nat, providers : Seq(Provider), policy : Policy]

ASSUME MuxAssumption ==
  /\ IsFiniteSet(Provider)
  /\ HardMax \in [Provider -> Nat \ {0}]
  /\ InitialK \in Nat
  /\ StreakThreshold \in Nat
  /\ ChannelCapacity \in Nat \ {0}
  /\ Shapes \subseteq {s \in Shape : s.providers # <<>>}
  /\ Outcomes \subseteq {"ok", "short", "rate_limited", "other", "panic"}
  /\ Responsive \subseteq Provider
  /\ Leavers \subseteq Req
  /\ MayClose \in BOOLEAN

VARIABLES chan,     \* the mpsc channel: requests sent and not yet received
          closed,   \* every sender of the channel is gone
          mux,      \* where the mux task is
          slot,     \* the accumulator slot of each provider
          tasks,    \* the JoinSet of flush tasks
          aimd,     \* the adaptive K registry
          req,      \* the shape of each request sent
          legs,     \* one leg per provider of a received request
          status,   \* what the caller's oneshot receiver is in
          resp      \* the MuxResponse assembled for each request

vars == <<chan, closed, mux, slot, tasks, aimd, req, legs, status, resp,
          fails, binned, probed>>

health == <<fails, binned, probed>>

-----------------------------------------------------------------------------
(* Data.  A text is <<request, position>>; the embedding a provider returns  *)
(* for it is written as the text itself, so a wrong embedding is visible.    *)

Text == Req \X (Nat \ {0})

TextsOf(r, s) == [i \in 1 .. s.n |-> <<r, i>>]

Texts(r) == TextsOf(r, req[r])

NoShape == [n |-> 0, providers |-> <<>>, policy |-> "any"]

\* caller_id: alloc_id numbers the legs; here a leg is its own number.
CallerId == Req \X (Nat \ {0})

CallerRange == [caller : CallerId, start : Nat, end : Nat]

\* A HashMap::insert.
Put(f, key, value) ==
  [k \in DOMAIN f \cup {key} |-> IF k = key THEN value ELSE f[k]]

IsPartialMap(f, D, R) == DOMAIN f \subseteq D /\ \A k \in DOMAIN f : f[k] \in R

EmptyMap == [p \in {} |-> <<>>]

IsResponse(m) ==
  /\ m = [results |-> m.results, failed |-> m.failed]
  /\ IsPartialMap(m.results, Provider, Seq(Text))
  /\ IsPartialMap(m.failed, Provider, {"rate_limited", "other"})

EmptyResponse == [results |-> EmptyMap, failed |-> EmptyMap]

-----------------------------------------------------------------------------
(* ProviderSlot and BatchAccumulator *)

SlotState ==
  [open : BOOLEAN,               \* the slots map has an entry
   texts : Seq(Text),
   ranges : Seq(CallerRange),          \* caller_ranges
   senders : SUBSET CallerId,    \* pending_senders
   threshold : Nat,              \* flush_threshold, K when the slot was made
   expired : BOOLEAN]            \* deadline <= now

NoSlot == [open |-> FALSE, texts |-> <<>>, ranges |-> <<>>, senders |-> {},
           threshold |-> 0, expired |-> FALSE]

NewSlot(p) == [NoSlot EXCEPT !.open = TRUE,
                             !.threshold = MinOf(aimd[p].k, HardMax[p])]

\* ProviderSlot::is_empty looks at the texts only, not at the senders.
IsEmpty(s) == s.texts = <<>>

ShouldFlush(s) == Len(s.texts) >= s.threshold

\* Mutant: texts that would just fill the slot are refused.
OverflowTooEarly(p, s, n) == Len(s.texts) + n >= HardMax[p]

\* Mutant: an off-by-one in the capacity test.
OverflowOffByOne(p, s, n) == Len(s.texts) + n > HardMax[p] + 1

WouldOverflow(p, s, n) == Len(s.texts) + n > HardMax[p]

\* The slot must go before n more texts come.
MustFlushFirst(p, s, n) == s.open /\ ~IsEmpty(s) /\ WouldOverflow(p, s, n)

\* The part of add_caller that runs when the texts fit.
Extend(s, caller, texts) ==
  [s EXCEPT !.texts = @ \o texts,
            !.ranges = Append(@, [caller |-> caller, start |-> Len(s.texts),
                                  end |-> Len(s.texts) + Len(texts)])]

\* add_to_slot keeps the sender whatever add_caller answers; add_caller
\* refuses texts that do not fit.
AddCaller(p, s, caller, texts) ==
  LET t == [s EXCEPT !.senders = @ \cup {caller}]
  IN IF WouldOverflow(p, s, Len(texts)) THEN t ELSE Extend(t, caller, texts)

-----------------------------------------------------------------------------
(* Flush tasks *)

TaskState ==
  [p : Provider, texts : Seq(Text), ranges : Seq(CallerRange),
   senders : SUBSET CallerId,
   st : {"running", "ok", "rate_limited", "other", "panic"},
   got : Nat]                    \* embeddings returned, when st = "ok"

\* Phase 1 of flush_slot: everything leaves the slot and goes to the task.
TaskOf(p, s) == [p |-> p, texts |-> s.texts, ranges |-> s.ranges,
                 senders |-> s.senders, st |-> "running", got |-> 0]

Finished(t) == t.st # "running"

-----------------------------------------------------------------------------
(* Requests and their legs *)

LegState ==
  [p : Provider,
   st : {"new", "skipped", "waiting", "ok", "rate_limited", "other",
         "dropped", "relayed"},
   embs : Seq(Text)]

Statuses == {"idle", "pending", "answered", "dropped", "refused", "gone"}

\* handle_request takes the direct path by the list the caller sent.
Single(r) == Len(req[r].providers) = 1

Received(r) == legs[r] # <<>>

\* The oneshot of a leg, held by a slot or a flush task.
Waiting(r, i) == legs[r][i].st = "waiting"

WaitingIds == UNION {{<<r, i>> : i \in {j \in DOMAIN legs[r] : Waiting(r, j)}}
                     : r \in Req}

\* What a leg contributes to the caller's MuxResponse.
Merge(m, p, out) ==
  CASE out.st = "ok" -> [m EXCEPT !.results = Put(@, p, out.embs)]
    [] out.st \in {"rate_limited", "other"} -> [m EXCEPT !.failed = Put(@, p, out.st)]
    [] OTHER -> m

\* The senders in DOMAIN out are used or dropped: out[c] is what each of them
\* carried.  A single-provider request's sender is the caller's own oneshot,
\* so it also settles the request; sending to a caller that left is a no-op.
\* The requests in lost are dropped before they were received.
Settle(out, lost) ==
  LET direct(r) ==
        Single(r) /\ status[r] = "pending" /\ <<r, 1>> \in DOMAIN out
  IN /\ legs' = [r \in Req |-> [i \in DOMAIN legs[r] |->
                   IF <<r, i>> \in DOMAIN out
                   THEN [legs[r][i] EXCEPT !.st = out[<<r, i>>].st,
                                           !.embs = out[<<r, i>>].embs]
                   ELSE legs[r][i]]]
     /\ resp' = [r \in Req |->
                   IF direct(r)
                   THEN Merge(resp[r], legs[r][1].p, out[<<r, 1>>])
                   ELSE resp[r]]
     /\ status' = [r \in Req |->
                   IF direct(r)
                   THEN IF out[<<r, 1>>].st = "dropped" THEN "dropped"
                                                        ELSE "answered"
                   ELSE IF r \in lost /\ status[r] = "pending" THEN "dropped"
                   ELSE status[r]]

Dropped == [st |-> "dropped", embs |-> <<>>]

-----------------------------------------------------------------------------
(* Type correctness *)

MuxTypeOK ==
  /\ chan \in Seq(Req)
  /\ closed \in BOOLEAN
  /\ mux \in {"join", "recv", "timer", "fan", "drain", "done", "crashed"}
  /\ slot \in [Provider -> SlotState]
  /\ tasks \subseteq TaskState
  /\ aimd \in [Provider -> AimdState]
  /\ req \in [Req -> Shape]
  /\ legs \in [Req -> Seq(LegState)]
  /\ status \in [Req -> Statuses]
  /\ DOMAIN resp = Req /\ \A r \in Req : IsResponse(resp[r])
  /\ SinBinTypeOK

Init ==
  /\ chan = <<>>
  /\ closed = FALSE
  /\ mux = "join"
  /\ slot = [p \in Provider |-> NoSlot]
  /\ tasks = {}
  /\ aimd = [p \in Provider |-> InitialAimd(InitialK, HardMax[p])]
  /\ req = [r \in Req |-> NoShape]
  /\ legs = [r \in Req |-> <<>>]
  /\ status = [r \in Req |-> "idle"]
  /\ resp = [r \in Req |-> EmptyResponse]
  /\ SinBinInit

-----------------------------------------------------------------------------
(* The callers (tests, and the HTTP handlers through AppState.mux_tx) *)

\* try_send: the request is queued, or refused because the channel is full or
\* its receiver is gone.
Submit(r, s) ==
  /\ status[r] = "idle" /\ ~closed
  /\ req' = [req EXCEPT ![r] = s]
  /\ IF Len(chan) < ChannelCapacity /\ mux \notin {"done", "crashed"}
     THEN /\ chan' = Append(chan, r)
          /\ status' = [status EXCEPT ![r] = "pending"]
     ELSE /\ status' = [status EXCEPT ![r] = "refused"]
          /\ UNCHANGED chan
  /\ UNCHANGED <<closed, mux, slot, tasks, aimd, legs, resp, health>>

\* The caller drops its oneshot receiver: a disconnected client, or a handler
\* that returned early.  Nobody tells the multiplexer.
Leave(r) ==
  /\ r \in Leavers /\ status[r] = "pending"
  /\ status' = [status EXCEPT ![r] = "gone"]
  /\ UNCHANGED <<chan, closed, mux, slot, tasks, aimd, req, legs, resp,
                 health>>

\* The last sender of the channel is dropped: the server is shutting down.
CloseChannel ==
  /\ MayClose /\ ~closed
  /\ closed' = TRUE
  /\ UNCHANGED <<chan, mux, slot, tasks, aimd, req, legs, status, resp,
                 health>>

-----------------------------------------------------------------------------
(* Time and the flush tasks *)

\* The deadline of a slot passes; it was set when the slot was made.
WindowElapses(p) ==
  /\ slot[p].open /\ ~slot[p].expired
  /\ slot' = [slot EXCEPT ![p].expired = TRUE]
  /\ UNCHANGED <<chan, closed, mux, tasks, aimd, req, legs, status, resp,
                 health>>

\* How execute_with_backoff may end: with as many embeddings as texts, with
\* fewer (no caller of the provider compares the counts), with a rate limit
\* that outlived the retries, another error, or a panic of the task.
TaskEnds(t) ==
  (IF "ok" \in Outcomes
   THEN {[t EXCEPT !.st = "ok", !.got = Len(t.texts)]} ELSE {})
  \cup (IF "short" \in Outcomes
        THEN {[t EXCEPT !.st = "ok", !.got = m] : m \in 1 .. Len(t.texts) - 1}
        ELSE {})
  \cup {[t EXCEPT !.st = e] : e \in Outcomes \cap {"rate_limited", "other"}}

\* The provider call of t ends and the task waits to be joined.
FlushTaskEnds(t) ==
  /\ ~Finished(t)
  /\ \E u \in TaskEnds(t) : tasks' = (tasks \ {t}) \cup {u}
  /\ UNCHANGED <<chan, closed, mux, slot, aimd, req, legs, status, resp,
                 health>>

\* The task of t panics: its senders are dropped while it unwinds, and the
\* JoinSet keeps a JoinError for it.
FlushTaskPanics(t) ==
  /\ ~Finished(t) /\ "panic" \in Outcomes
  /\ tasks' = (tasks \ {t}) \cup {[t EXCEPT !.st = "panic", !.senders = {}]}
  /\ Settle([c \in t.senders |-> Dropped], {})
  /\ UNCHANGED <<chan, closed, mux, slot, aimd, req, health>>

-----------------------------------------------------------------------------
(* The mux task: run_multiplexer's select! polls the finished tasks, then    *)
(* the channel, then the timer; mux = "join", "recv", "timer" is the branch  *)
(* it polls next, so a branch that becomes ready after it was polled waits   *)
(* for the next round.                                                       *)

\* Mutant: every caller is cut from the beginning of the batch.
FirstSlice(t, g) == SubSeq(t.texts, 1, g.end - g.start)

\* batch.embeddings[range]
Slice(t, g) == SubSeq(t.texts, g.start + 1, g.end)

\* What the sender of caller c carries when the outcome of t is handled.  A
\* sender without a range is dropped with pending_senders; once a slice is
\* out of bounds the multiplexer unwinds and drops the others.
OutcomeFor(t, c) ==
  LET mine == {g \in {t.ranges[j] : j \in DOMAIN t.ranges} : g.caller = c}
      g == CHOOSE g \in mine : TRUE
  IN IF mine = {} \/ (t.st = "ok" /\ g.end > t.got) THEN Dropped
     ELSE [st |-> t.st, embs |-> IF t.st = "ok" THEN Slice(t, g) ELSE <<>>]

\* The slice of some caller is out of bounds.
SlicePanics(t) ==
  t.st = "ok" /\ \E j \in DOMAIN t.ranges : t.ranges[j].end > t.got

\* The bookkeeping of handle_flush_outcome before the answers go out.
RecordOutcome(t) ==
  /\ IF t.st = "ok" THEN RecordHealthSuccess(t.p) ELSE RecordHealthFailure(t.p)
  /\ aimd' = [aimd EXCEPT ![t.p] =
                CASE t.st = "ok" -> RecordSuccess(@, StreakThreshold)
                  [] t.st = "rate_limited" -> RecordTerminal429(@, HardMax[t.p])
                  [] OTHER -> @]

\* join_next yields an outcome and every caller of the batch gets its part.
JoinOutcome(t) ==
  /\ mux \in {"join", "drain"}
  /\ Finished(t) /\ t.st # "panic" /\ ~SlicePanics(t)
  /\ RecordOutcome(t)
  /\ tasks' = tasks \ {t}
  /\ Settle([c \in t.senders |-> OutcomeFor(t, c)], {})
  /\ UNCHANGED <<chan, closed, mux, slot, req>>

\* join_next yields the JoinError of a panicked task: a warning, no more.
JoinPanicked(t) ==
  /\ mux \in {"join", "drain"}
  /\ t.st = "panic"
  /\ tasks' = tasks \ {t}
  /\ UNCHANGED <<chan, closed, mux, slot, aimd, req, legs, status, resp,
                 health>>

\* The mux task panics on a slice: the callers before it have their answers,
\* every other sender goes with the slots, the flush tasks and the channel.
Crash(t) ==
  /\ mux \in {"join", "drain"}
  /\ Finished(t) /\ SlicePanics(t)
  /\ RecordOutcome(t)
  /\ mux' = "crashed"
  /\ slot' = [p \in Provider |-> NoSlot]
  /\ tasks' = {}
  /\ Settle([c \in WaitingIds |->
               IF c \in t.senders THEN OutcomeFor(t, c) ELSE Dropped],
            {chan[j] : j \in DOMAIN chan})
  /\ chan' = <<>>
  /\ UNCHANGED <<closed, req>>

\* No finished task: poll the channel next.
JoinPending ==
  /\ mux = "join"
  /\ \A t \in tasks : ~Finished(t)
  /\ mux' = "recv"
  /\ UNCHANGED <<chan, closed, slot, tasks, aimd, req, legs, status, resp,
                 health>>

\* Mutant: sin-binned providers are skipped under policy all too.
FilterAlways(r) == FilterAvailable(req[r].providers)

\* The entries of r's list that are attempted: only a list of several
\* providers under policy any is filtered.
Attempted(r) ==
  IF ~Single(r) /\ req[r].policy = "any"
  THEN FilterAvailable(req[r].providers) ELSE DOMAIN req[r].providers

\* handle_request up to its first add_to_slot: the legs of the request.
Recv ==
  /\ mux = "recv" /\ chan # <<>>
  /\ LET r == Head(chan)
         ps == req[r].providers
     IN legs' = [legs EXCEPT ![r] =
          [i \in DOMAIN ps |->
             [p |-> ps[i], embs |-> <<>>,
              st |-> IF i \in Attempted(r) THEN "new" ELSE "skipped"]]]
  /\ chan' = Tail(chan)
  /\ mux' = "fan"
  /\ UNCHANGED <<closed, slot, tasks, aimd, req, status, resp, health>>

\* One add_to_slot, for the next leg of the request being handled: flush the
\* slot if the texts would not fit, add them, flush if K is reached.
AddToSlot(r, i) ==
  LET p     == legs[r][i].p
      old   == slot[p]
      full  == MustFlushFirst(p, old, req[r].n)
      base  == IF old.open /\ ~full THEN old ELSE NewSlot(p)
      new   == AddCaller(p, base, <<r, i>>, Texts(r))
      flush == ShouldFlush(new) /\ ~IsEmpty(new)
      rest  == {j \in DOMAIN legs[r] : j # i /\ legs[r][j].st = "new"}
  IN /\ mux = "fan"
     /\ legs[r][i].st = "new" /\ \A j \in rest : i < j
     /\ slot' = [slot EXCEPT ![p] = IF flush THEN NoSlot ELSE new]
     /\ tasks' = tasks \cup (IF full THEN {TaskOf(p, old)} ELSE {})
                      \cup (IF flush THEN {TaskOf(p, new)} ELSE {})
     /\ legs' = [legs EXCEPT ![r][i].st = "waiting"]
     /\ mux' = IF rest = {} THEN "join" ELSE "fan"
     /\ UNCHANGED <<chan, closed, aimd, req, status, resp, health>>

\* Mutant: the slot is copied to the task, and stays.
CopySlots(ps) ==
  LET flushed == {p \in ps : slot[p].open /\ ~IsEmpty(slot[p])}
  IN /\ tasks' = tasks \cup {TaskOf(p, slot[p]) : p \in flushed}
     /\ UNCHANGED slot

\* flush_slot for each of the given providers; it ignores empty slots.
FlushSlots(ps) ==
  LET flushed == {p \in ps : slot[p].open /\ ~IsEmpty(slot[p])}
  IN /\ tasks' = tasks \cup {TaskOf(p, slot[p]) : p \in flushed}
     /\ slot' = [p \in Provider |-> IF p \in flushed THEN NoSlot ELSE slot[p]]

\* rx.recv() returns None: flush_all, then drain the flush tasks.
RecvClosed ==
  /\ mux = "recv" /\ chan = <<>> /\ closed
  /\ FlushSlots(Provider)
  /\ mux' = "drain"
  /\ UNCHANGED <<chan, closed, aimd, req, legs, status, resp, health>>

\* Nothing to receive: poll the timer next, or sleep.
RecvPending ==
  /\ mux = "recv" /\ chan = <<>> /\ ~closed
  /\ mux' = "timer"
  /\ UNCHANGED <<chan, closed, slot, tasks, aimd, req, legs, status, resp,
                 health>>

\* The non-empty slots whose deadline has passed.  earliest_deadline ranges
\* over non-empty slots too: an empty one never arms the timer.
Expired == {p \in Provider : slot[p].open /\ slot[p].expired /\ ~IsEmpty(slot[p])}

\* flush_expired_slots
Timer ==
  /\ mux = "timer" /\ Expired # {}
  /\ FlushSlots(Expired)
  /\ mux' = "join"
  /\ UNCHANGED <<chan, closed, aimd, req, legs, status, resp, health>>

\* Mutant: a task that finishes does not wake the sleeping mux task.
WakeWithoutTasks ==
  /\ mux = "timer" /\ (chan # <<>> \/ closed)
  /\ mux' = "join"
  /\ UNCHANGED <<chan, closed, slot, tasks, aimd, req, legs, status, resp,
                 health>>

\* Mutant: the last sender going does not wake the sleeping mux task.
WakeWithoutClose ==
  /\ mux = "timer" /\ (chan # <<>> \/ \E t \in tasks : Finished(t))
  /\ mux' = "join"
  /\ UNCHANGED <<chan, closed, slot, tasks, aimd, req, legs, status, resp,
                 health>>

\* A sleeping mux task is woken by a branch it polled before the timer.
Wake ==
  /\ mux = "timer"
  /\ chan # <<>> \/ closed \/ \E t \in tasks : Finished(t)
  /\ mux' = "join"
  /\ UNCHANGED <<chan, closed, slot, tasks, aimd, req, legs, status, resp,
                 health>>

\* drain_flush_tasks is through: the task returns and its slots are dropped.
DrainDone ==
  /\ mux = "drain" /\ tasks = {}
  /\ mux' = "done"
  /\ slot' = [p \in Provider |-> NoSlot]
  /\ Settle([c \in WaitingIds |-> Dropped], {})
  /\ UNCHANGED <<chan, closed, tasks, aimd, req, health>>

-----------------------------------------------------------------------------
(* The relay and collector tasks of a multi-provider request *)

\* A leg whose relay has a partial response to forward, or ends without one.
Settled(leg) == leg.st \in {"ok", "rate_limited", "other", "dropped"}

\* The relay of leg i ends: its partial response, if its oneshot had one, is
\* merged by the collector in the order of the partial channel.
Relay(r, i) ==
  /\ ~Single(r) /\ Settled(legs[r][i])
  /\ legs' = [legs EXCEPT ![r][i].st = "relayed", ![r][i].embs = <<>>]
  /\ resp' = [resp EXCEPT ![r] = Merge(@, legs[r][i].p, legs[r][i])]
  /\ UNCHANGED <<chan, closed, mux, slot, tasks, aimd, req, status, health>>

\* Mutant: the collector answers with the first relay instead of the last.
FirstRelayEnded(r) ==
  Received(r) /\ \E i \in DOMAIN legs[r] : legs[r][i].st = "relayed"

\* The partial channel of r is closed: every relay has ended.
RelaysEnded(r) ==
  Received(r) /\ \A i \in DOMAIN legs[r] : legs[r][i].st \in {"relayed", "skipped"}

\* collect_multi_provider: once the partial channel closes, answer with what
\* it carried.
Collect(r) ==
  /\ ~Single(r) /\ RelaysEnded(r) /\ status[r] = "pending"
  /\ status' = [status EXCEPT ![r] = "answered"]
  /\ UNCHANGED <<chan, closed, mux, slot, tasks, aimd, req, legs, resp,
                 health>>

-----------------------------------------------------------------------------
(* The specification *)

Caller(r) == Leave(r) \/ \E s \in Shapes : Submit(r, s)

FlushTask(p) ==
  \E t \in {u \in tasks : u.p = p} : FlushTaskEnds(t) \/ FlushTaskPanics(t)

\* Every step of the mux task.
MuxTask ==
  \/ \E t \in tasks : JoinOutcome(t) \/ JoinPanicked(t) \/ Crash(t)
  \/ JoinPending
  \/ Recv
  \/ \E r \in Req : \E i \in DOMAIN legs[r] : AddToSlot(r, i)
  \/ RecvClosed
  \/ RecvPending
  \/ Timer
  \/ Wake
  \/ DrainDone

Multi(r) == Collect(r) \/ \E i \in DOMAIN legs[r] : Relay(r, i)

HealthStep ==
  SinBinEnvironment /\ UNCHANGED <<chan, closed, mux, slot, tasks, aimd,
                                   req, legs, status, resp>>

Next ==
  \/ \E r \in Req : Caller(r) \/ Multi(r)
  \/ CloseChannel
  \/ \E p \in Provider : WindowElapses(p) \/ FlushTask(p)
  \/ MuxTask
  \/ HealthStep

Spec == Init /\ [][Next]_vars

\* tokio runs every runnable task and fires every timer; the calls of a
\* responsive provider end.  Callers, shutdown and the health clock are free.
Fairness ==
  /\ WF_vars(MuxTask)
  /\ \A r \in Req : WF_vars(Multi(r))
  /\ \A p \in Provider : WF_vars(WindowElapses(p))
  /\ \A p \in Responsive : WF_vars(FlushTask(p))

FairSpec == Spec /\ Fairness

=============================================================================
