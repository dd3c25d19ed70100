--------------------------- MODULE MuxProperties ---------------------------
(***************************************************************************)
(* What module Mux is checked for.  Properties that hold only for requests *)
(* within the providers' limits, or only without provider misbehaviour,    *)
(* are checked by the runs that say so; the README lists them.             *)
(***************************************************************************)
EXTENDS Mux

Callers(ranges) == {ranges[j].caller : j \in DOMAIN ranges}

Holds(p, c) == c \in slot[p].senders
Carries(t, c) == c \in t.senders

-----------------------------------------------------------------------------

\* The results of r's response are embeddings of r's own texts, from providers
\* it named.
OwnResults(r, s, m) ==
  \A p \in DOMAIN m.results :
    /\ p \in {s.providers[i] : i \in DOMAIN s.providers}
    /\ m.results[p] = TextsOf(r, s)

\* handle_flush_outcome cuts a batch by the ranges recorded when its texts were
\* accumulated: whatever was batched together, an embedding that reaches a
\* caller is the one of its own text at that position.
OwnEmbeddings == \A r \in Req : OwnResults(r, req[r], resp[r])

\* Range j of batch b addresses its caller's texts, in their order.
Addressed(b, j, shapes) ==
  LET g == b.ranges[j]
      r == g.caller[1]
  IN /\ g.end = g.start + shapes[r].n /\ g.end <= Len(b.texts)
     /\ \A i \in 1 .. shapes[r].n : b.texts[g.start + i] = <<r, i>>

\* The ranges of a batch tile it: each starts where the one before ends, and
\* the last ends with the batch.
Tiled(b, shapes) ==
  /\ \A j \in DOMAIN b.ranges :
       /\ Addressed(b, j, shapes)
       /\ b.ranges[j].start = IF j = 1 THEN 0 ELSE b.ranges[j - 1].end
  /\ Len(b.texts) = IF b.ranges = <<>> THEN 0 ELSE b.ranges[Len(b.ranges)].end

\* accumulator.rs: texts and caller_ranges describe the same batch, in every
\* slot and in every flush task, through refused and zero-length additions.
RangesTileBatches ==
  /\ \A p \in Provider : Tiled(slot[p], req)
  /\ \A t \in tasks : Tiled(t, req)

\* add_to_slot flushes before a slot would overflow: no provider call carries
\* more texts than the provider takes, and none carries nothing.
BatchesFit ==
  \A t \in tasks : Len(t.texts) \in 1 .. HardMax[t.p]

\* add_to_slot flushes when K is reached: between two steps no slot holds K
\* texts or more, K being the one the slot was made with.
SlotsBelowThreshold ==
  \A p \in Provider : slot[p].texts # <<>> => Len(slot[p].texts) < slot[p].threshold

\* The oneshot sender of a waiting leg is in exactly one place, a slot or a
\* flush task of the leg's provider, and nothing holds a used sender.
SendersHeldOnce ==
  /\ \A p \in Provider : \A c \in slot[p].senders :
       /\ c \in WaitingIds /\ legs[c[1]][c[2]].p = p
       /\ \A q \in Provider \ {p} : c \notin slot[q].senders
       /\ \A t \in tasks : c \notin t.senders
  /\ \A t \in tasks : \A c \in t.senders :
       /\ c \in WaitingIds /\ legs[c[1]][c[2]].p = t.p
       /\ \A u \in tasks \ {t} : c \notin u.senders
  /\ \A c \in WaitingIds :
       (\E p \in Provider : Holds(p, c)) \/ (\E t \in tasks : Carries(t, c))

\* Every sender travels with the texts it waits for, so no slot keeps a caller
\* it would never flush.  Holds for requests within the providers' limits.
NoOrphanSender ==
  /\ \A p \in Provider : slot[p].senders = Callers(slot[p].ranges)
  /\ \A t \in tasks : t.st # "panic" => t.senders = Callers(t.ranges)

\* filter_available falls back to the whole list: a request that is received
\* is attempted somewhere, however many of its providers are sin-binned.
SomeProviderAttempted ==
  \A r \in Req : Received(r) => \E i \in DOMAIN legs[r] : legs[r][i].st # "skipped"

\* collect_multi_provider waits for every relay: an answer accounts for every
\* provider the request was fanned out to, as a result or as a failure.
EveryProviderReported ==
  \A r \in Req : status[r] = "answered" =>
    \A i \in DOMAIN legs[r] : legs[r][i].st # "skipped" =>
      legs[r][i].p \in DOMAIN resp[r].results \cup DOMAIN resp[r].failed

\* policy.rs: "All: every provider in the list must succeed; partial success
\* is a failure".  The handler answers 200 exactly when failed is empty.
AllMeansAll ==
  \A r \in Req :
    status[r] = "answered" /\ req[r].policy = "all" /\ ~Single(r)
      /\ DOMAIN resp[r].failed = {}
    => \A i \in DOMAIN req[r].providers :
         req[r].providers[i] \in DOMAIN resp[r].results

\* No caller is left with a closed oneshot (the handlers' 502 "multiplexer
\* dropped response"), not even one whose request is in flight at shutdown.
NeverDropped == \A r \in Req : status[r] # "dropped"

\* AIMD keeps K within the provider's limit, never takes it down to 0, and a
\* streak is always shorter than the one that lowers K.
KInRange ==
  \A p \in Provider :
    /\ aimd[p].k <= HardMax[p]
    /\ InitialK >= 1 => aimd[p].k >= 1
    /\ StreakThreshold >= 1 => aimd[p].streak < StreakThreshold

\* A oneshot is sent once: what a caller was answered is never added to or
\* replaced, and a settled request stays settled.
AnswersAreFinal ==
  [][\A r \in Req :
       /\ status[r] = "answered" => UNCHANGED <<status[r], resp[r]>>
       /\ status[r] \in {"dropped", "refused", "gone"} => UNCHANGED status[r]]_vars

-----------------------------------------------------------------------------
(* Nobody is forgotten *)

\* The mux task still receives requests and flushes slots.
Receives == mux \notin {"drain", "done", "crashed"}

\* Something there is will settle leg i of r: the fan-out that reaches it, a
\* slot that holds its sender among texts (it has a threshold and a deadline,
\* and a shutdown flushes it), the flush task that carries it, or its relay.
Underway(r, i) ==
  \/ legs[r][i].st = "new" /\ mux = "fan"
  \/ Receives /\ \E p \in Provider :
       Holds(p, <<r, i>>) /\ slot[p].open /\ ~IsEmpty(slot[p])
  \/ mux \notin {"done", "crashed"} /\ \E t \in tasks : Carries(t, <<r, i>>)
  \/ ~Single(r) /\ Settled(legs[r][i])

\* A caller that still waits is queued at a mux task that receives, or one of
\* its legs is under way, or its collector is about to answer: whatever was
\* batched, refused, flushed, panicked or shut down around it, nobody waits for
\* something that nobody will do.  For requests within the providers' limits.
NobodyForgotten ==
  \A r \in Req : status[r] = "pending" =>
    \/ Receives /\ \E j \in DOMAIN chan : chan[j] = r
    \/ ~Single(r) /\ RelaysEnded(r)
    \/ \E i \in DOMAIN legs[r] : Underway(r, i)

\* Where the sender of a waiting leg is: with a task whose provider call has
\* ended, with a flush task, or in a slot whose deadline has passed.
CallEnded(c) == \E t \in tasks : Carries(t, c) /\ Finished(t)
Sent(c)      == \E t \in tasks : Carries(t, c)
Due(c)       == \E p \in Provider : Holds(p, c) /\ slot[p].expired

\* How far leg i of r still has to go.
Stage(r, i) ==
  LET leg == legs[r][i]
      c   == <<r, i>>
  IN CASE leg.st = "new"     -> 6
       [] leg.st = "waiting" -> IF CallEnded(c) THEN 2 ELSE IF Sent(c) THEN 3
                                ELSE IF Due(c) THEN 4 ELSE 5
       [] Settled(leg)       -> 1
       [] OTHER              -> 0

\* A leg only moves on, from its slot to a flush task, to the outcome of that
\* task, to its relay: no flush, panic, crash or shutdown takes it back.  And a
\* batch that is sent to a provider holds legs that were never sent before.
NeverBack ==
  [][/\ \A r \in Req : \A i \in DOMAIN legs[r] : Stage(r, i)' <= Stage(r, i)
     /\ \A t \in tasks' \ tasks : ~Finished(t) =>
          \A c \in t.senders : Stage(c[1], c[2]) >= 4]_vars

\* While the mux task drains, no slot keeps texts and the channel is empty and
\* closed; when it is gone, so are the flush tasks.
ShutdownIsClean ==
  /\ mux \in {"drain", "done", "crashed"} =>
       chan = <<>> /\ \A p \in Provider : slot[p].texts = <<>>
  /\ mux \in {"drain", "done"} => closed
  /\ mux \in {"done", "crashed"} => tasks = {}

\* The ends of provider calls, and the joins, that a shutdown still has to wait
\* for.
WorkLeft == Cardinality(tasks) + Cardinality({t \in tasks : ~Finished(t)})

\* drain_flush_tasks: while the mux task drains, the work that is left only gets
\* less.  With the channel empty and no text in a slot, that is all it waits for.
DrainRunsDown ==
  [][mux = "drain" => tasks' = tasks \/ WorkLeft' < WorkLeft]_vars

-----------------------------------------------------------------------------
(* Progress *)

\* Every accepted request is answered or dropped, whatever it was batched
\* with, and whether the window, the threshold or the shutdown flushed it.
EveryRequestSettles ==
  \A r \in Req : status[r] = "pending" ~> status[r] # "pending"

\* Closing the channel ends the multiplexer: it drains and returns.
ShutdownCompletes == closed ~> mux \in {"done", "crashed"}

-----------------------------------------------------------------------------
(* The multiplexer implements the service its callers see: the response is   *)
(* visible when the oneshot is sent, and not while it is being assembled.    *)

Service == INSTANCE EmbeddingService WITH
  shape <- req, state <- status,
  answer <- [r \in Req |-> IF status[r] = "answered" THEN resp[r] ELSE EmptyResponse]

ImplementsService == Service!ServiceSpec

=============================================================================
