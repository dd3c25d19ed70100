----------------------------- MODULE MuxProofs -----------------------------
(***************************************************************************)
(* Type correctness of the multiplexer, and the safety of its demultiplex- *)
(* ing, for any providers, limits, requests and provider behaviour.        *)
(*                                                                         *)
(* The inductive invariant has four parts: the control state, the channel, *)
(* the batches (in slots and in flush tasks) and the requests.  Batches    *)
(* and requests meet in two facts: a range addresses its caller's texts,   *)
(* and a sender belongs to a leg that exists.                              *)
(***************************************************************************)
EXTENDS MuxProperties, TLAPS, FiniteSetTheorems, SequenceTheorems

-----------------------------------------------------------------------------
(* The AIMD arithmetic, for every limit and every configuration *)

\* A state of the controller that is in range for a provider's limit.
InRange(s, hardMax) ==
  /\ s \in AimdState
  /\ s.k <= hardMax
  /\ InitialK >= 1 => s.k >= 1
  /\ StreakThreshold >= 1 => s.streak < StreakThreshold

\* get_or_create clamps the configured K to the provider's limit.
LEMMA InitialInRange ==
  ASSUME NEW hardMax \in Nat \ {0}
  PROVE  InRange(InitialAimd(InitialK, hardMax), hardMax)
BY MuxAssumption DEF InRange, InitialAimd, MinOf, AimdState

\* record_success lowers K by at most one and never below 1.
LEMMA SuccessInRange ==
  ASSUME NEW hardMax \in Nat \ {0}, NEW s, InRange(s, hardMax)
  PROVE  InRange(RecordSuccess(s, StreakThreshold), hardMax)
BY MuxAssumption DEF InRange, RecordSuccess, AimdState

\* record_terminal_429 doubles K and stops at the limit.
LEMMA RateLimitInRange ==
  ASSUME NEW hardMax \in Nat \ {0}, NEW s, InRange(s, hardMax)
  PROVE  InRange(RecordTerminal429(s, hardMax), hardMax)
BY MuxAssumption DEF InRange, RecordTerminal429, MinOf, AimdState

-----------------------------------------------------------------------------
(* The inductive invariant *)

Control ==
  /\ closed \in BOOLEAN
  /\ mux \in {"join", "recv", "timer", "fan", "drain", "done", "crashed"}
  /\ aimd \in [Provider -> AimdState]
  /\ \A p \in Provider : InRange(aimd[p], HardMax[p])
  /\ SinBinTypeOK

\* What is queued was sent.
Channel ==
  /\ chan \in Seq(Req)
  /\ \A j \in 1 .. Len(chan) : status[chan[j]] # "idle"

\* Batch b is tiled by the ranges of requests that were sent, and its senders
\* belong to legs that exist.
BatchOK(b, shapes, statuses, allLegs) ==
  /\ Tiled(b, shapes)
  /\ \A j \in DOMAIN b.ranges : statuses[b.ranges[j].caller[1]] # "idle"
  /\ \A c \in b.senders : c[2] \in DOMAIN allLegs[c[1]]

Batches ==
  /\ slot \in [Provider -> SlotState]
  /\ tasks \subseteq TaskState
  /\ IsFiniteSet(tasks)
  /\ \A p \in Provider : BatchOK(slot[p], req, status, legs)
  /\ \A t \in tasks : BatchOK(t, req, status, legs)

\* The legs of a request name its providers, one leg per entry of its list,
\* and a leg that succeeded holds the embeddings of the request's own texts.
LegsOK(r, s, ls) ==
  /\ ls # <<>> => Len(ls) = Len(s.providers)
  /\ \A i \in 1 .. Len(ls) :
       /\ ls[i].p \in {s.providers[k] : k \in DOMAIN s.providers}
       /\ ls[i].st = "ok" => ls[i].embs = TextsOf(r, s)

RequestOK(r, s, ls, st, m) ==
  /\ IsResponse(m)
  /\ LegsOK(r, s, ls)
  /\ OwnResults(r, s, m)
  /\ st = "idle" => ls = <<>> /\ m = EmptyResponse

Requests ==
  /\ req \in [Req -> Shape]
  /\ legs \in [Req -> Seq(LegState)]
  /\ status \in [Req -> Statuses]
  /\ DOMAIN resp = Req
  /\ \A r \in Req : RequestOK(r, req[r], legs[r], status[r], resp[r])

IInv == Control /\ Channel /\ Batches /\ Requests

-----------------------------------------------------------------------------
(* Facts about the operators *)

\* The texts of a request are a sequence of texts.
LEMMA TextsType ==
  ASSUME NEW r \in Req, NEW s \in Shape
  PROVE  /\ TextsOf(r, s) \in Seq(Text)
         /\ Len(TextsOf(r, s)) = s.n
         /\ \A i \in 1 .. s.n : TextsOf(r, s)[i] = <<r, i>>
<1>1. s.n \in Nat
  BY DEF Shape
<1>2. \A i \in 1 .. s.n : <<r, i>> \in Text
  BY <1>1 DEF Text
<1> QED
  BY <1>1, <1>2 DEF TextsOf

\* The fields of a caller range.
LEMMA RangeType ==
  ASSUME NEW ranges \in Seq(CallerRange), NEW j \in DOMAIN ranges
  PROVE  /\ j \in 1 .. Len(ranges) /\ ranges[j] \in CallerRange
         /\ ranges[j].caller \in CallerId
         /\ ranges[j].caller[1] \in Req /\ ranges[j].caller[2] \in Nat \ {0}
         /\ ranges[j].start \in Nat /\ ranges[j].end \in Nat
<1>1. j \in 1 .. Len(ranges)
  BY LenProperties
<1>2. ranges[j] \in CallerRange
  BY <1>1, ElementOfSeq
<1>3. ranges[j].caller \in CallerId /\ ranges[j].start \in Nat /\ ranges[j].end \in Nat
  BY <1>2 DEF CallerRange
<1> QED
  BY <1>1, <1>2, <1>3 DEF CallerId

\* A batch that is fine stays fine while requests that were sent keep their
\* shape and their legs.
LEMMA BatchKept ==
  ASSUME NEW b, b.ranges \in Seq(CallerRange), b.senders \subseteq CallerId,
         NEW shapes, NEW statuses, NEW allLegs, BatchOK(b, shapes, statuses, allLegs),
         NEW shapes2, NEW statuses2, NEW allLegs2,
         \A r \in Req : statuses[r] # "idle" =>
           statuses2[r] # "idle" /\ shapes2[r] = shapes[r],
         \A r \in Req : \A i \in DOMAIN allLegs[r] : i \in DOMAIN allLegs2[r]
  PROVE  BatchOK(b, shapes2, statuses2, allLegs2)
<1>1. \A j \in DOMAIN b.ranges : b.ranges[j].caller[1] \in Req
  BY RangeType
<1>2. \A j \in DOMAIN b.ranges :
        /\ statuses2[b.ranges[j].caller[1]] # "idle"
        /\ shapes2[b.ranges[j].caller[1]] = shapes[b.ranges[j].caller[1]]
  BY <1>1 DEF BatchOK
<1>3. Tiled(b, shapes2)
  BY <1>2 DEF BatchOK, Tiled, Addressed
<1>4. \A c \in b.senders : c[2] \in DOMAIN allLegs2[c[1]]
  BY DEF BatchOK, CallerId
<1> QED
  BY <1>2, <1>3, <1>4 DEF BatchOK

\* The part of a batch its range addresses is its caller's texts.
LEMMA SliceIsOwn ==
  ASSUME NEW t \in TaskState, NEW shapes \in [Req -> Shape], Tiled(t, shapes),
         NEW j \in DOMAIN t.ranges
  PROVE  Slice(t, t.ranges[j]) = TextsOf(t.ranges[j].caller[1],
                                         shapes[t.ranges[j].caller[1]])
<1> DEFINE g == t.ranges[j]
           r == g.caller[1]
           n == shapes[r].n
<1>1. /\ g \in CallerRange /\ t.texts \in Seq(Text)
      /\ g.start \in Nat /\ g.end \in Nat /\ r \in Req
  <2>1. t.texts \in Seq(Text) /\ t.ranges \in Seq(CallerRange)
    BY DEF TaskState
  <2> QED
    BY <2>1, RangeType
<1>2. n \in Nat /\ shapes[r] \in Shape
  BY <1>1 DEF Shape
<1>3. /\ g.end = g.start + n /\ g.end <= Len(t.texts)
      /\ \A i \in 1 .. n : t.texts[g.start + i] = <<r, i>>
  BY DEF Tiled, Addressed
<1> DEFINE sub == SubSeq(t.texts, g.start + 1, g.end)
<1>4. \A k \in g.start + 1 .. g.end : t.texts[k] \in Text
  <2> SUFFICES ASSUME NEW k \in g.start + 1 .. g.end PROVE t.texts[k] \in Text
    OBVIOUS
  <2> HIDE DEF g
  <2>1. k \in 1 .. Len(t.texts)
    <3>1. Len(t.texts) \in Nat
      BY <1>1, LenProperties
    <3> QED
      BY <1>1, <1>3, <3>1
  <2> QED
    BY <1>1, <2>1, ElementOfSeq
<1>5. /\ sub \in Seq(Text) /\ Len(sub) = n
      /\ \A i \in 1 .. n : sub[i] = t.texts[g.start + i]
  <2>1. g.start + 1 \in Int /\ g.end \in Int
    BY <1>1
  <2> HIDE DEF g
  <2>2. /\ sub \in Seq(Text)
        /\ Len(sub) = IF g.start + 1 <= g.end THEN g.end - (g.start + 1) + 1 ELSE 0
        /\ \A i \in 1 .. g.end - (g.start + 1) + 1 :
             sub[i] = t.texts[g.start + 1 + i - 1]
    BY <1>4, <2>1, SubSeqProperties
  <2> HIDE DEF n, sub
  <2>3. Len(sub) = n
    BY <1>1, <1>2, <1>3, <2>2
  <2>4. ASSUME NEW i \in 1 .. n PROVE sub[i] = t.texts[g.start + i]
    <3>1. i \in 1 .. g.end - (g.start + 1) + 1
      BY <1>1, <1>2, <1>3
    <3>2. g.start + 1 + i - 1 = g.start + i
      BY <1>1, <1>2
    <3> QED
      BY <2>2, <3>1, <3>2
  <2> QED
    BY <2>2, <2>3, <2>4
<1>6. /\ TextsOf(r, shapes[r]) \in Seq(Text)
      /\ Len(TextsOf(r, shapes[r])) = n
      /\ \A i \in 1 .. n : TextsOf(r, shapes[r])[i] = <<r, i>>
  BY <1>1, <1>2, TextsType
<1>7. \A i \in 1 .. Len(sub) : sub[i] = TextsOf(r, shapes[r])[i]
  BY <1>3, <1>5, <1>6
<1>8. sub = TextsOf(r, shapes[r])
  BY <1>5, <1>6, <1>7, SeqEqual
<1> QED
  BY <1>8 DEF Slice


-----------------------------------------------------------------------------
(* Batches: what add_to_slot and flush_slot do to them *)

\* Requests that were sent stay sent, with the shape they had.
StartedKept ==
  \A r \in Req : status[r] # "idle" => status'[r] # "idle" /\ req'[r] = req[r]

LegsKept == \A r \in Req : \A i \in DOMAIN legs[r] : i \in DOMAIN legs'[r]

\* The fields of slots and tasks that batches are made of.
LEMMA BatchFields ==
  ASSUME NEW b, b \in SlotState \/ b \in TaskState
  PROVE  /\ b.texts \in Seq(Text) /\ b.ranges \in Seq(CallerRange)
         /\ b.senders \subseteq CallerId
<1>1. CASE b \in SlotState
  BY <1>1 DEF SlotState
<1>2. CASE b \in TaskState
  BY <1>2 DEF TaskState
<1> QED
  BY <1>1, <1>2

\* Every batch there is stays fine in a step that keeps requests and legs.
LEMMA BatchesKept ==
  ASSUME Batches, StartedKept, LegsKept
  PROVE  /\ \A p \in Provider : BatchOK(slot[p], req', status', legs')
         /\ \A t \in tasks : BatchOK(t, req', status', legs')
<1>1. ASSUME NEW p \in Provider PROVE BatchOK(slot[p], req', status', legs')
  <2>1. slot[p] \in SlotState /\ BatchOK(slot[p], req, status, legs)
    BY DEF Batches
  <2>2. slot[p].ranges \in Seq(CallerRange) /\ slot[p].senders \subseteq CallerId
    BY <2>1, BatchFields
  <2> QED
    BY <2>1, <2>2, BatchKept DEF StartedKept, LegsKept
<1>2. ASSUME NEW t \in tasks PROVE BatchOK(t, req', status', legs')
  <2>1. t \in TaskState /\ BatchOK(t, req, status, legs)
    BY DEF Batches
  <2>2. t.ranges \in Seq(CallerRange) /\ t.senders \subseteq CallerId
    BY <2>1, BatchFields
  <2> QED
    BY <2>1, <2>2, BatchKept DEF StartedKept, LegsKept
<1> QED
  BY <1>1, <1>2

\* An empty batch is fine.
LEMMA EmptyBatchOK ==
  ASSUME NEW b, b.texts = <<>>, b.ranges = <<>>, b.senders = {},
         NEW shapes, NEW statuses, NEW allLegs
  PROVE  BatchOK(b, shapes, statuses, allLegs)
BY DEF BatchOK, Tiled, Addressed

\* What a batch is fine by is its texts, its ranges and its senders.
LEMMA SameBatchOK ==
  ASSUME NEW b, NEW c, c.texts = b.texts, c.ranges = b.ranges, c.senders = b.senders,
         NEW shapes, NEW statuses, NEW allLegs, BatchOK(b, shapes, statuses, allLegs)
  PROVE  BatchOK(c, shapes, statuses, allLegs)
BY DEF BatchOK, Tiled, Addressed

LEMMA NoSlotOK ==
  /\ NoSlot \in SlotState
  /\ \A shapes, statuses, allLegs : BatchOK(NoSlot, shapes, statuses, allLegs)
<1>1. NoSlot \in SlotState
  BY DEF NoSlot, SlotState
<1>2. NoSlot.texts = <<>> /\ NoSlot.ranges = <<>> /\ NoSlot.senders = {}
  BY DEF NoSlot
<1> QED
  BY <1>1, <1>2, EmptyBatchOK

\* flush_slot moves a batch as it is.
LEMMA TaskOfOK ==
  ASSUME NEW p \in Provider, NEW s \in SlotState
  PROVE  /\ TaskOf(p, s) \in TaskState
         /\ TaskOf(p, s).p = p
         /\ \A shapes, statuses, allLegs :
              BatchOK(s, shapes, statuses, allLegs) =>
                BatchOK(TaskOf(p, s), shapes, statuses, allLegs)
<1>1. TaskOf(p, s) \in TaskState
  BY DEF TaskOf, TaskState, SlotState
<1>2. /\ TaskOf(p, s).texts = s.texts /\ TaskOf(p, s).ranges = s.ranges
      /\ TaskOf(p, s).senders = s.senders /\ TaskOf(p, s).p = p
  BY DEF TaskOf
<1> QED
  BY <1>1, <1>2 DEF BatchOK, Tiled, Addressed

\* Positions of a range that ends within a batch stay within a longer batch.
LEMMA WithinBatch ==
  ASSUME NEW start \in Nat, NEW end \in Nat, NEW count \in Nat, NEW old \in Nat,
         NEW more \in Nat, end = start + count, end <= old, NEW k \in 1 .. count
  PROVE  start + k \in 1 .. old + more /\ start + k <= old
OBVIOUS

\* add_caller appends a range that addresses the new texts and disturbs none.
LEMMA ExtendTiled ==
  ASSUME NEW s \in SlotState, NEW shapes \in [Req -> Shape], Tiled(s, shapes),
         NEW r \in Req, NEW i \in Nat \ {0}
  PROVE  /\ Extend(s, <<r, i>>, TextsOf(r, shapes[r])) \in SlotState
         /\ Tiled(Extend(s, <<r, i>>, TextsOf(r, shapes[r])), shapes)
         /\ Extend(s, <<r, i>>, TextsOf(r, shapes[r])).senders = s.senders
         /\ \A j \in DOMAIN Extend(s, <<r, i>>, TextsOf(r, shapes[r])).ranges :
              \/ j \in DOMAIN s.ranges
                 /\ Extend(s, <<r, i>>, TextsOf(r, shapes[r])).ranges[j] = s.ranges[j]
              \/ Extend(s, <<r, i>>, TextsOf(r, shapes[r])).ranges[j].caller = <<r, i>>
<1> DEFINE new == TextsOf(r, shapes[r])
           n == shapes[r].n
           old == Len(s.texts)
           g == [caller |-> <<r, i>>, start |-> old, end |-> old + Len(new)]
           e == Extend(s, <<r, i>>, new)
           m == Len(s.ranges)
<1>1. /\ s.texts \in Seq(Text) /\ s.ranges \in Seq(CallerRange)
      /\ old \in Nat /\ m \in Nat /\ DOMAIN s.ranges = 1 .. m
  BY BatchFields, LenProperties
<1>2. /\ new \in Seq(Text) /\ Len(new) = n /\ n \in Nat
      /\ \A k \in 1 .. n : new[k] = <<r, k>>
  BY TextsType DEF Shape
<1>3. g \in CallerRange /\ g.caller = <<r, i>> /\ g.start = old /\ g.end = old + n
  BY <1>1, <1>2 DEF CallerRange, CallerId
<1>4. /\ e.texts = s.texts \o new /\ e.ranges = Append(s.ranges, g)
      /\ e.senders = s.senders /\ e.open = s.open
      /\ e.threshold = s.threshold /\ e.expired = s.expired
  BY DEF Extend, SlotState
<1> HIDE DEF new, g
<1>5. /\ s.texts \o new \in Seq(Text)
      /\ Len(s.texts \o new) = old + n
      /\ \A k \in 1 .. old + n :
           (s.texts \o new)[k] = IF k <= old THEN s.texts[k] ELSE new[k - old]
  <2>1. /\ s.texts \o new \in Seq(Text)
        /\ Len(s.texts \o new) = old + Len(new)
        /\ \A k \in 1 .. old + Len(new) :
             (s.texts \o new)[k] = IF k <= old THEN s.texts[k] ELSE new[k - old]
    BY <1>1, <1>2, ConcatProperties
  <2> QED
    BY <1>2, <2>1
<1>6. /\ Append(s.ranges, g) \in Seq(CallerRange)
      /\ Len(Append(s.ranges, g)) = m + 1
      /\ DOMAIN Append(s.ranges, g) = 1 .. m + 1
      /\ \A j \in 1 .. m : Append(s.ranges, g)[j] = s.ranges[j]
      /\ Append(s.ranges, g)[m + 1] = g
      /\ Append(s.ranges, g) # <<>>
  BY <1>1, <1>3, AppendProperties
<1>7. e \in SlotState
  BY <1>4, <1>5, <1>6 DEF Extend, SlotState
<1> HIDE DEF e
<1>8. ASSUME NEW j \in 1 .. m
      PROVE  /\ Addressed(e, j, shapes)
             /\ e.ranges[j].start = IF j = 1 THEN 0 ELSE e.ranges[j - 1].end
  <2> DEFINE h == s.ranges[j]
             q == h.caller[1]
  <2>1. h.start \in Nat /\ h.end \in Nat /\ q \in Req
    BY <1>1, RangeType
  <2>2. /\ h.end = h.start + shapes[q].n /\ h.end <= old
        /\ \A k \in 1 .. shapes[q].n : s.texts[h.start + k] = <<q, k>>
        /\ h.start = IF j = 1 THEN 0 ELSE s.ranges[j - 1].end
    BY <1>1 DEF Tiled, Addressed
  <2>3. shapes[q].n \in Nat
    BY <2>1 DEF Shape
  <2>4. e.ranges[j] = h /\ (j # 1 => e.ranges[j - 1] = s.ranges[j - 1])
    BY <1>1, <1>4, <1>6
  <2> HIDE DEF h
  <2>5. \A k \in 1 .. shapes[q].n : e.texts[h.start + k] = <<q, k>>
    <3> SUFFICES ASSUME NEW k \in 1 .. shapes[q].n
                 PROVE  e.texts[h.start + k] = <<q, k>>
      OBVIOUS
    <3>1. h.start + k \in 1 .. old + n /\ h.start + k <= old
      <4> DEFINE count == shapes[q].n
      <4>1. /\ h.start \in Nat /\ h.end \in Nat /\ count \in Nat
            /\ old \in Nat /\ n \in Nat
        BY <1>1, <1>2, <2>1, <2>3
      <4>2. h.end = h.start + count /\ h.end <= old /\ k \in 1 .. count
        BY <2>2
      <4> HIDE DEF q, old, n, count
      <4> QED
        BY <4>1, <4>2, WithinBatch
    <3>2. (s.texts \o new)[h.start + k] = s.texts[h.start + k]
      BY <1>5, <3>1
    <3> QED
      BY <1>4, <2>2, <3>2
  <2>6. h.end <= Len(e.texts)
    BY <1>1, <1>2, <1>4, <1>5, <2>1, <2>2
  <2> QED
    BY <2>2, <2>4, <2>5, <2>6 DEF Addressed
<1>9. /\ Addressed(e, m + 1, shapes)
      /\ e.ranges[m + 1].start = IF m + 1 = 1 THEN 0 ELSE e.ranges[m + 1 - 1].end
  <2>1. e.ranges[m + 1] = g
    BY <1>4, <1>6
  <2>2. \A k \in 1 .. n : e.texts[old + k] = <<r, k>>
    <3> SUFFICES ASSUME NEW k \in 1 .. n PROVE e.texts[old + k] = <<r, k>>
      OBVIOUS
    <3>1. old + k \in 1 .. old + n /\ ~(old + k <= old) /\ (old + k) - old = k
      BY <1>1, <1>2
    <3> QED
      BY <1>2, <1>4, <1>5, <3>1
  <2>3. old = IF s.ranges = <<>> THEN 0 ELSE s.ranges[m].end
    BY DEF Tiled
  <2>4. m # 0 => s.ranges # <<>> /\ m \in 1 .. m /\ e.ranges[m] = s.ranges[m]
    BY <1>1, <1>4, <1>6, EmptySeq
  <2>5. m = 0 => s.ranges = <<>>
    BY <1>1, EmptySeq
  <2>6. e.ranges[m + 1].start = IF m + 1 = 1 THEN 0 ELSE e.ranges[m + 1 - 1].end
    BY <1>1, <1>3, <2>1, <2>3, <2>4, <2>5
  <2>7. g.caller[1] = r /\ g.end = g.start + n /\ g.end <= Len(e.texts) /\ g.start = old
    BY <1>1, <1>2, <1>3, <1>4, <1>5
  <2> QED
    BY <2>1, <2>2, <2>6, <2>7 DEF Addressed
<1>10. Len(e.texts) = IF e.ranges = <<>> THEN 0 ELSE e.ranges[Len(e.ranges)].end
  BY <1>3, <1>4, <1>5, <1>6
<1>11. Tiled(e, shapes)
  <2>1. \A j \in 1 .. m + 1 : j \in 1 .. m \/ j = m + 1
    BY <1>1
  <2>2. DOMAIN e.ranges = 1 .. m + 1
    BY <1>4, <1>6
  <2>3. \A j \in DOMAIN e.ranges :
          /\ Addressed(e, j, shapes)
          /\ e.ranges[j].start = IF j = 1 THEN 0 ELSE e.ranges[j - 1].end
    BY <1>8, <1>9, <2>1, <2>2
  <2> QED
    BY <1>10, <2>3 DEF Tiled
<1>12. \A j \in DOMAIN e.ranges :
         \/ j \in DOMAIN s.ranges /\ e.ranges[j] = s.ranges[j]
         \/ e.ranges[j].caller = <<r, i>>
  <2>1. \A j \in 1 .. m + 1 : j \in 1 .. m \/ j = m + 1
    BY <1>1
  <2> QED
    BY <1>1, <1>3, <1>4, <1>6, <2>1
<1> QED
  BY <1>4, <1>7, <1>11, <1>12 DEF new, e

\* add_to_slot leaves a fine slot: the sender is new, its texts are there or not.
LEMMA AddCallerOK ==
  ASSUME NEW p \in Provider, NEW s \in SlotState, NEW shapes \in [Req -> Shape],
         NEW statuses, NEW allLegs, BatchOK(s, shapes, statuses, allLegs),
         NEW r \in Req, NEW i \in Nat \ {0}, statuses[r] # "idle",
         i \in DOMAIN allLegs[r]
  PROVE  LET new == AddCaller(p, s, <<r, i>>, TextsOf(r, shapes[r]))
         IN new \in SlotState /\ BatchOK(new, shapes, statuses, allLegs)
<1> DEFINE texts == TextsOf(r, shapes[r])
           t == [s EXCEPT !.senders = @ \cup {<<r, i>>}]
           new == AddCaller(p, s, <<r, i>>, texts)
<1>1. /\ t \in SlotState /\ t.texts = s.texts /\ t.ranges = s.ranges
      /\ t.senders = s.senders \cup {<<r, i>>}
  BY DEF SlotState, CallerId
<1>2. BatchOK(t, shapes, statuses, allLegs)
  BY <1>1 DEF BatchOK, Tiled, Addressed
<1>3. CASE new = t
  BY <1>1, <1>2, <1>3
<1>4. CASE new = Extend(t, <<r, i>>, texts)
  <2>1. Tiled(t, shapes)
    BY <1>2 DEF BatchOK
  <2>2. /\ new \in SlotState /\ Tiled(new, shapes) /\ new.senders = t.senders
        /\ \A j \in DOMAIN new.ranges :
             \/ j \in DOMAIN t.ranges /\ new.ranges[j] = t.ranges[j]
             \/ new.ranges[j].caller = <<r, i>>
    <3> DEFINE e == Extend(t, <<r, i>>, TextsOf(r, shapes[r]))
    <3>1. t \in SlotState
      BY <1>1
    <3> HIDE DEF t
    <3>2. /\ e \in SlotState /\ Tiled(e, shapes) /\ e.senders = t.senders
          /\ \A j \in DOMAIN e.ranges :
               \/ j \in DOMAIN t.ranges /\ e.ranges[j] = t.ranges[j]
               \/ e.ranges[j].caller = <<r, i>>
      BY <2>1, <3>1, ExtendTiled
    <3>3. new = e
      BY <1>4
    <3> HIDE DEF new, e
    <3> QED
      BY <3>2, <3>3
  <2>3. \A j \in DOMAIN new.ranges : statuses[new.ranges[j].caller[1]] # "idle"
    BY <1>2, <2>2 DEF BatchOK
  <2>4. \A c \in new.senders : c[2] \in DOMAIN allLegs[c[1]]
    BY <1>2, <2>2 DEF BatchOK
  <2> QED
    BY <2>2, <2>3, <2>4 DEF BatchOK
<1>5. new = t \/ new = Extend(t, <<r, i>>, texts)
  BY DEF AddCaller
<1> QED
  BY <1>3, <1>4, <1>5

-----------------------------------------------------------------------------
(* Requests: what an outcome does to them *)

\* What a sender may carry for caller c.
OutOK(c, o) ==
  /\ o \in [st : {"ok", "rate_limited", "other", "dropped"}, embs : Seq(Text)]
  /\ o.st = "ok" => o.embs = Texts(c[1])

LEMMA DroppedOK == \A c : OutOK(c, Dropped)
BY DEF OutOK, Dropped

\* A partial response that holds the caller's own embeddings is merged.
LEMMA MergeOK ==
  ASSUME NEW r \in Req, NEW s, NEW m, IsResponse(m), OwnResults(r, s, m),
         NEW p \in Provider, p \in {s.providers[k] : k \in DOMAIN s.providers},
         NEW out, out.st = "ok" => out.embs \in Seq(Text) /\ out.embs = TextsOf(r, s)
  PROVE  IsResponse(Merge(m, p, out)) /\ OwnResults(r, s, Merge(m, p, out))
<1>1. CASE out.st = "ok"
  <2> DEFINE results == Put(m.results, p, out.embs)
  <2>1. Merge(m, p, out) = [results |-> results, failed |-> m.failed]
    BY <1>1 DEF Merge, IsResponse
  <2>2. /\ DOMAIN results = DOMAIN m.results \cup {p}
        /\ \A q \in DOMAIN results :
             results[q] = IF q = p THEN out.embs ELSE m.results[q]
    BY DEF Put
  <2> HIDE DEF results
  <2>3. IsPartialMap(results, Provider, Seq(Text))
    BY <1>1, <2>2 DEF IsResponse, IsPartialMap
  <2>4. OwnResults(r, s, Merge(m, p, out))
    BY <1>1, <2>1, <2>2 DEF OwnResults
  <2> QED
    BY <2>1, <2>3, <2>4 DEF IsResponse
<1>2. CASE out.st \in {"rate_limited", "other"}
  <2> DEFINE failed == Put(m.failed, p, out.st)
  <2>1. Merge(m, p, out) = [results |-> m.results, failed |-> failed]
    BY <1>2 DEF Merge, IsResponse
  <2>2. /\ DOMAIN failed = DOMAIN m.failed \cup {p}
        /\ \A q \in DOMAIN failed :
             failed[q] = IF q = p THEN out.st ELSE m.failed[q]
    BY DEF Put
  <2> HIDE DEF failed
  <2>3. IsPartialMap(failed, Provider, {"rate_limited", "other"})
    BY <1>2, <2>2 DEF IsResponse, IsPartialMap
  <2> QED
    BY <2>1, <2>3 DEF IsResponse, OwnResults
<1>3. CASE out.st \notin {"ok", "rate_limited", "other"}
  BY <1>3 DEF Merge
<1> QED
  BY <1>1, <1>2, <1>3

\* Every request is as it should be after its senders were used or dropped.
LEMMA SettleOK ==
  ASSUME Requests, NEW STATE out, NEW STATE lost, UNCHANGED req,
         \A c \in DOMAIN out : OutOK(c, out[c]),
         \A c \in DOMAIN out : c[2] \in DOMAIN legs[c[1]],
         Settle(out, lost)
  PROVE  Requests' /\ StartedKept /\ LegsKept
<1> DEFINE leg(r, i) == IF <<r, i>> \in DOMAIN out
                        THEN [legs[r][i] EXCEPT !.st = out[<<r, i>>].st,
                                                !.embs = out[<<r, i>>].embs]
                        ELSE legs[r][i]
           direct(r) == Single(r) /\ status[r] = "pending" /\ <<r, 1>> \in DOMAIN out
<1>1. legs' = [r \in Req |-> [i \in DOMAIN legs[r] |-> leg(r, i)]]
  BY DEF Settle
<1>2. resp' = [r \in Req |-> IF direct(r)
                              THEN Merge(resp[r], legs[r][1].p, out[<<r, 1>>])
                              ELSE resp[r]]
  BY DEF Settle
<1>3. status' = [r \in Req |->
                   IF direct(r)
                   THEN IF out[<<r, 1>>].st = "dropped" THEN "dropped"
                                                        ELSE "answered"
                   ELSE IF r \in lost /\ status[r] = "pending" THEN "dropped"
                   ELSE status[r]]
  BY DEF Settle
<1>4. status' \in [Req -> Statuses]
      /\ \A r \in Req : status[r] # "idle" <=> status'[r] # "idle"
  BY <1>3 DEF Requests, Statuses
<1>5. ASSUME NEW r \in Req
      PROVE  /\ legs[r] \in Seq(LegState) /\ Len(legs[r]) \in Nat
             /\ DOMAIN legs[r] = 1 .. Len(legs[r])
             /\ \A i \in 1 .. Len(legs[r]) : legs[r][i] \in LegState
             /\ req[r] \in Shape /\ RequestOK(r, req[r], legs[r], status[r], resp[r])
  BY LenProperties DEF Requests
<1>6. ASSUME NEW r \in Req, NEW i \in 1 .. Len(legs[r])
      PROVE  /\ leg(r, i) \in LegState
             /\ leg(r, i).p = legs[r][i].p
             /\ leg(r, i).st = "ok" => leg(r, i).embs = TextsOf(r, req[r])
  <2>1. legs[r][i] \in LegState /\ LegsOK(r, req[r], legs[r])
    BY <1>5 DEF RequestOK
  <2>2. CASE <<r, i>> \in DOMAIN out
    <3>1. OutOK(<<r, i>>, out[<<r, i>>])
      BY <2>2
    <3>2. /\ leg(r, i) \in LegState /\ leg(r, i).p = legs[r][i].p
          /\ leg(r, i).st = out[<<r, i>>].st /\ leg(r, i).embs = out[<<r, i>>].embs
      BY <2>1, <2>2, <3>1 DEF OutOK, LegState
    <3> QED
      BY <3>1, <3>2 DEF OutOK, Texts
  <2>3. CASE <<r, i>> \notin DOMAIN out
    BY <2>1, <2>3 DEF LegsOK
  <2> QED
    BY <2>2, <2>3
<1> HIDE DEF leg
<1>7. ASSUME NEW r \in Req
      PROVE  /\ legs'[r] \in Seq(LegState) /\ Len(legs'[r]) = Len(legs[r])
             /\ DOMAIN legs'[r] = DOMAIN legs[r]
             /\ \A i \in 1 .. Len(legs[r]) : legs'[r][i] = leg(r, i)
  <2>1. legs'[r] = [i \in 1 .. Len(legs[r]) |-> leg(r, i)]
    BY <1>1, <1>5
  <2> QED
    BY <1>5, <1>6, <2>1
<1>8. ASSUME NEW r \in Req
      PROVE  RequestOK(r, req[r], legs'[r], status'[r], resp'[r])
  <2>1. LegsOK(r, req[r], legs'[r])
    <3>1. LegsOK(r, req[r], legs[r])
      BY <1>5 DEF RequestOK
    <3>2. legs'[r] # <<>> => legs[r] # <<>>
      BY <1>5, <1>7, EmptySeq
    <3> QED
      BY <1>5, <1>6, <1>7, <3>1, <3>2 DEF LegsOK
  <2>2. CASE direct(r)
    <3>1. 1 \in 1 .. Len(legs[r])
      BY <1>5, <2>2
    <3>2. /\ legs[r][1].p \in Provider
          /\ legs[r][1].p \in {req[r].providers[k] : k \in DOMAIN req[r].providers}
      BY <1>5, <3>1 DEF RequestOK, LegsOK, LegState
    <3>3. OutOK(<<r, 1>>, out[<<r, 1>>])
      BY <2>2
    <3>4. resp'[r] = Merge(resp[r], legs[r][1].p, out[<<r, 1>>])
      BY <1>2, <2>2
    <3>5. IsResponse(resp[r]) /\ OwnResults(r, req[r], resp[r])
      BY <1>5 DEF RequestOK
    <3>6. IsResponse(resp'[r]) /\ OwnResults(r, req[r], resp'[r])
      BY <3>2, <3>3, <3>4, <3>5, MergeOK DEF OutOK, Texts
    <3> QED
      BY <1>4, <2>1, <2>2, <3>6 DEF RequestOK
  <2>3. CASE ~direct(r)
    <3>1. resp'[r] = resp[r]
      BY <1>2, <2>3
    <3>2. status'[r] = "idle" => legs'[r] = <<>>
      BY <1>4, <1>5, <1>7, EmptySeq DEF RequestOK
    <3> QED
      BY <1>4, <1>5, <2>1, <3>1, <3>2 DEF RequestOK
  <2> QED
    BY <2>2, <2>3
<1>9. legs' \in [Req -> Seq(LegState)]
  BY <1>1, <1>7
<1>10. Requests'
  BY <1>2, <1>4, <1>8, <1>9 DEF Requests
<1>11. StartedKept /\ LegsKept
  BY <1>4, <1>7 DEF StartedKept, LegsKept
<1> QED
  BY <1>10, <1>11

\* What handle_flush_outcome sends to a caller is its own part of the batch.
LEMMA OutcomeOK ==
  ASSUME Requests, NEW t \in TaskState, BatchOK(t, req, status, legs),
         t.st \in {"ok", "rate_limited", "other"}, NEW c
  PROVE  OutOK(c, OutcomeFor(t, c))
<1> DEFINE mine == {g \in {t.ranges[j] : j \in DOMAIN t.ranges} : g.caller = c}
           g == CHOOSE g \in mine : TRUE
           o == OutcomeFor(t, c)
<1>1. CASE mine = {} \/ (t.st = "ok" /\ g.end > t.got)
  BY <1>1, DroppedOK DEF OutcomeFor
<1>2. CASE ~(mine = {} \/ (t.st = "ok" /\ g.end > t.got))
  <2>1. g \in mine
    BY <1>2
  <2>2. PICK j \in DOMAIN t.ranges : g = t.ranges[j]
    BY <2>1
  <2>3. g.caller = c
    BY <2>1
  <2>4. o = [st |-> t.st, embs |-> IF t.st = "ok" THEN Slice(t, g) ELSE <<>>]
    BY <1>2 DEF OutcomeFor
  <2> HIDE DEF g, o
  <2>5. t.ranges \in Seq(CallerRange) /\ Tiled(t, req) /\ req \in [Req -> Shape]
    BY DEF TaskState, BatchOK, Requests
  <2>6. Slice(t, g) = Texts(c[1])
    BY <2>2, <2>3, <2>5, SliceIsOwn DEF Texts
  <2>7. c[1] \in Req
    BY <2>2, <2>3, <2>5, RangeType
  <2>8. Texts(c[1]) \in Seq(Text)
    BY <2>5, <2>7, TextsType DEF Texts
  <2> QED
    BY <2>4, <2>6, <2>8 DEF OutOK, o
<1> QED
  BY <1>1, <1>2

\* What a step that leaves every request alone preserves.
LEMMA RequestsKept ==
  ASSUME Requests, UNCHANGED <<req, legs, status, resp>>
  PROVE  Requests' /\ StartedKept /\ LegsKept
BY DEF Requests, StartedKept, LegsKept

\* flush_slot on any set of providers: their batches become flush tasks.
LEMMA FlushSlotsOK ==
  ASSUME Batches, Requests, NEW ps, ps \subseteq Provider, FlushSlots(ps),
         UNCHANGED <<req, status, legs>>
  PROVE  Batches'
<1> DEFINE flushed == {p \in ps : slot[p].open /\ ~IsEmpty(slot[p])}
           new == {TaskOf(p, slot[p]) : p \in flushed}
<1>1. tasks' = tasks \cup new
      /\ slot' = [p \in Provider |-> IF p \in flushed THEN NoSlot ELSE slot[p]]
  BY DEF FlushSlots
<1>2. flushed \subseteq Provider
  OBVIOUS
<1>3. IsFiniteSet(new)
  <2> DEFINE f == [p \in flushed |-> TaskOf(p, slot[p])]
  <2>1. IsFiniteSet(flushed)
    BY <1>2, MuxAssumption, FS_Subset
  <2>2. f \in Surjection(flushed, new)
    BY DEF Surjection
  <2> QED
    BY <2>1, <2>2, FS_Surjection
<1>4. ASSUME NEW t \in new PROVE t \in TaskState /\ BatchOK(t, req, status, legs)
  <2>1. PICK p \in flushed : t = TaskOf(p, slot[p])
    OBVIOUS
  <2>2. p \in Provider /\ slot[p] \in SlotState /\ BatchOK(slot[p], req, status, legs)
    BY <1>2 DEF Batches
  <2> QED
    BY <2>1, <2>2, TaskOfOK
<1> HIDE DEF new, flushed
<1>5. slot' \in [Provider -> SlotState]
  BY <1>1, NoSlotOK DEF Batches
<1>6. tasks' \subseteq TaskState /\ IsFiniteSet(tasks')
  BY <1>1, <1>3, <1>4, FS_Union DEF Batches
<1>7. ASSUME NEW p \in Provider PROVE BatchOK(slot'[p], req', status', legs')
  BY <1>1, NoSlotOK DEF Batches
<1>8. ASSUME NEW t \in tasks' PROVE BatchOK(t, req', status', legs')
  BY <1>1, <1>4, <1>8 DEF Batches
<1> QED
  BY <1>5, <1>6, <1>7, <1>8 DEF Batches

\* A flush task that ends is the same batch with another outcome.
LEMMA TaskEndsOK ==
  ASSUME NEW t \in TaskState, NEW u,
         \/ u \in TaskEnds(t)
         \/ u = [t EXCEPT !.st = "panic", !.senders = {}]
  PROVE  /\ u \in TaskState
         /\ \A shapes, statuses, allLegs :
              BatchOK(t, shapes, statuses, allLegs) =>
                BatchOK(u, shapes, statuses, allLegs)
<1>1. /\ t.texts \in Seq(Text) /\ Len(t.texts) \in Nat
  BY LenProperties DEF TaskState
<1>2. /\ u \in TaskState /\ u.texts = t.texts /\ u.ranges = t.ranges
      /\ u.senders \subseteq t.senders
  <2>1. CASE u = [t EXCEPT !.st = "ok", !.got = Len(t.texts)]
    BY <1>1, <2>1 DEF TaskState
  <2>2. CASE \E k \in 1 .. Len(t.texts) - 1 : u = [t EXCEPT !.st = "ok", !.got = k]
    <3>1. PICK k \in 1 .. Len(t.texts) - 1 : u = [t EXCEPT !.st = "ok", !.got = k]
      BY <2>2
    <3>2. k \in Nat
      BY <1>1
    <3> QED
      BY <3>1, <3>2 DEF TaskState
  <2>3. CASE \E e \in {"rate_limited", "other"} : u = [t EXCEPT !.st = e]
    BY <2>3 DEF TaskState
  <2>4. CASE u = [t EXCEPT !.st = "panic", !.senders = {}]
    BY <2>4 DEF TaskState
  <2> QED
    BY <2>1, <2>2, <2>3, <2>4 DEF TaskEnds
<1> QED
  BY <1>2 DEF BatchOK, Tiled, Addressed

-----------------------------------------------------------------------------
(* The invariant holds initially *)

LEMMA InitInv == Init => IInv
<1> SUFFICES ASSUME Init PROVE IInv
  OBVIOUS
<1>1. Control
  <2>1. \A p \in Provider : InRange(InitialAimd(InitialK, HardMax[p]), HardMax[p])
    BY InitialInRange, MuxAssumption
  <2>2. \A p \in Provider : aimd[p] = InitialAimd(InitialK, HardMax[p])
    BY DEF Init
  <2>3. aimd \in [Provider -> AimdState] /\ \A p \in Provider : InRange(aimd[p], HardMax[p])
    BY <2>1, <2>2 DEF Init, InRange
  <2>4. SinBinTypeOK
    BY DEF Init, SinBinInit, SinBinTypeOK
  <2> QED
    BY <2>3, <2>4 DEF Init, Control
<1>2. Channel
  BY EmptySeq DEF Init, Channel
<1>3. Batches
  BY NoSlotOK, FS_EmptySet DEF Init, Batches
<1>4. Requests
  <2>1. NoShape \in Shape
    BY DEF NoShape, Shape, Policy
  <2>2. IsResponse(EmptyResponse)
    BY DEF IsResponse, EmptyResponse, IsPartialMap, EmptyMap
  <2>3. \A r \in Req : RequestOK(r, NoShape, <<>>, "idle", EmptyResponse)
    BY <2>2 DEF RequestOK, LegsOK, OwnResults, EmptyResponse, EmptyMap
  <2>4. /\ req \in [Req -> Shape] /\ legs \in [Req -> Seq(LegState)]
        /\ status \in [Req -> Statuses] /\ DOMAIN resp = Req
    BY <2>1 DEF Init, Statuses
  <2>5. \A r \in Req : /\ req[r] = NoShape /\ legs[r] = <<>> /\ status[r] = "idle"
                       /\ resp[r] = EmptyResponse
    BY DEF Init
  <2> QED
    BY <2>3, <2>4, <2>5 DEF Requests
<1> QED
  BY <1>1, <1>2, <1>3, <1>4 DEF IInv

-----------------------------------------------------------------------------
(* The control state *)

\* The bookkeeping of an outcome keeps K in range and the counts natural.
LEMMA RecordOutcomeOK ==
  ASSUME Control, Batches, NEW t \in tasks, RecordOutcome(t), UNCHANGED closed,
         mux' \in {"join", "recv", "timer", "fan", "drain", "done", "crashed"}
  PROVE  Control'
<1>1. t.p \in Provider
  BY DEF Batches, TaskState
<1>2. SinBinTypeOK'
  BY <1>1, FailureThresholdAssumption
  DEF RecordOutcome, Control, SinBinTypeOK, RecordHealthSuccess,
      RecordHealthFailure, OneMoreFailure
<1>3. aimd' \in [Provider -> AimdState]
      /\ \A p \in Provider : InRange(aimd'[p], HardMax[p])
  <2> DEFINE old == aimd[t.p]
             new == CASE t.st = "ok" -> RecordSuccess(old, StreakThreshold)
                      [] t.st = "rate_limited" -> RecordTerminal429(old, HardMax[t.p])
                      [] OTHER -> old
  <2>1. aimd' = [aimd EXCEPT ![t.p] = new]
    BY DEF RecordOutcome
  <2>2. InRange(old, HardMax[t.p]) /\ HardMax[t.p] \in Nat \ {0}
    BY <1>1, MuxAssumption DEF Control
  <2>3. /\ InRange(RecordSuccess(old, StreakThreshold), HardMax[t.p])
        /\ InRange(RecordTerminal429(old, HardMax[t.p]), HardMax[t.p])
    BY <2>2, SuccessInRange, RateLimitInRange
  <2>4. InRange(new, HardMax[t.p])
    BY <2>2, <2>3
  <2>5. new \in AimdState
    BY <2>4 DEF InRange
  <2> HIDE DEF new
  <2> QED
    BY <1>1, <2>1, <2>4, <2>5 DEF Control
<1> QED
  BY <1>2, <1>3 DEF Control

\* Steps of the mux task that move only its place in the loop.
LEMMA ControlKept ==
  ASSUME Control, UNCHANGED <<closed, aimd, health>>,
         mux' \in {"join", "recv", "timer", "fan", "drain", "done", "crashed"}
  PROVE  Control'
BY DEF Control, SinBinTypeOK, health, InRange

\* Requests on the channel stay sent.
LEMMA ChannelKept ==
  ASSUME Channel, StartedKept, UNCHANGED chan
  PROVE  Channel'
<1>1. \A j \in 1 .. Len(chan) : chan[j] \in Req
  BY ElementOfSeq DEF Channel
<1> QED
  BY <1>1 DEF Channel, StartedKept

LEMMA BatchesUntouched ==
  ASSUME Batches, StartedKept, LegsKept, UNCHANGED <<slot, tasks>>
  PROVE  Batches'
<1>1. /\ \A p \in Provider : BatchOK(slot[p], req', status', legs')
      /\ \A t \in tasks : BatchOK(t, req', status', legs')
  BY BatchesKept
<1> QED
  BY <1>1 DEF Batches

-----------------------------------------------------------------------------
(* Each action preserves the invariant *)

\* Steps that change no batch and no request: only the place of the mux task,
\* the closed flag or the health state.
LEMMA QuietStep ==
  ASSUME IInv, UNCHANGED <<chan, slot, tasks, req, legs, status, resp>>, Control'
  PROVE  IInv'
<1>1. Requests' /\ StartedKept /\ LegsKept
  BY RequestsKept DEF IInv
<1>2. Channel' /\ Batches'
  BY <1>1, ChannelKept, BatchesUntouched DEF IInv
<1> QED
  BY <1>1, <1>2 DEF IInv

LEMMA MuxMoves ==
  ASSUME IInv, JoinPending \/ RecvPending \/ Wake \/ CloseChannel
  PROVE  IInv'
<1>1. UNCHANGED <<chan, slot, tasks, aimd, req, legs, status, resp, health>>
  BY DEF JoinPending, RecvPending, Wake, CloseChannel
<1>2. /\ mux' \in {"join", "recv", "timer", "fan", "drain", "done", "crashed"}
      /\ closed' \in BOOLEAN
  BY DEF JoinPending, RecvPending, Wake, CloseChannel, IInv, Control
<1>3. Control'
  BY <1>1, <1>2 DEF IInv, Control, SinBinTypeOK, health, InRange
<1> QED
  BY <1>1, <1>3, QuietStep

LEMMA HealthInv ==
  ASSUME IInv, HealthStep
  PROVE  IInv'
<1>1. SinBinTypeOK'
  BY DEF HealthStep, SinBinEnvironment, SinBinExpires, ProbeClears, IInv,
         Control, SinBinTypeOK
<1>2. Control'
  BY <1>1 DEF HealthStep, IInv, Control, InRange
<1> QED
  BY <1>2, QuietStep DEF HealthStep

\* A request that was never sent gets its shape.
LEMMA SubmitInv ==
  ASSUME IInv, NEW r \in Req, NEW s \in Shapes, Submit(r, s)
  PROVE  IInv'
<1>1. s \in Shape /\ status[r] = "idle"
  BY MuxAssumption DEF Submit
<1>2. Control'
  BY ControlKept DEF Submit, IInv, Control
<1>3. /\ req' = [req EXCEPT ![r] = s]
      /\ status' \in [Req -> Statuses] /\ status'[r] \in {"pending", "refused"}
      /\ \A q \in Req \ {r} : status'[q] = status[q]
  BY DEF Submit, IInv, Requests, Statuses
<1>4. StartedKept /\ LegsKept
  BY <1>1, <1>3 DEF StartedKept, LegsKept, Submit, IInv, Requests
<1>5. Requests'
  <2>1. legs[r] = <<>> /\ resp[r] = EmptyResponse /\ IsResponse(resp[r])
    BY <1>1 DEF IInv, Requests, RequestOK
  <2>2. RequestOK(r, s, legs[r], status'[r], resp[r])
    BY <1>3, <2>1 DEF RequestOK, LegsOK, OwnResults, EmptyResponse, EmptyMap
  <2>3. \A q \in Req \ {r} : RequestOK(q, req'[q], legs[q], status'[q], resp[q])
    BY <1>3 DEF IInv, Requests
  <2>4. \A q \in Req : RequestOK(q, req'[q], legs'[q], status'[q], resp'[q])
    BY <1>3, <2>2, <2>3 DEF Submit, IInv, Requests
  <2> QED
    BY <1>1, <1>3, <2>4 DEF Submit, IInv, Requests
<1>6. Channel'
  <2>1. CASE chan' = chan
    BY <1>4, <2>1, ChannelKept DEF IInv
  <2>2. CASE chan' = Append(chan, r)
    <3>1. chan \in Seq(Req) /\ Len(chan) \in Nat
      BY LenProperties DEF IInv, Channel
    <3>2. /\ chan' \in Seq(Req) /\ Len(chan') = Len(chan) + 1
          /\ \A j \in 1 .. Len(chan) : chan'[j] = chan[j]
          /\ chan'[Len(chan) + 1] = r
      BY <2>2, <3>1, AppendProperties
    <3>3. \A j \in 1 .. Len(chan) : status'[chan[j]] # "idle"
      BY <1>4, <3>1, ElementOfSeq DEF IInv, Channel, StartedKept
    <3>4. \A j \in 1 .. Len(chan') : j \in 1 .. Len(chan) \/ j = Len(chan) + 1
      BY <3>1, <3>2
    <3>5. \A j \in 1 .. Len(chan') : status'[chan'[j]] # "idle"
      BY <1>3, <3>2, <3>3, <3>4
    <3> QED
      BY <3>2, <3>5 DEF Channel
  <2> QED
    BY <2>1, <2>2 DEF Submit
<1>7. Batches'
  BY <1>4, BatchesUntouched DEF Submit, IInv
<1> QED
  BY <1>2, <1>5, <1>6, <1>7 DEF IInv

\* A caller that leaves, and a collector that answers, change a status only.
LEMMA StatusInv ==
  ASSUME IInv, NEW r \in Req, Leave(r) \/ Collect(r)
  PROVE  IInv'
<1>1. /\ UNCHANGED <<chan, slot, tasks, req, legs, resp>>
      /\ UNCHANGED <<closed, mux, aimd, health>>
      /\ status[r] = "pending"
      /\ \E st \in {"gone", "answered"} : status' = [status EXCEPT ![r] = st]
  BY DEF Leave, Collect
<1>2. Control'
  BY <1>1, ControlKept DEF IInv, Control
<1>3. status' \in [Req -> Statuses]
      /\ \A q \in Req : status'[q] = "idle" <=> status[q] = "idle"
  BY <1>1 DEF IInv, Requests, Statuses
<1>4. StartedKept /\ LegsKept
  BY <1>1, <1>3 DEF StartedKept, LegsKept
<1>5. Requests'
  BY <1>1, <1>3 DEF IInv, Requests, RequestOK
<1>6. Channel' /\ Batches'
  BY <1>1, <1>4, ChannelKept, BatchesUntouched DEF IInv
<1> QED
  BY <1>2, <1>5, <1>6 DEF IInv

\* A window that elapses marks its slot.
LEMMA WindowInv ==
  ASSUME IInv, NEW p \in Provider, WindowElapses(p)
  PROVE  IInv'
<1>1. Requests' /\ StartedKept /\ LegsKept
  BY RequestsKept DEF IInv, WindowElapses
<1>2. Channel' /\ Control'
  BY <1>1, ChannelKept, ControlKept DEF IInv, WindowElapses, Control
<1>3. slot' = [slot EXCEPT ![p].expired = TRUE] /\ tasks' = tasks
  BY DEF WindowElapses
<1>4. slot' \in [Provider -> SlotState]
  BY <1>3 DEF IInv, Batches, SlotState
<1>5. \A q \in Provider : /\ slot'[q].texts = slot[q].texts
                          /\ slot'[q].ranges = slot[q].ranges
                          /\ slot'[q].senders = slot[q].senders
  BY <1>3 DEF IInv, Batches, SlotState
<1>6. \A q \in Provider : BatchOK(slot'[q], req', status', legs')
  <2> TAKE q \in Provider
  <2>1. BatchOK(slot[q], req', status', legs')
    BY <1>1, BatchesKept DEF IInv
  <2> QED
    BY <1>5, <2>1, SameBatchOK
<1>7. \A t \in tasks : BatchOK(t, req', status', legs')
  BY <1>1, BatchesKept DEF IInv
<1>8. Batches'
  BY <1>3, <1>4, <1>6, <1>7 DEF IInv, Batches
<1> QED
  BY <1>1, <1>2, <1>8 DEF IInv

\* One task is replaced by another; the requests are sent as before.
LEMMA TaskReplaced ==
  ASSUME Batches, StartedKept, LegsKept, NEW t \in tasks, NEW u,
         u \in TaskState, BatchOK(u, req', status', legs'),
         tasks' = (tasks \ {t}) \cup {u}, UNCHANGED slot
  PROVE  Batches'
<1>1. /\ \A p \in Provider : BatchOK(slot[p], req', status', legs')
      /\ \A v \in tasks : BatchOK(v, req', status', legs')
  BY BatchesKept
<1>2. IsFiniteSet(tasks \ {t}) /\ IsFiniteSet({u})
  BY FS_Difference, FS_Singleton DEF Batches
<1>3. IsFiniteSet(tasks')
  BY <1>2, FS_Union
<1> QED
  BY <1>1, <1>3 DEF Batches

LEMMA FlushTaskEndsInv ==
  ASSUME IInv, NEW t \in tasks, FlushTaskEnds(t)
  PROVE  IInv'
<1>1. Requests' /\ StartedKept /\ LegsKept
  BY RequestsKept DEF IInv, FlushTaskEnds
<1>2. Channel' /\ Control'
  BY <1>1, ChannelKept, ControlKept DEF IInv, FlushTaskEnds, Control
<1>3. PICK u \in TaskEnds(t) : tasks' = (tasks \ {t}) \cup {u}
  BY DEF FlushTaskEnds
<1>4. t \in TaskState /\ BatchOK(t, req', status', legs')
  BY <1>1, BatchesKept DEF IInv, Batches
<1>5. u \in TaskState /\ BatchOK(u, req', status', legs')
  BY <1>4, TaskEndsOK
<1>6. slot' = slot
  BY DEF FlushTaskEnds
<1>7. Batches'
  BY <1>1, <1>3, <1>5, <1>6, TaskReplaced DEF IInv
<1> QED
  BY <1>1, <1>2, <1>7 DEF IInv

\* What a batch's senders belong to.
LEMMA SendersOK ==
  ASSUME IInv, NEW t \in tasks
  PROVE  /\ t \in TaskState /\ BatchOK(t, req, status, legs)
         /\ \A c \in t.senders : c[2] \in DOMAIN legs[c[1]]
BY DEF IInv, Batches, BatchOK

LEMMA FlushTaskPanicsInv ==
  ASSUME IInv, NEW t \in tasks, FlushTaskPanics(t)
  PROVE  IInv'
<1> DEFINE out == [c \in t.senders |-> Dropped]
           u == [t EXCEPT !.st = "panic", !.senders = {}]
<1>1. /\ Settle(out, {}) /\ tasks' = (tasks \ {t}) \cup {u}
      /\ UNCHANGED <<chan, closed, mux, slot, aimd, req, health>>
  BY DEF FlushTaskPanics
<1>2. \A c \in DOMAIN out : OutOK(c, out[c]) /\ c[2] \in DOMAIN legs[c[1]]
  BY DroppedOK, SendersOK
<1>3. Requests' /\ StartedKept /\ LegsKept
  <2> HIDE DEF out
  <2> QED
    BY <1>1, <1>2, SettleOK DEF IInv
<1>4. Channel' /\ Control'
  BY <1>1, <1>3, ChannelKept, ControlKept DEF IInv, Control
<1>5. t \in TaskState /\ BatchOK(t, req', status', legs')
  BY <1>3, BatchesKept DEF IInv, Batches
<1>6. u \in TaskState /\ BatchOK(u, req', status', legs')
  BY <1>5, TaskEndsOK
<1>7. Batches'
  <2> HIDE DEF u
  <2> QED
    BY <1>1, <1>3, <1>6, TaskReplaced DEF IInv
<1> QED
  BY <1>3, <1>4, <1>7 DEF IInv

\* A joined task leaves the JoinSet.
LEMMA TaskJoined ==
  ASSUME Batches, StartedKept, LegsKept, NEW t, tasks' = tasks \ {t}, UNCHANGED slot
  PROVE  Batches'
<1>1. /\ \A p \in Provider : BatchOK(slot[p], req', status', legs')
      /\ \A v \in tasks : BatchOK(v, req', status', legs')
  BY BatchesKept
<1>2. IsFiniteSet(tasks')
  BY FS_Difference DEF Batches
<1> QED
  BY <1>1, <1>2 DEF Batches

LEMMA JoinOutcomeInv ==
  ASSUME IInv, NEW t \in tasks, JoinOutcome(t)
  PROVE  IInv'
<1> DEFINE out == [c \in t.senders |-> OutcomeFor(t, c)]
<1>1. /\ Settle(out, {}) /\ tasks' = tasks \ {t} /\ RecordOutcome(t)
      /\ UNCHANGED <<chan, closed, mux, slot, req>>
  BY DEF JoinOutcome
<1>2. t \in TaskState /\ t.st \in {"ok", "rate_limited", "other"}
  BY SendersOK DEF JoinOutcome, Finished, TaskState
<1>3. \A c \in DOMAIN out : OutOK(c, out[c]) /\ c[2] \in DOMAIN legs[c[1]]
  BY <1>2, OutcomeOK, SendersOK DEF IInv
<1>4. Requests' /\ StartedKept /\ LegsKept
  <2> HIDE DEF out
  <2> QED
    BY <1>1, <1>3, SettleOK DEF IInv
<1>5. Channel' /\ Batches'
  BY <1>1, <1>4, ChannelKept, TaskJoined DEF IInv
<1>6. Control'
  <2>1. mux' \in {"join", "recv", "timer", "fan", "drain", "done", "crashed"}
    BY <1>1 DEF IInv, Control
  <2> QED
    BY <1>1, <2>1, RecordOutcomeOK DEF IInv
<1> QED
  BY <1>4, <1>5, <1>6 DEF IInv

LEMMA JoinPanickedInv ==
  ASSUME IInv, NEW t \in tasks, JoinPanicked(t)
  PROVE  IInv'
<1>1. Requests' /\ StartedKept /\ LegsKept
  BY RequestsKept DEF IInv, JoinPanicked
<1>2. Channel' /\ Control' /\ Batches'
  BY <1>1, ChannelKept, ControlKept, TaskJoined DEF IInv, JoinPanicked, Control
<1> QED
  BY <1>1, <1>2 DEF IInv

LEMMA WaitingLegs == \A c \in WaitingIds : c[2] \in DOMAIN legs[c[1]]
<1>1. \A c \in WaitingIds : \E r \in Req : \E i \in DOMAIN legs[r] : c = <<r, i>>
  BY DEF WaitingIds
<1> QED
  BY <1>1

\* When the slots are gone, nothing is left to be fine.
LEMMA BatchesGone ==
  ASSUME slot' = [p \in Provider |-> NoSlot], tasks' = {}
  PROVE  Batches'
BY NoSlotOK, FS_EmptySet DEF Batches

LEMMA CrashInv ==
  ASSUME IInv, NEW t \in tasks, Crash(t)
  PROVE  IInv'
<1> DEFINE out == [c \in WaitingIds |-> IF c \in t.senders THEN OutcomeFor(t, c)
                                                            ELSE Dropped]
           lost == {chan[j] : j \in DOMAIN chan}
<1>1. /\ Settle(out, lost) /\ RecordOutcome(t)
      /\ mux' = "crashed" /\ chan' = <<>> /\ UNCHANGED <<closed, req>>
      /\ slot' = [p \in Provider |-> NoSlot] /\ tasks' = {}
  BY DEF Crash
<1>2. t \in TaskState /\ t.st = "ok"
  BY SendersOK DEF Crash, SlicePanics
<1>3. \A c \in DOMAIN out : OutOK(c, out[c]) /\ c[2] \in DOMAIN legs[c[1]]
  BY <1>2, OutcomeOK, DroppedOK, SendersOK, WaitingLegs DEF IInv
<1>4. Requests' /\ StartedKept /\ LegsKept
  <2> HIDE DEF out, lost
  <2> QED
    BY <1>1, <1>3, SettleOK DEF IInv
<1>5. Channel' /\ Batches'
  BY <1>1, BatchesGone, EmptySeq DEF Channel
<1>6. Control'
  BY <1>1, RecordOutcomeOK DEF IInv
<1> QED
  BY <1>4, <1>5, <1>6 DEF IInv

LEMMA DrainDoneInv ==
  ASSUME IInv, DrainDone
  PROVE  IInv'
<1> DEFINE out == [c \in WaitingIds |-> Dropped]
<1>1. /\ Settle(out, {}) /\ slot' = [p \in Provider |-> NoSlot] /\ tasks' = {}
      /\ mux' = "done" /\ UNCHANGED <<chan, closed, aimd, req, health>>
  BY DEF DrainDone
<1>2. \A c \in DOMAIN out : OutOK(c, out[c]) /\ c[2] \in DOMAIN legs[c[1]]
  BY DroppedOK, WaitingLegs
<1>3. Requests' /\ StartedKept /\ LegsKept
  <2> HIDE DEF out
  <2> QED
    BY <1>1, <1>2, SettleOK DEF IInv
<1>4. Channel' /\ Control'
  BY <1>1, <1>3, ChannelKept, ControlKept DEF IInv, Control
<1>5. Batches'
  BY <1>1, BatchesGone
<1> QED
  BY <1>3, <1>4, <1>5 DEF IInv

\* The timer and the shutdown flush whole slots.
LEMMA FlushInv ==
  ASSUME IInv, RecvClosed \/ Timer
  PROVE  IInv'
<1>1. /\ \E ps \in SUBSET Provider : FlushSlots(ps)
      /\ mux' \in {"join", "drain"}
      /\ UNCHANGED <<chan, closed, aimd, req, legs, status, resp, health>>
  BY DEF RecvClosed, Timer, Expired
<1>2. Requests' /\ StartedKept /\ LegsKept
  BY <1>1, RequestsKept DEF IInv
<1>3. Channel' /\ Control'
  BY <1>1, <1>2, ChannelKept, ControlKept DEF IInv
<1>4. Batches'
  BY <1>1, FlushSlotsOK DEF IInv
<1> QED
  BY <1>2, <1>3, <1>4 DEF IInv

\* handle_request makes one leg per entry of the request's list.
LEMMA RecvInv ==
  ASSUME IInv, Recv
  PROVE  IInv'
<1> DEFINE r == Head(chan)
           ps == req[r].providers
<1>1. PICK attempted :
        legs' = [legs EXCEPT ![r] =
          [i \in DOMAIN ps |->
             [p |-> ps[i], embs |-> <<>>,
              st |-> IF i \in attempted THEN "new" ELSE "skipped"]]]
  BY DEF Recv
<1>2. /\ chan # <<>> /\ chan' = Tail(chan) /\ mux' = "fan"
      /\ UNCHANGED <<closed, slot, tasks, aimd, req, status, resp, health>>
  BY DEF Recv
<1>3. /\ chan \in Seq(Req) /\ r \in Req /\ chan' \in Seq(Req)
      /\ Len(chan) \in Nat /\ Len(chan') = Len(chan) - 1
      /\ \A j \in 1 .. Len(chan') : chan'[j] = chan[j + 1]
  BY <1>2, HeadTailProperties, LenProperties DEF IInv, Channel
<1>4. status[r] # "idle"
  <2>1. 1 \in 1 .. Len(chan) /\ r = chan[1]
    BY <1>2, <1>3, EmptySeq
  <2> QED
    BY <2>1 DEF IInv, Channel
<1>5. Channel'
  <2>1. \A j \in 1 .. Len(chan') : j + 1 \in 1 .. Len(chan)
    BY <1>3
  <2> QED
    BY <1>2, <1>3, <2>1 DEF IInv, Channel
<1>6. /\ ps \in Seq(Provider) /\ DOMAIN ps = 1 .. Len(ps) /\ Len(ps) \in Nat
      /\ \A i \in 1 .. Len(ps) : ps[i] \in Provider
  BY <1>3, LenProperties DEF IInv, Requests, Shape
<1>7. /\ legs'[r] \in Seq(LegState) /\ Len(legs'[r]) = Len(ps)
      /\ \A i \in 1 .. Len(ps) : /\ legs'[r][i].p = ps[i] /\ legs'[r][i] \in LegState
                                 /\ legs'[r][i].st # "ok"
      /\ \A q \in Req \ {r} : legs'[q] = legs[q]
  <2> DEFINE leg(i) == [p |-> ps[i], embs |-> <<>>,
                        st |-> IF i \in attempted THEN "new" ELSE "skipped"]
  <2>1. \A i \in 1 .. Len(ps) : leg(i) \in LegState /\ leg(i).p = ps[i] /\ leg(i).st # "ok"
    BY <1>6 DEF LegState
  <2>2. legs'[r] = [i \in 1 .. Len(ps) |-> leg(i)]
    BY <1>1, <1>3, <1>6 DEF IInv, Requests
  <2>3. \A q \in Req \ {r} : legs'[q] = legs[q]
    BY <1>1 DEF IInv, Requests
  <2> HIDE DEF leg, r, ps
  <2> QED
    BY <1>6, <2>1, <2>2, <2>3
<1>8. LegsOK(r, req[r], legs'[r])
  <2> HIDE DEF r
  <2> QED
    BY <1>6, <1>7 DEF LegsOK
<1>9. legs' \in [Req -> Seq(LegState)]
  BY <1>1, <1>3, <1>7 DEF IInv, Requests
<1>10. Requests'
  <2>1. RequestOK(r, req[r], legs'[r], status[r], resp[r])
    BY <1>3, <1>4, <1>8 DEF IInv, Requests, RequestOK
  <2>2. \A q \in Req : RequestOK(q, req'[q], legs'[q], status'[q], resp'[q])
    BY <1>2, <1>7, <2>1 DEF IInv, Requests
  <2> QED
    BY <1>2, <1>9, <2>2 DEF IInv, Requests
<1>11. StartedKept /\ LegsKept
  <2>1. DOMAIN legs'[r] = 1 .. Len(ps)
    BY <1>7, LenProperties
  <2>2. legs[r] # <<>> => DOMAIN legs[r] = 1 .. Len(ps)
    BY <1>3, LenProperties DEF IInv, Requests, RequestOK, LegsOK
  <2>3. \A i \in DOMAIN legs[r] : i \in DOMAIN legs'[r]
    BY <2>1, <2>2, EmptySeq
  <2> HIDE DEF r, ps
  <2> QED
    BY <1>2, <1>7, <2>3 DEF StartedKept, LegsKept
<1>12. Control' /\ Batches'
  BY <1>2, <1>11, ControlKept, BatchesUntouched DEF IInv
<1> QED
  BY <1>5, <1>10, <1>12 DEF IInv

\* One leg moves on, without embeddings of its own to vouch for.
LEMMA LegChanged ==
  ASSUME Requests, NEW r \in Req, NEW i \in DOMAIN legs[r], NEW leg \in LegState,
         leg.p = legs[r][i].p, leg.st # "ok",
         legs' = [legs EXCEPT ![r] = [legs[r] EXCEPT ![i] = leg]]
  PROVE  /\ legs' \in [Req -> Seq(LegState)] /\ LegsKept
         /\ LegsOK(r, req[r], legs'[r]) /\ legs'[r] # <<>>
         /\ \A q \in Req \ {r} : legs'[q] = legs[q]
<1>1. /\ legs[r] \in Seq(LegState) /\ DOMAIN legs[r] = 1 .. Len(legs[r])
      /\ Len(legs[r]) \in Nat
  BY LenProperties DEF Requests
<1>2. legs'[r] = [legs[r] EXCEPT ![i] = leg] /\ \A q \in Req \ {r} : legs'[q] = legs[q]
  BY DEF Requests
<1>3. legs'[r] \in Seq(LegState) /\ Len(legs'[r]) = Len(legs[r])
      /\ DOMAIN legs'[r] = DOMAIN legs[r]
      /\ \A k \in 1 .. Len(legs[r]) : legs'[r][k] = IF k = i THEN leg ELSE legs[r][k]
  BY <1>1, <1>2, ExceptSeq
<1>4. LegsOK(r, req[r], legs[r])
  BY DEF Requests, RequestOK
<1>5. legs[r] # <<>> /\ legs'[r] # <<>>
  BY <1>1, <1>3, EmptySeq
<1>6. LegsOK(r, req[r], legs'[r])
  BY <1>1, <1>3, <1>4, <1>5 DEF LegsOK
<1>7. legs' \in [Req -> Seq(LegState)]
  BY <1>3 DEF Requests
<1>8. LegsKept
  BY <1>2, <1>3 DEF LegsKept
<1> QED
  BY <1>2, <1>5, <1>6, <1>7, <1>8

\* A leg that exists belongs to a request that was sent.
LEMMA LegType ==
  ASSUME Requests, NEW r \in Req, NEW i \in DOMAIN legs[r]
  PROVE  /\ i \in 1 .. Len(legs[r]) /\ i \in Nat \ {0}
         /\ legs[r][i] \in LegState /\ legs[r][i].p \in Provider
         /\ legs[r][i].p \in {req[r].providers[k] : k \in DOMAIN req[r].providers}
         /\ legs[r][i].st = "ok" => legs[r][i].embs = TextsOf(r, req[r])
         /\ status[r] # "idle"
<1>1. legs[r] \in Seq(LegState) /\ LegsOK(r, req[r], legs[r])
  BY DEF Requests, RequestOK
<1>2. i \in 1 .. Len(legs[r]) /\ i \in Nat \ {0}
  BY <1>1, LenProperties
<1>3. legs[r][i] \in LegState /\ legs[r][i].p \in Provider
  <2>1. legs[r][i] \in LegState
    BY <1>1, <1>2, ElementOfSeq
  <2> QED
    BY <2>1 DEF LegState
<1>4. status[r] # "idle"
  BY <1>1, EmptySeq DEF Requests, RequestOK
<1> QED
  BY <1>1, <1>2, <1>3, <1>4 DEF LegsOK

LEMMA RelayedLeg ==
  ASSUME NEW old \in LegState
  PROVE  LET leg == [old EXCEPT !.st = "relayed", !.embs = <<>>]
         IN leg \in LegState /\ leg.p = old.p /\ leg.st # "ok"
<1>1. ASSUME NEW embs \in Seq(Text)
      PROVE  LET leg == [old EXCEPT !.st = "relayed", !.embs = embs]
             IN leg \in LegState /\ leg.p = old.p /\ leg.st # "ok"
  BY DEF LegState
<1>2. <<>> \in Seq(Text)
  BY EmptySeq
<1> QED
  BY <1>1, <1>2

LEMMA RelayInv ==
  ASSUME IInv, NEW r \in Req, NEW i \in DOMAIN legs[r], Relay(r, i)
  PROVE  IInv'
<1> DEFINE old == legs[r][i]
           leg == [old EXCEPT !.st = "relayed", !.embs = <<>>]
<1>1. /\ old \in LegState /\ old.p \in Provider
      /\ old.p \in {req[r].providers[k] : k \in DOMAIN req[r].providers}
      /\ old.st = "ok" => old.embs = TextsOf(r, req[r])
      /\ status[r] # "idle"
  BY LegType DEF IInv
<1>2. leg \in LegState /\ leg.p = old.p /\ leg.st # "ok"
  BY <1>1, RelayedLeg
<1>3. /\ resp' = [resp EXCEPT ![r] = Merge(resp[r], old.p, old)]
      /\ UNCHANGED <<chan, closed, mux, slot, tasks, aimd, req, status, health>>
  BY DEF Relay
<1>4. legs' = [legs EXCEPT ![r] = [legs[r] EXCEPT ![i] = leg]]
  BY DEF Relay, IInv, Requests
<1>5. /\ legs' \in [Req -> Seq(LegState)] /\ LegsKept
      /\ LegsOK(r, req[r], legs'[r]) /\ legs'[r] # <<>>
      /\ \A q \in Req \ {r} : legs'[q] = legs[q]
  <2> HIDE DEF leg
  <2> QED
    BY <1>2, <1>4, LegChanged DEF IInv
<1>6. IsResponse(resp[r]) /\ OwnResults(r, req[r], resp[r])
  BY DEF IInv, Requests, RequestOK
<1>7. old.st = "ok" => old.embs \in Seq(Text)
  BY <1>1 DEF LegState
<1>8. /\ IsResponse(Merge(resp[r], old.p, old))
      /\ OwnResults(r, req[r], Merge(resp[r], old.p, old))
  <2> HIDE DEF old
  <2> QED
    BY <1>1, <1>6, <1>7, MergeOK
<1>9. Requests'
  <2>1. RequestOK(r, req[r], legs'[r], status[r], Merge(resp[r], old.p, old))
    BY <1>1, <1>5, <1>8 DEF RequestOK
  <2>2. resp'[r] = Merge(resp[r], old.p, old) /\ \A q \in Req \ {r} : resp'[q] = resp[q]
    BY <1>3 DEF IInv, Requests
  <2> HIDE DEF old
  <2>3. \A q \in Req : RequestOK(q, req'[q], legs'[q], status'[q], resp'[q])
    BY <1>3, <1>5, <2>1, <2>2 DEF IInv, Requests
  <2> QED
    BY <1>3, <1>5, <2>3 DEF IInv, Requests
<1>10. StartedKept
  BY <1>3 DEF StartedKept
<1>11. Channel' /\ Control' /\ Batches'
  BY <1>3, <1>5, <1>10, ChannelKept, ControlKept, BatchesUntouched DEF IInv, Control
<1> QED
  BY <1>9, <1>11 DEF IInv

\* A slot made now has the K of now as its threshold.
LEMMA NewSlotOK ==
  ASSUME Control, NEW p \in Provider
  PROVE  /\ NewSlot(p) \in SlotState
         /\ \A shapes, statuses, allLegs : BatchOK(NewSlot(p), shapes, statuses, allLegs)
<1>1. aimd[p].k \in Nat /\ HardMax[p] \in Nat
  BY MuxAssumption DEF Control, AimdState
<1>2. MinOf(aimd[p].k, HardMax[p]) \in Nat
  BY <1>1 DEF MinOf
<1>3. /\ NewSlot(p).texts = <<>> /\ NewSlot(p).ranges = <<>>
      /\ NewSlot(p).senders = {}
  BY DEF NewSlot, NoSlot
<1>4. NewSlot(p) \in SlotState
  <2> DEFINE k == MinOf(aimd[p].k, HardMax[p])
  <2>1. k \in Nat
    BY <1>2
  <2>2. NewSlot(p) = [NoSlot EXCEPT !.open = TRUE, !.threshold = k]
    BY DEF NewSlot
  <2> HIDE DEF k
  <2>3. NewSlot(p) = [open |-> TRUE, texts |-> <<>>, ranges |-> <<>>,
                      senders |-> {}, threshold |-> k, expired |-> FALSE]
    BY <2>2 DEF NoSlot
  <2>4. <<>> \in Seq(Text) /\ <<>> \in Seq(CallerRange)
    BY EmptySeq
  <2> QED
    BY <2>1, <2>3, <2>4 DEF SlotState
<1> QED
  BY <1>3, <1>4, EmptyBatchOK

\* add_to_slot: the old slot may become a task, and so may the new one.
LEMMA AddToSlotInv ==
  ASSUME IInv, NEW r \in Req, NEW i \in DOMAIN legs[r], AddToSlot(r, i)
  PROVE  IInv'
<1> DEFINE p    == legs[r][i].p
           old  == slot[p]
           full == MustFlushFirst(p, old, req[r].n)
           base == IF old.open /\ ~full THEN old ELSE NewSlot(p)
           new  == AddCaller(p, base, <<r, i>>, Texts(r))
           leg  == [legs[r][i] EXCEPT !.st = "waiting"]
           pre  == IF full THEN {TaskOf(p, old)} ELSE {}
           post == IF ShouldFlush(new) /\ ~IsEmpty(new) THEN {TaskOf(p, new)} ELSE {}
<1>1. /\ tasks' = tasks \cup pre \cup post
      /\ slot' = [slot EXCEPT ![p] = IF ShouldFlush(new) /\ ~IsEmpty(new)
                                     THEN NoSlot ELSE new]
      /\ mux' \in {"join", "fan"}
      /\ UNCHANGED <<chan, closed, aimd, req, status, resp, health>>
      /\ legs[r][i].st = "new"
  BY DEF AddToSlot
<1>2. /\ i \in Nat \ {0} /\ legs[r][i] \in LegState /\ p \in Provider
      /\ status[r] # "idle"
  BY LegType DEF IInv
<1>3. leg \in LegState /\ leg.p = p /\ leg.st # "ok"
  <2>1. legs[r][i] = [p |-> p, st |-> legs[r][i].st, embs |-> legs[r][i].embs]
    BY <1>2 DEF LegState
  <2>2. leg = [p |-> p, st |-> "waiting", embs |-> legs[r][i].embs]
    BY <2>1
  <2> QED
    BY <1>2, <2>2 DEF LegState
<1>4. legs' = [legs EXCEPT ![r] = [legs[r] EXCEPT ![i] = leg]]
  BY DEF AddToSlot, IInv, Requests
<1> HIDE DEF leg
<1>5. /\ legs' \in [Req -> Seq(LegState)] /\ LegsKept
      /\ LegsOK(r, req[r], legs'[r]) /\ legs'[r] # <<>>
      /\ \A q \in Req \ {r} : legs'[q] = legs[q]
  BY <1>3, <1>4, LegChanged DEF IInv
<1>6. Requests' /\ StartedKept
  <2>1. \A q \in Req : RequestOK(q, req'[q], legs'[q], status'[q], resp'[q])
    BY <1>1, <1>2, <1>5 DEF IInv, Requests, RequestOK
  <2> QED
    BY <1>1, <1>5, <2>1 DEF IInv, Requests, StartedKept
<1>7. Channel' /\ Control'
  BY <1>1, <1>6, ChannelKept, ControlKept DEF IInv
<1>8. /\ \A q \in Provider : BatchOK(slot[q], req', status', legs')
      /\ \A v \in tasks : BatchOK(v, req', status', legs')
  BY <1>5, <1>6, BatchesKept DEF IInv
<1>9. old \in SlotState /\ BatchOK(old, req', status', legs')
  BY <1>2, <1>8 DEF IInv, Batches
<1>10. base \in SlotState /\ BatchOK(base, req', status', legs')
  BY <1>2, <1>9, NewSlotOK DEF IInv
<1> HIDE DEF p, full, base
<1>11. new \in SlotState /\ BatchOK(new, req', status', legs')
  <2>1. req' \in [Req -> Shape] /\ status'[r] # "idle" /\ i \in DOMAIN legs'[r]
    BY <1>1, <1>2, <1>5 DEF IInv, Requests, LegsKept
  <2>2. Texts(r) = TextsOf(r, req'[r])
    BY <1>1 DEF Texts
  <2>3. LET n == AddCaller(p, base, <<r, i>>, TextsOf(r, req'[r]))
        IN n \in SlotState /\ BatchOK(n, req', status', legs')
    BY <1>2, <1>10, <2>1, AddCallerOK
  <2> QED
    BY <2>2, <2>3
<1> HIDE DEF new, old
<1>12. ASSUME NEW t \in pre \cup post
       PROVE  t \in TaskState /\ BatchOK(t, req', status', legs')
  <2>1. \/ t = TaskOf(p, old)
        \/ t = TaskOf(p, new)
    BY <1>12
  <2> QED
    BY <1>2, <1>9, <1>11, <2>1, TaskOfOK
<1>13. IsFiniteSet(pre) /\ IsFiniteSet(post)
  BY FS_EmptySet, FS_Singleton
<1> HIDE DEF pre, post
<1>14. IsFiniteSet(tasks')
  <2>1. IsFiniteSet(tasks \cup pre)
    BY <1>13, FS_Union DEF IInv, Batches
  <2> QED
    BY <1>1, <1>13, <2>1, FS_Union
<1>15. slot' \in [Provider -> SlotState]
       /\ \A q \in Provider : BatchOK(slot'[q], req', status', legs')
  BY <1>1, <1>2, <1>8, <1>11, NoSlotOK DEF IInv, Batches
<1>16. Batches'
  BY <1>1, <1>8, <1>12, <1>14, <1>15 DEF IInv, Batches
<1> QED
  BY <1>6, <1>7, <1>16 DEF IInv

-----------------------------------------------------------------------------
(* The theorems *)

\* The invariant is inductive: one lemma above per action.
LEMMA NextInv == IInv /\ [Next]_vars => IInv'
<1> SUFFICES ASSUME IInv, [Next]_vars PROVE IInv'
  OBVIOUS
<1>1. CASE \E r \in Req : Caller(r) \/ Multi(r)
  <2>1. PICK r \in Req : Caller(r) \/ Multi(r)
    BY <1>1
  <2>2. CASE Caller(r)
    BY <2>2, SubmitInv, StatusInv DEF Caller
  <2>3. CASE Multi(r)
    BY <2>3, StatusInv, RelayInv DEF Multi
  <2> QED
    BY <2>1, <2>2, <2>3
<1>2. CASE CloseChannel
  BY <1>2, MuxMoves
<1>3. CASE \E p \in Provider : WindowElapses(p) \/ FlushTask(p)
  BY <1>3, WindowInv, FlushTaskEndsInv, FlushTaskPanicsInv DEF FlushTask
<1>4. CASE MuxTask
  <2>1. CASE \E t \in tasks : JoinOutcome(t) \/ JoinPanicked(t) \/ Crash(t)
    BY <2>1, JoinOutcomeInv, JoinPanickedInv, CrashInv
  <2>2. CASE \E r \in Req : \E i \in DOMAIN legs[r] : AddToSlot(r, i)
    BY <2>2, AddToSlotInv
  <2>3. CASE JoinPending \/ RecvPending \/ Wake
    BY <2>3, MuxMoves
  <2>4. CASE Recv
    BY <2>4, RecvInv
  <2>5. CASE RecvClosed \/ Timer
    BY <2>5, FlushInv
  <2>6. CASE DrainDone
    BY <2>6, DrainDoneInv
  <2> QED
    BY <1>4, <2>1, <2>2, <2>3, <2>4, <2>5, <2>6 DEF MuxTask
<1>5. CASE HealthStep
  BY <1>5, HealthInv
<1>6. CASE UNCHANGED vars
  <2>1. UNCHANGED <<chan, slot, tasks, req, legs, status, resp>>
        /\ UNCHANGED <<closed, mux, aimd, health>>
    BY <1>6 DEF vars, health
  <2>2. Control'
    BY <2>1, ControlKept DEF IInv, Control
  <2> QED
    BY <2>1, <2>2, QuietStep
<1> QED
  BY <1>1, <1>2, <1>3, <1>4, <1>5, <1>6 DEF Next

LEMMA Inductive == Spec => []IInv
BY InitInv, NextInv, PTL DEF Spec

\* Type correctness, for any providers, limits, requests and outcomes; in
\* particular no count goes below zero.
THEOREM TypeCorrect == Spec => []MuxTypeOK
<1>1. IInv => MuxTypeOK
  BY DEF IInv, Control, Channel, Batches, Requests, RequestOK, MuxTypeOK
<1> QED
  BY <1>1, Inductive, PTL

\* A caller is only ever given embeddings of its own texts: batching several
\* callers in one provider call and cutting the answer by range loses, shifts
\* and swaps nothing, whatever is refused, short or panics on the way.
THEOREM Demultiplexing == Spec => []OwnEmbeddings
<1>1. IInv => OwnEmbeddings
  BY DEF IInv, Requests, RequestOK, OwnEmbeddings
<1> QED
  BY <1>1, Inductive, PTL

\* In every slot and every flush task the caller ranges tile the batch.
THEOREM BatchesTiled == Spec => []RangesTileBatches
<1>1. IInv => RangesTileBatches
  BY DEF IInv, Batches, BatchOK, RangesTileBatches
<1> QED
  BY <1>1, Inductive, PTL

\* AIMD keeps every provider's K and streak in their range, for any order of
\* successes and rate limits.
THEOREM KStaysInRange == Spec => []KInRange
<1>1. IInv => KInRange
  BY DEF IInv, Control, InRange, KInRange
<1> QED
  BY <1>1, Inductive, PTL

=============================================================================
