--------------------------- MODULE HandlersProofs ---------------------------
(***************************************************************************)
(* The safety of the embedding endpoints, for any number of HTTP requests, *)
(* any bodies, provider names, registries and failures.                    *)
(*                                                                         *)
(* The invariant has three parts: the types, what a multiplexer request    *)
(* that was submitted asks and is answered, and where each handler stands  *)
(* with the answers before its cursor.                                     *)
(***************************************************************************)
EXTENDS Handlers, TLAPS, WellFoundedInduction, SequenceTheorems

-----------------------------------------------------------------------------
(* The inductive invariant *)

Shape == [n : Nat, providers : Seq(Name), policy : {"all", "any"}]

Typed ==
  /\ body \in [Http -> Bodies \cup {NoBody}]
  /\ at \in [Http -> {"idle", "submitting", "waiting", "done", "gone"}]
  /\ cursor \in [Http -> 1 .. MaxSubs + 1]
  /\ found = [h \in Http |-> found[h]]
  /\ reply = [h \in Http |-> reply[h]]
  /\ shape \in [Req -> Shape]
  /\ state \in [Req -> {"idle", "pending", "refused", "answered", "dropped", "gone"}]
  /\ answer = [r \in Req |-> answer[r]]

\* What was submitted for r is the valid sub-request of that number.
Sent(r, b, s) ==
  r[2] \in DOMAIN Asks(b) /\ s = Asks(b)[r[2]] /\ Valid(b, s)

\* An answer that is right and fails as providers do.
Sound(r, s, a) ==
  Service!RightAnswer(r, s, a) /\ \A p \in DOMAIN a.failed : a.failed[p] \in Failures

Submitted ==
  \A r \in Req :
    /\ state[r] # "idle" => body[r[1]] \in Bodies /\ Sent(r, body[r[1]], shape[r])
    /\ state[r] = "answered" => Sound(r, shape[r], answer[r])

\* The sub-requests before i are answered as their policies demand, and fs
\* has their results.
CollectedUpTo(h, i, fs) ==
  /\ fs = [j \in 1 .. i - 1 |-> answer[<<h, j>>].results]
  /\ \A j \in 1 .. i - 1 :
       state[<<h, j>>] = "answered" /\ Met(shape[<<h, j>>], answer[<<h, j>>])

Untouched(h) ==
  /\ cursor[h] = 1 /\ found[h] = <<>> /\ reply[h] = NoReply
  /\ \A i \in 1 .. MaxSubs : state[<<h, i>>] = "idle"

Submitting(h) ==
  /\ cursor[h] <= Len(Asks(body[h])) /\ found[h] = <<>> /\ reply[h] = NoReply
  /\ \A j \in 1 .. cursor[h] - 1 : state[<<h, j>>] # "idle"

Waiting(h) ==
  /\ cursor[h] <= Len(Asks(body[h])) + 1 /\ reply[h] = NoReply
  /\ \A j \in 1 .. Len(Asks(body[h])) : state[<<h, j>>] # "idle"
  /\ CollectedUpTo(h, cursor[h], found[h])

\* A reply and what it is made of.
Justified(h) ==
  /\ reply[h].status \in {200, 400, 429, 502, 503}
  /\ reply[h].status = 200 =>
       CollectedUpTo(h, Len(Asks(body[h])) + 1, reply[h].results)
  /\ reply[h].status \in {429, 502} =>
       /\ cursor[h] \in 1 .. Len(Asks(body[h]))
       /\ reply[h].status = 429 <=>
            state[Deciding(h)] = "answered" /\ RateLimited(answer[Deciding(h)]) # {}
  /\ reply[h].status = 429 => reply[h].retry = RetryAfter(answer[Deciding(h)])

NothingPending(h) == \A i \in 1 .. MaxSubs : state[<<h, i>>] # "pending"

Placed(h) ==
  /\ at[h] = "idle" => Untouched(h)
  /\ at[h] # "idle" => body[h] \in Bodies
  /\ at[h] = "submitting" => Submitting(h)
  /\ at[h] = "waiting" => Waiting(h)
  /\ at[h] = "done" => Justified(h) /\ NothingPending(h)
  /\ at[h] = "gone" => reply[h] = NoReply /\ NothingPending(h)

HInv == Typed /\ Submitted /\ \A h \in Http : Placed(h)

-----------------------------------------------------------------------------
(* The helpers *)

\* Every body asks a sequence of well-formed requests, no more than MaxSubs.
LEMMA AsksTyped ==
  ASSUME NEW b \in Bodies
  PROVE  /\ Asks(b) \in Seq(Shape) /\ Len(Asks(b)) \in 0 .. MaxSubs
         /\ DOMAIN Asks(b) = 1 .. Len(Asks(b))
<1>1. CASE b \in EmbedBody
  <2>1. b.kind = "embed" /\ b.n \in Nat /\ b.provider \in Seq(Name)
        /\ b.providers \in Seq(Seq(Name)) /\ b.policy \in Seq({"all", "any"})
    BY <1>1 DEF EmbedBody
  <2>2. Given(b.providers, <<>>) \in Seq(Name)
    BY <2>1 DEF Given
  <2>3. Given(b.policy, "any") \in {"all", "any"}
    BY <2>1 DEF Given
  <2>4. EmbedAsks(b) \in Shape
    BY <2>1, <2>2, <2>3 DEF EmbedAsks, Shape
  <2>5. Asks(b) = <<EmbedAsks(b)>>
    BY <2>1 DEF Asks
  <2> QED
    BY <2>4, <2>5, HandlersAssumption
<1>2. CASE b \in BatchBody
  <2>1. b.kind = "batch" /\ b.subs \in Seq([n : Nat, providers : Seq(Name)])
    BY <1>2 DEF BatchBody
  <2>0. DOMAIN b.subs = 1 .. Len(b.subs)
    BY <2>1
  <2>2. \A i \in DOMAIN b.subs : SubAsks(b.subs[i]) \in Shape
    <3> SUFFICES ASSUME NEW i \in DOMAIN b.subs PROVE SubAsks(b.subs[i]) \in Shape
      OBVIOUS
    <3>1. b.subs[i].n \in Nat /\ b.subs[i].providers \in Seq(Name)
      <4>1. b.subs[i] \in [n : Nat, providers : Seq(Name)]
        BY <2>0, <2>1, ElementOfSeq
      <4> QED
        BY <4>1
    <3>2. b.subs[i].providers # <<>> => <<Head(b.subs[i].providers)>> \in Seq(Name)
      BY <3>1
    <3>3. <<>> \in Seq(Name)
      OBVIOUS
    <3> QED
      BY <3>1, <3>2, <3>3 DEF SubAsks, Shape
  <2>3. Asks(b) = [i \in DOMAIN b.subs |-> SubAsks(b.subs[i])]
    BY <2>1 DEF Asks
  <2>4. Len(b.subs) \in Nat /\ Len(b.subs) <= MaxSubs /\ DOMAIN b.subs = 1 .. Len(b.subs)
    BY <2>1, HandlersAssumption
  <2> QED
    BY <2>2, <2>3, <2>4, HandlersAssumption
<1> QED
  BY <1>1, <1>2, HandlersAssumption

\* What a sub-request asks, at an index of the batch.
LEMMA AskTyped ==
  ASSUME NEW b \in Bodies, NEW i \in 1 .. Len(Asks(b))
  PROVE  Asks(b)[i] \in Shape /\ i \in 1 .. MaxSubs
BY AsksTyped, HandlersAssumption

\* A handler that ends drops its receivers and touches nobody else's.
LEMMA LeftDrops ==
  ASSUME Typed, NEW h \in Http
  PROVE  /\ Left(h) \in [Req -> {"idle", "pending", "refused", "answered", "dropped", "gone"}]
         /\ \A r \in Req :
              /\ r[1] = h => Left(h)[r] # "pending"
              /\ Left(h)[r] = "idle" <=> state[r] = "idle"
              /\ Left(h)[r] = "answered" <=> state[r] = "answered"
              /\ r[1] # h => Left(h)[r] = state[r]
BY DEF Typed, Left

\* A set of naturals that is not empty has a least element.
LEMMA LeastNatural ==
  ASSUME NEW T, T \subseteq Nat, T # {}
  PROVE  \E x \in T : \A y \in T : x <= y
<1> DEFINE Less == OpToRel(<, Nat)
<1>1. PICK x \in T : \A y \in T : <<y, x>> \notin Less
  BY NatLessThanWellFounded, WFMin
<1>2. \A y \in T : y < x => <<y, x>> \in Less
  BY DEF OpToRel
<1> HIDE DEF Less
<1>3. \A y \in T : ~(y < x)
  BY <1>1, <1>2
<1>4. \A y \in T : x <= y
  <2> SUFFICES ASSUME NEW y \in T PROVE x <= y
    OBVIOUS
  <2>1. x \in Nat /\ y \in Nat
    OBVIOUS
  <2> QED
    BY <2>1, <1>3
<1> QED
  BY <1>4

\* Finitely many naturals have an upper bound.
LEMMA FiniteBound ==
  ASSUME NEW H, NEW n \in Nat, NEW f, \A i \in 1 .. n : f[i] \in H => f[i] \in Nat
  PROVE  \E m \in Nat : \A i \in 1 .. n : f[i] \in H => f[i] <= m
<1> DEFINE Bounded(k) == \E m \in Nat : \A i \in 1 .. k : f[i] \in H => f[i] <= m
           B == {j \in 0 .. n : ~Bounded(j)}
<1>1. Bounded(0)
  <2>1. 0 \in Nat /\ \A i \in 1 .. 0 : f[i] \in H => f[i] <= 0
    OBVIOUS
  <2> QED
    BY <2>1
<1>2. ASSUME NEW k \in 1 .. n, Bounded(k - 1) PROVE Bounded(k)
  <2>1. PICK m \in Nat : \A i \in 1 .. k - 1 : f[i] \in H => f[i] <= m
    BY <1>2
  <2>2. CASE f[k] \notin H
    <3>1. \A i \in 1 .. k : f[i] \in H => f[i] <= m
      <4> SUFFICES ASSUME NEW i \in 1 .. k, f[i] \in H PROVE f[i] <= m
        OBVIOUS
      <4>1. i \in 1 .. k - 1
        BY <2>2
      <4> QED
        BY <4>1, <2>1
    <3> QED
      BY <3>1
  <2>3. CASE f[k] \in H
    <3>1. f[k] \in Nat /\ m + f[k] \in Nat
      BY <2>3
    <3>2. ASSUME NEW i \in 1 .. k, f[i] \in H PROVE f[i] <= m + f[k]
      <4>1. CASE i = k
        BY <4>1, <3>1
      <4>2. CASE i # k
        <5>1. i \in 1 .. k - 1 /\ i \in 1 .. n
          BY <4>2
        <5>2. f[i] \in Nat /\ f[i] <= m
          BY <5>1, <2>1, <3>2
        <5> QED
          BY <5>2, <3>1
      <4> QED
        BY <4>1, <4>2
    <3> QED
      BY <3>1, <3>2
  <2> QED
    BY <2>2, <2>3
<1> HIDE DEF Bounded
<1>3. B = {}
  <2> SUFFICES ASSUME B # {} PROVE FALSE
    OBVIOUS
  <2>1. B \subseteq Nat
    OBVIOUS
  <2>2. PICK k \in B : \A j \in B : k <= j
    BY <2>1, LeastNatural
  <2>3. k \in 1 .. n /\ ~Bounded(k)
    BY <1>1
  <2>4. k - 1 \in 0 .. n /\ ~(k <= k - 1)
    BY <2>3
  <2>5. k - 1 \notin B
    BY <2>2, <2>4
  <2>6. Bounded(k - 1)
    BY <2>4, <2>5
  <2> QED
    BY <1>2, <2>3, <2>6
<1>4. Bounded(n)
  BY <1>3
<1> QED
  BY <1>4 DEF Bounded

\* The longest of the hints a sequence of names leads to exists.
LEMMA LongestHint ==
  ASSUME NEW H, NEW n \in Nat, NEW f,
         \A i \in 1 .. n : f[i] \in H => f[i] \in Nat,
         \A x \in H : \E i \in 1 .. n : x = f[i],
         H # {}
  PROVE  Max(H) \in Nat /\ \A y \in H : y \in Nat /\ Max(H) >= y
<1> DEFINE U == {m \in Nat : \A y \in H : y <= m}
<1>1. H \subseteq Nat
  OBVIOUS
<1>2. PICK m \in Nat : \A i \in 1 .. n : f[i] \in H => f[i] <= m
  BY FiniteBound
<1>3. m \in U
  BY <1>2
<1>4. PICK x \in U : \A y \in U : x <= y
  <2>1. U \subseteq Nat /\ U # {}
    BY <1>3
  <2> QED
    BY <2>1, LeastNatural
<1>5. x \in Nat /\ \A y \in H : y <= x
  OBVIOUS
<1>6. x \in H
  <2> SUFFICES ASSUME x \notin H PROVE FALSE
    OBVIOUS
  <2>1. \A y \in H : y \in Nat /\ y < x
    BY <1>1, <1>5
  <2>2. x - 1 \in Nat /\ \A y \in H : y <= x - 1
    <3>1. PICK y \in H : TRUE
      OBVIOUS
    <3>2. x - 1 \in Nat
      BY <1>5, <2>1, <3>1
    <3> QED
      BY <1>5, <2>1, <3>2
  <2>3. x - 1 \in U
    BY <2>2
  <2> QED
    BY <2>3, <1>4, <1>5
<1>7. x \in H /\ \A y \in H : x >= y
  BY <1>1, <1>5, <1>6
<1>8. Max(H) \in H /\ \A y \in H : Max(H) >= y
  BY <1>7 DEF Max
<1> QED
  BY <1>1, <1>8

-----------------------------------------------------------------------------
(* The invariant holds *)

\* What handler g has made of its requests stays when they stay, and when the
\* multiplexer settles one that is pending.
LEMMA Frame ==
  ASSUME HInv, NEW g \in Http,
         body'[g] = body[g], at'[g] = at[g], cursor'[g] = cursor[g],
         found'[g] = found[g], reply'[g] = reply[g],
         \A i \in 1 .. MaxSubs :
           /\ shape'[<<g, i>>] = shape[<<g, i>>]
           /\ \/ /\ state'[<<g, i>>] = state[<<g, i>>]
                 /\ answer'[<<g, i>>] = answer[<<g, i>>]
              \/ /\ state[<<g, i>>] = "pending"
                 /\ state'[<<g, i>>] \in {"answered", "dropped"}
  PROVE  Placed(g)'
<1>1. Placed(g) /\ cursor[g] \in 1 .. MaxSubs + 1 /\ MaxSubs \in Nat
  BY HandlersAssumption DEF HInv, Typed
<1>2. at[g] = "idle" => Untouched(g)'
  BY <1>1 DEF Placed, Untouched
<1>3. at[g] # "idle" => body[g] \in Bodies
  BY <1>1 DEF Placed
<1>4. at[g] # "idle" => Len(Asks(body[g])) \in 0 .. MaxSubs
  BY <1>3, AsksTyped
<1>5. at[g] = "submitting" => Submitting(g)'
  BY <1>1, <1>4 DEF Placed, Submitting
<1>6. ASSUME NEW k \in 1 .. MaxSubs + 1, NEW fs, CollectedUpTo(g, k, fs)
      PROVE  /\ fs = [j \in 1 .. k - 1 |-> answer'[<<g, j>>].results]
             /\ \A j \in 1 .. k - 1 : /\ state'[<<g, j>>] = "answered"
                                      /\ Met(shape'[<<g, j>>], answer'[<<g, j>>])
  <2>1. \A j \in 1 .. k - 1 : j \in 1 .. MaxSubs
    BY <1>1
  <2> QED
    BY <1>6, <2>1 DEF CollectedUpTo
<1>7. at[g] = "waiting" => Waiting(g)'
  <2> SUFFICES ASSUME at[g] = "waiting" PROVE Waiting(g)'
    OBVIOUS
  <2>1. Waiting(g)
    BY <1>1 DEF Placed
  <2>2. CollectedUpTo(g, cursor[g], found[g])'
    BY <1>1, <1>6, <2>1 DEF Waiting, CollectedUpTo
  <2>3. \A j \in 1 .. Len(Asks(body[g])) : j \in 1 .. MaxSubs /\ state'[<<g, j>>] # "idle"
    BY <1>1, <1>4, <2>1 DEF Waiting
  <2> QED
    BY <2>1, <2>2, <2>3 DEF Waiting
<1>8. at[g] = "done" => (Justified(g) /\ NothingPending(g))'
  <2> SUFFICES ASSUME at[g] = "done" PROVE (Justified(g) /\ NothingPending(g))'
    OBVIOUS
  <2>1. Justified(g) /\ NothingPending(g)
    BY <1>1 DEF Placed
  <2>2. \A i \in 1 .. MaxSubs : state'[<<g, i>>] = state[<<g, i>>]
                                /\ answer'[<<g, i>>] = answer[<<g, i>>]
    BY <2>1 DEF NothingPending
  <2>3. reply[g].status = 200 =>
          CollectedUpTo(g, Len(Asks(body[g])) + 1, reply[g].results)'
    <3> SUFFICES ASSUME reply[g].status = 200
                 PROVE  CollectedUpTo(g, Len(Asks(body[g])) + 1, reply[g].results)'
      OBVIOUS
    <3>1. Len(Asks(body[g])) + 1 \in 1 .. MaxSubs + 1
      BY <1>1, <1>4
    <3>2. CollectedUpTo(g, Len(Asks(body[g])) + 1, reply[g].results)
      BY <2>1 DEF Justified
    <3> QED
      BY <1>6, <3>1, <3>2 DEF CollectedUpTo
  <2>4. reply[g].status \in {429, 502} => cursor[g] \in 1 .. MaxSubs
    BY <1>1, <1>4, <2>1 DEF Justified
  <2>5. reply[g].status \in {429, 502} =>
          state'[Deciding(g)] = state[Deciding(g)] /\ answer'[Deciding(g)] = answer[Deciding(g)]
    BY <2>2, <2>4 DEF Deciding
  <2>6. reply[g].status \in {429, 502} => Deciding(g)' = Deciding(g)
    BY DEF Deciding
  <2>7. Justified(g)'
    BY <2>1, <2>3, <2>5, <2>6 DEF Justified, Deciding
  <2> QED
    BY <2>1, <2>2, <2>7 DEF NothingPending
<1>9. at[g] = "gone" => (reply[g] = NoReply /\ NothingPending(g))'
  BY <1>1 DEF Placed, NothingPending
<1> QED
  BY <1>2, <1>3, <1>5, <1>7, <1>8, <1>9 DEF Placed

LEMMA HandlersInit == Init => HInv
<1> SUFFICES ASSUME Init PROVE HInv
  OBVIOUS
<1>1. NoShape \in Shape
  BY DEF NoShape, Shape
<1>2. 1 \in 1 .. MaxSubs + 1
  BY HandlersAssumption
<1>3. Typed
  BY <1>1, <1>2 DEF Init, Typed
<1>4. Submitted
  BY DEF Init, Submitted
<1>5. \A h \in Http : Placed(h)
  BY DEF Init, Placed, Untouched, Req
<1> QED
  BY <1>3, <1>4, <1>5 DEF HInv

\* Receive is the only step that changes a body.
LEMMA ReceiveInv ==
  ASSUME HInv, NEW h \in Http, NEW b \in Bodies, Receive(h, b) PROVE HInv'
<1>1. Typed /\ Untouched(h) /\ at[h] = "idle"
  BY DEF HInv, Placed, Receive
<1>2. Asks(b) \in Seq(Shape) /\ Len(Asks(b)) \in 0 .. MaxSubs
  BY AsksTyped
<1>3. Typed'
  BY <1>1 DEF Receive, Typed
<1>4. Submitted'
  <2> SUFFICES ASSUME NEW r \in Req
               PROVE  /\ state[r] # "idle" => body'[r[1]] \in Bodies /\ Sent(r, body'[r[1]], shape[r])
                      /\ state[r] = "answered" => Sound(r, shape[r], answer[r])
    BY DEF Receive, Submitted
  <2>1. r[1] = h => state[r] = "idle"
    BY <1>1 DEF Untouched, Req
  <2>2. r[1] # h => body'[r[1]] = body[r[1]]
    BY <1>1 DEF Receive, Typed, Req
  <2> QED
    BY <2>1, <2>2 DEF HInv, Submitted
<1>5. \A g \in Http : g # h => Placed(g)'
  BY <1>1, Frame DEF Receive, Typed
<1>6. body'[h] = b /\ cursor'[h] = 1 /\ found'[h] = <<>> /\ reply'[h] = NoReply
  BY <1>1 DEF Receive, Typed, Untouched
<1>7. Placed(h)'
  <2>1. CASE Asks(b) = <<>>
    <3>1. at'[h] = "waiting" /\ Len(Asks(b)) = 0
      BY <1>1, <2>1 DEF Receive, Typed
    <3>2. CollectedUpTo(h, 1, <<>>)'
      BY DEF CollectedUpTo
    <3> QED
      BY <1>6, <3>1, <3>2 DEF Placed, Waiting
  <2>2. CASE Asks(b) # <<>>
    <3>1. at'[h] = "submitting" /\ 1 <= Len(Asks(b))
      BY <1>1, <1>2, <2>2 DEF Receive, Typed
    <3> QED
      BY <1>6, <3>1 DEF Placed, Submitting
  <2> QED
    BY <2>1, <2>2
<1> QED
  BY <1>3, <1>4, <1>5, <1>7 DEF HInv

\* A handler that returns without more submissions: what it dropped was
\* pending, and nothing else changes.
LEMMA LeavingInv ==
  ASSUME HInv, NEW h \in Http, state' = Left(h), UNCHANGED <<body, shape, answer>>
  PROVE  /\ Submitted'
         /\ NothingPending(h)'
         /\ state' \in [Req -> {"idle", "pending", "refused", "answered", "dropped", "gone"}]
         /\ \A g \in Http : g # h => \A i \in 1 .. MaxSubs : state'[<<g, i>>] = state[<<g, i>>]
<1>1. Typed
  BY DEF HInv
<1>2. \A r \in Req : /\ r[1] = h => state'[r] # "pending"
                     /\ state'[r] = "idle" <=> state[r] = "idle"
                     /\ state'[r] = "answered" <=> state[r] = "answered"
                     /\ r[1] # h => state'[r] = state[r]
  BY <1>1, LeftDrops
<1>3. Submitted'
  BY <1>2 DEF HInv, Submitted
<1>4. \A g \in Http, i \in 1 .. MaxSubs : <<g, i>> \in Req /\ <<g, i>>[1] = g
  BY DEF Req
<1> QED
  BY <1>1, <1>2, <1>3, <1>4, LeftDrops DEF NothingPending

\* A reply keeps the types.
LEMMA ReturnTyped ==
  ASSUME Typed, NEW h \in Http, NEW m, Return(h, m),
         shape' \in [Req -> Shape],
         state' \in [Req -> {"idle", "pending", "refused", "answered", "dropped", "gone"}],
         answer' = answer
  PROVE  Typed'
<1>1. at' \in [Http -> {"idle", "submitting", "waiting", "done", "gone"}]
  BY DEF Typed, Return
<1>2. reply' = [g \in Http |-> reply'[g]]
  BY DEF Typed, Return
<1>3. UNCHANGED <<body, cursor, found>>
  BY DEF Return
<1> QED
  BY <1>1, <1>2, <1>3 DEF Typed

LEMMA SubmitInv ==
  ASSUME HInv, NEW h \in Http, Submit(h) PROVE HInv'
<1> DEFINE i == cursor[h]
           b == body[h]
           s == Asks(body[h])[cursor[h]]
           r == <<h, cursor[h]>>
<1>1. Typed /\ Submitting(h) /\ at[h] = "submitting" /\ b \in Bodies
  BY DEF HInv, Placed, Submit
<1>2. i \in 1 .. Len(Asks(b)) /\ s \in Shape /\ i \in 1 .. MaxSubs
      /\ Len(Asks(b)) \in 0 .. MaxSubs
  BY <1>1, AsksTyped, AskTyped DEF Typed, Submitting
<1>3. r \in Req /\ r[1] = h /\ r[2] = i
  BY <1>2 DEF Req
<1>4. DOMAIN Asks(b) = 1 .. Len(Asks(b))
  BY <1>1, AsksTyped
<1>5. CASE ~Valid(b, s) /\ Return(h, Status(400)) /\ state' = Left(h) /\ UNCHANGED <<shape, answer>>
  <2>1. UNCHANGED <<body, cursor, found>> /\ reply'[h] = Status(400) /\ at'[h] = "done"
        /\ \A g \in Http : g # h => at'[g] = at[g] /\ reply'[g] = reply[g]
    BY <1>1, <1>5 DEF Return, Typed
  <2>2. Typed'
    <3>1. shape' \in [Req -> Shape] /\ answer' = answer
      BY <1>1, <1>5 DEF Typed
    <3> QED
      BY <1>1, <1>5, <2>1, <3>1, LeavingInv, ReturnTyped
  <2>3. \A g \in Http : g # h => Placed(g)'
    BY <1>5, <2>1, LeavingInv, Frame
  <2>4. Status(400).status = 400
    BY DEF Status, NoReply
  <2>5. Placed(h)'
    BY <1>1, <1>5, <2>1, <2>4, LeavingInv DEF Placed, Justified
  <2> QED
    BY <1>5, <2>1, <2>2, <2>3, <2>5, LeavingInv DEF HInv
<1>6. CASE /\ Valid(b, s) /\ Return(h, Status(503)) /\ shape' = [shape EXCEPT ![r] = s]
           /\ state' = [Left(h) EXCEPT ![r] = "refused"] /\ UNCHANGED answer
  <2>1. UNCHANGED <<body, cursor, found>> /\ reply'[h] = Status(503) /\ at'[h] = "done"
        /\ \A g \in Http : g # h => at'[g] = at[g] /\ reply'[g] = reply[g]
    BY <1>1, <1>6 DEF Return, Typed
  <2>2. Left(h) \in [Req -> {"idle", "pending", "refused", "answered", "dropped", "gone"}]
    BY <1>1, LeftDrops
  <2>3. state'[r] = "refused" /\ shape'[r] = s
        /\ \A q \in Req : q # r => state'[q] = Left(h)[q] /\ shape'[q] = shape[q]
    BY <1>1, <1>3, <1>6, <2>2 DEF Typed
  <2>4. Typed'
    <3>1. shape' \in [Req -> Shape]
      BY <1>1, <1>2, <1>3, <1>6 DEF Typed
    <3>2. state' \in [Req -> {"idle", "pending", "refused", "answered", "dropped", "gone"}]
      BY <1>3, <1>6, <2>2
    <3> QED
      BY <1>1, <1>6, <3>1, <3>2, ReturnTyped
  <2>5. \A q \in Req : q # r => /\ q[1] = h => state'[q] # "pending"
                                /\ state'[q] = "idle" <=> state[q] = "idle"
                                /\ state'[q] = "answered" <=> state[q] = "answered"
                                /\ q[1] # h => state'[q] = state[q]
    BY <1>1, <2>3, LeftDrops
  <2>6. Sent(r, b, s)
    BY <1>2, <1>3, <1>4, <1>6 DEF Sent
  <2>7. Submitted'
    BY <1>1, <1>3, <1>6, <2>1, <2>3, <2>5, <2>6 DEF HInv, Submitted
  <2>8. \A g \in Http, k \in 1 .. MaxSubs :
          <<g, k>> \in Req /\ <<g, k>>[1] = g /\ (g # h => <<g, k>> # r)
    BY DEF Req
  <2>9. \A g \in Http : g # h => Placed(g)'
    BY <1>6, <2>1, <2>3, <2>5, <2>8, Frame
  <2>10. NothingPending(h)'
    BY <2>3, <2>5, <2>8 DEF NothingPending
  <2>11. Status(503).status = 503
    BY DEF Status, NoReply
  <2>12. Placed(h)'
    BY <1>1, <2>1, <2>10, <2>11 DEF Placed, Justified
  <2> QED
    BY <2>4, <2>7, <2>9, <2>12 DEF HInv
<1>7. CASE /\ Valid(b, s) /\ shape' = [shape EXCEPT ![r] = s]
           /\ state' = [state EXCEPT ![r] = "pending"]
           /\ at' = [at EXCEPT ![h] = IF i = Len(Asks(b)) THEN "waiting" ELSE @]
           /\ cursor' = [cursor EXCEPT ![h] = IF i = Len(Asks(b)) THEN 1 ELSE i + 1]
           /\ UNCHANGED <<body, found, reply, answer>>
  <2>1. /\ at'[h] = IF i = Len(Asks(b)) THEN "waiting" ELSE "submitting"
        /\ cursor'[h] = IF i = Len(Asks(b)) THEN 1 ELSE i + 1
        /\ \A g \in Http : g # h => at'[g] = at[g] /\ cursor'[g] = cursor[g]
    BY <1>1, <1>7 DEF Typed
  <2>2. state'[r] = "pending" /\ shape'[r] = s
        /\ \A q \in Req : q # r => state'[q] = state[q] /\ shape'[q] = shape[q]
    BY <1>1, <1>3, <1>7 DEF Typed
  <2>3. Typed'
    <3>1. shape' \in [Req -> Shape]
      BY <1>1, <1>2, <1>3, <1>7 DEF Typed
    <3>2. state' \in [Req -> {"idle", "pending", "refused", "answered", "dropped", "gone"}]
      BY <1>1, <1>3, <1>7 DEF Typed
    <3>3. cursor' \in [Http -> 1 .. MaxSubs + 1]
      <4>1. 1 \in 1 .. MaxSubs + 1 /\ i + 1 \in 1 .. MaxSubs + 1
        BY <1>2, HandlersAssumption
      <4> QED
        BY <1>1, <1>7, <4>1 DEF Typed
    <3>4. at' \in [Http -> {"idle", "submitting", "waiting", "done", "gone"}]
      BY <1>1, <1>7 DEF Typed
    <3> QED
      BY <1>1, <1>7, <3>1, <3>2, <3>3, <3>4 DEF Typed
  <2>4. Sent(r, b, s)
    BY <1>2, <1>3, <1>4, <1>7 DEF Sent
  <2>5. Submitted'
    BY <1>1, <1>3, <1>7, <2>2, <2>4 DEF HInv, Submitted
  <2>6. \A g \in Http, k \in 1 .. MaxSubs :
          <<g, k>> \in Req /\ <<g, k>>[1] = g /\ (g # h => <<g, k>> # r)
          /\ (k # i => <<g, k>> # r)
    BY DEF Req
  <2>7. \A g \in Http : g # h => Placed(g)'
    BY <1>7, <2>1, <2>2, <2>6, Frame
  <2>8. \A j \in 1 .. i : state'[<<h, j>>] # "idle"
    <3> SUFFICES ASSUME NEW j \in 1 .. i PROVE state'[<<h, j>>] # "idle"
      OBVIOUS
    <3>1. j \in 1 .. MaxSubs
      BY <1>2, HandlersAssumption
    <3>2. CASE j = i
      BY <2>2, <3>2
    <3>3. CASE j # i
      BY <1>1, <1>2, <2>2, <2>6, <3>1, <3>3 DEF Submitting
    <3> QED
      BY <3>2, <3>3
  <2>9. found'[h] = <<>> /\ reply'[h] = NoReply /\ body'[h] = b
    BY <1>1, <1>7 DEF Submitting
  <2>10. CASE i = Len(Asks(b))
    <3>1. CollectedUpTo(h, 1, <<>>)'
      BY DEF CollectedUpTo
    <3>2. Waiting(h)'
      BY <1>2, <2>1, <2>8, <2>9, <2>10, <3>1 DEF Waiting
    <3> QED
      BY <1>1, <2>1, <2>9, <2>10, <3>2, <2>3, <2>5, <2>7 DEF Placed, HInv
  <2>11. CASE i # Len(Asks(b))
    <3>1. Submitting(h)'
      BY <1>2, <2>1, <2>8, <2>9, <2>11 DEF Submitting
    <3> QED
      BY <1>1, <2>1, <2>9, <2>11, <3>1, <2>3, <2>5, <2>7 DEF Placed, HInv
  <2> QED
    BY <2>10, <2>11
<1> QED
  BY <1>5, <1>6, <1>7 DEF Submit

\* A function on 1 .. n is a sequence of that length.
LEMMA FunctionSeq ==
  ASSUME NEW T, NEW n \in Nat, NEW f \in [1 .. n -> T]
  PROVE  f \in Seq(T) /\ Len(f) = n
OBVIOUS

LEMMA AwaitInv ==
  ASSUME HInv, NEW h \in Http, AwaitAnswer(h) PROVE HInv'
<1> DEFINE i == cursor[h]
           b == body[h]
           r == <<h, cursor[h]>>
<1>1. Typed /\ Waiting(h) /\ at[h] = "waiting" /\ b \in Bodies
  BY DEF HInv, Placed, AwaitAnswer
<1>2. i \in 1 .. Len(Asks(b)) /\ i \in 1 .. MaxSubs /\ Len(Asks(b)) \in 0 .. MaxSubs
  BY <1>1, AsksTyped, AskTyped DEF Typed, AwaitAnswer
<1>3. r \in Req /\ state[r] = "answered" /\ UNCHANGED <<shape, answer>>
  BY <1>2 DEF Req, AwaitAnswer
<1>4. CASE /\ Met(shape[r], answer[r]) /\ found' = Collected(h, answer[r])
           /\ cursor' = [cursor EXCEPT ![h] = i + 1] /\ UNCHANGED <<body, at, reply, state>>
  <2>1. i + 1 \in 1 .. MaxSubs + 1
    BY <1>2, HandlersAssumption
  <2>2. Typed'
    <3>1. found' = [g \in Http |-> found'[g]]
      BY <1>1, <1>4 DEF Typed, Collected
    <3>2. cursor' \in [Http -> 1 .. MaxSubs + 1]
      BY <1>1, <1>4, <2>1 DEF Typed
    <3> QED
      BY <1>1, <1>3, <1>4, <3>1, <3>2 DEF Typed
  <2>3. Submitted'
    BY <1>3, <1>4 DEF HInv, Submitted
  <2>4. \A g \in Http : g # h => Placed(g)'
    <3> SUFFICES ASSUME NEW g \in Http, g # h PROVE Placed(g)'
      OBVIOUS
    <3>1. cursor'[g] = cursor[g] /\ found'[g] = found[g]
      BY <1>1, <1>4 DEF Typed, Collected
    <3> QED
      BY <1>3, <1>4, <3>1, Frame
  <2>5. found'[h] = Append(found[h], answer[r].results) /\ cursor'[h] = i + 1
    BY <1>1, <1>4 DEF Typed, Collected
  <2>6. found'[h] = [j \in 1 .. i |-> answer[<<h, j>>].results]
    <3> DEFINE S == {answer[<<h, j>>].results : j \in 1 .. i}
    <3>1. found[h] = [j \in 1 .. i - 1 |-> answer[<<h, j>>].results] /\ i - 1 \in Nat
      BY <1>1, <1>2 DEF Waiting, CollectedUpTo
    <3>2. found[h] \in Seq(S) /\ Len(found[h]) = i - 1
      <4>1. ASSUME NEW j \in 1 .. i - 1 PROVE answer[<<h, j>>].results \in S
        <5>1. i \in Nat /\ j \in 1 .. i
          BY <1>2
        <5> QED
          BY <5>1
      <4> HIDE DEF S
      <4>2. found[h] \in [1 .. i - 1 -> S]
        BY <3>1, <4>1
      <4> QED
        BY <3>1, <4>2, FunctionSeq
    <3> HIDE DEF S
    <3>3. DOMAIN found'[h] = 1 .. i
      BY <1>2, <2>5, <3>2
    <3>4. \A j \in 1 .. i : found'[h][j] = answer[<<h, j>>].results
      <4> SUFFICES ASSUME NEW j \in 1 .. i
                   PROVE  found'[h][j] = answer[<<h, j>>].results
        OBVIOUS
      <4>1. CASE j = i
        BY <4>1, <2>5, <3>1, <3>2
      <4>2. CASE j # i
        <5>1. j \in 1 .. i - 1
          BY <4>2, <1>2
        <5>2. found'[h][j] = found[h][j]
          BY <5>1, <2>5, <3>2
        <5> QED
          BY <5>1, <5>2, <3>1
      <4> QED
        BY <4>1, <4>2
    <3>5. found'[h] = [j \in DOMAIN found'[h] |-> found'[h][j]]
      BY <2>5, <3>2
    <3> QED
      BY <3>3, <3>4, <3>5
  <2>7. \A j \in 1 .. i : state[<<h, j>>] = "answered" /\ Met(shape[<<h, j>>], answer[<<h, j>>])
    BY <1>1, <1>2, <1>3, <1>4 DEF Waiting, CollectedUpTo
  <2>8. CollectedUpTo(h, cursor[h], found[h])'
    BY <1>2, <1>3, <1>4, <2>5, <2>6, <2>7 DEF CollectedUpTo
  <2>9. Waiting(h)'
    BY <1>1, <1>2, <1>4, <2>5, <2>8 DEF Waiting
  <2>10. Placed(h)'
    BY <1>1, <1>4, <2>9 DEF Placed
  <2> QED
    BY <2>2, <2>3, <2>4, <2>10 DEF HInv
<1>5. CASE ~Met(shape[r], answer[r]) /\ Return(h, FailureReply(answer[r])) /\ state' = Left(h)
  <2>1. UNCHANGED <<body, cursor, found>> /\ reply'[h] = FailureReply(answer[r]) /\ at'[h] = "done"
        /\ \A g \in Http : g # h => at'[g] = at[g] /\ reply'[g] = reply[g]
    BY <1>1, <1>5 DEF Return, Typed
  <2>2. Typed'
    <3>1. shape' \in [Req -> Shape] /\ answer' = answer
      BY <1>1, <1>3 DEF Typed
    <3> QED
      BY <1>1, <1>3, <1>5, <2>1, <3>1, LeavingInv, ReturnTyped
  <2>3. \A g \in Http : g # h => Placed(g)'
    BY <1>3, <1>5, <2>1, LeavingInv, Frame
  <2>4. state'[r] = "answered"
    BY <1>1, <1>3, <1>5, LeftDrops
  <2>5. /\ FailureReply(answer[r]).status = IF RateLimited(answer[r]) # {} THEN 429 ELSE 502
        /\ RateLimited(answer[r]) # {} => FailureReply(answer[r]).retry = RetryAfter(answer[r])
    BY DEF FailureReply, Status, NoReply
  <2>6. Deciding(h)' = r
    BY <2>1 DEF Deciding
  <2>7. Justified(h)'
    <3>1. CASE RateLimited(answer[r]) # {}
      <4>1. reply'[h].status = 429 /\ reply'[h].retry = RetryAfter(answer[r])
        BY <3>1, <2>1, <2>5
      <4> QED
        BY <1>2, <1>3, <2>1, <2>4, <2>6, <3>1, <4>1 DEF Justified
    <3>2. CASE RateLimited(answer[r]) = {}
      <4>1. reply'[h].status = 502
        BY <3>2, <2>1, <2>5
      <4> QED
        BY <1>2, <1>3, <2>1, <2>6, <3>2, <4>1 DEF Justified
    <3> QED
      BY <3>1, <3>2
  <2>8. Placed(h)'
    BY <1>1, <1>3, <1>5, <2>1, <2>7, LeavingInv DEF Placed
  <2> QED
    BY <1>3, <1>5, <2>1, <2>2, <2>3, <2>8, LeavingInv DEF HInv
<1> QED
  BY <1>4, <1>5 DEF AwaitAnswer

LEMMA DroppedInv ==
  ASSUME HInv, NEW h \in Http, AwaitDropped(h) PROVE HInv'
<1> DEFINE r == <<h, cursor[h]>>
<1>1. Typed /\ at[h] = "waiting" /\ body[h] \in Bodies
  BY DEF HInv, Placed, AwaitDropped
<1>2. cursor[h] \in 1 .. Len(Asks(body[h])) /\ r \in Req
  BY <1>1, AsksTyped, AskTyped DEF Typed, AwaitDropped, Req
<1>3. UNCHANGED <<body, cursor, found, shape, answer>> /\ reply'[h] = Status(502) /\ at'[h] = "done"
      /\ \A g \in Http : g # h => at'[g] = at[g] /\ reply'[g] = reply[g]
  BY <1>1 DEF AwaitDropped, Return, Typed
<1>4. state' = Left(h) /\ state[r] = "dropped"
  BY DEF AwaitDropped
<1>5. Typed'
  <2>1. shape' \in [Req -> Shape] /\ answer' = answer
    BY <1>1, <1>3 DEF Typed
  <2> QED
    BY <1>1, <1>3, <1>4, <2>1, LeavingInv, ReturnTyped DEF AwaitDropped
<1>6. \A g \in Http : g # h => Placed(g)'
  BY <1>3, <1>4, LeavingInv, Frame
<1>7. state'[r] # "answered"
  BY <1>1, <1>2, <1>4, LeftDrops
<1>8. Status(502).status = 502
  BY DEF Status, NoReply
<1>9. Placed(h)'
  BY <1>1, <1>2, <1>3, <1>4, <1>7, <1>8, LeavingInv DEF Placed, Justified, Deciding
<1> QED
  BY <1>3, <1>4, <1>5, <1>6, <1>9, LeavingInv DEF HInv

LEMMA FinishInv ==
  ASSUME HInv, NEW h \in Http, Finish(h) PROVE HInv'
<1>1. Typed /\ Waiting(h) /\ at[h] = "waiting" /\ body[h] \in Bodies
  BY DEF HInv, Placed, Finish
<1>2. cursor[h] = Len(Asks(body[h])) + 1 /\ Len(Asks(body[h])) \in 0 .. MaxSubs
  BY <1>1, AsksTyped DEF Typed, Waiting, Finish
<1>3. UNCHANGED <<body, cursor, found, shape, state, answer>>
      /\ reply'[h] = [Status(200) EXCEPT !.results = found[h]] /\ at'[h] = "done"
      /\ \A g \in Http : g # h => at'[g] = at[g] /\ reply'[g] = reply[g]
  BY <1>1 DEF Finish, Return, Typed
<1>4. Typed'
  <2>1. Return(h, [Status(200) EXCEPT !.results = found[h]])
    BY DEF Finish
  <2>2. /\ shape' \in [Req -> Shape]
        /\ state' \in [Req -> {"idle", "pending", "refused", "answered", "dropped", "gone"}]
        /\ answer' = answer
    BY <1>1, <1>3 DEF Typed
  <2> QED
    BY <1>1, <2>1, <2>2, ReturnTyped
<1>5. Submitted'
  BY <1>3 DEF HInv, Submitted
<1>6. \A g \in Http : g # h => Placed(g)'
  BY <1>3, Frame
<1>7. reply'[h].status = 200 /\ reply'[h].results = found[h]
  BY <1>3 DEF Status, NoReply
<1>8. NothingPending(h)'
  <2> SUFFICES ASSUME NEW i \in 1 .. MaxSubs PROVE state[<<h, i>>] # "pending"
    BY <1>3 DEF NothingPending
  <2>1. <<h, i>> \in Req /\ <<h, i>>[2] = i /\ <<h, i>>[1] = h
    BY DEF Req
  <2>2. CASE i \in 1 .. Len(Asks(body[h]))
    BY <1>1, <1>2, <2>2 DEF Waiting, CollectedUpTo
  <2>3. CASE i \notin 1 .. Len(Asks(body[h]))
    <3>1. i \notin DOMAIN Asks(body[h])
      BY <1>1, <2>3, AsksTyped
    <3> QED
      BY <2>1, <3>1 DEF HInv, Submitted, Sent
  <2> QED
    BY <2>2, <2>3
<1>9. CollectedUpTo(h, Len(Asks(body[h])) + 1, reply[h].results)'
  BY <1>1, <1>2, <1>3, <1>7 DEF Waiting, CollectedUpTo
<1>10. Placed(h)'
  BY <1>1, <1>3, <1>7, <1>8, <1>9 DEF Placed, Justified
<1> QED
  BY <1>4, <1>5, <1>6, <1>10 DEF HInv

LEMMA DisconnectInv ==
  ASSUME HInv, NEW h \in Http, Disconnect(h) PROVE HInv'
<1>1. Typed /\ Waiting(h) /\ body[h] \in Bodies
  BY DEF HInv, Placed, Disconnect
<1>2. UNCHANGED <<body, cursor, found, reply, shape, answer>> /\ at'[h] = "gone"
      /\ state' = Left(h) /\ \A g \in Http : g # h => at'[g] = at[g]
  BY <1>1 DEF Disconnect, Typed
<1>3. Typed'
  <2>1. state' \in [Req -> {"idle", "pending", "refused", "answered", "dropped", "gone"}]
    BY <1>2, LeavingInv
  <2>2. at' \in [Http -> {"idle", "submitting", "waiting", "done", "gone"}]
    BY <1>1 DEF Disconnect, Typed
  <2> QED
    BY <1>1, <1>2, <2>1, <2>2 DEF Typed
<1>4. \A g \in Http : g # h => Placed(g)'
  BY <1>2, LeavingInv, Frame
<1>5. Placed(h)'
  BY <1>1, <1>2, LeavingInv DEF Placed, Waiting
<1> QED
  BY <1>2, <1>3, <1>4, <1>5, LeavingInv DEF HInv

\* The multiplexer settles a request.
LEMMA SettledInv ==
  ASSUME HInv, NEW r \in Req, state[r] = "pending",
         UNCHANGED <<body, at, cursor, found, reply, shape>>,
         NEW v \in {"answered", "dropped"}, state' = [state EXCEPT ![r] = v],
         answer' = [q \in Req |-> answer'[q]],
         \A q \in Req : q # r => answer'[q] = answer[q],
         v = "answered" => Sound(r, shape[r], answer'[r])
  PROVE  HInv'
<1>1. Typed'
  BY DEF HInv, Typed
<1>2. state'[r] = v /\ \A q \in Req : q # r => state'[q] = state[q]
  BY DEF HInv, Typed
<1>3. Submitted'
  BY <1>2 DEF HInv, Submitted
<1>4. \A g \in Http, i \in 1 .. MaxSubs : <<g, i>> \in Req
  BY DEF Req
<1>5. \A g \in Http : Placed(g)'
  BY <1>2, <1>4, Frame
<1> QED
  BY <1>1, <1>3, <1>5 DEF HInv

LEMMA AnswerInv ==
  ASSUME HInv, NEW r \in Req, Answer(r) PROVE HInv'
<1>1. PICK tried \in SUBSET Service!Asked(shape[r]) :
      \E good \in SUBSET tried : \E fs \in [tried \ good -> Failures] :
        LET texts == [i \in 1 .. shape[r].n |-> <<r, i>>]
            a == [results |-> [p \in good |-> texts], failed |-> fs]
        IN Service!RightAnswer(r, shape[r], a) /\ answer' = [answer EXCEPT ![r] = a]
  BY DEF Answer
<1>2. PICK good \in SUBSET tried : \E fs \in [tried \ good -> Failures] :
        LET texts == [i \in 1 .. shape[r].n |-> <<r, i>>]
            a == [results |-> [p \in good |-> texts], failed |-> fs]
        IN Service!RightAnswer(r, shape[r], a) /\ answer' = [answer EXCEPT ![r] = a]
  BY <1>1
<1>3. PICK fs \in [tried \ good -> Failures] :
        LET texts == [i \in 1 .. shape[r].n |-> <<r, i>>]
            a == [results |-> [p \in good |-> texts], failed |-> fs]
        IN Service!RightAnswer(r, shape[r], a) /\ answer' = [answer EXCEPT ![r] = a]
  BY <1>2
<1> DEFINE a == [results |-> [p \in good |-> [i \in 1 .. shape[r].n |-> <<r, i>>]],
                 failed |-> fs]
<1>4. Service!RightAnswer(r, shape[r], a) /\ answer' = [answer EXCEPT ![r] = a]
  BY <1>3
<1>5. \A p \in DOMAIN a.failed : a.failed[p] \in Failures
  OBVIOUS
<1> HIDE DEF a
<1>6. answer' = [q \in Req |-> answer'[q]] /\ answer'[r] = a
      /\ \A q \in Req : q # r => answer'[q] = answer[q]
  BY <1>4 DEF HInv, Typed
<1>7. Sound(r, shape[r], answer'[r])
  BY <1>4, <1>5, <1>6 DEF Sound
<1> QED
  BY <1>6, <1>7, SettledInv DEF Answer

LEMMA DropInv ==
  ASSUME HInv, NEW r \in Req, Drop(r) PROVE HInv'
<1>1. answer' = [q \in Req |-> answer'[q]] /\ \A q \in Req : answer'[q] = answer[q]
  BY DEF Drop, HInv, Typed
<1> QED
  BY <1>1, SettledInv DEF Drop

LEMMA HandlersInductive == Spec => []HInv
<1>1. ASSUME HInv, [Next]_handlerVars PROVE HInv'
  <2>1. CASE UNCHANGED handlerVars
    <3>1. Typed' /\ Submitted'
      BY <1>1, <2>1 DEF HInv, handlerVars, Typed, Submitted
    <3>2. \A h \in Http : Placed(h)'
      BY <1>1, <2>1, Frame DEF handlerVars
    <3> QED
      BY <3>1, <3>2 DEF HInv
  <2>2. ASSUME NEW h \in Http, Handler(h) PROVE HInv'
    BY <1>1, <2>2, SubmitInv, AwaitInv, DroppedInv, FinishInv DEF Handler
  <2>3. ASSUME NEW h \in Http, Disconnect(h) PROVE HInv'
    BY <1>1, <2>3, DisconnectInv
  <2>4. ASSUME NEW h \in Http, NEW b \in Bodies, Receive(h, b) PROVE HInv'
    BY <1>1, <2>4, ReceiveInv
  <2>5. ASSUME NEW r \in Req, Answer(r) \/ Drop(r) PROVE HInv'
    BY <1>1, <2>5, AnswerInv, DropInv
  <2> QED
    BY <1>1, <2>1, <2>2, <2>3, <2>4, <2>5 DEF Next
<1> QED
  BY <1>1, HandlersInit, PTL DEF Spec

-----------------------------------------------------------------------------
(* Theorems *)

\* What a handler holds: results up to its cursor while it awaits, no receiver
\* once it has ended, and a status exactly when it has returned.
THEOREM HandlersTypes == Spec => []HandlersTypeOK
<1>1. HInv => HandlersTypeOK
  <2> SUFFICES ASSUME HInv PROVE HandlersTypeOK
    OBVIOUS
  <2>1. Typed /\ MaxSubs \in Nat
    BY HandlersAssumption DEF HInv
  <2>2. ASSUME NEW h \in Http
        PROVE  /\ at[h] = "waiting" => Len(found[h]) = cursor[h] - 1
               /\ at[h] \in {"done", "gone"} => \A i \in 1 .. MaxSubs : state[<<h, i>>] # "pending"
               /\ reply[h].status \in {0, 200, 400, 429, 502, 503}
               /\ at[h] = "done" <=> reply[h].status # 0
    <3>1. Placed(h) /\ cursor[h] - 1 \in Nat
      BY <2>1 DEF HInv, Typed
    <3>2. NoReply.status = 0
      BY DEF NoReply
    <3>3. at[h] = "waiting" => Len(found[h]) = cursor[h] - 1
      <4> SUFFICES ASSUME at[h] = "waiting" PROVE Len(found[h]) = cursor[h] - 1
        OBVIOUS
      <4>1. found[h] = [j \in 1 .. cursor[h] - 1 |-> answer[<<h, j>>].results]
        BY <3>1 DEF Placed, Waiting, CollectedUpTo
      <4> QED
        BY <3>1, <4>1
    <3>4. at[h] \in {"idle", "submitting", "waiting", "done", "gone"}
      BY <2>1 DEF Typed
    <3>5. at[h] = "done" => reply[h].status \in {200, 400, 429, 502, 503}
      BY <3>1 DEF Placed, Justified
    <3>6. at[h] # "done" => reply[h] = NoReply
      BY <3>1, <3>4 DEF Placed, Untouched, Submitting, Waiting
    <3> QED
      BY <3>1, <3>2, <3>3, <3>5, <3>6 DEF Placed, NothingPending
  <2> QED
    BY <2>1, <2>2 DEF HandlersTypeOK, Typed, Shape
<1> QED
  BY <1>1, HandlersInductive, PTL

\* The multiplexer never gets a request without providers, with a provider it
\* does not know, or, from embed, without texts.
THEOREM Submissions == Spec => []SubmitsWhatMuxTakes
<1>1. HInv => SubmitsWhatMuxTakes
  BY DEF HInv, Submitted, Sent, Valid, SubmitsWhatMuxTakes
<1> QED
  BY <1>1, HandlersInductive, PTL

\* A 200 is made of answers that are right and meet their policy, one for
\* each sub-request.
LEMMA Granted ==
  ASSUME HInv, NEW h \in Http, reply[h].status = 200
  PROVE  /\ Len(reply[h].results) = Len(Asks(body[h]))
         /\ DOMAIN reply[h].results = 1 .. Len(Asks(body[h]))
         /\ DOMAIN Asks(body[h]) = 1 .. Len(Asks(body[h]))
         /\ \A i \in 1 .. Len(Asks(body[h])) :
              LET s == Asks(body[h])[i]
                  a == answer[<<h, i>>]
              IN reply[h].results[i] = a.results /\ Met(s, a)
                 /\ Service!RightAnswer(<<h, i>>, s, a)
<1>1. at[h] = "done"
  <2>1. at[h] \in {"idle", "submitting", "waiting", "done", "gone"} /\ NoReply.status = 0
    BY DEF HInv, Typed, NoReply
  <2>2. at[h] # "done" => reply[h] = NoReply
    BY <2>1 DEF HInv, Placed, Untouched, Submitting, Waiting
  <2> QED
    BY <2>1, <2>2
<1>2. body[h] \in Bodies /\ CollectedUpTo(h, Len(Asks(body[h])) + 1, reply[h].results)
  BY <1>1 DEF HInv, Placed, Justified
<1>3. Len(Asks(body[h])) \in 0 .. MaxSubs /\ DOMAIN Asks(body[h]) = 1 .. Len(Asks(body[h]))
  BY <1>2, AsksTyped
<1>4. reply[h].results = [j \in 1 .. Len(Asks(body[h])) |-> answer[<<h, j>>].results]
  BY <1>2, <1>3 DEF CollectedUpTo
<1>5. ASSUME NEW i \in 1 .. Len(Asks(body[h]))
      PROVE  /\ Met(Asks(body[h])[i], answer[<<h, i>>])
             /\ Service!RightAnswer(<<h, i>>, Asks(body[h])[i], answer[<<h, i>>])
  <2>1. <<h, i>> \in Req /\ <<h, i>>[2] = i /\ <<h, i>>[1] = h
    BY <1>3, HandlersAssumption DEF Req
  <2>2. state[<<h, i>>] = "answered" /\ Met(shape[<<h, i>>], answer[<<h, i>>])
    BY <1>2, <1>3 DEF CollectedUpTo
  <2>3. shape[<<h, i>>] = Asks(body[h])[i]
    BY <2>1, <2>2 DEF HInv, Submitted, Sent
  <2> QED
    BY <2>1, <2>2, <2>3 DEF HInv, Submitted, Sound
<1> QED
  BY <1>3, <1>4, <1>5

\* A 200 means what the policy of each sub-request says.
THEOREM Policies == Spec => []PolicyKept
<1>1. HInv => PolicyKept
  <2> SUFFICES ASSUME HInv, NEW h \in Http, reply[h].status = 200,
                      NEW i \in DOMAIN Asks(body[h])
               PROVE  LET s == Asks(body[h])[i]
                          got == DOMAIN reply[h].results[i]
                      IN IF s.policy = "all" THEN got = Service!Asked(s) ELSE got # {}
    BY DEF PolicyKept
  <2>1. i \in 1 .. Len(Asks(body[h]))
    BY Granted
  <2> DEFINE s == Asks(body[h])[i]
             a == answer[<<h, i>>]
  <2>2. reply[h].results[i] = a.results /\ Met(s, a) /\ Service!RightAnswer(<<h, i>>, s, a)
    BY <2>1, Granted
  <2>3. CASE s.policy = "all"
    <3>1. DOMAIN a.failed = {} /\ DOMAIN a.results \cup DOMAIN a.failed = Service!Asked(s)
      BY <2>2, <2>3 DEF Met, Service!RightAnswer
    <3> QED
      BY <2>2, <2>3, <3>1
  <2>4. CASE s.policy # "all"
    BY <2>2, <2>4 DEF Met
  <2> QED
    BY <2>3, <2>4
<1> QED
  BY <1>1, HandlersInductive, PTL

\* Whatever the order of the answers, the results come in that of the texts.
THEOREM Ordered == Spec => []ResultsInOrder
<1>1. HInv => ResultsInOrder
  <2> SUFFICES ASSUME HInv, NEW h \in Http, reply[h].status = 200
               PROVE  /\ Len(reply[h].results) = Len(Asks(body[h]))
                      /\ \A i \in DOMAIN reply[h].results : \A p \in DOMAIN reply[h].results[i] :
                           reply[h].results[i][p] =
                             [j \in 1 .. Asks(body[h])[i].n |-> <<<<h, i>>, j>>]
    BY DEF ResultsInOrder
  <2>1. Len(reply[h].results) = Len(Asks(body[h]))
        /\ DOMAIN reply[h].results = 1 .. Len(Asks(body[h]))
    BY Granted
  <2>2. \A i \in DOMAIN reply[h].results : \A p \in DOMAIN reply[h].results[i] :
          reply[h].results[i][p] = [j \in 1 .. Asks(body[h])[i].n |-> <<<<h, i>>, j>>]
    <3> TAKE i \in DOMAIN reply[h].results
    <3> TAKE p \in DOMAIN reply[h].results[i]
    <3>1. reply[h].results[i] = answer[<<h, i>>].results
          /\ Service!RightAnswer(<<h, i>>, Asks(body[h])[i], answer[<<h, i>>])
      BY <2>1, Granted
    <3>2. p \in DOMAIN answer[<<h, i>>].results
      BY <3>1
    <3>3. answer[<<h, i>>].results[p] = [j \in 1 .. Asks(body[h])[i].n |-> <<<<h, i>>, j>>]
      BY <3>1, <3>2 DEF Service!RightAnswer
    <3> QED
      BY <3>1, <3>3
  <2> QED
    BY <2>1, <2>2
<1> QED
  BY <1>1, HandlersInductive, PTL

\* A 429 or 502 comes from a handler that has returned.
LEMMA Refusals ==
  ASSUME HInv, NEW h \in Http, reply[h].status \in {429, 502}
  PROVE  Justified(h) /\ body[h] \in Bodies
<1>1. at[h] \in {"idle", "submitting", "waiting", "done", "gone"} /\ NoReply.status = 0
  BY DEF HInv, Typed, NoReply
<1>2. at[h] # "done" => reply[h] = NoReply
  BY <1>1 DEF HInv, Placed, Untouched, Submitting, Waiting
<1> QED
  BY <1>1, <1>2 DEF HInv, Placed

\* No rate limit is hidden by another failure, and none is invented.
THEOREM PassedThrough == Spec => []RateLimitsPassThrough
<1>1. HInv => RateLimitsPassThrough
  BY Refusals DEF Justified, RateLimitsPassThrough
<1> QED
  BY <1>1, HandlersInductive, PTL

\* The Retry-After of a 429 is at least every pause a provider asked for.
THEOREM PauseIsEnough == Spec => []RetryAfterIsEnough
<1>1. HInv => RetryAfterIsEnough
  <2> SUFFICES ASSUME HInv, NEW h \in Http, reply[h].status = 429,
                      NEW hint \in Hints(answer[Deciding(h)])
               PROVE  reply[h].retry # <<>> /\ 2 * reply[h].retry[1] >= hint
    BY DEF RetryAfterIsEnough
  <2> DEFINE r == Deciding(h)
             H == Hints(answer[r])
             s == shape[r]
             a == answer[r]
             n == Len(s.providers)
             f == [i \in 1 .. n |-> a.failed[s.providers[i]].retry[1]]
  <2>1. Justified(h) /\ body[h] \in Bodies
    BY Refusals
  <2>2. cursor[h] \in 1 .. Len(Asks(body[h])) /\ state[r] = "answered"
        /\ reply[h].retry = RetryAfter(a)
    BY <2>1 DEF Justified
  <2>3. r \in Req
    BY <2>1, <2>2, AskTyped DEF Deciding, Req
  <2>4. Sound(r, s, a) /\ s \in Shape
    BY <2>2, <2>3 DEF HInv, Submitted, Typed
  <2>5. n \in Nat /\ DOMAIN s.providers = 1 .. n
    BY <2>4 DEF Shape
  <2>6. \A p \in DOMAIN a.failed : a.failed[p] \in Failures /\ \E i \in 1 .. n : p = s.providers[i]
    BY <2>4, <2>5 DEF Sound, Service!RightAnswer, Service!Asked
  <2>7. \A x \in Failures : x.retry # <<>> => x.retry[1] \in Nat
    BY HandlersAssumption DEF Failure
  <2>8. \A x \in H : x \in Nat /\ \E i \in 1 .. n : x = f[i]
    <3> SUFFICES ASSUME NEW x \in H PROVE x \in Nat /\ \E i \in 1 .. n : x = f[i]
      OBVIOUS
    <3>1. PICK p \in DOMAIN a.failed : a.failed[p].retry # <<>> /\ x = a.failed[p].retry[1]
      BY DEF Hints, RateLimited
    <3>2. PICK i \in 1 .. n : p = s.providers[i]
      BY <2>6
    <3>3. x = f[i]
      BY <3>1, <3>2
    <3>4. x \in Nat
      BY <2>6, <2>7, <3>1
    <3> QED
      BY <3>3, <3>4
  <2>9. Max(H) \in Nat /\ \A y \in H : y \in Nat /\ Max(H) >= y
    <3> HIDE DEF f, H, n
    <3>1. \A i \in 1 .. n : f[i] \in H => f[i] \in Nat
      BY <2>8
    <3>2. H # {} /\ n \in Nat
      BY <2>5 DEF H
    <3>3. \A x \in H : \E i \in 1 .. n : x = f[i]
      BY <2>8
    <3> QED
      <4>1. Max(H) \in Nat /\ \A y \in H : y \in Nat /\ Max(H) >= y
        BY <3>1, <3>2, <3>3, LongestHint
      <4> QED
        BY <4>1
  <2>10. reply[h].retry = <<(Max(H) + 1) \div 2>>
    BY <2>2 DEF RetryAfter
  <2>11. hint \in Nat /\ Max(H) >= hint
    BY <2>9
  <2>12. reply[h].retry # <<>> /\ reply[h].retry[1] = (Max(H) + 1) \div 2
    BY <2>10
  <2> HIDE DEF H
  <2> QED
    BY <2>9, <2>11, <2>12
<1> QED
  BY <1>1, HandlersInductive, PTL

-----------------------------------------------------------------------------
(* A step of a handler, as its receivers and its requests see it *)

Live == {"pending", "answered", "dropped"}

\* A handler has a live receiver for all it has submitted, and has sent nothing
\* that it has not come to.
Held ==
  \A h \in Http :
    /\ at[h] = "submitting" =>
         \A i \in 1 .. MaxSubs :
           IF i < cursor[h] THEN state[<<h, i>>] \in Live ELSE state[<<h, i>>] = "idle"
    /\ at[h] = "waiting" =>
         \A i \in 1 .. Len(Asks(body[h])) : state[<<h, i>>] \in Live

OthersRest(h) ==
  /\ \A r \in Req : answer'[r] = answer[r]
  /\ \A g \in Http : g # h => UNCHANGED <<body[g], at[g], cursor[g]>>
  /\ \A r \in Req : r[1] # h => state'[r] = state[r] /\ shape'[r] = shape[r]

\* Own receivers are kept, or dropped.
Drops(r) == /\ shape'[r] = shape[r]
            /\ state'[r] = IF state[r] = "pending" THEN "gone" ELSE state[r]

Begins(h) ==
  /\ at[h] = "idle" /\ cursor'[h] = 1
  /\ \A i \in 1 .. MaxSubs : state'[<<h, i>>] = "idle" /\ UNCHANGED shape[<<h, i>>]
  /\ \/ at'[h] = "submitting"
     \/ at'[h] = "waiting" /\ Len(Asks(body'[h])) = 0

EndsHere(h) ==
  /\ at[h] \in {"submitting", "waiting"} /\ at'[h] \in {"done", "gone"}
  /\ \A i \in 1 .. MaxSubs : Drops(<<h, i>>)

EndsRefused(h) ==
  /\ at[h] = "submitting" /\ at'[h] = "done"
  /\ state'[<<h, cursor[h]>>] = "refused" /\ shape'[<<h, cursor[h]>>] \in Takes
  /\ \A i \in 1 .. MaxSubs : i # cursor[h] => Drops(<<h, i>>)

Sends(h) ==
  /\ at[h] = "submitting"
  /\ state'[<<h, cursor[h]>>] = "pending" /\ shape'[<<h, cursor[h]>>] \in Takes
  /\ \A i \in 1 .. MaxSubs : i # cursor[h] =>
       state'[<<h, i>>] = state[<<h, i>>] /\ shape'[<<h, i>>] = shape[<<h, i>>]
  /\ IF cursor[h] = Len(Asks(body[h]))
     THEN at'[h] = "waiting" /\ cursor'[h] = 1
     ELSE at'[h] = "submitting" /\ cursor'[h] = cursor[h] + 1

Collects(h) ==
  /\ at[h] = "waiting" /\ at'[h] = "waiting"
  /\ cursor[h] <= Len(Asks(body[h])) /\ cursor'[h] = cursor[h] + 1
  /\ \A i \in 1 .. MaxSubs :
       state'[<<h, i>>] = state[<<h, i>>] /\ shape'[<<h, i>>] = shape[<<h, i>>]

HandlerStep(h) ==
  /\ OthersRest(h)
  /\ \/ Begins(h)
     \/ /\ body'[h] = body[h]
        /\ EndsHere(h) \/ EndsRefused(h) \/ Sends(h) \/ Collects(h)

\* A step of the service: one request of some handler is settled.
ServiceStep(r) ==
  /\ state[r] = "pending" /\ state'[r] \in {"answered", "dropped"}
  /\ \A q \in Req : q # r => state'[q] = state[q] /\ answer'[q] = answer[q]
  /\ state'[r] = "answered" => Service!RightAnswer(r, shape[r], answer'[r])
  /\ state'[r] = "dropped" => answer'[r] = answer[r]
  /\ UNCHANGED <<body, at, cursor, shape>>

\* A handler that returns or is gone has dropped its receivers and no others.
LEMMA LeavesAsEnd ==
  ASSUME HInv, NEW h \in Http, state' = Left(h), UNCHANGED shape
  PROVE  /\ \A i \in 1 .. MaxSubs : Drops(<<h, i>>)
         /\ \A r \in Req : r[1] # h => state'[r] = state[r] /\ shape'[r] = shape[r]
<1>1. \A i \in 1 .. MaxSubs : <<h, i>> \in Req /\ <<h, i>>[1] = h
  BY DEF Req
<1>2. QED
  BY <1>1 DEF Left, Drops

LEMMA SubmitIsStep ==
  ASSUME HInv, NEW h \in Http, Submit(h)
  PROVE  HandlerStep(h)
<1> DEFINE i == cursor[h]
           s == Asks(body[h])[i]
           r == <<h, i>>
<1>1. Typed /\ at[h] = "submitting" /\ Submitting(h) /\ body[h] \in Bodies
  BY DEF HInv, Placed, Submit
<1>2. i \in 1 .. Len(Asks(body[h])) /\ s \in Shape /\ i \in 1 .. MaxSubs
  BY <1>1, AsksTyped, AskTyped DEF Typed, Submitting
<1>3. r \in Req /\ \A q \in Req : q[1] # h => q # r
  BY <1>2 DEF Req
<1>4. Valid(body[h], s) => s \in Takes
  BY <1>2 DEF Valid, Takes, Shape
<1>5. \A j \in 1 .. MaxSubs : /\ <<h, j>> \in Req /\ <<h, j>>[1] = h
                              /\ j # i => <<h, j>> # r
  BY DEF Req
<1>6. CASE /\ Return(h, Status(400))
           /\ state' = Left(h) /\ UNCHANGED <<shape, answer>>
  <2>1. OthersRest(h)
    BY <1>1, <1>6, LeavesAsEnd DEF Return, OthersRest, Typed
  <2>2. EndsHere(h) /\ body'[h] = body[h]
    BY <1>1, <1>6, LeavesAsEnd DEF Return, EndsHere, Typed
  <2>3. QED
    BY <2>1, <2>2 DEF HandlerStep
<1>7. CASE /\ Valid(body[h], s)
           /\ Return(h, Status(503))
           /\ shape' = [shape EXCEPT ![r] = s]
           /\ state' = [Left(h) EXCEPT ![r] = "refused"] /\ UNCHANGED answer
  <2>1. /\ state'[r] = "refused" /\ shape'[r] = s
        /\ \A q \in Req : q # r => shape'[q] = shape[q] /\ state'[q] = Left(h)[q]
    BY <1>1, <1>3, <1>7 DEF Typed, Left
  <2>2. OthersRest(h)
    BY <1>1, <1>3, <1>7, <2>1 DEF Return, OthersRest, Typed, Left
  <2>3. EndsRefused(h) /\ body'[h] = body[h]
    BY <1>1, <1>4, <1>5, <1>7, <2>1 DEF Return, EndsRefused, Typed, Left, Drops
  <2>4. QED
    BY <2>2, <2>3 DEF HandlerStep
<1>8. CASE /\ Valid(body[h], s)
           /\ shape' = [shape EXCEPT ![r] = s]
           /\ state' = [state EXCEPT ![r] = "pending"]
           /\ at' = [at EXCEPT ![h] = IF i = Len(Asks(body[h])) THEN "waiting" ELSE @]
           /\ cursor' = [cursor EXCEPT ![h] = IF i = Len(Asks(body[h])) THEN 1 ELSE i + 1]
           /\ UNCHANGED <<body, found, reply, answer>>
  <2>1. /\ state'[r] = "pending" /\ shape'[r] = s
        /\ \A q \in Req : q # r => shape'[q] = shape[q] /\ state'[q] = state[q]
    BY <1>1, <1>3, <1>8 DEF Typed
  <2>2. OthersRest(h)
    BY <1>1, <1>3, <1>8, <2>1 DEF OthersRest, Typed
  <2>3. Sends(h) /\ body'[h] = body[h]
    BY <1>1, <1>4, <1>5, <1>8, <2>1 DEF Sends, Typed
  <2>4. QED
    BY <2>2, <2>3 DEF HandlerStep
<1>9. QED
  BY <1>6, <1>7, <1>8 DEF Submit

LEMMA WaitingIsStep ==
  ASSUME HInv, NEW h \in Http, AwaitAnswer(h) \/ AwaitDropped(h) \/ Finish(h) \/ Disconnect(h)
  PROVE  HandlerStep(h)
<1>1. Typed /\ at[h] = "waiting"
  BY DEF HInv, AwaitAnswer, AwaitDropped, Finish, Disconnect
<1>2. UNCHANGED <<shape, answer>> /\ body' = body
  BY DEF AwaitAnswer, AwaitDropped, Finish, Disconnect, Return
<1>3. \A j \in 1 .. MaxSubs : <<h, j>> \in Req
  BY DEF Req
<1>4. CASE /\ cursor' = [cursor EXCEPT ![h] = cursor[h] + 1]
           /\ cursor[h] <= Len(Asks(body[h])) /\ UNCHANGED <<at, state>>
  BY <1>1, <1>2, <1>4 DEF HandlerStep, OthersRest, Collects, Typed
<1>5. CASE /\ state' = Left(h) /\ UNCHANGED cursor
           /\ \E end \in {"done", "gone"} : at' = [at EXCEPT ![h] = end]
  <2>1. OthersRest(h)
    BY <1>1, <1>2, <1>5, LeavesAsEnd DEF OthersRest, Typed
  <2>2. EndsHere(h)
    BY <1>1, <1>2, <1>5, LeavesAsEnd DEF EndsHere, Typed
  <2>3. QED
    BY <1>2, <2>1, <2>2 DEF HandlerStep
<1>6. CASE Finish(h)
  <2>1. \A j \in 1 .. MaxSubs : state[<<h, j>>] # "pending"
    <3> SUFFICES ASSUME NEW j \in 1 .. MaxSubs, state[<<h, j>>] = "pending"
                 PROVE  FALSE
      OBVIOUS
    <3>1. Waiting(h) /\ body[h] \in Bodies
      BY <1>1 DEF HInv, Placed
    <3>2. Sent(<<h, j>>, body[h], shape[<<h, j>>])
      BY <1>3 DEF HInv, Submitted
    <3>3. j \in 1 .. Len(Asks(body[h]))
      BY <3>1, <3>2, AsksTyped DEF Sent
    <3>4. j \in 1 .. cursor[h] - 1
      BY <1>1, <1>6, <3>1, <3>3, AsksTyped DEF Finish, Typed
    <3>5. state[<<h, j>>] = "answered"
      BY <3>1, <3>4 DEF Waiting, CollectedUpTo
    <3>6. QED
      BY <3>5
  <2>2. OthersRest(h)
    BY <1>1, <1>2, <1>6 DEF Finish, Return, OthersRest, Typed
  <2>3. EndsHere(h)
    BY <1>1, <1>2, <1>6, <2>1 DEF Finish, Return, EndsHere, Drops, Typed
  <2>4. QED
    BY <1>2, <2>2, <2>3 DEF HandlerStep
<1>7. CASE AwaitAnswer(h)
  BY <1>4, <1>5, <1>7 DEF AwaitAnswer, Return
<1>8. CASE AwaitDropped(h) \/ Disconnect(h)
  BY <1>5, <1>8 DEF AwaitDropped, Disconnect, Return
<1>9. QED
  BY <1>6, <1>7, <1>8

LEMMA ReceiveIsStep ==
  ASSUME HInv, NEW h \in Http, NEW b \in Bodies, Receive(h, b)
  PROVE  HandlerStep(h)
<1>1. Typed /\ at[h] = "idle" /\ Untouched(h)
  BY DEF HInv, Placed, Receive
<1>2. OthersRest(h)
  BY <1>1 DEF Receive, OthersRest, Typed
<1>3. body'[h] = b /\ (Asks(b) = <<>> => Len(Asks(b)) = 0)
  BY <1>1 DEF Receive, Typed
<1>4. Begins(h)
  BY <1>1, <1>3 DEF Receive, Begins, Untouched, Typed
<1>5. QED
  BY <1>2, <1>4 DEF HandlerStep

LEMMA SettlesIsStep ==
  ASSUME HInv, NEW r \in Req, Answer(r) \/ Drop(r)
  PROVE  ServiceStep(r)
<1>1. Typed
  BY DEF HInv
<1>2. CASE Drop(r)
  BY <1>1, <1>2 DEF Drop, ServiceStep, Typed
<1>3. CASE Answer(r)
  <2>1. PICK a : Service!RightAnswer(r, shape[r], a) /\ answer' = [answer EXCEPT ![r] = a]
    BY <1>3 DEF Answer
  <2>2. answer'[r] = a /\ \A q \in Req : q # r => answer'[q] = answer[q]
    BY <1>1, <2>1 DEF Typed
  <2>3. QED
    BY <1>1, <1>3, <2>1, <2>2 DEF Answer, ServiceStep, Typed
<1>4. QED
  BY <1>2, <1>3

\* Every step is one of these two.
LEMMA StepsOfHandlers ==
  ASSUME HInv, Next
  PROVE  (\E h \in Http : HandlerStep(h)) \/ (\E r \in Req : ServiceStep(r))
BY SubmitIsStep, WaitingIsStep, ReceiveIsStep, SettlesIsStep DEF Next, Handler

LEMMA HeldNext == HInv /\ Held /\ [Next]_handlerVars => Held'
<1> SUFFICES ASSUME HInv, Held, [Next]_handlerVars PROVE Held'
  OBVIOUS
<1>1. CASE UNCHANGED handlerVars
  BY <1>1 DEF Held, handlerVars
<1>2. ASSUME NEW r \in Req, ServiceStep(r)
      PROVE  Held'
  <2>1. \A h \in Http, i \in 1 .. MaxSubs :
          \/ state'[<<h, i>>] = state[<<h, i>>]
          \/ state[<<h, i>>] \in Live /\ state[<<h, i>>] # "idle" /\ state'[<<h, i>>] \in Live
    BY <1>2 DEF ServiceStep, Live, Req
  <2>2. \A h \in Http : at[h] = "waiting" => Len(Asks(body[h])) \in 0 .. MaxSubs
    BY AsksTyped DEF HInv, Placed
  <2>3. \A h \in Http : at[h] = "waiting" => \A i \in 1 .. Len(Asks(body[h])) : i \in 1 .. MaxSubs
    BY <2>2, HandlersAssumption
  <2>4. QED
    BY <1>2, <2>1, <2>3 DEF ServiceStep, Held, Live
<1>3. ASSUME NEW h \in Http, HandlerStep(h)
      PROVE  Held'
  <2>1. \A g \in Http : at[g] \in {"submitting", "waiting"} => Len(Asks(body[g])) \in 0 .. MaxSubs
    BY AsksTyped DEF HInv, Placed
  <2>2. \A g \in Http : at[g] \in {"submitting", "waiting"} =>
          \A i \in 1 .. Len(Asks(body[g])) : i \in 1 .. MaxSubs
    BY <2>1, HandlersAssumption
  <2>3. \A g \in Http, i \in 1 .. MaxSubs :
          <<g, i>> \in Req /\ (g # h => state'[<<g, i>>] = state[<<g, i>>])
    BY <1>3 DEF HandlerStep, OthersRest, Req
  <2>4. ASSUME NEW g \in Http, g # h
        PROVE  /\ UNCHANGED <<body[g], at[g], cursor[g]>>
               /\ \A i \in 1 .. MaxSubs : state'[<<g, i>>] = state[<<g, i>>]
    BY <1>3, <2>3, <2>4 DEF HandlerStep, OthersRest
  <2>5. /\ at'[h] = "submitting" =>
             \A i \in 1 .. MaxSubs :
               IF i < cursor'[h] THEN state'[<<h, i>>] \in Live ELSE state'[<<h, i>>] = "idle"
        /\ at'[h] = "waiting" =>
             \A i \in 1 .. Len(Asks(body'[h])) : state'[<<h, i>>] \in Live
    <3>1. cursor[h] \in 1 .. MaxSubs + 1 /\ MaxSubs \in Nat
      BY HandlersAssumption DEF HInv, Typed
    <3>2. CASE Begins(h)
      BY <3>1, <3>2 DEF Begins
    <3>3. CASE EndsHere(h) \/ EndsRefused(h)
      BY <3>3 DEF EndsHere, EndsRefused
    <3>4. CASE Sends(h) /\ body'[h] = body[h]
      <4>1. cursor[h] \in 1 .. Len(Asks(body[h]))
        BY <3>1, <3>4, <2>1 DEF Sends, HInv, Placed, Submitting
      <4>2. cursor[h] \in 1 .. MaxSubs
        BY <2>2, <3>4, <4>1 DEF Sends
      <4>3. \A i \in 1 .. MaxSubs :
              IF i < cursor[h] + 1 THEN state'[<<h, i>>] \in Live ELSE state'[<<h, i>>] = "idle"
        BY <3>1, <3>4, <4>2 DEF Sends, Held, Live
      <4>4. CASE cursor[h] = Len(Asks(body[h]))
        <5>1. \A i \in 1 .. Len(Asks(body'[h])) : i \in 1 .. MaxSubs /\ i < cursor[h] + 1
          BY <2>1, <2>2, <3>1, <3>4, <4>4 DEF Sends
        <5>2. QED
          BY <3>4, <4>3, <4>4, <5>1 DEF Sends
      <4>5. CASE cursor[h] # Len(Asks(body[h]))
        BY <3>4, <4>3, <4>5 DEF Sends
      <4>6. QED
        BY <4>4, <4>5
    <3>5. CASE Collects(h) /\ body'[h] = body[h]
      BY <2>2, <3>5 DEF Collects, Held
    <3>6. QED
      BY <1>3, <3>2, <3>3, <3>4, <3>5 DEF HandlerStep
  <2>6. ASSUME NEW g \in Http
        PROVE  /\ at'[g] = "submitting" =>
                    \A i \in 1 .. MaxSubs :
                      IF i < cursor'[g] THEN state'[<<g, i>>] \in Live ELSE state'[<<g, i>>] = "idle"
               /\ at'[g] = "waiting" =>
                    \A i \in 1 .. Len(Asks(body'[g])) : state'[<<g, i>>] \in Live
    <3>1. CASE g = h
      BY <2>5, <3>1
    <3>2. CASE g # h
      BY <2>2, <2>4, <3>2 DEF Held
    <3>3. QED
      BY <3>1, <3>2
  <2>7. QED
    BY <2>6 DEF Held
<1>4. QED
  BY <1>1, <1>2, <1>3, StepsOfHandlers

LEMMA HeldAlways == Spec => [](HInv /\ Held)
<1>1. Init => Held
  BY DEF Init, Held
<1>2. QED
  BY <1>1, HeldNext, HandlersInductive, PTL DEF Spec

\* A handler that awaits has a receiver to await, until everything is collected:
\* it waits for the service and for nothing else.
THEOREM WaitsForTheServiceOnly == Spec => []NobodyWaitsInVain
<1>1. HInv /\ Held => NobodyWaitsInVain
  <2> SUFFICES ASSUME HInv, Held, NEW h \in Http, at[h] = "waiting",
                      ~(cursor[h] > Len(Asks(body[h])))
               PROVE  state[<<h, cursor[h]>>] \in {"pending", "answered", "dropped"}
    BY DEF NobodyWaitsInVain
  <2>1. cursor[h] \in 1 .. MaxSubs + 1 /\ body[h] \in Bodies
    BY DEF HInv, Typed, Placed
  <2>2. cursor[h] \in 1 .. Len(Asks(body[h]))
    BY <2>1, AsksTyped, HandlersAssumption
  <2>3. QED
    BY <2>2 DEF Held, Live
<1>2. QED
  BY <1>1, HeldAlways, PTL

RunsDown ==
  \A h \in Http : at[h] # "idle" =>
    LET n == Len(Asks(body[h]))
    IN /\ body'[h] = body[h]
       /\ \/ UNCHANGED <<at[h], cursor[h]>>
          \/ TurnsLeft(at'[h], cursor'[h], n) < TurnsLeft(at[h], cursor[h], n)

\* No handler turns in circles: 2 n + 2 turns at most answer a batch of n.
THEOREM HandlersGetNearer == Spec => HandlersRunDown
<1>1. HInv /\ [Next]_handlerVars => [RunsDown]_handlerVars
  <2> SUFFICES ASSUME HInv, Next, NEW h \in Http, at[h] # "idle"
               PROVE  /\ body'[h] = body[h]
                      /\ \/ UNCHANGED <<at[h], cursor[h]>>
                         \/ TurnsLeft(at'[h], cursor'[h], Len(Asks(body[h])))
                              < TurnsLeft(at[h], cursor[h], Len(Asks(body[h])))
    BY DEF RunsDown
  <2>1. CASE \E r \in Req : ServiceStep(r)
    BY <2>1 DEF ServiceStep
  <2>2. ASSUME NEW g \in Http, HandlerStep(g), g # h
        PROVE  UNCHANGED <<body[h], at[h], cursor[h]>>
    BY <2>2 DEF HandlerStep, OthersRest
  <2>3. CASE HandlerStep(h)
    <3>1. Len(Asks(body[h])) \in Nat /\ cursor[h] \in Nat
      BY AsksTyped, HandlersAssumption DEF HInv, Placed, Typed
    <3>2. body'[h] = body[h] /\ (EndsHere(h) \/ EndsRefused(h) \/ Sends(h) \/ Collects(h))
      BY <2>3 DEF HandlerStep, Begins
    <3>3. at[h] = "submitting" => cursor[h] <= Len(Asks(body[h]))
      BY DEF HInv, Placed, Submitting
    <3>4. at[h] = "waiting" => cursor[h] <= Len(Asks(body[h])) + 1
      BY DEF HInv, Placed, Waiting
    <3>5. CASE EndsHere(h) \/ EndsRefused(h)
      BY <3>1, <3>2, <3>3, <3>4, <3>5 DEF EndsHere, EndsRefused, TurnsLeft
    <3>6. CASE Sends(h)
      BY <3>1, <3>2, <3>3, <3>6 DEF Sends, TurnsLeft
    <3>7. CASE Collects(h)
      BY <3>1, <3>2, <3>7 DEF Collects, TurnsLeft
    <3>8. QED
      BY <3>2, <3>5, <3>6, <3>7
  <2>4. QED
    BY <2>1, <2>2, <2>3, StepsOfHandlers
<1>2. Spec => [][RunsDown]_handlerVars
  BY <1>1, HandlersInductive, PTL DEF Spec
<1>3. QED
  BY <1>2, PTL DEF HandlersRunDown, RunsDown

-----------------------------------------------------------------------------
(* The caller's side of the contract *)

\* The steps of one handler are acceptances, refusals and abandonments of its
\* own requests.
LEMMA HandlerKeepsContract ==
  ASSUME HInv, Held, NEW h \in Http, HandlerStep(h)
  PROVE  Promised!ServiceNext
<1> SUFFICES ASSUME NEW r \in Req
             PROVE  \/ Promised!Rest(r) \/ Promised!Accept(r)
                    \/ Promised!Answer(r) \/ Promised!Abandon(r)
  BY DEF Promised!ServiceNext
<1>1. answer'[r] = answer[r]
  BY DEF HandlerStep, OthersRest
<1>2. CASE state'[r] = state[r] /\ shape'[r] = shape[r]
  BY <1>1, <1>2 DEF Promised!Rest
<1>3. CASE Drops(r)
  BY <1>1, <1>3 DEF Drops, Promised!Rest, Promised!Abandon
<1>4. CASE state[r] = "idle" /\ state'[r] \in {"pending", "refused"} /\ shape'[r] \in Takes
  BY <1>1, <1>4 DEF Promised!Accept
<1>5. CASE r[1] # h
  BY <1>2, <1>5 DEF HandlerStep, OthersRest
<1>6. CASE r[1] = h
  <2>1. PICK i \in 1 .. MaxSubs : r = <<h, i>>
    BY <1>6 DEF Req
  <2>2. CASE Begins(h)
    <3>1. state[<<h, i>>] = "idle"
      BY <2>2 DEF Begins, HInv, Placed, Untouched
    <3>2. QED
      BY <1>2, <2>1, <2>2, <3>1 DEF Begins
  <2>3. CASE EndsHere(h)
    BY <1>3, <2>1, <2>3 DEF EndsHere
  <2>4. CASE EndsRefused(h) \/ Sends(h)
    <3>1. state[<<h, cursor[h]>>] = "idle" \/ cursor[h] \notin 1 .. MaxSubs
      <4>1. at[h] = "submitting" /\ cursor[h] \in 1 .. MaxSubs + 1
        BY <2>4 DEF EndsRefused, Sends, HInv, Typed
      <4>2. QED
        BY <4>1, HandlersAssumption DEF Held
    <3>2. QED
      BY <1>2, <1>3, <1>4, <2>1, <2>4, <3>1 DEF EndsRefused, Sends
  <2>5. CASE Collects(h)
    BY <1>2, <2>1, <2>5 DEF Collects
  <2>6. QED
    BY <2>2, <2>3, <2>4, <2>5 DEF HandlerStep
<1>7. QED
  BY <1>5, <1>6

\* The handlers are callers the multiplexer can serve: what module Mux assumes
\* of the requests it is sent, they guarantee, and what it promises is all that
\* is assumed here.
THEOREM HandlersKeepToService == Spec => KeepsToService
<1>1. Init => Promised!ServiceInit
  BY DEF Init, Promised!ServiceInit, Promised!NoAnswer, Service!NoAnswer
<1>2. HInv /\ Held /\ [Next]_handlerVars => [Promised!ServiceNext]_Promised!serviceVars
  <2> SUFFICES ASSUME HInv, Held, [Next]_handlerVars
               PROVE  Promised!ServiceNext \/ UNCHANGED Promised!serviceVars
    OBVIOUS
  <2>1. CASE UNCHANGED handlerVars
    BY <2>1 DEF handlerVars, Promised!serviceVars
  <2>2. ASSUME NEW r \in Req, ServiceStep(r)
        PROVE  Promised!ServiceNext
    <3>1. \A q \in Req : q # r => Promised!Rest(q)
      BY <2>2 DEF ServiceStep, Promised!Rest
    <3>2. state'[r] = "dropped" => Promised!Abandon(r)
      BY <2>2 DEF ServiceStep, Promised!Abandon
    <3>3. state'[r] = "answered" => Promised!Answer(r)
      BY <2>2 DEF ServiceStep, Promised!Answer, Promised!RightAnswer, Promised!Asked,
                  Service!RightAnswer, Service!Asked
    <3>4. QED
      BY <2>2, <3>1, <3>2, <3>3 DEF Promised!ServiceNext, ServiceStep
  <2>3. QED
    BY <2>1, <2>2, HandlerKeepsContract, StepsOfHandlers
<1>3. QED
  BY <1>1, <1>2, HeldAlways, PTL DEF Spec, KeepsToService, Promised!ServiceSpec

=============================================================================
