--------------------------- MODULE MuxBatchProofs ---------------------------
(***************************************************************************)
(* More about the multiplexer, on top of the invariant of MuxProofs: how   *)
(* large a batch may be, where the reply senders are, that an answer is    *)
(* final, and, when requests fit and providers behave, that every accepted *)
(* request is answered in full; what a shutdown leaves, that nobody is     *)
(* forgotten, and that nothing is sent twice.  For any providers, limits   *)
(* and requests.                                                           *)
(***************************************************************************)
EXTENDS MuxProofs

-----------------------------------------------------------------------------
(* How large batches are *)

SlotFits(p, s) ==
  /\ Len(s.texts) <= HardMax[p]
  /\ s.texts # <<>> => Len(s.texts) < s.threshold
  /\ ~s.open => s = NoSlot

TaskFits(t) == Len(t.texts) \in 1 .. HardMax[t.p]

Sizes ==
  /\ \A p \in Provider : SlotFits(p, slot[p])
  /\ \A t \in tasks : TaskFits(t)

LEMMA NoSlotFits == \A p \in Provider : SlotFits(p, NoSlot)
BY MuxAssumption, EmptySeq DEF SlotFits, NoSlot

\* What flush_slot takes from a slot that is not empty.
LEMMA FlushedFits ==
  ASSUME NEW p \in Provider, NEW s \in SlotState, Len(s.texts) <= HardMax[p], ~IsEmpty(s)
  PROVE  TaskFits(TaskOf(p, s))
<1>1. s.texts \in Seq(Text)
  BY BatchFields
<1>2. Len(s.texts) \in Nat /\ Len(s.texts) # 0
  BY <1>1, LenProperties, EmptySeq DEF IsEmpty
<1>3. HardMax[p] \in Nat
  BY MuxAssumption
<1>4. TaskOf(p, s).texts = s.texts /\ TaskOf(p, s).p = p
  BY DEF TaskOf
<1> QED
  BY <1>2, <1>3, <1>4 DEF TaskFits

LEMMA FlushSlotsFits ==
  ASSUME IInv, Sizes, NEW ps, ps \subseteq Provider, FlushSlots(ps)
  PROVE  Sizes'
<1> DEFINE flushed == {p \in ps : slot[p].open /\ ~IsEmpty(slot[p])}
<1>1. /\ tasks' = tasks \cup {TaskOf(p, slot[p]) : p \in flushed}
      /\ slot' = [p \in Provider |-> IF p \in flushed THEN NoSlot ELSE slot[p]]
  BY DEF FlushSlots
<1>2. ASSUME NEW t \in tasks' PROVE TaskFits(t)
  <2>1. CASE t \in tasks
    BY <2>1 DEF Sizes
  <2>2. ASSUME NEW p \in flushed, t = TaskOf(p, slot[p]) PROVE TaskFits(t)
    <3>1. p \in Provider /\ slot[p] \in SlotState /\ Len(slot[p].texts) <= HardMax[p]
          /\ ~IsEmpty(slot[p])
      BY DEF IInv, Batches, Sizes, SlotFits
    <3> QED
      BY <2>2, <3>1, FlushedFits
  <2> QED
    BY <1>1, <1>2, <2>1, <2>2
<1>3. ASSUME NEW p \in Provider PROVE SlotFits(p, slot'[p])
  BY <1>1, NoSlotFits DEF Sizes
<1> QED
  BY <1>2, <1>3 DEF Sizes

LEMMA AddToSlotFits ==
  ASSUME IInv, Sizes, NEW r \in Req, NEW i \in DOMAIN legs[r], AddToSlot(r, i)
  PROVE  Sizes'
<1> DEFINE p    == legs[r][i].p
           old  == slot[p]
           full == MustFlushFirst(p, old, req[r].n)
           base == IF old.open /\ ~full THEN old ELSE NewSlot(p)
           new  == AddCaller(p, base, <<r, i>>, Texts(r))
           flush == ShouldFlush(new) /\ ~IsEmpty(new)
<1>1. /\ tasks' = tasks \cup (IF full THEN {TaskOf(p, old)} ELSE {})
                        \cup (IF flush THEN {TaskOf(p, new)} ELSE {})
      /\ slot' = [slot EXCEPT ![p] = IF flush THEN NoSlot ELSE new]
  BY DEF AddToSlot
<1>2. p \in Provider /\ status[r] # "idle" /\ HardMax[p] \in Nat \ {0} /\ i \in Nat \ {0}
  BY LegType, MuxAssumption DEF IInv
<1>3. slot \in [Provider -> SlotState] /\ old \in SlotState /\ SlotFits(p, old)
  BY <1>2 DEF IInv, Batches, Sizes
<1>4. base \in SlotState /\ Len(base.texts) <= HardMax[p] /\ base.open
  <2>1. NewSlot(p) \in SlotState
    BY <1>2, NewSlotOK DEF IInv
  <2>2. NewSlot(p).texts = <<>> /\ NewSlot(p).open
    BY DEF NewSlot, NoSlot
  <2>3. Len(NewSlot(p).texts) <= HardMax[p]
    BY <1>2, <2>2, EmptySeq
  <2> QED
    BY <1>3, <2>1, <2>2, <2>3 DEF SlotFits
<1>5. Texts(r) \in Seq(Text) /\ Len(Texts(r)) = req[r].n /\ req[r].n \in Nat
  <2>1. req[r] \in Shape
    BY DEF IInv, Requests
  <2> QED
    BY <2>1, TextsType DEF Texts, Shape
<1> HIDE DEF full, base
<1>6. new \in SlotState
  <2>1. req \in [Req -> Shape] /\ BatchOK(base, req, status, legs)
    <3>1. BatchOK(NewSlot(p), req, status, legs) /\ BatchOK(old, req, status, legs)
      BY <1>2, NewSlotOK DEF IInv, Batches
    <3> QED
      BY <3>1 DEF base, IInv, Requests
  <2>2. new = AddCaller(p, base, <<r, i>>, TextsOf(r, req[r]))
    BY DEF Texts
  <2>3. LET n == AddCaller(p, base, <<r, i>>, TextsOf(r, req[r])) IN n \in SlotState
    BY <1>2, <1>4, <2>1, AddCallerOK
  <2> QED
    BY <2>2, <2>3
<1>7. Len(new.texts) <= HardMax[p] /\ new.open
  <2>0. base.texts \in Seq(Text) /\ Len(base.texts) \in Nat
    BY <1>4, BatchFields, LenProperties
  <2>1. CASE WouldOverflow(p, base, Len(Texts(r)))
    <3>1. new = [base EXCEPT !.senders = @ \cup {<<r, i>>}]
      BY <2>1 DEF AddCaller
    <3>2. new.texts = base.texts /\ new.open = base.open
      BY <1>4, <3>1 DEF SlotState
    <3> QED
      BY <1>4, <3>2
  <2>2. CASE ~WouldOverflow(p, base, Len(Texts(r)))
    <3>1. new.texts = base.texts \o Texts(r) /\ new.open = base.open
      BY <1>4, <2>2 DEF AddCaller, Extend, SlotState
    <3>2. Len(new.texts) = Len(base.texts) + Len(Texts(r))
      BY <1>5, <2>0, <3>1, ConcatProperties
    <3>3. Len(base.texts) + Len(Texts(r)) <= HardMax[p]
      BY <1>2, <1>5, <2>0, <2>2 DEF WouldOverflow
    <3> QED
      BY <1>4, <3>1, <3>2, <3>3
  <2> QED
    BY <2>1, <2>2
<1> HIDE DEF new, old
<1>8. ASSUME ~flush PROVE SlotFits(p, new)
  <2>1. new.texts \in Seq(Text) /\ Len(new.texts) \in Nat /\ new.threshold \in Nat
    BY <1>6, BatchFields, LenProperties DEF SlotState
  <2>2. new.texts # <<>> => Len(new.texts) < new.threshold
    BY <1>8, <2>1 DEF ShouldFlush, IsEmpty
  <2> QED
    BY <1>7, <2>2 DEF SlotFits
<1>9. flush => TaskFits(TaskOf(p, new))
  BY <1>2, <1>6, <1>7, FlushedFits
<1>10. full => TaskFits(TaskOf(p, old))
  BY <1>2, <1>3, FlushedFits DEF full, MustFlushFirst, SlotFits
<1> HIDE DEF flush, p
<1>11. \A t \in tasks' : TaskFits(t)
  BY <1>1, <1>9, <1>10 DEF Sizes
<1>12. \A q \in Provider : SlotFits(q, slot'[q])
  BY <1>1, <1>2, <1>3, <1>8, NoSlotFits DEF Sizes
<1> QED
  BY <1>11, <1>12 DEF Sizes

\* One step per action that changes a slot or a task.
LEMMA SizesNext ==
  ASSUME IInv, Sizes, [Next]_vars
  PROVE  Sizes'
<1>1. CASE UNCHANGED <<slot, tasks>>
  BY <1>1 DEF Sizes
<1>2. ASSUME NEW p \in Provider, WindowElapses(p) PROVE Sizes'
  <2>1. slot' = [slot EXCEPT ![p].expired = TRUE] /\ UNCHANGED tasks /\ slot[p].open
    BY <1>2 DEF WindowElapses
  <2>2. /\ slot'[p].texts = slot[p].texts /\ slot'[p].threshold = slot[p].threshold
        /\ slot'[p].open = slot[p].open
        /\ \A q \in Provider \ {p} : slot'[q] = slot[q]
    BY <2>1 DEF IInv, Batches, SlotState
  <2> QED
    BY <2>1, <2>2 DEF Sizes, SlotFits
<1>3. ASSUME NEW t \in tasks, FlushTaskEnds(t) \/ FlushTaskPanics(t) PROVE Sizes'
  <2>1. PICK u : /\ u \in TaskEnds(t) \/ u = [t EXCEPT !.st = "panic", !.senders = {}]
                 /\ tasks' = (tasks \ {t}) \cup {u} /\ UNCHANGED slot
    BY <1>3 DEF FlushTaskEnds, FlushTaskPanics
  <2>2. t \in TaskState
    BY DEF IInv, Batches
  <2>3. u.texts = t.texts /\ u.p = t.p
    BY <2>1, <2>2 DEF TaskEnds, TaskState
  <2> QED
    BY <2>1, <2>3 DEF Sizes, TaskFits
<1>4. ASSUME NEW t \in tasks, JoinOutcome(t) \/ JoinPanicked(t) PROVE Sizes'
  BY <1>4 DEF JoinOutcome, JoinPanicked, Sizes
<1>5. CASE (\E t \in tasks : Crash(t)) \/ DrainDone
  BY <1>5, NoSlotFits DEF Crash, DrainDone, Sizes
<1>6. CASE RecvClosed \/ Timer
  BY <1>6, FlushSlotsFits DEF RecvClosed, Timer, Expired
<1>7. CASE \E r \in Req : \E i \in DOMAIN legs[r] : AddToSlot(r, i)
  BY <1>7, AddToSlotFits
<1>8. CASE \/ \E r \in Req : Caller(r) \/ Multi(r)
           \/ CloseChannel \/ JoinPending \/ Recv \/ RecvPending \/ Wake \/ HealthStep
           \/ UNCHANGED vars
  <2>1. UNCHANGED <<slot, tasks>>
    BY <1>8 DEF Caller, Multi, Leave, Submit, Collect, Relay, CloseChannel, JoinPending, Recv,
                RecvPending, Wake, HealthStep, vars
  <2> QED
    BY <1>1, <2>1
<1> QED
  BY <1>2, <1>3, <1>4, <1>5, <1>6, <1>7, <1>8 DEF Next, MuxTask, FlushTask

\* The sizes hold together with the invariant of MuxProofs.
LEMMA SizesInductive == Spec => [](IInv /\ Sizes)
<1>1. Init => Sizes
  <2> SUFFICES ASSUME Init PROVE Sizes
    OBVIOUS
  <2>1. tasks = {} /\ \A p \in Provider : slot[p] = NoSlot
    BY DEF Init
  <2> QED
    BY <2>1, NoSlotFits DEF Sizes
<1> QED
  BY <1>1, InitInv, NextInv, SizesNext, PTL DEF Spec

\* Every provider call carries at least one text and at most as many as the
\* provider takes, for any limits, any K and any sizes of requests: a request
\* that is too large is refused by the slot, not passed on.
THEOREM BatchSizes == Spec => []BatchesFit
<1>1. Sizes => BatchesFit
  BY DEF Sizes, TaskFits, BatchesFit
<1> QED
  BY <1>1, SizesInductive, PTL

\* No slot is left with K texts or more, K being the one it was made with.
THEOREM Thresholds == Spec => []SlotsBelowThreshold
<1>1. Sizes => SlotsBelowThreshold
  BY DEF Sizes, SlotFits, SlotsBelowThreshold
<1> QED
  BY <1>1, SizesInductive, PTL

-----------------------------------------------------------------------------
(* Where the reply senders are *)

\* A panicked task holds none; what is queued is queued once and has no legs.
Places ==
  /\ SendersHeldOnce
  /\ \A t \in tasks : t.st = "panic" => t.senders = {}
  /\ \A j \in 1 .. Len(chan) : legs[chan[j]] = <<>>
  /\ \A j, k \in 1 .. Len(chan) : chan[j] = chan[k] => j = k

LEMMA IsWaiting ==
  /\ \A r \in Req : \A i : <<r, i>> \in WaitingIds <=> i \in DOMAIN legs[r] /\ legs[r][i].st = "waiting"
  /\ \A c \in WaitingIds : c[1] \in Req /\ c = <<c[1], c[2]>>
<1>1. \A c : c \in WaitingIds <=>
        \E r \in Req : \E i \in DOMAIN legs[r] : legs[r][i].st = "waiting" /\ c = <<r, i>>
  BY DEF WaitingIds, Waiting
<1> QED
  BY <1>1

LEMMA IsWaitingNext ==
  /\ \A r \in Req : \A i :
       <<r, i>> \in WaitingIds' <=> i \in DOMAIN legs'[r] /\ legs'[r][i].st = "waiting"
  /\ \A c \in WaitingIds' : c[1] \in Req /\ c = <<c[1], c[2]>>
<1>1. \A c : c \in WaitingIds' <=>
        \E r \in Req : \E i \in DOMAIN legs'[r] : legs'[r][i].st = "waiting" /\ c = <<r, i>>
  BY DEF WaitingIds, Waiting
<1> QED
  BY <1>1

\* The leg of a sender still waits, for the provider it waited for.
LegStays(c) == c \in WaitingIds' /\ legs'[c[1]][c[2]].p = legs[c[1]][c[2]].p

\* No step changes the provider of a leg that waits on.
LEMMA WaitersKept ==
  ASSUME \A r \in Req : \A i \in DOMAIN legs[r] : legs[r][i].st = "waiting" =>
           /\ i \in DOMAIN legs'[r] /\ legs'[r][i].st = "waiting"
           /\ legs'[r][i].p = legs[r][i].p,
         \A r \in Req : \A i \in DOMAIN legs'[r] : legs'[r][i].st = "waiting" =>
           i \in DOMAIN legs[r] /\ legs[r][i].st = "waiting"
  PROVE  WaitingIds' = WaitingIds /\ \A c \in WaitingIds : LegStays(c)
<1>1. ASSUME NEW c \in WaitingIds PROVE LegStays(c)
  BY IsWaiting, IsWaitingNext DEF LegStays
<1>2. WaitingIds' \subseteq WaitingIds
  BY IsWaiting, IsWaitingNext
<1> QED
  BY <1>1, <1>2 DEF LegStays

\* What Settle does to each leg.
LEMMA SettledLegs ==
  ASSUME Requests, NEW STATE out, NEW STATE lost, Settle(out, lost), NEW r \in Req
  PROVE  /\ DOMAIN legs'[r] = DOMAIN legs[r]
         /\ \A i \in DOMAIN legs[r] :
              /\ legs'[r][i].p = legs[r][i].p
              /\ legs'[r][i].st = IF <<r, i>> \in DOMAIN out THEN out[<<r, i>>].st
                                                           ELSE legs[r][i].st
<1>1. legs'[r] = [i \in DOMAIN legs[r] |->
                    IF <<r, i>> \in DOMAIN out
                    THEN [legs[r][i] EXCEPT !.st = out[<<r, i>>].st, !.embs = out[<<r, i>>].embs]
                    ELSE legs[r][i]]
  BY DEF Settle
<1>2. \A i \in DOMAIN legs[r] : legs[r][i] \in LegState
  BY LegType
<1> QED
  BY <1>1, <1>2 DEF LegState

\* Settle takes the senders it is given, and no others, from those that wait.
LEMMA SettledWaiters ==
  ASSUME Requests, NEW STATE out, NEW STATE lost, Settle(out, lost),
         \A c \in DOMAIN out : out[c].st # "waiting"
  PROVE  /\ WaitingIds' = WaitingIds \ DOMAIN out
         /\ \A c \in WaitingIds' : legs'[c[1]][c[2]].p = legs[c[1]][c[2]].p
<1>1. ASSUME NEW r \in Req
      PROVE  /\ DOMAIN legs'[r] = DOMAIN legs[r]
             /\ \A i \in DOMAIN legs[r] :
                  /\ legs'[r][i].p = legs[r][i].p
                  /\ legs'[r][i].st = IF <<r, i>> \in DOMAIN out THEN out[<<r, i>>].st
                                                               ELSE legs[r][i].st
  BY SettledLegs
<1>2. ASSUME NEW c \in WaitingIds'
      PROVE  c \in WaitingIds \ DOMAIN out /\ legs'[c[1]][c[2]].p = legs[c[1]][c[2]].p
  BY <1>1, IsWaiting, IsWaitingNext
<1>3. ASSUME NEW c \in WaitingIds \ DOMAIN out PROVE c \in WaitingIds'
  BY <1>1, IsWaiting, IsWaitingNext
<1> QED
  BY <1>2, <1>3

\* Nothing is moved.
LEMMA SendersStay ==
  ASSUME SendersHeldOnce, WaitingIds' = WaitingIds, \A c \in WaitingIds : LegStays(c),
         \A p \in Provider : slot'[p].senders = slot[p].senders, tasks' = tasks
  PROVE  SendersHeldOnce'
<1>1. ASSUME NEW p \in Provider, NEW c \in slot'[p].senders
      PROVE  /\ c \in WaitingIds' /\ legs'[c[1]][c[2]].p = p
             /\ \A q \in Provider \ {p} : c \notin slot'[q].senders
             /\ \A t \in tasks' : c \notin t.senders
  BY DEF SendersHeldOnce, LegStays
<1>2. ASSUME NEW t \in tasks', NEW c \in t.senders
      PROVE  /\ c \in WaitingIds' /\ legs'[c[1]][c[2]].p = t.p
             /\ \A u \in tasks' \ {t} : c \notin u.senders
  BY DEF SendersHeldOnce, LegStays
<1>3. ASSUME NEW c \in WaitingIds'
      PROVE  (\E p \in Provider : c \in slot'[p].senders) \/ (\E t \in tasks' : c \in t.senders)
  BY DEF SendersHeldOnce, Holds, Carries
<1> QED
  BY <1>1, <1>2, <1>3 DEF SendersHeldOnce, Holds, Carries

\* A task ends, and waits to be joined with its senders.
LEMMA TaskSwapped ==
  ASSUME SendersHeldOnce, WaitingIds' = WaitingIds, \A c \in WaitingIds : LegStays(c),
         UNCHANGED slot, NEW t \in tasks, NEW u, u.p = t.p, u.senders = t.senders,
         tasks' = (tasks \ {t}) \cup {u}
  PROVE  SendersHeldOnce'
<1>1. ASSUME NEW p \in Provider, NEW c \in slot'[p].senders
      PROVE  /\ c \in WaitingIds' /\ legs'[c[1]][c[2]].p = p
             /\ \A q \in Provider \ {p} : c \notin slot'[q].senders
             /\ \A v \in tasks' : c \notin v.senders
  BY DEF SendersHeldOnce, LegStays
<1>2. ASSUME NEW v \in tasks', NEW c \in v.senders
      PROVE  /\ c \in WaitingIds' /\ legs'[c[1]][c[2]].p = v.p
             /\ \A w \in tasks' \ {v} : c \notin w.senders
  <2>1. PICK x \in tasks : /\ x.p = v.p /\ x.senders = v.senders
                           /\ v = IF x = t THEN u ELSE x
    BY <1>2
  <2>2. /\ c \in WaitingIds /\ legs[c[1]][c[2]].p = v.p
        /\ \A y \in tasks \ {x} : c \notin y.senders
    BY <1>2, <2>1 DEF SendersHeldOnce
  <2> QED
    BY <2>1, <2>2 DEF LegStays
<1>3. ASSUME NEW c \in WaitingIds'
      PROVE  (\E p \in Provider : c \in slot'[p].senders) \/ (\E v \in tasks' : c \in v.senders)
  BY DEF SendersHeldOnce, Holds, Carries
<1> QED
  BY <1>1, <1>2, <1>3 DEF SendersHeldOnce, Holds, Carries

\* The senders of a task are used or dropped, and nobody else's.
LEMMA TaskSettled ==
  ASSUME SendersHeldOnce, UNCHANGED slot, NEW t \in tasks, NEW kept,
         \A u \in kept : u.senders = {}, tasks' = (tasks \ {t}) \cup kept,
         WaitingIds' = WaitingIds \ t.senders,
         \A c \in WaitingIds' : legs'[c[1]][c[2]].p = legs[c[1]][c[2]].p
  PROVE  SendersHeldOnce'
<1>1. ASSUME NEW p \in Provider, NEW c \in slot'[p].senders
      PROVE  /\ c \in WaitingIds' /\ legs'[c[1]][c[2]].p = p
             /\ \A q \in Provider \ {p} : c \notin slot'[q].senders
             /\ \A v \in tasks' : c \notin v.senders
  BY DEF SendersHeldOnce
<1>2. ASSUME NEW v \in tasks', NEW c \in v.senders
      PROVE  /\ c \in WaitingIds' /\ legs'[c[1]][c[2]].p = v.p
             /\ \A w \in tasks' \ {v} : c \notin w.senders
  BY <1>2 DEF SendersHeldOnce
<1>3. ASSUME NEW c \in WaitingIds'
      PROVE  (\E p \in Provider : c \in slot'[p].senders) \/ (\E v \in tasks' : c \in v.senders)
  BY DEF SendersHeldOnce, Holds, Carries
<1> QED
  BY <1>1, <1>2, <1>3 DEF SendersHeldOnce, Holds, Carries

\* The multiplexer is gone, and every sender with it.
LEMMA AllSettled ==
  ASSUME slot' = [p \in Provider |-> NoSlot], tasks' = {}, WaitingIds' = {}
  PROVE  SendersHeldOnce'
<1>1. \A p \in Provider : slot'[p].senders = {}
  BY DEF NoSlot
<1> QED
  BY <1>1 DEF SendersHeldOnce, Holds, Carries

\* flush_slot hands the senders of each slot to one task.
LEMMA SlotsFlushed ==
  ASSUME SendersHeldOnce, WaitingIds' = WaitingIds, \A c \in WaitingIds : LegStays(c),
         slot \in [Provider -> SlotState],
         NEW ps, ps \subseteq Provider, FlushSlots(ps)
  PROVE  SendersHeldOnce'
<1> DEFINE flushed == {p \in ps : slot[p].open /\ ~IsEmpty(slot[p])}
<1>1. /\ tasks' = tasks \cup {TaskOf(p, slot[p]) : p \in flushed}
      /\ \A p \in Provider : slot'[p].senders = IF p \in flushed THEN {} ELSE slot[p].senders
      /\ flushed \subseteq Provider
  BY DEF FlushSlots, NoSlot
<1> HIDE DEF flushed
<1>2. \A v \in tasks' :
        v \in tasks \/ \E p \in flushed : v = TaskOf(p, slot[p]) /\ v.p = p /\ v.senders = slot[p].senders
  BY <1>1 DEF TaskOf
<1>3. ASSUME NEW p \in Provider, NEW c \in slot'[p].senders
      PROVE  /\ c \in WaitingIds' /\ legs'[c[1]][c[2]].p = p
             /\ \A q \in Provider \ {p} : c \notin slot'[q].senders
             /\ \A v \in tasks' : c \notin v.senders
  <2>1. p \notin flushed /\ c \in slot[p].senders
    BY <1>1, <1>3
  <2>2. /\ c \in WaitingIds /\ legs[c[1]][c[2]].p = p
        /\ \A q \in Provider \ {p} : c \notin slot[q].senders
        /\ \A v \in tasks : c \notin v.senders
    BY <2>1 DEF SendersHeldOnce
  <2>3. \A v \in tasks' : c \notin v.senders
    BY <1>1, <1>2, <2>1, <2>2
  <2> QED
    BY <1>1, <2>2, <2>3 DEF LegStays
<1>4. ASSUME NEW v \in tasks', NEW c \in v.senders
      PROVE  /\ c \in WaitingIds' /\ legs'[c[1]][c[2]].p = v.p
             /\ \A w \in tasks' \ {v} : c \notin w.senders
  <2>1. CASE v \in tasks
    <3>1. /\ c \in WaitingIds /\ legs[c[1]][c[2]].p = v.p
          /\ \A w \in tasks \ {v} : c \notin w.senders
          /\ \A p \in Provider : c \notin slot[p].senders
      BY <1>4, <2>1 DEF SendersHeldOnce
    <3> QED
      BY <1>1, <1>2, <3>1 DEF LegStays
  <2>2. ASSUME NEW p \in flushed, v = TaskOf(p, slot[p]), v.p = p, v.senders = slot[p].senders
        PROVE  /\ c \in WaitingIds' /\ legs'[c[1]][c[2]].p = v.p
               /\ \A w \in tasks' \ {v} : c \notin w.senders
    <3>1. /\ c \in WaitingIds /\ legs[c[1]][c[2]].p = p
          /\ \A q \in Provider \ {p} : c \notin slot[q].senders
          /\ \A w \in tasks : c \notin w.senders
      BY <1>1, <1>4, <2>2 DEF SendersHeldOnce
    <3> QED
      BY <1>1, <1>2, <2>2, <3>1 DEF LegStays
  <2> QED
    BY <1>2, <2>1, <2>2
<1>5. ASSUME NEW c \in WaitingIds'
      PROVE  (\E p \in Provider : c \in slot'[p].senders) \/ (\E v \in tasks' : c \in v.senders)
  <2>1. CASE \E t \in tasks : c \in t.senders
    BY <1>1, <2>1
  <2>2. ASSUME NEW p \in Provider, c \in slot[p].senders
        PROVE  c \in slot'[p].senders \/ \E v \in tasks' : c \in v.senders
    <3>1. p \in flushed => TaskOf(p, slot[p]) \in tasks' /\ TaskOf(p, slot[p]).senders = slot[p].senders
      BY <1>1 DEF TaskOf
    <3> QED
      BY <1>1, <2>2, <3>1
  <2> QED
    BY <2>1, <2>2 DEF SendersHeldOnce, Holds, Carries
<1> QED
  BY <1>3, <1>4, <1>5 DEF SendersHeldOnce, Holds, Carries

\* add_to_slot stores a sender that was nowhere before, in the slot of its
\* provider or in the task made of it; what the slot held moves on whole.
LEMMA SenderAdded ==
  ASSUME IInv, Sizes, SendersHeldOnce,
         NEW r \in Req, NEW i \in DOMAIN legs[r], AddToSlot(r, i)
  PROVE  SendersHeldOnce'
<1> DEFINE p    == legs[r][i].p
           x    == <<r, i>>
           old  == slot[p]
           full == MustFlushFirst(p, old, req[r].n)
           base == IF old.open /\ ~full THEN old ELSE NewSlot(p)
           new  == AddCaller(p, base, x, Texts(r))
           flush == ShouldFlush(new) /\ ~IsEmpty(new)
<1>1. /\ tasks' = tasks \cup (IF full THEN {TaskOf(p, old)} ELSE {})
                        \cup (IF flush THEN {TaskOf(p, new)} ELSE {})
      /\ slot' = [slot EXCEPT ![p] = IF flush THEN NoSlot ELSE new]
      /\ legs' = [legs EXCEPT ![r] = [legs[r] EXCEPT ![i] = [legs[r][i] EXCEPT !.st = "waiting"]]]
      /\ legs[r][i].st = "new"
  BY DEF AddToSlot, IInv, Requests
<1>2. /\ p \in Provider /\ old \in SlotState /\ SlotFits(p, old)
      /\ legs[r][i] \in LegState /\ legs[r] \in Seq(LegState)
  BY LegType DEF IInv, Batches, Sizes, Requests
<1>3. new.senders = (IF full THEN {} ELSE old.senders) \cup {x}
  <2>1. base \in SlotState
    BY <1>2, NewSlotOK DEF IInv
  <2>2. NewSlot(p).senders = {} /\ NoSlot.senders = {}
    BY DEF NewSlot, NoSlot
  <2>3. base.senders = IF full THEN {} ELSE old.senders
    BY <1>2, <2>2 DEF SlotFits
  <2> HIDE DEF base
  <2>4. new.senders = base.senders \cup {x}
    BY <2>1 DEF AddCaller, Extend, SlotState
  <2> QED
    BY <2>3, <2>4
<1>4. /\ x \notin WaitingIds /\ WaitingIds' = WaitingIds \cup {x}
      /\ \A c \in WaitingIds : LegStays(c)
      /\ legs'[x[1]][x[2]].p = p
  <2>1. /\ \A q \in Req \ {r} : legs'[q] = legs[q]
        /\ DOMAIN legs'[r] = DOMAIN legs[r]
        /\ \A k \in DOMAIN legs[r] \ {i} : legs'[r][k] = legs[r][k]
        /\ legs'[r][i].st = "waiting" /\ legs'[r][i].p = p
    BY <1>1, <1>2 DEF IInv, Requests, LegState
  <2> HIDE DEF p
  <2>2. x \notin WaitingIds /\ x \in WaitingIds'
    BY <1>1, <2>1, IsWaiting, IsWaitingNext
  <2>3. ASSUME NEW c \in WaitingIds PROVE LegStays(c)
    <3>1. c[1] \in Req /\ c = <<c[1], c[2]>> /\ c[2] \in DOMAIN legs[c[1]]
          /\ legs[c[1]][c[2]].st = "waiting"
      BY IsWaiting
    <3>2. c[1] # r \/ c[2] # i
      BY <1>1, <3>1
    <3>3. c[2] \in DOMAIN legs'[c[1]] /\ legs'[c[1]][c[2]] = legs[c[1]][c[2]]
      BY <2>1, <3>1, <3>2
    <3> QED
      BY <3>1, <3>3, IsWaitingNext DEF LegStays
  <2>4. ASSUME NEW c \in WaitingIds', c # x PROVE c \in WaitingIds
    <3>1. c[1] \in Req /\ c = <<c[1], c[2]>> /\ c[2] \in DOMAIN legs'[c[1]]
          /\ legs'[c[1]][c[2]].st = "waiting"
      BY IsWaitingNext
    <3>2. c[1] # r \/ c[2] # i
      BY <2>4, <3>1
    <3>3. c[2] \in DOMAIN legs[c[1]] /\ legs'[c[1]][c[2]] = legs[c[1]][c[2]]
      BY <2>1, <3>1, <3>2
    <3> QED
      BY <3>1, <3>3, IsWaiting
  <2> QED
    BY <2>1, <2>2, <2>3, <2>4 DEF LegStays
<1>5. /\ \A v \in tasks' : \/ v \in tasks
                           \/ full /\ v.p = p /\ v.senders = old.senders /\ v = TaskOf(p, old)
                           \/ flush /\ v.p = p /\ v.senders = new.senders /\ v = TaskOf(p, new)
      /\ tasks \subseteq tasks'
      /\ full => \E v \in tasks' : v.senders = old.senders
      /\ flush => \E v \in tasks' : v.senders = new.senders
      /\ slot'[p].senders = IF flush THEN {} ELSE new.senders
      /\ \A q \in Provider \ {p} : slot'[q] = slot[q]
  <2> HIDE DEF new, old, full, flush
  <2>1. /\ TaskOf(p, old).p = p /\ TaskOf(p, old).senders = old.senders
        /\ TaskOf(p, new).p = p /\ TaskOf(p, new).senders = new.senders
        /\ NoSlot.senders = {}
    BY DEF TaskOf, NoSlot
  <2> HIDE DEF p
  <2> QED
    BY <1>1, <1>2, <2>1 DEF IInv, Batches
<1>6. /\ \A c \in old.senders :
           /\ c \in WaitingIds /\ legs[c[1]][c[2]].p = p /\ c # x
           /\ \A q \in Provider \ {p} : c \notin slot[q].senders
           /\ \A v \in tasks : c \notin v.senders
      /\ \A q \in Provider : x \notin slot[q].senders
      /\ \A v \in tasks : x \notin v.senders
  BY <1>2, <1>4 DEF SendersHeldOnce
<1>7. \A q \in Provider \ {p} : \A c \in slot[q].senders :
        c \in WaitingIds /\ legs[c[1]][c[2]].p = q
  BY DEF SendersHeldOnce
<1> HIDE DEF old, new, full, flush, base, x, p
<1>8. ASSUME NEW q \in Provider, NEW c \in slot'[q].senders
      PROVE  /\ c \in WaitingIds' /\ legs'[c[1]][c[2]].p = q
             /\ \A u \in Provider \ {q} : c \notin slot'[u].senders
             /\ \A v \in tasks' : c \notin v.senders
  <2>1. CASE q = p
    <3>1. ~flush /\ c \in new.senders
      BY <1>5, <1>8, <2>1
    <3>2. c = x \/ (~full /\ c \in old.senders)
      BY <1>3, <3>1
    <3>3. \A u \in Provider \ {p} : c \notin slot[u].senders
      BY <1>6, <3>2
    <3>4. \A v \in tasks' : c \notin v.senders
      BY <1>2, <1>5, <1>6, <3>1, <3>2 DEF old
    <3> QED
      BY <1>4, <1>5, <1>6, <2>1, <3>2, <3>3, <3>4 DEF LegStays
  <2>2. CASE q # p
    <3>1. /\ c \in slot[q].senders /\ c \in WaitingIds /\ legs[c[1]][c[2]].p = q
          /\ \A u \in Provider \ {q} : c \notin slot[u].senders
          /\ \A v \in tasks : c \notin v.senders
      BY <1>5, <1>8, <2>2 DEF SendersHeldOnce
    <3>2. c # x /\ c \notin old.senders
      BY <1>2, <1>4, <2>2, <3>1 DEF old
    <3>3. c \notin new.senders
      BY <1>3, <3>2
    <3> QED
      BY <1>4, <1>5, <3>1, <3>2, <3>3 DEF LegStays
  <2> QED
    BY <2>1, <2>2
<1>9. ASSUME NEW v \in tasks', NEW c \in v.senders
      PROVE  /\ c \in WaitingIds' /\ legs'[c[1]][c[2]].p = v.p
             /\ \A w \in tasks' \ {v} : c \notin w.senders
  <2>1. CASE v \in tasks
    <3>1. /\ c \in WaitingIds /\ legs[c[1]][c[2]].p = v.p
          /\ \A w \in tasks \ {v} : c \notin w.senders
      BY <1>9, <2>1 DEF SendersHeldOnce
    <3>2. c # x /\ c \notin old.senders
      BY <1>4, <1>6, <1>9, <2>1, <3>1
    <3>3. c \notin new.senders
      BY <1>3, <3>2
    <3> QED
      BY <1>4, <1>5, <3>1, <3>2, <3>3 DEF LegStays
  <2>2. CASE full /\ v.p = p /\ v.senders = old.senders /\ v = TaskOf(p, old)
    <3>1. c \in WaitingIds /\ legs[c[1]][c[2]].p = p /\ c # x /\ \A w \in tasks : c \notin w.senders
      BY <1>6, <1>9, <2>2
    <3>2. c \notin new.senders
      BY <1>3, <2>2, <3>1
    <3> QED
      BY <1>4, <1>5, <2>2, <3>1, <3>2 DEF LegStays
  <2>3. CASE flush /\ v.p = p /\ v.senders = new.senders /\ v = TaskOf(p, new)
    <3>1. c = x \/ (~full /\ c \in old.senders)
      BY <1>3, <1>9, <2>3
    <3>2. x \notin old.senders /\ \A w \in tasks : c \notin w.senders
      BY <1>6, <3>1
    <3>3. \A w \in tasks' \ {v} : c \notin w.senders
      BY <1>5, <2>3, <3>1, <3>2
    <3> QED
      BY <1>4, <1>6, <2>3, <3>1, <3>3 DEF LegStays
  <2> QED
    BY <1>5, <2>1, <2>2, <2>3
<1>10. ASSUME NEW c \in WaitingIds'
      PROVE  (\E q \in Provider : c \in slot'[q].senders) \/ (\E v \in tasks' : c \in v.senders)
  <2>1. CASE c = x
    BY <1>2, <1>3, <1>5, <2>1
  <2>2. ASSUME NEW q \in Provider, c \in slot[q].senders
        PROVE  c \in slot'[q].senders \/ \E v \in tasks' : c \in v.senders
    <3>1. CASE q # p
      BY <1>5, <2>2, <3>1
    <3>2. CASE q = p
      <4>1. c \in old.senders
        BY <2>2, <3>2 DEF old
      <4>2. ~full => c \in new.senders
        BY <1>3, <4>1
      <4> QED
        BY <1>5, <3>2, <4>1, <4>2
    <3> QED
      BY <3>1, <3>2
  <2>3. CASE \E v \in tasks : c \in v.senders
    BY <1>5, <2>3
  <2> QED
    BY <1>4, <1>10, <2>1, <2>2, <2>3 DEF SendersHeldOnce, Holds, Carries
<1> QED
  BY <1>8, <1>9, <1>10 DEF SendersHeldOnce, Holds, Carries

\* Legs that are there stay there, or are made for the request at the head of
\* the channel.
LEMMA QueueKept ==
  ASSUME IInv, Places, chan' = chan \/ chan' = <<>>,
         \A r \in Req : legs[r] = <<>> => legs'[r] = <<>>
  PROVE  /\ \A j \in 1 .. Len(chan') : legs'[chan'[j]] = <<>>
         /\ \A j, k \in 1 .. Len(chan') : chan'[j] = chan'[k] => j = k
<1>1. CASE chan' = chan
  <2>1. \A j \in 1 .. Len(chan) : chan[j] \in Req
    BY ElementOfSeq DEF IInv, Channel
  <2> QED
    BY <1>1, <2>1 DEF Places
<1>2. CASE chan' = <<>>
  BY <1>2, EmptySeq
<1> QED
  BY <1>1, <1>2

LEMMA NoLegsSettled ==
  ASSUME Requests, NEW STATE out, NEW STATE lost, Settle(out, lost)
  PROVE  \A r \in Req : legs[r] = <<>> => legs'[r] = <<>>
<1> SUFFICES ASSUME NEW r \in Req, legs[r] = <<>> PROVE legs'[r] = <<>>
  OBVIOUS
<1>1. legs'[r] = [i \in DOMAIN legs[r] |->
                    IF <<r, i>> \in DOMAIN out
                    THEN [legs[r][i] EXCEPT !.st = out[<<r, i>>].st, !.embs = out[<<r, i>>].embs]
                    ELSE legs[r][i]]
  BY DEF Settle
<1>2. DOMAIN legs[r] = {}
  BY EmptySeq
<1> QED
  BY <1>1, <1>2

\* A caller, a relay, a sleep or the health clock moves no sender.
LEMMA QuietPlaces ==
  ASSUME IInv, Places, UNCHANGED <<slot, tasks>>,
         \/ \E r \in Req : Leave(r) \/ Collect(r)
         \/ CloseChannel \/ JoinPending \/ RecvPending \/ Wake \/ HealthStep \/ UNCHANGED vars
  PROVE  Places'
<1>1. UNCHANGED <<legs, chan>>
  BY DEF Leave, Collect, CloseChannel, JoinPending, RecvPending, Wake, HealthStep, vars
<1>2. SendersHeldOnce'
  BY <1>1, WaitersKept, SendersStay DEF Places
<1> QED
  BY <1>1, <1>2, QueueKept DEF Places

LEMMA SubmitPlaces ==
  ASSUME IInv, Places, NEW r \in Req, NEW s \in Shapes, Submit(r, s)
  PROVE  Places'
<1>1. /\ chan' = chan \/ chan' = Append(chan, r)
      /\ status[r] = "idle" /\ UNCHANGED <<slot, tasks, legs>>
  BY DEF Submit
<1>2. legs[r] = <<>> /\ chan \in Seq(Req) /\ \A j \in 1 .. Len(chan) : chan[j] # r
  BY <1>1 DEF IInv, Requests, RequestOK, Channel
<1>3. CASE chan' = Append(chan, r)
  <2>1. /\ Len(chan') = Len(chan) + 1 /\ Len(chan) \in Nat
        /\ \A j \in 1 .. Len(chan) : chan'[j] = chan[j]
        /\ chan'[Len(chan) + 1] = r
    BY <1>2, <1>3, AppendProperties, LenProperties
  <2>2. \A j \in 1 .. Len(chan') : j \in 1 .. Len(chan) \/ j = Len(chan) + 1
    BY <2>1
  <2> QED
    BY <1>1, <1>2, <2>1, <2>2, WaitersKept, SendersStay DEF Places
<1>4. CASE chan' = chan
  BY <1>1, <1>4, QueueKept, WaitersKept, SendersStay DEF Places
<1> QED
  BY <1>1, <1>3, <1>4

\* The request at the head has no legs yet, and its legs do not wait yet.
LEMMA RecvPlaces ==
  ASSUME IInv, Places, Recv
  PROVE  Places'
<1> DEFINE r == Head(chan)
           ps == req[r].providers
<1>1. /\ legs' = [legs EXCEPT ![r] =
            [i \in DOMAIN ps |-> [p |-> ps[i], embs |-> <<>>,
                                  st |-> IF i \in Attempted(r) THEN "new" ELSE "skipped"]]]
      /\ chan # <<>> /\ chan' = Tail(chan) /\ UNCHANGED <<slot, tasks>>
  BY DEF Recv
<1>2. /\ chan \in Seq(Req) /\ r \in Req /\ chan' \in Seq(Req) /\ r = chan[1]
      /\ Len(chan) \in Nat \ {0} /\ Len(chan') = Len(chan) - 1
      /\ \A j \in 1 .. Len(chan') : chan'[j] = chan[j + 1]
  BY <1>1, HeadTailProperties, LenProperties, EmptySeq DEF IInv, Channel
<1>3. /\ legs[r] = <<>> /\ DOMAIN legs[r] = {}
      /\ \A q \in Req \ {r} : legs'[q] = legs[q]
      /\ \A i \in DOMAIN legs'[r] : legs'[r][i].st \in {"new", "skipped"}
  BY <1>1, <1>2, EmptySeq DEF Places, IInv, Requests
<1> HIDE DEF r
<1>4. SendersHeldOnce'
  BY <1>1, <1>3, WaitersKept, SendersStay DEF Places
<1>5. ASSUME NEW j \in 1 .. Len(chan')
      PROVE  legs'[chan'[j]] = <<>> /\ \A k \in 1 .. Len(chan') : chan'[j] = chan'[k] => j = k
  <2>1. j + 1 \in 1 .. Len(chan) /\ j + 1 # 1 /\ 1 \in 1 .. Len(chan)
        /\ \A k \in 1 .. Len(chan') : k + 1 \in 1 .. Len(chan) /\ (j + 1 = k + 1 => j = k)
    BY <1>2
  <2>2. chan[j + 1] \in Req \ {r}
    BY <1>2, <2>1, ElementOfSeq DEF Places
  <2>3. legs'[chan'[j]] = <<>>
    <3>1. legs[chan[j + 1]] = <<>>
      BY <2>1 DEF Places
    <3> QED
      BY <1>2, <1>3, <2>2, <3>1
  <2>4. ASSUME NEW k \in 1 .. Len(chan'), chan'[j] = chan'[k] PROVE j = k
    <3>1. chan[j + 1] = chan[k + 1]
      BY <1>2, <2>4
    <3>2. j + 1 = k + 1
      BY <2>1, <3>1 DEF Places
    <3> QED
      BY <2>1, <3>2
  <2> QED
    BY <2>3, <2>4
<1> QED
  BY <1>1, <1>4, <1>5 DEF Places

LEMMA RelayPlaces ==
  ASSUME IInv, Places, NEW r \in Req, NEW i \in DOMAIN legs[r], Relay(r, i)
  PROVE  Places'
<1>1. /\ legs' = [legs EXCEPT ![r] = [legs[r] EXCEPT ![i] =
                    [legs[r][i] EXCEPT !.st = "relayed", !.embs = <<>>]]]
      /\ legs[r][i].st # "waiting" /\ UNCHANGED <<slot, tasks, chan>>
  BY DEF Relay, Settled, IInv, Requests
<1>2. legs[r] # <<>> /\ legs[r] \in Seq(LegState) /\ legs[r][i] \in LegState
  BY LegType, EmptySeq DEF IInv, Requests
<1>3. /\ \A q \in Req \ {r} : legs'[q] = legs[q]
      /\ DOMAIN legs'[r] = DOMAIN legs[r]
      /\ \A k \in DOMAIN legs[r] \ {i} : legs'[r][k] = legs[r][k]
      /\ legs'[r][i].st = "relayed"
  BY <1>1, <1>2 DEF IInv, Requests, LegState
<1>4. SendersHeldOnce'
  BY <1>1, <1>3, WaitersKept, SendersStay DEF Places
<1> QED
  BY <1>1, <1>2, <1>3, <1>4, QueueKept DEF Places

LEMMA WindowPlaces ==
  ASSUME IInv, Places, NEW p \in Provider, WindowElapses(p)
  PROVE  Places'
<1>1. slot' = [slot EXCEPT ![p].expired = TRUE] /\ UNCHANGED <<tasks, legs, chan>>
  BY DEF WindowElapses
<1>2. \A q \in Provider : slot'[q].senders = slot[q].senders
  BY <1>1 DEF IInv, Batches, SlotState
<1> QED
  BY <1>1, <1>2, WaitersKept, SendersStay, QueueKept DEF Places

\* A flush task ends with its senders, or panics without them.
LEMMA TaskPlaces ==
  ASSUME IInv, Places, NEW t \in tasks, FlushTaskEnds(t) \/ FlushTaskPanics(t)
  PROVE  Places'
<1>1. t \in TaskState
  BY SendersOK
<1>2. CASE FlushTaskEnds(t)
  <2>1. PICK u \in TaskEnds(t) : tasks' = (tasks \ {t}) \cup {u} /\ UNCHANGED <<slot, legs, chan>>
    BY <1>2 DEF FlushTaskEnds
  <2>2. u.p = t.p /\ u.senders = t.senders /\ u.st # "panic"
    BY <1>1, <2>1 DEF TaskEnds, TaskState
  <2>3. SendersHeldOnce'
    BY <2>1, <2>2, WaitersKept, TaskSwapped DEF Places
  <2> QED
    BY <2>1, <2>2, <2>3, QueueKept DEF Places
<1>3. CASE FlushTaskPanics(t)
  <2> DEFINE out == [c \in t.senders |-> Dropped]
             u == [t EXCEPT !.st = "panic", !.senders = {}]
  <2>1. /\ tasks' = (tasks \ {t}) \cup {u} /\ Settle(out, {}) /\ UNCHANGED <<slot, chan>>
    BY <1>3 DEF FlushTaskPanics
  <2>2. DOMAIN out = t.senders /\ \A c \in DOMAIN out : out[c].st # "waiting"
    BY DEF Dropped
  <2>3. u.senders = {}
    BY <1>1 DEF TaskState
  <2> HIDE DEF out, u
  <2>4. /\ WaitingIds' = WaitingIds \ t.senders
        /\ \A c \in WaitingIds' : legs'[c[1]][c[2]].p = legs[c[1]][c[2]].p
    BY <2>1, <2>2, SettledWaiters DEF IInv
  <2>5. SendersHeldOnce'
    <3>1. \A v \in {u} : v.senders = {}
      BY <2>3
    <3>2. SendersHeldOnce /\ UNCHANGED slot
      BY <2>1 DEF Places
    <3> QED
      BY <2>1, <2>4, <3>1, <3>2, TaskSettled
  <2> QED
    BY <2>1, <2>3, <2>5, QueueKept, NoLegsSettled DEF Places, IInv
<1> QED
  BY <1>2, <1>3

\* A joined task leaves no sender behind.
LEMMA JoinPlaces ==
  ASSUME IInv, Places, NEW t \in tasks, JoinOutcome(t) \/ JoinPanicked(t)
  PROVE  Places'
<1>1. t \in TaskState /\ BatchOK(t, req, status, legs)
  BY SendersOK
<1>2. UNCHANGED <<slot, chan>> /\ tasks' = (tasks \ {t}) \cup {}
  BY DEF JoinOutcome, JoinPanicked
<1>3. CASE JoinOutcome(t)
  <2> DEFINE out == [c \in t.senders |-> OutcomeFor(t, c)]
  <2>1. Settle(out, {}) /\ DOMAIN out = t.senders
    BY <1>3 DEF JoinOutcome
  <2>2. \A c \in DOMAIN out : out[c].st # "waiting"
    <3>1. t.st \in {"ok", "rate_limited", "other"}
      BY <1>1, <1>3 DEF JoinOutcome, Finished, TaskState
    <3> QED
      BY <1>1, <3>1, OutcomeOK DEF IInv, OutOK
  <2> HIDE DEF out
  <2>3. /\ WaitingIds' = WaitingIds \ t.senders
        /\ \A c \in WaitingIds' : legs'[c[1]][c[2]].p = legs[c[1]][c[2]].p
    BY <2>1, <2>2, SettledWaiters DEF IInv
  <2>4. SendersHeldOnce'
    BY <1>2, <2>3, TaskSettled DEF Places
  <2> QED
    BY <1>2, <2>1, <2>4, QueueKept, NoLegsSettled DEF Places, IInv
<1>4. CASE JoinPanicked(t)
  <2>1. t.senders = {} /\ UNCHANGED legs
    BY <1>4 DEF JoinPanicked, Places
  <2>2. WaitingIds' = WaitingIds /\ \A c \in WaitingIds : LegStays(c)
    BY <2>1, WaitersKept
  <2>3. SendersHeldOnce'
    BY <1>2, <2>1, <2>2, TaskSettled DEF Places
  <2> QED
    BY <1>2, <2>1, <2>3, QueueKept DEF Places
<1> QED
  BY <1>3, <1>4

\* When the multiplexer goes, nobody waits any more.
LEMMA GonePlaces ==
  ASSUME IInv, Places, (\E t \in tasks : Crash(t)) \/ DrainDone
  PROVE  Places'
<1>1. PICK out, lost :
        /\ Settle(out, lost) /\ DOMAIN out = WaitingIds
        /\ \A c \in DOMAIN out : out[c].st # "waiting"
  <2>1. CASE DrainDone
    <3> DEFINE out == [c \in WaitingIds |-> Dropped]
    <3>1. Settle(out, {}) /\ DOMAIN out = WaitingIds /\ \A c \in DOMAIN out : out[c].st # "waiting"
      BY <2>1 DEF DrainDone, Dropped
    <3> QED
      BY <3>1
  <2>2. ASSUME NEW t \in tasks, Crash(t)
        PROVE \E out, lost : /\ Settle(out, lost) /\ DOMAIN out = WaitingIds
                             /\ \A c \in DOMAIN out : out[c].st # "waiting"
    <3> DEFINE out == [c \in WaitingIds |-> IF c \in t.senders THEN OutcomeFor(t, c) ELSE Dropped]
    <3>1. Settle(out, {chan[j] : j \in DOMAIN chan}) /\ DOMAIN out = WaitingIds
      BY <2>2 DEF Crash
    <3>2. \A c : OutcomeFor(t, c).st # "waiting" /\ Dropped.st # "waiting"
      <4>1. t \in TaskState /\ BatchOK(t, req, status, legs) /\ t.st = "ok"
        BY <2>2, SendersOK DEF Crash, SlicePanics
      <4> QED
        BY <4>1, OutcomeOK DEF IInv, OutOK, Dropped
    <3> QED
      BY <3>1, <3>2
  <2> QED
    BY <2>1, <2>2
<1>2. /\ slot' = [p \in Provider |-> NoSlot] /\ tasks' = {} /\ chan' \in {chan, <<>>}
  BY DEF Crash, DrainDone
<1>3. WaitingIds' = {} /\ \A r \in Req : legs[r] = <<>> => legs'[r] = <<>>
  BY <1>1, SettledWaiters, NoLegsSettled DEF IInv
<1> QED
  BY <1>2, <1>3, AllSettled, QueueKept DEF Places

LEMMA FlushPlaces ==
  ASSUME IInv, Places, RecvClosed \/ Timer
  PROVE  Places'
<1>1. PICK ps \in SUBSET Provider : FlushSlots(ps)
  BY DEF RecvClosed, Timer, Expired
<1>2. UNCHANGED <<legs, chan>>
  BY DEF RecvClosed, Timer
<1>3. SendersHeldOnce'
  BY <1>1, <1>2, WaitersKept, SlotsFlushed DEF Places, IInv, Batches
<1>4. \A t \in tasks' : t \in tasks \/ t.st = "running"
  BY <1>1 DEF FlushSlots, TaskOf
<1> QED
  BY <1>2, <1>3, <1>4, QueueKept DEF Places

LEMMA AddToSlotPlaces ==
  ASSUME IInv, Sizes, Places, NEW r \in Req, NEW i \in DOMAIN legs[r], AddToSlot(r, i)
  PROVE  Places'
<1>1. UNCHANGED chan /\ \A q \in Req : legs[q] = <<>> => legs'[q] = <<>>
  <2>1. \A q \in Req \ {r} : legs'[q] = legs[q]
    BY DEF AddToSlot, IInv, Requests
  <2>2. legs[r] # <<>>
    BY EmptySeq
  <2> QED
    BY <2>1, <2>2 DEF AddToSlot
<1>2. \A t \in tasks' : t \in tasks \/ t.st = "running"
  <2>1. \A q, b : TaskOf(q, b).st = "running"
    BY DEF TaskOf
  <2>2. \A t \in tasks' : t \in tasks \/ \E q, b : t = TaskOf(q, b)
    BY DEF AddToSlot
  <2> QED
    BY <2>1, <2>2
<1>3. SendersHeldOnce'
  BY SenderAdded DEF Places
<1> QED
  BY <1>1, <1>2, <1>3, QueueKept DEF Places

LEMMA PlacesInit == Init => Places
<1> SUFFICES ASSUME Init PROVE Places
  OBVIOUS
<1>1. chan = <<>> /\ tasks = {} /\ \A p \in Provider : slot[p].senders = {}
  BY DEF Init, NoSlot
<1>2. WaitingIds = {}
  BY IsWaiting, EmptySeq DEF Init
<1> QED
  BY <1>1, <1>2, EmptySeq DEF Places, SendersHeldOnce, Holds, Carries

LEMMA PlacesNext ==
  ASSUME IInv, Sizes, Places, [Next]_vars
  PROVE  Places'
<1>1. ASSUME NEW r \in Req, Caller(r) PROVE Places'
  <2>1. Leave(r) => UNCHANGED <<slot, tasks>>
    BY DEF Leave
  <2> QED
    BY <1>1, <2>1, SubmitPlaces, QuietPlaces DEF Caller
<1>2. ASSUME NEW r \in Req, Multi(r) PROVE Places'
  <2>1. Collect(r) => UNCHANGED <<slot, tasks>>
    BY DEF Collect
  <2> QED
    BY <1>2, <2>1, RelayPlaces, QuietPlaces DEF Multi
<1>3. CASE CloseChannel \/ JoinPending \/ RecvPending \/ Wake \/ HealthStep \/ UNCHANGED vars
  <2>1. UNCHANGED <<slot, tasks>>
    BY <1>3 DEF CloseChannel, JoinPending, RecvPending, Wake, HealthStep, vars
  <2> QED
    BY <1>3, <2>1, QuietPlaces
<1>4. CASE \E p \in Provider : WindowElapses(p) \/ FlushTask(p)
  BY <1>4, WindowPlaces, TaskPlaces DEF FlushTask
<1>5. CASE \E t \in tasks : JoinOutcome(t) \/ JoinPanicked(t)
  BY <1>5, JoinPlaces
<1>6. CASE (\E t \in tasks : Crash(t)) \/ DrainDone
  BY <1>6, GonePlaces
<1>7. CASE Recv
  BY <1>7, RecvPlaces
<1>8. CASE RecvClosed \/ Timer
  BY <1>8, FlushPlaces
<1>9. CASE \E r \in Req : \E i \in DOMAIN legs[r] : AddToSlot(r, i)
  BY <1>9, AddToSlotPlaces
<1> QED
  BY <1>1, <1>2, <1>3, <1>4, <1>5, <1>6, <1>7, <1>8, <1>9 DEF Next, MuxTask

\* The sender of a caller is never lost, doubled or used twice, whatever is
\* refused, flushed or panics: a caller that waits is waited for somewhere.
THEOREM SendersSafe == Spec => []SendersHeldOnce
<1>1. Places => SendersHeldOnce
  BY DEF Places
<1> QED
  BY <1>1, SizesInductive, PlacesInit, PlacesNext, PTL DEF Spec

-----------------------------------------------------------------------------
(* Fan-out and answers *)

\* Some leg is not skipped, and who was answered has no leg left to relay.
Replies ==
  /\ \A r \in Req : legs[r] # <<>> => \E i \in DOMAIN legs[r] : legs[r][i].st # "skipped"
  /\ \A r \in Req : status[r] # "idle" => req[r].providers # <<>>
  /\ \A r \in Req : status[r] = "answered" /\ ~Single(r) => RelaysEnded(r)

\* A leg changes from waiting or new, and never to skipped.
LegsMove ==
  \A r \in Req :
    /\ DOMAIN legs'[r] = DOMAIN legs[r] /\ (legs[r] = <<>> => legs'[r] = <<>>)
    /\ \A i \in DOMAIN legs[r] :
         /\ legs'[r][i].st = "skipped" <=> legs[r][i].st = "skipped"
         /\ legs[r][i].st = "relayed" => legs'[r][i].st = "relayed"

\* Settle answers single-provider requests only, and changes waiting legs only.
LEMMA SettleMoves ==
  ASSUME Requests, NEW STATE out, NEW STATE lost, Settle(out, lost),
         DOMAIN out \subseteq WaitingIds,
         \A c \in DOMAIN out : out[c].st # "skipped"
  PROVE  /\ LegsMove
         /\ \A r \in Req : \/ UNCHANGED <<status[r], resp[r]>>
                           \/ status[r] = "pending" /\ status'[r] = "dropped"
                           \/ status[r] = "pending" /\ status'[r] = "answered" /\ Single(r)
<1>1. ASSUME NEW r \in Req
      PROVE  /\ DOMAIN legs'[r] = DOMAIN legs[r] /\ (legs[r] = <<>> => legs'[r] = <<>>)
             /\ \A i \in DOMAIN legs[r] :
                  /\ legs'[r][i].st = "skipped" <=> legs[r][i].st = "skipped"
                  /\ legs[r][i].st = "relayed" => legs'[r][i].st = "relayed"
  <2>1. /\ DOMAIN legs'[r] = DOMAIN legs[r]
        /\ \A i \in DOMAIN legs[r] :
             legs'[r][i].st = IF <<r, i>> \in DOMAIN out THEN out[<<r, i>>].st ELSE legs[r][i].st
    BY SettledLegs
  <2>2. \A i \in DOMAIN legs[r] : <<r, i>> \in DOMAIN out => legs[r][i].st = "waiting"
    BY IsWaiting
  <2>3. ASSUME NEW i \in DOMAIN legs[r]
        PROVE  /\ legs'[r][i].st = "skipped" <=> legs[r][i].st = "skipped"
               /\ legs[r][i].st = "relayed" => legs'[r][i].st = "relayed"
    <3>1. CASE <<r, i>> \in DOMAIN out
      <4>1. legs[r][i].st = "waiting" /\ legs'[r][i].st = out[<<r, i>>].st
            /\ out[<<r, i>>].st # "skipped"
        BY <2>1, <2>2, <3>1
      <4> QED
        BY <4>1
    <3>2. CASE <<r, i>> \notin DOMAIN out
      BY <2>1, <3>2
    <3> QED
      BY <3>1, <3>2
  <2>4. legs[r] = <<>> => legs'[r] = <<>>
    BY NoLegsSettled
  <2> QED
    BY <2>1, <2>3, <2>4
<1>2. ASSUME NEW r \in Req
      PROVE  \/ UNCHANGED <<status[r], resp[r]>>
             \/ status[r] = "pending" /\ status'[r] = "dropped"
             \/ status[r] = "pending" /\ status'[r] = "answered" /\ Single(r)
  BY DEF Settle
<1> QED
  BY <1>1, <1>2 DEF LegsMove

LEMMA FilterNotEmpty ==
  ASSUME NEW ps \in Seq(Provider), ps # <<>>
  PROVE  \E i \in DOMAIN ps : i \in FilterAvailable(ps)
<1>1. DOMAIN ps = 1 .. Len(ps) /\ Len(ps) \in Nat /\ Len(ps) # 0
  BY LenProperties, EmptySeq
<1>2. 1 \in DOMAIN ps
  BY <1>1
<1> QED
  BY <1>2 DEF FilterAvailable

\* filter_available leaves something to attempt.
LEMMA RecvReplies ==
  ASSUME IInv, Places, Replies, Recv
  PROVE  Replies'
<1> DEFINE r == Head(chan)
           ps == req[r].providers
<1>1. /\ legs' = [legs EXCEPT ![r] =
            [i \in DOMAIN ps |-> [p |-> ps[i], embs |-> <<>>,
                                  st |-> IF i \in Attempted(r) THEN "new" ELSE "skipped"]]]
      /\ chan # <<>> /\ UNCHANGED <<req, status>>
  BY DEF Recv
<1>2. r \in Req /\ r = chan[1] /\ 1 \in 1 .. Len(chan)
  BY <1>1, HeadTailProperties, LenProperties, EmptySeq DEF IInv, Channel
<1>3. legs[r] = <<>> /\ status[r] # "idle" /\ ps \in Seq(Provider) /\ ps # <<>>
  BY <1>2 DEF Places, IInv, Channel, Requests, Shape, Replies
<1>4. \E i \in DOMAIN ps : i \in Attempted(r)
  <2> HIDE DEF r
  <2>1. \E i \in DOMAIN ps : i \in FilterAvailable(ps)
    BY <1>3, FilterNotEmpty
  <2> QED
    BY <2>1 DEF Attempted
<1>5. \E i \in DOMAIN legs'[r] : legs'[r][i].st # "skipped"
  BY <1>1, <1>2, <1>4 DEF IInv, Requests
<1>6. \A q \in Req \ {r} : legs'[q] = legs[q]
  BY <1>1 DEF IInv, Requests
<1> HIDE DEF r
<1>7. ASSUME NEW q \in Req, status'[q] = "answered", ~Single(q)' PROVE RelaysEnded(q)'
  <2>1. RelaysEnded(q)
    BY <1>1, <1>7 DEF Replies, Single
  <2>2. q # r
    BY <1>3, <2>1 DEF RelaysEnded, Received
  <2> QED
    BY <1>6, <2>1, <2>2 DEF RelaysEnded, Received
<1> QED
  BY <1>1, <1>5, <1>6, <1>7 DEF Replies

\* Legs that move on keep what was relayed and what is attempted.
LEMMA RepliesMove ==
  ASSUME IInv, Replies, LegsMove, UNCHANGED req,
         \A r \in Req : status'[r] # "idle" => status[r] # "idle",
         \A r \in Req : status'[r] = "answered" => status[r] = "answered" \/ Single(r)
  PROVE  Replies'
<1>1. ASSUME NEW r \in Req, legs'[r] # <<>> PROVE \E i \in DOMAIN legs'[r] : legs'[r][i].st # "skipped"
  BY <1>1 DEF Replies, LegsMove
<1>2. ASSUME NEW r \in Req, status'[r] = "answered", ~Single(r)' PROVE RelaysEnded(r)'
  <2>1. RelaysEnded(r)
    BY <1>2 DEF Replies, Single
  <2>2. PICK i \in DOMAIN legs[r] : legs[r][i].st # "skipped"
    BY <2>1 DEF Replies, RelaysEnded, Received
  <2>3. legs'[r] # <<>>
    BY <2>2, EmptySeq DEF LegsMove
  <2> QED
    BY <2>1, <2>3 DEF RelaysEnded, Received, LegsMove
<1> QED
  BY <1>1, <1>2 DEF Replies

LEMMA OneLegMoves ==
  ASSUME IInv, NEW r \in Req, NEW i \in DOMAIN legs[r], NEW leg \in LegState,
         leg.st \notin {"skipped"}, legs[r][i].st \notin {"skipped", "relayed"},
         legs' = [legs EXCEPT ![r] = [legs[r] EXCEPT ![i] = leg]]
  PROVE  LegsMove
<1>1. /\ \A q \in Req \ {r} : legs'[q] = legs[q]
      /\ DOMAIN legs'[r] = DOMAIN legs[r] /\ legs'[r][i] = leg
      /\ \A k \in DOMAIN legs[r] \ {i} : legs'[r][k] = legs[r][k]
      /\ legs[r] # <<>>
  BY EmptySeq DEF IInv, Requests
<1> QED
  BY <1>1 DEF LegsMove

\* What a step does to the statuses and the responses: what is settled stays.
Final ==
  \A r \in Req :
    /\ status[r] = "answered" => UNCHANGED <<status[r], resp[r]>>
    /\ status[r] \in {"dropped", "refused", "gone"} => UNCHANGED status[r]

\* One step per action that touches a leg, a status or a response.
LEMMA RepliesNext ==
  ASSUME IInv, Places, Replies, [Next]_vars
  PROVE  Replies' /\ Final
<1>1. ASSUME UNCHANGED <<req, legs, status, resp>> PROVE Replies' /\ Final
  BY <1>1 DEF Replies, Final, Single, RelaysEnded, Received
<1>2. ASSUME NEW r \in Req, NEW s \in Shapes, Submit(r, s) PROVE Replies' /\ Final
  <2>1. /\ status[r] = "idle" /\ UNCHANGED <<legs, resp>>
        /\ req'[r] = s /\ status'[r] \in {"pending", "refused"}
        /\ \A q \in Req \ {r} : req'[q] = req[q] /\ status'[q] = status[q]
        /\ s.providers # <<>>
    BY <1>2, MuxAssumption DEF Submit, IInv, Requests
  <2> QED
    BY <2>1 DEF Replies, Final, Single, RelaysEnded, Received
<1>3. ASSUME NEW r \in Req, Leave(r) PROVE Replies' /\ Final
  <2>1. /\ status[r] = "pending" /\ UNCHANGED <<legs, resp, req>> /\ status'[r] = "gone"
        /\ \A q \in Req \ {r} : status'[q] = status[q]
    BY <1>3 DEF Leave, IInv, Requests
  <2> QED
    BY <2>1 DEF Replies, Final, Single, RelaysEnded, Received
<1>4. ASSUME NEW r \in Req, Collect(r) PROVE Replies' /\ Final
  <2>1. /\ status[r] = "pending" /\ UNCHANGED <<legs, resp, req>> /\ status'[r] = "answered"
        /\ RelaysEnded(r) /\ \A q \in Req \ {r} : status'[q] = status[q]
    BY <1>4 DEF Collect, IInv, Requests
  <2> QED
    BY <2>1 DEF Replies, Final, Single, RelaysEnded, Received
<1>5. ASSUME NEW r \in Req, NEW i \in DOMAIN legs[r], Relay(r, i) PROVE Replies' /\ Final
  <2> DEFINE leg == [legs[r][i] EXCEPT !.st = "relayed", !.embs = <<>>]
  <2>1. /\ legs' = [legs EXCEPT ![r] = [legs[r] EXCEPT ![i] = leg]]
        /\ UNCHANGED <<req, status>> /\ ~Single(r)
        /\ legs[r][i].st \in {"ok", "rate_limited", "other", "dropped"}
        /\ \A q \in Req \ {r} : resp'[q] = resp[q]
    BY <1>5 DEF Relay, Settled, IInv, Requests
  <2>2. leg \in LegState /\ leg.st = "relayed"
    <3>1. legs[r][i] \in LegState
      BY LegType DEF IInv
    <3> QED
      BY <3>1, RelayedLeg DEF LegState
  <2> HIDE DEF leg
  <2>3. LegsMove
    BY <2>1, <2>2, OneLegMoves
  <2>4. Replies'
    BY <2>1, <2>3, RepliesMove
  <2>5. status[r] # "answered"
    BY <2>1 DEF Replies, RelaysEnded
  <2> QED
    BY <2>1, <2>4, <2>5 DEF Final
<1>6. ASSUME NEW r \in Req, NEW i \in DOMAIN legs[r], AddToSlot(r, i) PROVE Replies' /\ Final
  <2> DEFINE leg == [legs[r][i] EXCEPT !.st = "waiting"]
  <2>1. /\ legs' = [legs EXCEPT ![r] = [legs[r] EXCEPT ![i] = leg]]
        /\ UNCHANGED <<req, status, resp>> /\ legs[r][i].st = "new"
    BY <1>6 DEF AddToSlot, IInv, Requests
  <2>2. leg \in LegState /\ leg.st = "waiting"
    BY LegType DEF IInv, LegState
  <2> HIDE DEF leg
  <2>3. LegsMove
    BY <2>1, <2>2, OneLegMoves
  <2>4. Replies'
    BY <2>1, <2>3, RepliesMove
  <2> QED
    BY <2>1, <2>4 DEF Final
<1>7. ASSUME NEW t \in tasks, FlushTaskPanics(t) \/ JoinOutcome(t) \/ Crash(t)
      PROVE  Replies' /\ Final
  <2>1. t.senders \subseteq WaitingIds /\ t \in TaskState /\ BatchOK(t, req, status, legs)
    BY SendersOK DEF Places, SendersHeldOnce
  <2>2. Dropped.st # "skipped" /\ \A c : (t.st # "panic" /\ Finished(t)) => OutcomeFor(t, c).st # "skipped"
    BY <2>1, OutcomeOK DEF IInv, OutOK, Dropped, TaskState, Finished
  <2>3. \E out, lost : /\ Settle(out, lost) /\ DOMAIN out \subseteq WaitingIds
                       /\ \A c \in DOMAIN out : out[c].st # "skipped"
    <3>1. CASE FlushTaskPanics(t)
      <4> DEFINE out == [c \in t.senders |-> Dropped]
      <4>1. Settle(out, {}) /\ DOMAIN out = t.senders
        BY <3>1 DEF FlushTaskPanics
      <4> QED
        BY <2>1, <2>2, <4>1
    <3>2. CASE JoinOutcome(t)
      <4> DEFINE out == [c \in t.senders |-> OutcomeFor(t, c)]
      <4>1. Settle(out, {}) /\ DOMAIN out = t.senders
        BY <3>2 DEF JoinOutcome
      <4>2. t.st # "panic" /\ Finished(t)
        BY <3>2 DEF JoinOutcome
      <4> QED
        BY <2>1, <2>2, <4>1, <4>2
    <3>3. CASE Crash(t)
      <4> DEFINE out == [c \in WaitingIds |-> IF c \in t.senders THEN OutcomeFor(t, c) ELSE Dropped]
      <4>1. Settle(out, {chan[j] : j \in DOMAIN chan}) /\ DOMAIN out = WaitingIds
        BY <3>3 DEF Crash
      <4>2. t.st # "panic" /\ Finished(t)
        BY <3>3 DEF Crash, SlicePanics
      <4> QED
        BY <2>2, <4>1, <4>2
    <3> QED
      BY <1>7, <3>1, <3>2, <3>3
  <2>4. PICK out, lost : /\ Settle(out, lost) /\ DOMAIN out \subseteq WaitingIds
                         /\ \A c \in DOMAIN out : out[c].st # "skipped"
    BY <2>3
  <2>5. /\ LegsMove
        /\ \A r \in Req : \/ UNCHANGED <<status[r], resp[r]>>
                          \/ status[r] = "pending" /\ status'[r] = "dropped"
                          \/ status[r] = "pending" /\ status'[r] = "answered" /\ Single(r)
    BY <2>4, SettleMoves DEF IInv
  <2>6. UNCHANGED req
    BY <1>7 DEF FlushTaskPanics, JoinOutcome, Crash
  <2> QED
    BY <2>5, <2>6, RepliesMove DEF Final
<1>8. ASSUME DrainDone PROVE Replies' /\ Final
  <2> DEFINE out == [c \in WaitingIds |-> Dropped]
  <2>1. Settle(out, {}) /\ UNCHANGED req /\ DOMAIN out = WaitingIds
        /\ \A c \in DOMAIN out : out[c].st # "skipped"
    BY <1>8 DEF DrainDone, Dropped
  <2> HIDE DEF out
  <2>2. /\ LegsMove
        /\ \A r \in Req : \/ UNCHANGED <<status[r], resp[r]>>
                          \/ status[r] = "pending" /\ status'[r] = "dropped"
                          \/ status[r] = "pending" /\ status'[r] = "answered" /\ Single(r)
    BY <2>1, SettleMoves DEF IInv
  <2> QED
    BY <2>1, <2>2, RepliesMove DEF Final
<1>9. ASSUME Recv PROVE Replies' /\ Final
  BY <1>9, RecvReplies DEF Recv, Final
<1>10. CASE \/ \E p \in Provider : WindowElapses(p)
            \/ \E t \in tasks : FlushTaskEnds(t) \/ JoinPanicked(t)
            \/ CloseChannel \/ JoinPending \/ RecvPending \/ Wake \/ HealthStep \/ RecvClosed
            \/ Timer \/ UNCHANGED vars
  <2>1. UNCHANGED <<req, legs, status, resp>>
    BY <1>10 DEF WindowElapses, FlushTaskEnds, JoinPanicked, CloseChannel, JoinPending,
                 RecvPending, Wake, HealthStep, RecvClosed, Timer, vars
  <2> QED
    BY <1>1, <2>1
<1> QED
  BY <1>2, <1>3, <1>4, <1>5, <1>6, <1>7, <1>8, <1>9, <1>10
  DEF Next, Caller, Multi, FlushTask, MuxTask

LEMMA RepliesInit == Init => Replies
BY DEF Init, Replies

\* A request that is received is attempted at some provider, however many of
\* those it names are sin-binned.
THEOREM Attempts == Spec => []SomeProviderAttempted
<1>1. Replies => SomeProviderAttempted
  BY DEF Replies, SomeProviderAttempted, Received
<1>2. IInv /\ Places /\ Replies /\ [Next]_vars => Replies'
  BY RepliesNext
<1> QED
  BY <1>1, <1>2, SizesInductive, PlacesInit, PlacesNext, RepliesInit, PTL DEF Spec

\* What a caller was answered is never added to, replaced or withdrawn, in
\* whatever order relays, outcomes, panics and the shutdown come.
THEOREM FinalAnswers == Spec => AnswersAreFinal
<1>1. IInv /\ Places /\ Replies /\ [Next]_vars => Replies'
  BY RepliesNext
<1>2. IInv /\ Places /\ Replies /\ [Next]_vars => [Final]_vars
  BY RepliesNext
<1>3. Spec => [][Final]_vars
  BY <1>1, <1>2, SizesInductive, PlacesInit, PlacesNext, RepliesInit, PTL DEF Spec
<1> QED
  BY <1>3, PTL DEF AnswersAreFinal, Final

-----------------------------------------------------------------------------
(* Requests within the providers' limits *)

\* What callers ask fits each provider they name.
WithinLimits ==
  \A s \in Shapes : \A i \in DOMAIN s.providers : s.n <= HardMax[s.providers[i]]

\* A sender is with its texts; what was sent is a request callers may send.
Together ==
  /\ NoOrphanSender
  /\ \A r \in Req : status[r] # "idle" => req[r] \in Shapes

LEMMA CallersOf ==
  ASSUME NEW ranges \in Seq(CallerRange), NEW g \in CallerRange
  PROVE  Callers(Append(ranges, g)) = Callers(ranges) \cup {g.caller}
<1> DEFINE a == Append(ranges, g)
           n == Len(ranges)
<1>1. /\ DOMAIN ranges = 1 .. n /\ n \in Nat /\ DOMAIN a = 1 .. n + 1
      /\ \A j \in 1 .. n : a[j] = ranges[j]
      /\ a[n + 1] = g
  BY AppendProperties, LenProperties
<1> HIDE DEF a, n
<1>2. 1 .. n + 1 = (1 .. n) \cup {n + 1}
  BY <1>1
<1> QED
  BY <1>1, <1>2 DEF Callers, a

\* add_to_slot finds room for a request within the limits, if need be after
\* flushing: the texts are added with the sender.
LEMMA AddedTogether ==
  ASSUME WithinLimits, IInv, Sizes, Together,
         NEW r \in Req, NEW i \in DOMAIN legs[r], AddToSlot(r, i)
  PROVE  NoOrphanSender'
<1> DEFINE p    == legs[r][i].p
           x    == <<r, i>>
           old  == slot[p]
           full == MustFlushFirst(p, old, req[r].n)
           base == IF old.open /\ ~full THEN old ELSE NewSlot(p)
           new  == AddCaller(p, base, x, Texts(r))
           flush == ShouldFlush(new) /\ ~IsEmpty(new)
<1>1. /\ tasks' = tasks \cup (IF full THEN {TaskOf(p, old)} ELSE {})
                        \cup (IF flush THEN {TaskOf(p, new)} ELSE {})
      /\ slot' = [slot EXCEPT ![p] = IF flush THEN NoSlot ELSE new]
  BY DEF AddToSlot
<1>2. /\ p \in Provider /\ old \in SlotState /\ HardMax[p] \in Nat \ {0}
      /\ x \in CallerId /\ req[r].n <= HardMax[p] /\ req[r] \in Shape
      /\ old.senders = Callers(old.ranges)
  <2>1. /\ status[r] # "idle" /\ p \in {req[r].providers[k] : k \in DOMAIN req[r].providers}
        /\ p \in Provider /\ i \in Nat \ {0}
    BY LegType DEF IInv
  <2> QED
    BY <2>1, MuxAssumption
    DEF WithinLimits, Together, NoOrphanSender, IInv, Batches, Requests, CallerId
<1>3. Texts(r) \in Seq(Text) /\ Len(Texts(r)) = req[r].n /\ req[r].n \in Nat
  BY <1>2, TextsType DEF Texts, Shape
<1>4. /\ base \in SlotState /\ base.senders = Callers(base.ranges)
      /\ ~WouldOverflow(p, base, Len(Texts(r)))
  <2>1. NewSlot(p) \in SlotState
    BY <1>2, NewSlotOK DEF IInv
  <2>2. NewSlot(p).senders = {} /\ NewSlot(p).ranges = <<>> /\ NewSlot(p).texts = <<>>
    BY DEF NewSlot, NoSlot
  <2>3. Callers(<<>>) = {} /\ Len(<<>>) = 0
    BY DEF Callers
  <2>4. ~WouldOverflow(p, NewSlot(p), req[r].n)
    BY <1>2, <1>3, <2>2, <2>3 DEF WouldOverflow
  <2>5. old.open /\ ~full => ~WouldOverflow(p, old, req[r].n)
    BY <1>2, <1>3, <2>3 DEF MustFlushFirst, IsEmpty, WouldOverflow
  <2> QED
    BY <1>2, <1>3, <2>1, <2>2, <2>3, <2>4, <2>5
<1> HIDE DEF base
<1>5. new.senders = Callers(new.ranges)
  <2> DEFINE t == [base EXCEPT !.senders = @ \cup {x}]
             g == [caller |-> x, start |-> Len(t.texts), end |-> Len(t.texts) + Len(Texts(r))]
  <2>1. /\ t.ranges = base.ranges /\ t.senders = base.senders \cup {x}
        /\ t.texts = base.texts /\ t \in SlotState
    BY <1>2, <1>4 DEF SlotState
  <2>2. new = [t EXCEPT !.texts = t.texts \o Texts(r), !.ranges = Append(t.ranges, g)]
    BY <1>4 DEF AddCaller, Extend
  <2>3. new.senders = t.senders /\ new.ranges = Append(base.ranges, g)
    BY <2>1, <2>2 DEF SlotState
  <2>4. g \in CallerRange /\ g.caller = x /\ base.ranges \in Seq(CallerRange)
    <3>1. Len(t.texts) \in Nat /\ base.ranges \in Seq(CallerRange)
      BY <1>4, <2>1, BatchFields, LenProperties
    <3> QED
      BY <1>2, <1>3, <3>1 DEF CallerRange
  <2> HIDE DEF g, t, new
  <2>5. Callers(new.ranges) = Callers(base.ranges) \cup {x}
    BY <2>3, <2>4, CallersOf
  <2> QED
    BY <1>4, <2>1, <2>3, <2>5
<1> HIDE DEF new, old, full, flush
<1>6. \A t \in tasks' : t \in tasks \/ t.senders = Callers(t.ranges)
  <2>1. /\ TaskOf(p, old).senders = old.senders /\ TaskOf(p, old).ranges = old.ranges
        /\ TaskOf(p, new).senders = new.senders /\ TaskOf(p, new).ranges = new.ranges
    BY DEF TaskOf
  <2> QED
    BY <1>1, <1>2, <1>5, <2>1
<1>7. ASSUME NEW q \in Provider PROVE slot'[q].senders = Callers(slot'[q].ranges)
  <2>1. NoSlot.senders = Callers(NoSlot.ranges)
    BY DEF NoSlot, Callers
  <2> HIDE DEF p
  <2> QED
    BY <1>1, <1>2, <1>5, <2>1 DEF IInv, Batches, Together, NoOrphanSender
<1> QED
  BY <1>6, <1>7 DEF Together, NoOrphanSender

LEMMA TogetherInit == Init => Together
<1>1. NoSlot.senders = Callers(NoSlot.ranges)
  BY DEF NoSlot, Callers
<1> QED
  BY <1>1 DEF Init, Together, NoOrphanSender

LEMMA TogetherNext ==
  ASSUME WithinLimits, IInv, Sizes, Together, [Next]_vars
  PROVE  Together'
<1>1. ASSUME NEW r \in Req, status'[r] # "idle" PROVE req'[r] \in Shapes
  <2>1. ASSUME NEW q \in Req, NEW s \in Shapes, Submit(q, s) PROVE req'[r] \in Shapes
    BY <1>1, <2>1 DEF Submit, Together, IInv, Requests
  <2>2. CASE UNCHANGED req /\ \A q \in Req : status'[q] # "idle" => status[q] # "idle"
    BY <1>1, <2>2 DEF Together
  <2>3. ASSUME NEW out, NEW lost, Settle(out, lost), UNCHANGED req PROVE req'[r] \in Shapes
    BY <1>1, <2>3 DEF Settle, Together
  <2>4. ASSUME NEW q \in Req, Leave(q) \/ Collect(q) PROVE req'[r] \in Shapes
    <3>1. UNCHANGED req /\ \A k \in Req : status'[k] # "idle" => status[k] # "idle"
      BY <2>4 DEF Leave, Collect, IInv, Requests
    <3> QED
      BY <2>2, <3>1
  <2>5. CASE DrainDone \/ \E t \in tasks : FlushTaskPanics(t) \/ JoinOutcome(t) \/ Crash(t)
    BY <2>3, <2>5 DEF DrainDone, FlushTaskPanics, JoinOutcome, Crash
  <2>6. CASE \/ \E p \in Provider : WindowElapses(p)
             \/ \E t \in tasks : FlushTaskEnds(t) \/ JoinPanicked(t)
             \/ \E q \in Req : \E i \in DOMAIN legs[q] : Relay(q, i) \/ AddToSlot(q, i)
             \/ CloseChannel \/ JoinPending \/ Recv \/ RecvClosed \/ RecvPending \/ Timer \/ Wake
             \/ HealthStep \/ UNCHANGED vars
    <3>1. ASSUME NEW q \in Req, NEW i \in DOMAIN legs[q], Relay(q, i) \/ AddToSlot(q, i)
          PROVE  UNCHANGED <<req, status>>
      BY <3>1 DEF Relay, AddToSlot
    <3>2. ASSUME \/ \E p \in Provider : WindowElapses(p)
                 \/ \E t \in tasks : FlushTaskEnds(t) \/ JoinPanicked(t)
                 \/ CloseChannel \/ JoinPending \/ Recv \/ RecvClosed \/ RecvPending \/ Timer
                 \/ Wake \/ HealthStep \/ UNCHANGED vars
          PROVE  UNCHANGED <<req, status>>
      BY <3>2 DEF WindowElapses, FlushTaskEnds, JoinPanicked, CloseChannel, JoinPending, Recv,
                  RecvClosed, RecvPending, Timer, Wake, HealthStep, vars
    <3>3. UNCHANGED <<req, status>>
      BY <2>6, <3>1, <3>2
    <3> QED
      BY <2>2, <3>3
  <2> QED
    BY <2>1, <2>4, <2>5, <2>6 DEF Next, Caller, Multi, FlushTask, MuxTask
<1>2. NoOrphanSender'
  <2>1. CASE UNCHANGED <<slot, tasks>>
    BY <2>1 DEF Together, NoOrphanSender
  <2>2. ASSUME NEW p \in Provider, WindowElapses(p) PROVE NoOrphanSender'
    <3>1. slot' = [slot EXCEPT ![p].expired = TRUE] /\ UNCHANGED tasks
      BY <2>2 DEF WindowElapses
    <3>2. \A q \in Provider : slot'[q].senders = slot[q].senders /\ slot'[q].ranges = slot[q].ranges
      BY <3>1 DEF IInv, Batches, SlotState
    <3> QED
      BY <3>1, <3>2 DEF Together, NoOrphanSender
  <2>3. ASSUME NEW t \in tasks, FlushTaskEnds(t) \/ FlushTaskPanics(t) PROVE NoOrphanSender'
    <3>1. PICK u : /\ \/ u \in TaskEnds(t)
                      \/ u = [t EXCEPT !.st = "panic", !.senders = {}]
                   /\ tasks' = (tasks \ {t}) \cup {u} /\ UNCHANGED slot /\ ~Finished(t)
      BY <2>3 DEF FlushTaskEnds, FlushTaskPanics
    <3>2. t \in TaskState
      BY SendersOK
    <3>3. u.st = "panic" \/ (u.senders = t.senders /\ u.ranges = t.ranges)
      BY <3>1, <3>2 DEF TaskEnds, TaskState
    <3> QED
      BY <3>1, <3>3 DEF Together, NoOrphanSender, Finished
  <2>4. CASE \/ \E t \in tasks : JoinOutcome(t) \/ JoinPanicked(t) \/ Crash(t)
             \/ DrainDone
    <3>1. NoSlot.senders = Callers(NoSlot.ranges)
      BY DEF NoSlot, Callers
    <3>2. tasks' \subseteq tasks /\ slot' \in {slot, [p \in Provider |-> NoSlot]}
      BY <2>4 DEF JoinOutcome, JoinPanicked, Crash, DrainDone
    <3> QED
      BY <3>1, <3>2 DEF Together, NoOrphanSender
  <2>5. CASE RecvClosed \/ Timer
    <3>1. PICK ps \in SUBSET Provider : FlushSlots(ps)
      BY <2>5 DEF RecvClosed, Timer, Expired
    <3>2. /\ \A t \in tasks' : t \in tasks \/ \E p \in Provider : t = TaskOf(p, slot[p])
          /\ \A p \in Provider : slot'[p] \in {slot[p], NoSlot}
      BY <3>1 DEF FlushSlots
    <3>3. /\ NoSlot.senders = Callers(NoSlot.ranges)
          /\ \A p \in Provider : /\ TaskOf(p, slot[p]).senders = slot[p].senders
                                 /\ TaskOf(p, slot[p]).ranges = slot[p].ranges
      BY DEF NoSlot, Callers, TaskOf
    <3> QED
      BY <3>2, <3>3 DEF Together, NoOrphanSender
  <2>6. CASE \E r \in Req : \E i \in DOMAIN legs[r] : AddToSlot(r, i)
    BY <2>6, AddedTogether
  <2>7. CASE \/ \E r \in Req : Caller(r) \/ Multi(r)
             \/ CloseChannel \/ JoinPending \/ Recv \/ RecvPending \/ Wake \/ HealthStep
             \/ UNCHANGED vars
    <3>1. UNCHANGED <<slot, tasks>>
      BY <2>7 DEF Caller, Multi, Leave, Submit, Collect, Relay, CloseChannel, JoinPending, Recv,
                  RecvPending, Wake, HealthStep, vars
    <3> QED
      BY <2>1, <3>1
  <2> QED
    BY <2>2, <2>3, <2>4, <2>5, <2>6, <2>7 DEF Next, FlushTask, MuxTask
<1> QED
  BY <1>1, <1>2 DEF Together

\* If no request is larger than the providers it names take, every sender
\* travels with its texts, from the slot to the task.
THEOREM NoOrphans ==
  ASSUME WithinLimits PROVE Spec => []NoOrphanSender
<1>1. Together => NoOrphanSender
  BY DEF Together
<1>2. IInv /\ Sizes /\ Together /\ [Next]_vars => Together'
  BY TogetherNext
<1> QED
  BY <1>1, <1>2, SizesInductive, TogetherInit, PTL DEF Spec

-----------------------------------------------------------------------------
(* Answered in full *)

\* Nobody asks for nothing, and a call that ends well has an embedding per
\* text and does not panic.
Behaved ==
  /\ \A s \in Shapes : s.n # 0
  /\ Outcomes \subseteq {"ok", "rate_limited", "other"}

Reported(r, i) == legs[r][i].p \in DOMAIN resp[r].results \cup DOMAIN resp[r].failed

\* What each leg and each answer accounts for.
Accounts ==
  /\ \A r \in Req : status[r] # "dropped"
  /\ \A r \in Req : \A i \in DOMAIN legs[r] :
       legs[r][i].st # "dropped" /\ (legs[r][i].st = "relayed" => Reported(r, i))
  /\ \A r \in Req : status[r] = "answered" /\ Single(r) =>
       legs[r] # <<>> /\ \A i \in DOMAIN legs[r] : Reported(r, i)

\* A draining multiplexer has no sender left in a slot.
Clean ==
  /\ mux # "crashed"
  /\ mux \in {"drain", "done"} => \A p \in Provider : slot[p].senders = {}
  /\ \A t \in tasks : /\ t.st \in {"running", "ok", "rate_limited", "other"}
                      /\ t.st = "ok" => t.got = Len(t.texts)

LEMMA MergeReports ==
  ASSUME NEW m, IsResponse(m), NEW p, NEW out, NEW q
  PROVE  /\ q \in DOMAIN m.results \cup DOMAIN m.failed =>
              q \in DOMAIN Merge(m, p, out).results \cup DOMAIN Merge(m, p, out).failed
         /\ out.st \in {"ok", "rate_limited", "other"} =>
              p \in DOMAIN Merge(m, p, out).results \cup DOMAIN Merge(m, p, out).failed
<1>1. m = [results |-> m.results, failed |-> m.failed]
  BY DEF IsResponse
<1>2. CASE out.st = "ok"
  <2>1. Merge(m, p, out) = [m EXCEPT !.results = Put(m.results, p, out.embs)]
    BY <1>2 DEF Merge
  <2>2. /\ Merge(m, p, out).results = Put(m.results, p, out.embs)
        /\ Merge(m, p, out).failed = m.failed
    BY <1>1, <2>1
  <2>3. DOMAIN Put(m.results, p, out.embs) = DOMAIN m.results \cup {p}
    BY DEF Put
  <2> QED
    BY <2>2, <2>3
<1>3. CASE out.st \in {"rate_limited", "other"}
  <2>1. Merge(m, p, out) = [m EXCEPT !.failed = Put(m.failed, p, out.st)]
    BY <1>3 DEF Merge
  <2>2. /\ Merge(m, p, out).failed = Put(m.failed, p, out.st)
        /\ Merge(m, p, out).results = m.results
    BY <1>1, <2>1
  <2>3. DOMAIN Put(m.failed, p, out.st) = DOMAIN m.failed \cup {p}
    BY DEF Put
  <2> QED
    BY <2>2, <2>3
<1>4. CASE out.st \notin {"ok", "rate_limited", "other"}
  BY <1>4 DEF Merge
<1> QED
  BY <1>2, <1>3, <1>4

\* Outcomes that are none of them a drop keep the accounts.
LEMMA SettleAccounts ==
  ASSUME IInv, Accounts, NEW STATE out, Settle(out, {}), UNCHANGED req,
         DOMAIN out \subseteq WaitingIds,
         \A c \in DOMAIN out : out[c].st \in {"ok", "rate_limited", "other"}
  PROVE  Accounts'
<1>1. ASSUME NEW r \in Req
      PROVE  /\ DOMAIN legs'[r] = DOMAIN legs[r]
             /\ \A i \in DOMAIN legs[r] :
                  /\ legs'[r][i].p = legs[r][i].p
                  /\ legs'[r][i].st = IF <<r, i>> \in DOMAIN out THEN out[<<r, i>>].st
                                                               ELSE legs[r][i].st
  BY SettledLegs DEF IInv
<1>2. ASSUME NEW r \in Req
      PROVE  \/ /\ Single(r) /\ status[r] = "pending" /\ <<r, 1>> \in DOMAIN out
                /\ status'[r] = "answered"
                /\ resp'[r] = Merge(resp[r], legs[r][1].p, out[<<r, 1>>])
             \/ status'[r] = status[r] /\ resp'[r] = resp[r]
  BY DEF Settle
<1>3. ASSUME NEW r \in Req, NEW i \in DOMAIN legs[r], Reported(r, i) PROVE Reported(r, i)'
  <2>1. IsResponse(resp[r])
    BY DEF IInv, Requests, RequestOK
  <2>2. \A q : q \in DOMAIN resp[r].results \cup DOMAIN resp[r].failed =>
          q \in DOMAIN resp'[r].results \cup DOMAIN resp'[r].failed
    BY <1>2, <2>1, MergeReports
  <2> QED
    BY <1>1, <1>3, <2>2 DEF Reported
<1>4. \A r \in Req : status'[r] # "dropped"
  BY <1>2 DEF Accounts
<1>5. ASSUME NEW r \in Req, NEW i \in DOMAIN legs'[r]
      PROVE  legs'[r][i].st # "dropped" /\ (legs'[r][i].st = "relayed" => Reported(r, i)')
  <2>1. /\ i \in DOMAIN legs[r]
        /\ legs[r][i].st # "dropped" /\ (legs[r][i].st = "relayed" => Reported(r, i))
    BY <1>1 DEF Accounts
  <2>2. legs'[r][i].st \in {legs[r][i].st, "ok", "rate_limited", "other"}
    BY <1>1, <2>1
  <2> QED
    BY <1>3, <2>1, <2>2
<1>6. ASSUME NEW r \in Req, status'[r] = "answered", Single(r)'
      PROVE  legs'[r] # <<>> /\ \A i \in DOMAIN legs'[r] : Reported(r, i)'
  <2>0. Single(r)
    BY <1>6 DEF Single
  <2>1. CASE status[r] = "answered"
    <3>1. legs[r] # <<>> /\ \A i \in DOMAIN legs[r] : Reported(r, i)
      BY <2>0, <2>1 DEF Accounts
    <3>2. 1 \in DOMAIN legs[r]
      BY <3>1, LenProperties, EmptySeq DEF IInv, Requests
    <3> QED
      BY <1>1, <1>3, <3>1, <3>2, EmptySeq
  <2>2. CASE status[r] # "answered"
    <3>1. /\ <<r, 1>> \in DOMAIN out
          /\ resp'[r] = Merge(resp[r], legs[r][1].p, out[<<r, 1>>])
      BY <1>2, <1>6, <2>2
    <3>2. 1 \in DOMAIN legs[r] /\ legs[r] # <<>> /\ out[<<r, 1>>].st \in {"ok", "rate_limited", "other"}
      BY <3>1, IsWaiting, EmptySeq
    <3>3. DOMAIN legs[r] = {1}
      <4>1. Len(legs[r]) = 1 /\ DOMAIN legs[r] = 1 .. Len(legs[r])
        BY <2>0, <3>2, LenProperties DEF IInv, Requests, RequestOK, LegsOK, Single
      <4> QED
        BY <4>1
    <3>4. Reported(r, 1)'
      <4>1. IsResponse(resp[r])
        BY DEF IInv, Requests, RequestOK
      <4>2. legs[r][1].p \in DOMAIN resp'[r].results \cup DOMAIN resp'[r].failed
        BY <3>1, <3>2, <4>1, MergeReports
      <4> QED
        BY <1>1, <3>2, <4>2 DEF Reported
    <3> QED
      BY <1>1, <3>2, <3>3, <3>4, EmptySeq
  <2> QED
    BY <2>1, <2>2
<1> QED
  BY <1>4, <1>5, <1>6 DEF Accounts

\* The outcome of a batch reaches each of its callers.
LEMMA OutcomeArrives ==
  ASSUME IInv, Together, Clean, NEW t \in tasks, Finished(t)
  PROVE  /\ ~SlicePanics(t)
         /\ \A c \in t.senders : OutcomeFor(t, c).st \in {"ok", "rate_limited", "other"}
<1>1. /\ t \in TaskState /\ t.senders = Callers(t.ranges) /\ Tiled(t, req)
      /\ t.st \in {"ok", "rate_limited", "other"} /\ (t.st = "ok" => t.got = Len(t.texts))
  BY SendersOK DEF Together, NoOrphanSender, Clean, Finished, BatchOK
<1>2. \A j \in DOMAIN t.ranges : /\ t.ranges[j].end <= Len(t.texts)
                                 /\ t.ranges[j].end \in Nat /\ Len(t.texts) \in Nat
  BY <1>1, RangeType, LenProperties DEF Tiled, Addressed, TaskState
<1>3. \A j \in DOMAIN t.ranges : t.st = "ok" => ~(t.ranges[j].end > t.got)
  BY <1>1, <1>2
<1>4. ASSUME NEW c \in t.senders PROVE OutcomeFor(t, c).st = t.st
  <2> DEFINE mine == {g \in {t.ranges[j] : j \in DOMAIN t.ranges} : g.caller = c}
             g == CHOOSE g \in mine : TRUE
  <2>1. \E j \in DOMAIN t.ranges : t.ranges[j].caller = c
    BY <1>1 DEF Callers
  <2>2. mine # {}
    BY <2>1
  <2>3. g \in mine
    BY <2>2
  <2>4. \E j \in DOMAIN t.ranges : g = t.ranges[j]
    BY <2>3
  <2>5. ~(mine = {} \/ (t.st = "ok" /\ g.end > t.got))
    BY <1>3, <2>2, <2>4
  <2>6. OutcomeFor(t, c) = [st |-> t.st, embs |-> IF t.st = "ok" THEN Slice(t, g) ELSE <<>>]
    BY <2>5 DEF OutcomeFor
  <2> QED
    BY <2>6
<1> QED
  BY <1>1, <1>3, <1>4 DEF SlicePanics

\* A slot that holds a sender holds texts, and flush_all takes it.
LEMMA SlotsFlush ==
  ASSUME Behaved, IInv, Sizes, Together, NEW p \in Provider, slot[p].senders # {}
  PROVE  slot[p].open /\ ~IsEmpty(slot[p])
<1>1. /\ slot[p] \in SlotState /\ BatchOK(slot[p], req, status, legs)
      /\ slot[p].senders = Callers(slot[p].ranges) /\ slot[p].ranges \in Seq(CallerRange)
  BY BatchFields DEF IInv, Batches, Together, NoOrphanSender
<1>2. PICK j \in DOMAIN slot[p].ranges : TRUE
  BY <1>1 DEF Callers
<1> DEFINE g == slot[p].ranges[j]
<1>3. /\ g.caller[1] \in Req /\ g.start \in Nat /\ g.end \in Nat
      /\ status[g.caller[1]] # "idle" /\ Addressed(slot[p], j, req)
  BY <1>1, <1>2, RangeType DEF BatchOK, Tiled
<1>4. req[g.caller[1]].n \in Nat \ {0}
  BY <1>3, MuxAssumption DEF Behaved, Together, Shape
<1>5. g.end = g.start + req[g.caller[1]].n /\ g.end <= Len(slot[p].texts)
  BY <1>3 DEF Addressed
<1> HIDE DEF g
<1>6. slot[p].texts \in Seq(Text) /\ Len(slot[p].texts) \in Nat /\ Len(slot[p].texts) # 0
  BY <1>1, <1>3, <1>4, <1>5, BatchFields, LenProperties
<1>7. slot[p].texts # <<>>
  BY <1>6, EmptySeq
<1>8. ~slot[p].open => slot[p] = NoSlot
  BY DEF Sizes, SlotFits
<1> QED
  BY <1>7, <1>8 DEF IsEmpty, NoSlot

LEMMA CleanNext ==
  ASSUME Behaved, IInv, Sizes, Together, Clean, [Next]_vars
  PROVE  Clean'
<1>1. CASE UNCHANGED <<slot, tasks>> /\ (mux' = mux \/ mux' \in {"join", "recv", "timer", "fan"})
  BY <1>1 DEF Clean
<1>2. ASSUME NEW p \in Provider, WindowElapses(p) PROVE Clean'
  <2>1. slot' = [slot EXCEPT ![p].expired = TRUE] /\ UNCHANGED <<tasks, mux>>
    BY <1>2 DEF WindowElapses
  <2>2. \A q \in Provider : slot'[q].senders = slot[q].senders
    BY <2>1 DEF IInv, Batches, SlotState
  <2> QED
    BY <2>1, <2>2 DEF Clean
<1>3. ASSUME NEW t \in tasks, FlushTaskEnds(t) PROVE Clean'
  <2>1. PICK u \in TaskEnds(t) : tasks' = (tasks \ {t}) \cup {u} /\ UNCHANGED <<slot, mux>>
    BY <1>3 DEF FlushTaskEnds
  <2>2. t \in TaskState /\ "short" \notin Outcomes
    BY SendersOK DEF Behaved
  <2>3. u.st \in {"ok", "rate_limited", "other"} /\ (u.st = "ok" => u.got = Len(u.texts))
    BY <2>1, <2>2 DEF TaskEnds, TaskState
  <2> QED
    BY <2>1, <2>3 DEF Clean
<1>4. ASSUME NEW t \in tasks, FlushTaskPanics(t) \/ JoinPanicked(t) PROVE FALSE
  BY <1>4 DEF FlushTaskPanics, JoinPanicked, Behaved, Clean
<1>5. ASSUME NEW t \in tasks, Crash(t) PROVE FALSE
  BY <1>5, OutcomeArrives DEF Crash
<1>6. ASSUME NEW t \in tasks, JoinOutcome(t) PROVE Clean'
  BY <1>6 DEF JoinOutcome, Clean
<1>7. CASE DrainDone
  BY <1>7 DEF DrainDone, Clean, NoSlot
<1>8. ASSUME NEW t, t \in {TaskOf(p, b) : p \in Provider, b \in SlotState}
      PROVE  t.st \in {"running", "ok", "rate_limited", "other"} /\ t.st # "ok"
  BY <1>8 DEF TaskOf
<1>9. ASSUME RecvClosed \/ Timer PROVE Clean'
  <2>1. PICK ps \in SUBSET Provider : FlushSlots(ps) /\ (RecvClosed => ps = Provider)
    BY <1>9 DEF RecvClosed, Timer, Expired
  <2>2. \A t \in tasks' : t \in tasks \/ \E p \in Provider : t = TaskOf(p, slot[p])
    BY <2>1 DEF FlushSlots
  <2>3. \A t \in tasks' : /\ t.st \in {"running", "ok", "rate_limited", "other"}
                          /\ t.st = "ok" => t.got = Len(t.texts)
    BY <1>8, <2>2 DEF Clean, IInv, Batches
  <2>4. RecvClosed => \A p \in Provider : slot'[p].senders = {}
    BY <2>1, SlotsFlush DEF FlushSlots, NoSlot
  <2>5. mux' = "join" \/ (RecvClosed /\ mux' = "drain")
    BY <1>9 DEF RecvClosed, Timer
  <2> QED
    BY <2>3, <2>4, <2>5 DEF Clean
<1>10. ASSUME NEW r \in Req, NEW i \in DOMAIN legs[r], AddToSlot(r, i) PROVE Clean'
  <2>1. mux' \in {"join", "fan"}
    BY <1>10 DEF AddToSlot
  <2>2. \A t \in tasks' : t \in tasks \/ \E p, b : t = TaskOf(p, b)
    BY <1>10 DEF AddToSlot
  <2>3. \A p, b : TaskOf(p, b).st = "running"
    BY DEF TaskOf
  <2> QED
    BY <2>1, <2>2, <2>3 DEF Clean
<1>11. ASSUME \/ \E r \in Req : Caller(r) \/ Multi(r)
              \/ CloseChannel \/ JoinPending \/ Recv \/ RecvPending \/ Wake \/ HealthStep
              \/ UNCHANGED vars
       PROVE  Clean'
  <2>1. UNCHANGED <<slot, tasks>> /\ (mux' = mux \/ mux' \in {"join", "recv", "timer", "fan"})
    BY <1>11 DEF Caller, Multi, Leave, Submit, Collect, Relay, CloseChannel, JoinPending, Recv,
                 RecvPending, Wake, HealthStep, vars
  <2> QED
    BY <1>1, <2>1
<1> QED
  BY <1>2, <1>3, <1>4, <1>5, <1>6, <1>7, <1>9, <1>10, <1>11 DEF Next, FlushTask, MuxTask

\* A request that has not been received has no answer to account for.
LEMMA RecvAccounts ==
  ASSUME IInv, Places, Accounts, Recv
  PROVE  Accounts'
<1> DEFINE r == Head(chan)
           ps == req[r].providers
<1>1. /\ legs' = [legs EXCEPT ![r] =
            [i \in DOMAIN ps |-> [p |-> ps[i], embs |-> <<>>,
                                  st |-> IF i \in Attempted(r) THEN "new" ELSE "skipped"]]]
      /\ chan # <<>> /\ UNCHANGED <<req, status, resp>>
  BY DEF Recv
<1>2. r \in Req /\ r = chan[1] /\ 1 \in 1 .. Len(chan)
  BY <1>1, HeadTailProperties, LenProperties, EmptySeq DEF IInv, Channel
<1>3. legs[r] = <<>>
  BY <1>2 DEF Places
<1>4. /\ \A q \in Req \ {r} : legs'[q] = legs[q]
      /\ \A i \in DOMAIN legs'[r] : legs'[r][i].st \in {"new", "skipped"}
  BY <1>1, <1>2 DEF IInv, Requests
<1> HIDE DEF r
<1>5. ~(status[r] = "answered" /\ Single(r))
  BY <1>2, <1>3 DEF Accounts
<1> QED
  BY <1>1, <1>4, <1>5 DEF Accounts, Reported, Single

\* One leg moves on, and its provider is reported when it was relayed.
LEMMA LegAccounts ==
  ASSUME IInv, Accounts, NEW r \in Req, NEW i \in DOMAIN legs[r], NEW leg \in LegState,
         leg.p = legs[r][i].p, leg.st \in {"waiting", "relayed"},
         legs' = [legs EXCEPT ![r] = [legs[r] EXCEPT ![i] = leg]],
         UNCHANGED <<req, status>>, \A q \in Req \ {r} : resp'[q] = resp[q],
         \A q : q \in DOMAIN resp[r].results \cup DOMAIN resp[r].failed =>
           q \in DOMAIN resp'[r].results \cup DOMAIN resp'[r].failed,
         leg.st = "relayed" => leg.p \in DOMAIN resp'[r].results \cup DOMAIN resp'[r].failed
  PROVE  Accounts'
<1>1. /\ \A q \in Req \ {r} : legs'[q] = legs[q]
      /\ DOMAIN legs'[r] = DOMAIN legs[r] /\ legs'[r][i] = leg
      /\ \A k \in DOMAIN legs[r] \ {i} : legs'[r][k] = legs[r][k]
      /\ legs[r] # <<>> /\ legs'[r] # <<>>
  BY EmptySeq DEF IInv, Requests
<1>2. ASSUME NEW q \in Req, NEW k \in DOMAIN legs[q], Reported(q, k) PROVE Reported(q, k)'
  <2>1. legs'[q][k].p = legs[q][k].p
    BY <1>1
  <2> QED
    BY <1>2, <2>1 DEF Reported
<1>3. ASSUME NEW q \in Req, NEW k \in DOMAIN legs'[q]
      PROVE  legs'[q][k].st # "dropped" /\ (legs'[q][k].st = "relayed" => Reported(q, k)')
  <2>1. CASE q = r /\ k = i
    BY <1>1, <2>1 DEF Reported
  <2>2. CASE ~(q = r /\ k = i)
    BY <1>1, <1>2, <2>2 DEF Accounts
  <2> QED
    BY <2>1, <2>2
<1>4. ASSUME NEW q \in Req, status'[q] = "answered", Single(q)'
      PROVE  legs'[q] # <<>> /\ \A k \in DOMAIN legs'[q] : Reported(q, k)'
  <2>1. legs[q] # <<>> /\ \A k \in DOMAIN legs[q] : Reported(q, k)
    BY <1>4 DEF Accounts, Single
  <2> QED
    BY <1>1, <1>2, <2>1
<1> QED
  BY <1>3, <1>4 DEF Accounts

LEMMA AccountsNext ==
  ASSUME IInv, Places, Together, Clean, Behaved, Accounts, [Next]_vars
  PROVE  Accounts'
<1>1. ASSUME UNCHANGED <<req, legs, status, resp>> PROVE Accounts'
  BY <1>1 DEF Accounts, Reported, Single
<1>2. ASSUME NEW r \in Req, NEW s \in Shapes, Submit(r, s) PROVE Accounts'
  <2>1. /\ UNCHANGED <<legs, resp>> /\ status'[r] \in {"pending", "refused"}
        /\ \A q \in Req \ {r} : req'[q] = req[q] /\ status'[q] = status[q]
    BY <1>2 DEF Submit, IInv, Requests
  <2> QED
    BY <2>1 DEF Accounts, Reported, Single
<1>3. ASSUME NEW r \in Req, Leave(r) PROVE Accounts'
  <2>1. /\ UNCHANGED <<legs, resp, req>> /\ status'[r] = "gone"
        /\ \A q \in Req \ {r} : status'[q] = status[q]
    BY <1>3 DEF Leave, IInv, Requests
  <2> QED
    BY <2>1 DEF Accounts, Reported, Single
<1>4. ASSUME NEW r \in Req, Collect(r) PROVE Accounts'
  <2>1. /\ UNCHANGED <<legs, resp, req>> /\ status'[r] = "answered" /\ ~Single(r)
        /\ \A q \in Req \ {r} : status'[q] = status[q]
    BY <1>4 DEF Collect, IInv, Requests
  <2> QED
    BY <2>1 DEF Accounts, Reported, Single
<1>5. ASSUME NEW r \in Req, NEW i \in DOMAIN legs[r], Relay(r, i) PROVE Accounts'
  <2> DEFINE old == legs[r][i]
             leg == [old EXCEPT !.st = "relayed", !.embs = <<>>]
  <2>1. /\ legs' = [legs EXCEPT ![r] = [legs[r] EXCEPT ![i] = leg]]
        /\ UNCHANGED <<req, status>> /\ old.st \in {"ok", "rate_limited", "other"}
        /\ resp'[r] = Merge(resp[r], old.p, old) /\ \A q \in Req \ {r} : resp'[q] = resp[q]
    BY <1>5 DEF Relay, Settled, IInv, Requests, Accounts
  <2>2. old \in LegState /\ leg \in LegState /\ leg.p = old.p /\ leg.st = "relayed"
    <3>1. old \in LegState
      BY LegType DEF IInv
    <3> QED
      BY <3>1, RelayedLeg DEF LegState
  <2>3. IsResponse(resp[r])
    BY DEF IInv, Requests, RequestOK
  <2>4. /\ \A q : q \in DOMAIN resp[r].results \cup DOMAIN resp[r].failed =>
             q \in DOMAIN resp'[r].results \cup DOMAIN resp'[r].failed
        /\ leg.p \in DOMAIN resp'[r].results \cup DOMAIN resp'[r].failed
    BY <2>1, <2>2, <2>3, MergeReports
  <2> HIDE DEF leg
  <2> QED
    BY <2>1, <2>2, <2>4, LegAccounts
<1>6. ASSUME NEW r \in Req, NEW i \in DOMAIN legs[r], AddToSlot(r, i) PROVE Accounts'
  <2> DEFINE leg == [legs[r][i] EXCEPT !.st = "waiting"]
  <2>1. /\ legs' = [legs EXCEPT ![r] = [legs[r] EXCEPT ![i] = leg]]
        /\ UNCHANGED <<req, status, resp>>
    BY <1>6 DEF AddToSlot, IInv, Requests
  <2>2. leg \in LegState /\ leg.st = "waiting" /\ leg.p = legs[r][i].p
    BY LegType DEF IInv, LegState
  <2> HIDE DEF leg
  <2> QED
    BY <2>1, <2>2, LegAccounts
<1>7. ASSUME NEW t \in tasks, JoinOutcome(t) PROVE Accounts'
  <2> DEFINE out == [c \in t.senders |-> OutcomeFor(t, c)]
  <2>1. Settle(out, {}) /\ UNCHANGED req /\ DOMAIN out = t.senders /\ Finished(t)
    BY <1>7 DEF JoinOutcome
  <2>2. t.senders \subseteq WaitingIds
    BY DEF Places, SendersHeldOnce
  <2>3. \A c \in DOMAIN out : out[c].st \in {"ok", "rate_limited", "other"}
    BY <2>1, OutcomeArrives
  <2> HIDE DEF out
  <2> QED
    BY <2>1, <2>2, <2>3, SettleAccounts
<1>8. ASSUME DrainDone PROVE Accounts'
  <2> DEFINE out == [c \in WaitingIds |-> Dropped]
  <2>1. Settle(out, {}) /\ UNCHANGED req /\ DOMAIN out = WaitingIds
    BY <1>8 DEF DrainDone
  <2>2. WaitingIds = {}
    BY <1>8 DEF DrainDone, Clean, Places, SendersHeldOnce, Holds, Carries
  <2> HIDE DEF out
  <2> QED
    BY <2>1, <2>2, SettleAccounts
<1>9. ASSUME NEW t \in tasks, FlushTaskPanics(t) \/ Crash(t) PROVE FALSE
  BY <1>9, OutcomeArrives DEF FlushTaskPanics, Crash, Behaved
<1>10. CASE Recv
  BY <1>10, RecvAccounts
<1>11. CASE \/ \E p \in Provider : WindowElapses(p)
            \/ \E t \in tasks : FlushTaskEnds(t) \/ JoinPanicked(t)
            \/ CloseChannel \/ JoinPending \/ RecvPending \/ Wake \/ HealthStep \/ RecvClosed
            \/ Timer \/ UNCHANGED vars
  <2>1. UNCHANGED <<req, legs, status, resp>>
    BY <1>11 DEF WindowElapses, FlushTaskEnds, JoinPanicked, CloseChannel, JoinPending,
                 RecvPending, Wake, HealthStep, RecvClosed, Timer, vars
  <2> QED
    BY <1>1, <2>1
<1> QED
  BY <1>2, <1>3, <1>4, <1>5, <1>6, <1>7, <1>8, <1>9, <1>10, <1>11
  DEF Next, Caller, Multi, FlushTask, MuxTask

LEMMA CleanInit == Init => Clean /\ Accounts
BY DEF Init, Clean, Accounts, NoSlot

\* What is accounted for holds in every state.
LEMMA InFull ==
  ASSUME WithinLimits, Behaved
  PROVE  Spec => [](Accounts /\ Replies)
<1>1. IInv /\ Sizes /\ Together /\ [Next]_vars => Together'
  BY TogetherNext
<1>2. IInv /\ Sizes /\ Together /\ Clean /\ [Next]_vars => Clean'
  BY CleanNext
<1>3. IInv /\ Places /\ Together /\ Clean /\ Accounts /\ [Next]_vars => Accounts'
  BY AccountsNext
<1>4. IInv /\ Places /\ Replies /\ [Next]_vars => Replies'
  BY RepliesNext
<1>5. IInv /\ Sizes /\ Places /\ [Next]_vars => Places'
  BY PlacesNext
<1> QED
  BY <1>1, <1>2, <1>3, <1>4, <1>5, SizesInductive, PlacesInit, TogetherInit, CleanInit,
     RepliesInit, PTL DEF Spec

\* With requests within the limits and providers that neither cheat nor panic,
\* no accepted request is ever dropped, not even when the server shuts down.
THEOREM NobodyDropped ==
  ASSUME WithinLimits, Behaved PROVE Spec => []NeverDropped
<1>1. Accounts => NeverDropped
  BY DEF Accounts, NeverDropped
<1> QED
  BY <1>1, InFull, PTL

\* Under the same assumptions an answer accounts for every provider that the
\* request was fanned out to.
THEOREM EveryoneReported ==
  ASSUME WithinLimits, Behaved PROVE Spec => []EveryProviderReported
<1>1. Accounts /\ Replies => EveryProviderReported
  BY DEF Accounts, Replies, Reported, RelaysEnded, Received, EveryProviderReported
<1> QED
  BY <1>1, InFull, PTL

-----------------------------------------------------------------------------
(* The multiplexer implements the service *)

\* There is one leg per entry of the request's list, skipped only by the
\* filter; only providers that were asked are reported as failed.
FannedOut(r) ==
  legs[r] # <<>> =>
    /\ DOMAIN legs[r] = DOMAIN req[r].providers
    /\ \A i \in DOMAIN legs[r] :
         /\ legs[r][i].p = req[r].providers[i]
         /\ legs[r][i].st = "skipped" => ~Single(r) /\ req[r].policy = "any"

Fanned ==
  \A r \in Req : FannedOut(r) /\ DOMAIN resp[r].failed \subseteq Service!Asked(req[r])

LEMMA MergeFails ==
  ASSUME NEW m, IsResponse(m), NEW p, NEW out
  PROVE  DOMAIN Merge(m, p, out).failed \subseteq DOMAIN m.failed \cup {p}
<1>1. m = [results |-> m.results, failed |-> m.failed]
  BY DEF IsResponse
<1>2. CASE out.st = "ok"
  <2>1. Merge(m, p, out) = [m EXCEPT !.results = Put(m.results, p, out.embs)]
    BY <1>2 DEF Merge
  <2> QED
    BY <1>1, <2>1
<1>3. CASE out.st \in {"rate_limited", "other"}
  <2>1. Merge(m, p, out) = [m EXCEPT !.failed = Put(m.failed, p, out.st)]
    BY <1>3 DEF Merge
  <2>2. Merge(m, p, out).failed = Put(m.failed, p, out.st)
    BY <1>1, <2>1
  <2> QED
    BY <2>2 DEF Put
<1>4. CASE out.st \notin {"ok", "rate_limited", "other"}
  BY <1>4 DEF Merge
<1> QED
  BY <1>2, <1>3, <1>4

\* Legs that move on keep their provider.
LEMMA FannedMove ==
  ASSUME IInv, Fanned, LegsMove, UNCHANGED req,
         \A r \in Req : \A i \in DOMAIN legs[r] : legs'[r][i].p = legs[r][i].p,
         \A r \in Req : \/ resp'[r] = resp[r]
                        \/ \E i \in DOMAIN legs[r] : \E out : resp'[r] = Merge(resp[r], legs[r][i].p, out)
  PROVE  Fanned'
<1> SUFFICES ASSUME NEW r \in Req
             PROVE  FannedOut(r)' /\ DOMAIN resp'[r].failed \subseteq Service!Asked(req[r])
  BY DEF Fanned
<1>1. FannedOut(r)'
  <2>1. legs'[r] # <<>> => legs[r] # <<>>
    BY DEF LegsMove
  <2> QED
    BY <2>1 DEF Fanned, FannedOut, LegsMove, Single
<1>2. DOMAIN resp[r].failed \subseteq Service!Asked(req[r]) /\ IsResponse(resp[r])
  BY DEF Fanned, IInv, Requests, RequestOK
<1>3. ASSUME NEW i \in DOMAIN legs[r], NEW out, resp'[r] = Merge(resp[r], legs[r][i].p, out)
      PROVE  DOMAIN resp'[r].failed \subseteq Service!Asked(req[r])
  <2>1. legs[r][i].p \in Service!Asked(req[r])
    BY LegType DEF IInv, Service!Asked
  <2> QED
    BY <1>2, <1>3, <2>1, MergeFails
<1> QED
  BY <1>1, <1>2, <1>3

\* What a step does to a request, seen from outside.
Moves(r) ==
  \/ UNCHANGED <<req[r], status[r]>> /\ (status[r] = "answered" => UNCHANGED resp[r])
  \/ status[r] = "idle" /\ status'[r] \in {"pending", "refused"} /\ req'[r] \in Shapes
  \/ UNCHANGED req[r] /\ status[r] = "pending" /\ status'[r] \in {"answered", "gone", "dropped"}

LEMMA SettledMoves ==
  ASSUME IInv, Fanned, NEW STATE out, NEW STATE lost, Settle(out, lost), UNCHANGED req,
         DOMAIN out \subseteq WaitingIds,
         \A c \in DOMAIN out : out[c].st # "skipped"
  PROVE  Fanned' /\ \A r \in Req : Moves(r)
<1>1. /\ LegsMove
      /\ \A r \in Req : \/ UNCHANGED <<status[r], resp[r]>>
                        \/ status[r] = "pending" /\ status'[r] = "dropped"
                        \/ status[r] = "pending" /\ status'[r] = "answered" /\ Single(r)
  BY SettleMoves DEF IInv
<1>2. \A r \in Req : \A i \in DOMAIN legs[r] : legs'[r][i].p = legs[r][i].p
  BY SettledLegs DEF IInv
<1>3. ASSUME NEW r \in Req
      PROVE  \/ resp'[r] = resp[r]
             \/ \E i \in DOMAIN legs[r] : \E o : resp'[r] = Merge(resp[r], legs[r][i].p, o)
  <2>1. CASE Single(r) /\ status[r] = "pending" /\ <<r, 1>> \in DOMAIN out
    <3>1. resp'[r] = Merge(resp[r], legs[r][1].p, out[<<r, 1>>])
      BY <2>1 DEF Settle
    <3>2. 1 \in DOMAIN legs[r]
      BY <2>1, IsWaiting
    <3> QED
      BY <3>1, <3>2
  <2>2. CASE ~(Single(r) /\ status[r] = "pending" /\ <<r, 1>> \in DOMAIN out)
    BY <2>2 DEF Settle
  <2> QED
    BY <2>1, <2>2
<1>4. Fanned'
  BY <1>1, <1>2, <1>3, FannedMove
<1> QED
  BY <1>1, <1>4 DEF Moves

\* handle_request makes a leg of every entry, and skips only what policy any
\* lets it skip.
LEMMA RecvFans ==
  ASSUME IInv, Places, Fanned, Recv
  PROVE  Fanned' /\ \A r \in Req : Moves(r)
<1>0. PICK r \in Req : r = Head(chan)
  BY HeadTailProperties DEF Recv, IInv, Channel
<1> DEFINE ps == req[r].providers
<1>1. /\ legs' = [legs EXCEPT ![r] =
            [i \in DOMAIN ps |-> [p |-> ps[i], embs |-> <<>>,
                                  st |-> IF i \in Attempted(r) THEN "new" ELSE "skipped"]]]
      /\ UNCHANGED <<req, status, resp>>
  BY <1>0 DEF Recv
<1>3. /\ \A q \in Req \ {r} : legs'[q] = legs[q]
      /\ DOMAIN legs'[r] = DOMAIN ps
      /\ \A i \in DOMAIN ps :
           /\ legs'[r][i].p = ps[i]
           /\ legs'[r][i].st = "skipped" => i \notin Attempted(r)
  BY <1>1 DEF IInv, Requests
<1>4. \A i \in DOMAIN ps : i \notin Attempted(r) => ~Single(r) /\ req[r].policy = "any"
  BY DEF Attempted
<1>5. FannedOut(r)'
  BY <1>1, <1>3, <1>4 DEF FannedOut, Single
<1>6. \A q \in Req \ {r} : FannedOut(q)'
  BY <1>1, <1>3 DEF Fanned, FannedOut, Single
<1> QED
  BY <1>1, <1>5, <1>6 DEF Fanned, Moves

LEMMA MovesNext ==
  ASSUME IInv, Places, Replies, Fanned, [Next]_vars
  PROVE  Fanned' /\ \A r \in Req : Moves(r)
<1>1. ASSUME UNCHANGED <<req, legs, status, resp>> PROVE Fanned' /\ \A r \in Req : Moves(r)
  BY <1>1 DEF Fanned, FannedOut, Single, Moves
<1>2. ASSUME NEW r \in Req, NEW s \in Shapes, Submit(r, s)
      PROVE  Fanned' /\ \A q \in Req : Moves(q)
  <2>1. /\ status[r] = "idle" /\ UNCHANGED <<legs, resp>>
        /\ req'[r] = s /\ status'[r] \in {"pending", "refused"}
        /\ \A q \in Req \ {r} : req'[q] = req[q] /\ status'[q] = status[q]
    BY <1>2 DEF Submit, IInv, Requests
  <2>2. legs[r] = <<>> /\ resp[r] = EmptyResponse /\ DOMAIN resp[r].failed = {}
    BY <2>1 DEF IInv, Requests, RequestOK, EmptyResponse, EmptyMap
  <2> QED
    BY <2>1, <2>2 DEF Fanned, FannedOut, Single, Moves
<1>3. ASSUME NEW r \in Req, Leave(r) \/ Collect(r) PROVE Fanned' /\ \A q \in Req : Moves(q)
  <2>1. /\ status[r] = "pending" /\ UNCHANGED <<legs, resp, req>>
        /\ status'[r] \in {"gone", "answered"}
        /\ \A q \in Req \ {r} : status'[q] = status[q]
    BY <1>3 DEF Leave, Collect, IInv, Requests
  <2> QED
    BY <2>1 DEF Fanned, FannedOut, Single, Moves
<1>4. ASSUME NEW r \in Req, NEW i \in DOMAIN legs[r], Relay(r, i)
      PROVE  Fanned' /\ \A q \in Req : Moves(q)
  <2> DEFINE old == legs[r][i]
             leg == [old EXCEPT !.st = "relayed", !.embs = <<>>]
  <2>1. /\ legs' = [legs EXCEPT ![r] = [legs[r] EXCEPT ![i] = leg]]
        /\ UNCHANGED <<req, status>> /\ ~Single(r)
        /\ old.st \in {"ok", "rate_limited", "other", "dropped"}
        /\ resp'[r] = Merge(resp[r], old.p, old) /\ \A q \in Req \ {r} : resp'[q] = resp[q]
    BY <1>4 DEF Relay, Settled, IInv, Requests
  <2>2. old \in LegState /\ leg \in LegState /\ leg.st = "relayed" /\ leg.p = old.p
    <3>1. old \in LegState
      BY LegType DEF IInv
    <3> QED
      BY <3>1, RelayedLeg DEF LegState
  <2>3. status[r] # "answered"
    BY <2>1 DEF Replies, RelaysEnded
  <2>4. \A q \in Req : \/ resp'[q] = resp[q]
                       \/ \E k \in DOMAIN legs[q] : \E out : resp'[q] = Merge(resp[q], legs[q][k].p, out)
    BY <2>1
  <2> HIDE DEF leg
  <2>5. \A q \in Req : \A k \in DOMAIN legs[q] : legs'[q][k].p = legs[q][k].p
    BY <2>1, <2>2 DEF IInv, Requests
  <2> HIDE DEF old
  <2>6. LegsMove
    BY <2>1, <2>2, OneLegMoves DEF old
  <2>7. Fanned'
    BY <2>1, <2>4, <2>5, <2>6, FannedMove
  <2> QED
    BY <2>1, <2>3, <2>7 DEF Moves
<1>5. ASSUME NEW r \in Req, NEW i \in DOMAIN legs[r], AddToSlot(r, i)
      PROVE  Fanned' /\ \A q \in Req : Moves(q)
  <2> DEFINE leg == [legs[r][i] EXCEPT !.st = "waiting"]
  <2>1. /\ legs' = [legs EXCEPT ![r] = [legs[r] EXCEPT ![i] = leg]]
        /\ UNCHANGED <<req, status, resp>> /\ legs[r][i].st = "new"
    BY <1>5 DEF AddToSlot, IInv, Requests
  <2>2. leg \in LegState /\ leg.st = "waiting" /\ leg.p = legs[r][i].p
    BY LegType DEF IInv, LegState
  <2> HIDE DEF leg
  <2>3. LegsMove
    BY <2>1, <2>2, OneLegMoves
  <2>4. \A q \in Req : \A k \in DOMAIN legs[q] : legs'[q][k].p = legs[q][k].p
    BY <2>1, <2>2 DEF IInv, Requests
  <2>5. Fanned'
    BY <2>1, <2>3, <2>4, FannedMove
  <2> QED
    BY <2>1, <2>5 DEF Moves
<1>6. ASSUME NEW t \in tasks, FlushTaskPanics(t) \/ JoinOutcome(t) \/ Crash(t)
      PROVE  Fanned' /\ \A r \in Req : Moves(r)
  <2>1. t.senders \subseteq WaitingIds /\ t \in TaskState /\ BatchOK(t, req, status, legs)
    BY SendersOK DEF Places, SendersHeldOnce
  <2>2. Dropped.st # "skipped" /\ \A c : (t.st # "panic" /\ Finished(t)) => OutcomeFor(t, c).st # "skipped"
    BY <2>1, OutcomeOK DEF IInv, OutOK, Dropped, TaskState, Finished
  <2>3. CASE FlushTaskPanics(t)
    <3> DEFINE out == [c \in t.senders |-> Dropped]
    <3>1. Settle(out, {}) /\ UNCHANGED req /\ DOMAIN out \subseteq WaitingIds
          /\ \A c \in DOMAIN out : out[c].st # "skipped"
      BY <2>1, <2>2, <2>3 DEF FlushTaskPanics
    <3> HIDE DEF out
    <3> QED
      BY <3>1, SettledMoves
  <2>4. CASE JoinOutcome(t)
    <3> DEFINE out == [c \in t.senders |-> OutcomeFor(t, c)]
    <3>1. Settle(out, {}) /\ UNCHANGED req /\ DOMAIN out \subseteq WaitingIds
          /\ \A c \in DOMAIN out : out[c].st # "skipped"
      BY <2>1, <2>2, <2>4 DEF JoinOutcome
    <3> HIDE DEF out
    <3> QED
      BY <3>1, SettledMoves
  <2>5. CASE Crash(t)
    <3> DEFINE out == [c \in WaitingIds |-> IF c \in t.senders THEN OutcomeFor(t, c) ELSE Dropped]
               lost == {chan[j] : j \in DOMAIN chan}
    <3>1. Settle(out, lost) /\ UNCHANGED req /\ DOMAIN out \subseteq WaitingIds
          /\ t.st # "panic" /\ Finished(t)
      BY <2>5 DEF Crash, SlicePanics
    <3>2. \A c \in DOMAIN out : out[c].st # "skipped"
      BY <2>2, <3>1
    <3> HIDE DEF out, lost
    <3> QED
      BY <3>1, <3>2, SettledMoves
  <2> QED
    BY <1>6, <2>3, <2>4, <2>5
<1>7. ASSUME DrainDone PROVE Fanned' /\ \A r \in Req : Moves(r)
  <2> DEFINE out == [c \in WaitingIds |-> Dropped]
  <2>1. Settle(out, {}) /\ UNCHANGED req /\ DOMAIN out \subseteq WaitingIds
        /\ \A c \in DOMAIN out : out[c].st # "skipped"
    BY <1>7 DEF DrainDone, Dropped
  <2> HIDE DEF out
  <2> QED
    BY <2>1, SettledMoves
<1>8. CASE Recv
  BY <1>8, RecvFans
<1>9. CASE \/ \E p \in Provider : WindowElapses(p)
           \/ \E t \in tasks : FlushTaskEnds(t) \/ JoinPanicked(t)
           \/ CloseChannel \/ JoinPending \/ RecvPending \/ Wake \/ HealthStep \/ RecvClosed
           \/ Timer \/ UNCHANGED vars
  <2>1. UNCHANGED <<req, legs, status, resp>>
    BY <1>9 DEF WindowElapses, FlushTaskEnds, JoinPanicked, CloseChannel, JoinPending,
                RecvPending, Wake, HealthStep, RecvClosed, Timer, vars
  <2> QED
    BY <1>1, <2>1
<1> QED
  BY <1>2, <1>3, <1>4, <1>5, <1>6, <1>7, <1>8, <1>9 DEF Next, Caller, Multi, FlushTask, MuxTask

\* What is answered accounts for the providers that were asked.
LEMMA AnswerRight ==
  ASSUME IInv, Accounts, Replies, Fanned, NEW r \in Req, status[r] = "answered"
  PROVE  Service!RightAnswer(r, req[r], resp[r])
<1> DEFINE reported == DOMAIN resp[r].results \cup DOMAIN resp[r].failed
           ps == req[r].providers
<1>1. \A i \in DOMAIN legs[r] : legs[r][i].st # "skipped" => legs[r][i].p \in reported
  BY DEF Accounts, Replies, Reported, RelaysEnded, Received
<1>2. legs[r] # <<>>
  BY DEF Accounts, Replies, RelaysEnded, Received
<1>3. /\ DOMAIN legs[r] = DOMAIN ps
      /\ \A i \in DOMAIN legs[r] :
           /\ legs[r][i].p = ps[i]
           /\ legs[r][i].st = "skipped" => ~Single(r) /\ req[r].policy = "any"
  BY <1>2 DEF Fanned, FannedOut
<1>4. reported # {}
  BY <1>1, <1>2 DEF Replies
<1>5. reported \subseteq Service!Asked(req[r])
  BY DEF Fanned, IInv, Requests, RequestOK, OwnResults, Service!Asked
<1>6. req[r].policy = "all" => Service!Asked(req[r]) \subseteq reported
  BY <1>1, <1>3 DEF Service!Asked
<1>7. \A p \in DOMAIN resp[r].results : resp[r].results[p] = [i \in 1 .. req[r].n |-> <<r, i>>]
  BY DEF IInv, Requests, RequestOK, OwnResults, TextsOf
<1> QED
  BY <1>4, <1>5, <1>6, <1>7 DEF Service!RightAnswer

Right == \A r \in Req : status[r] = "answered" => Service!RightAnswer(r, req[r], resp[r])

LEMMA ServiceSteps ==
  ASSUME Right', \A r \in Req : status'[r] # "dropped", \A r \in Req : Moves(r)
  PROVE  Service!ServiceNext
<1>1. ASSUME NEW r \in Req
      PROVE  Service!Rest(r) \/ Service!Accept(r) \/ Service!Answer(r) \/ Service!Abandon(r)
  <2>1. /\ [q \in Req |-> IF status[q] = "answered" THEN resp[q] ELSE EmptyResponse][r]
             = IF status[r] = "answered" THEN resp[r] ELSE EmptyResponse
        /\ [q \in Req |-> IF status'[q] = "answered" THEN resp'[q] ELSE EmptyResponse][r]
             = IF status'[r] = "answered" THEN resp'[r] ELSE EmptyResponse
    OBVIOUS
  <2>2. CASE UNCHANGED <<req[r], status[r]>> /\ (status[r] = "answered" => UNCHANGED resp[r])
    BY <2>1, <2>2 DEF Service!Rest, EmptyResponse, EmptyMap
  <2>3. CASE status[r] = "idle" /\ status'[r] \in {"pending", "refused"} /\ req'[r] \in Shapes
    BY <2>1, <2>3 DEF Service!Accept, EmptyResponse, EmptyMap
  <2>4. CASE UNCHANGED req[r] /\ status[r] = "pending" /\ status'[r] = "answered"
    <3>1. Service!RightAnswer(r, req'[r], resp'[r])
      BY <2>4 DEF Right
    <3> QED
      BY <2>1, <2>4, <3>1 DEF Service!Answer
  <2>5. CASE UNCHANGED req[r] /\ status[r] = "pending" /\ status'[r] = "gone"
    BY <2>1, <2>5 DEF Service!Abandon, EmptyResponse, EmptyMap
  <2> QED
    BY <2>2, <2>3, <2>4, <2>5 DEF Moves
<1> QED
  BY <1>1 DEF Service!ServiceNext

\* With requests within the limits and providers that neither cheat nor panic,
\* channel, slots, flush tasks, relays and collectors together are a service
\* that answers each request once, for all the providers it was asked of, with
\* the embeddings of its own texts.
THEOREM IsService ==
  ASSUME WithinLimits, Behaved PROVE Spec => ImplementsService
<1>1. Init => Fanned /\ Service!ServiceInit
  <2> SUFFICES ASSUME Init PROVE Fanned /\ Service!ServiceInit
    OBVIOUS
  <2>1. \A r \in Req : /\ status[r] = "idle" /\ legs[r] = <<>>
                       /\ resp[r] = EmptyResponse /\ DOMAIN resp[r].failed = {}
    BY DEF Init, EmptyResponse, EmptyMap
  <2>2. Service!ServiceInit
    BY <2>1 DEF Init, Service!ServiceInit, Service!NoAnswer, EmptyResponse, EmptyMap
  <2> QED
    BY <2>1, <2>2 DEF Fanned, FannedOut
<1>2. IInv /\ Places /\ Replies /\ Fanned /\ [Next]_vars => Fanned'
  BY MovesNext
<1>3. IInv /\ Accounts /\ Replies /\ Fanned => Right /\ NeverDropped
  BY AnswerRight DEF Right, Accounts, NeverDropped
<1>4. IInv /\ Places /\ Replies /\ Fanned /\ [Next]_vars /\ Right' /\ NeverDropped'
        => [Service!ServiceNext]_(Service!serviceVars)
  BY MovesNext, ServiceSteps DEF NeverDropped
<1>5. IInv /\ Places /\ Replies /\ [Next]_vars => Replies'
  BY RepliesNext
<1>6. IInv /\ Sizes /\ Places /\ [Next]_vars => Places'
  BY PlacesNext
<1>7. Spec => [](IInv /\ Places /\ Replies /\ Fanned)
  BY <1>1, <1>2, <1>5, <1>6, SizesInductive, PlacesInit, RepliesInit, PTL DEF Spec
<1>8. Spec => [](Right /\ NeverDropped)
  BY <1>3, <1>7, InFull, PTL
<1>9. Spec => [][Service!ServiceNext]_(Service!serviceVars)
  BY <1>4, <1>7, <1>8, PTL DEF Spec
<1> QED
  BY <1>1, <1>9, PTL DEF Spec, ImplementsService, Service!ServiceSpec

\* Within those limits policy "all" means what it says: an answer without a
\* failure has the results of every provider of the list.
THEOREM AllOfThem ==
  ASSUME WithinLimits, Behaved PROVE Spec => []AllMeansAll
<1>1. Right => AllMeansAll
  BY DEF Right, AllMeansAll, Service!RightAnswer, Service!Asked
<1>2. Init => Fanned
  <2>1. Init => \A r \in Req : legs[r] = <<>> /\ DOMAIN resp[r].failed = {}
    BY DEF Init, EmptyResponse, EmptyMap
  <2> QED
    BY <2>1 DEF Fanned, FannedOut
<1>3. IInv /\ Places /\ Replies /\ Fanned /\ [Next]_vars => Fanned'
  BY MovesNext
<1>4. IInv /\ Accounts /\ Replies /\ Fanned => Right
  BY AnswerRight DEF Right
<1>5. IInv /\ Sizes /\ Places /\ [Next]_vars => Places'
  BY PlacesNext
<1> QED
  BY <1>1, <1>2, <1>3, <1>4, <1>5, SizesInductive, PlacesInit, InFull, PTL DEF Spec

-----------------------------------------------------------------------------
(* The circuit breaker the multiplexer uses *)

\* The multiplexer calls the breaker, and time and probes move it, as its
\* interface says: what module Health implements is what module Mux relies on.
THEOREM UsesSinBin == Spec => SinBinSpec
<1>1. Init => SinBinInit
  BY DEF Init
<1>2. IInv /\ [Next]_vars => [SinBinNext]_sinBinVars
  <2> SUFFICES ASSUME IInv, [Next]_vars PROVE [SinBinNext]_sinBinVars
    OBVIOUS
  <2>1. CASE \E t \in tasks : JoinOutcome(t) \/ Crash(t)
    <3>1. PICK t \in tasks : RecordOutcome(t)
      BY <2>1 DEF JoinOutcome, Crash
    <3>2. t.p \in Provider
      BY SendersOK DEF TaskState
    <3> QED
      BY <3>1, <3>2 DEF RecordOutcome, SinBinNext
  <2>2. CASE HealthStep
    BY <2>2 DEF HealthStep, SinBinNext
  <2>3. ASSUME NEW r \in Req, Caller(r) \/ Multi(r) PROVE UNCHANGED health
    BY <2>3 DEF Caller, Multi, Leave, Submit, Collect, Relay
  <2>4. ASSUME NEW r \in Req, NEW i \in DOMAIN legs[r], AddToSlot(r, i) PROVE UNCHANGED health
    BY <2>4 DEF AddToSlot
  <2>5. CASE \/ \E p \in Provider : WindowElapses(p)
             \/ \E t \in tasks : FlushTaskEnds(t) \/ FlushTaskPanics(t) \/ JoinPanicked(t)
             \/ CloseChannel \/ JoinPending \/ Recv \/ RecvClosed \/ RecvPending \/ Timer
             \/ Wake \/ DrainDone \/ UNCHANGED vars
    <3>1. UNCHANGED health
      BY <2>5 DEF WindowElapses, FlushTaskEnds, FlushTaskPanics, JoinPanicked, CloseChannel,
                  JoinPending, Recv, RecvClosed, RecvPending, Timer, Wake, DrainDone, vars, health
    <3> QED
      BY <3>1 DEF health, sinBinVars
  <2> QED
    BY <2>1, <2>2, <2>3, <2>4, <2>5 DEF Next, FlushTask, MuxTask, health, sinBinVars
<1> QED
  BY <1>1, <1>2, Inductive, PTL DEF Spec, SinBinSpec

-----------------------------------------------------------------------------
(* Shutdown *)

LEMMA ShutdownInit == Init => ShutdownIsClean
BY DEF Init, ShutdownIsClean

LEMMA ShutdownNext ==
  ASSUME IInv, Sizes, ShutdownIsClean, [Next]_vars
  PROVE  ShutdownIsClean'
<1>1. ASSUME NEW r \in Req, NEW s \in Shapes, Submit(r, s) PROVE ShutdownIsClean'
  BY <1>1 DEF Submit, ShutdownIsClean
<1>2. ASSUME UNCHANGED <<chan, closed, mux, slot, tasks>> PROVE ShutdownIsClean'
  BY <1>2 DEF ShutdownIsClean
<1>3. ASSUME NEW r \in Req, Leave(r) \/ Multi(r) PROVE ShutdownIsClean'
  <2>1. UNCHANGED <<chan, closed, mux, slot, tasks>>
    BY <1>3 DEF Leave, Multi, Collect, Relay
  <2> QED
    BY <1>2, <2>1
<1>4. CASE CloseChannel
  BY <1>4 DEF CloseChannel, ShutdownIsClean
<1>5. ASSUME NEW p \in Provider, WindowElapses(p) PROVE ShutdownIsClean'
  <2>1. slot' = [slot EXCEPT ![p].expired = TRUE] /\ UNCHANGED <<chan, closed, mux, tasks>>
    BY <1>5 DEF WindowElapses
  <2>2. \A q \in Provider : slot'[q].texts = slot[q].texts
    BY <2>1 DEF IInv, Batches, SlotState
  <2> QED
    BY <2>1, <2>2 DEF ShutdownIsClean
<1>6. ASSUME NEW t \in tasks,
             FlushTaskEnds(t) \/ FlushTaskPanics(t) \/ JoinOutcome(t) \/ JoinPanicked(t)
      PROVE  ShutdownIsClean'
  <2>1. UNCHANGED <<chan, closed, mux, slot>>
    BY <1>6 DEF FlushTaskEnds, FlushTaskPanics, JoinOutcome, JoinPanicked
  <2> QED
    BY <2>1 DEF ShutdownIsClean
<1>7. ASSUME NEW t \in tasks, Crash(t) PROVE ShutdownIsClean'
  <2>1. /\ mux' = "crashed" /\ chan' = <<>> /\ tasks' = {}
        /\ slot' = [p \in Provider |-> NoSlot]
    BY <1>7 DEF Crash
  <2> QED
    BY <2>1 DEF ShutdownIsClean, NoSlot
<1>8. CASE DrainDone
  <2>1. /\ mux = "drain" /\ tasks' = {} /\ UNCHANGED <<chan, closed>>
        /\ slot' = [p \in Provider |-> NoSlot]
    BY <1>8 DEF DrainDone
  <2> QED
    BY <2>1 DEF ShutdownIsClean, NoSlot
<1>9. CASE RecvClosed
  <2>1. /\ chan' = <<>> /\ closed' /\ mux' = "drain"
        /\ \A p \in Provider :
             slot'[p] = IF slot[p].open /\ ~IsEmpty(slot[p]) THEN NoSlot ELSE slot[p]
    BY <1>9 DEF RecvClosed, FlushSlots
  <2>2. \A p \in Provider : ~slot[p].open => slot[p] = NoSlot
    BY DEF Sizes, SlotFits
  <2> QED
    BY <2>1, <2>2 DEF ShutdownIsClean, NoSlot, IsEmpty
<1>10. CASE \/ \E r \in Req : \E i \in DOMAIN legs[r] : AddToSlot(r, i)
            \/ JoinPending \/ Recv \/ RecvPending \/ Timer \/ Wake
  <2>1. ASSUME NEW r \in Req, NEW i \in DOMAIN legs[r], AddToSlot(r, i)
        PROVE  mux' \in {"fan", "join"}
    <3>1. mux' = "fan" \/ mux' = "join"
      BY <2>1 DEF AddToSlot
    <3> QED
      BY <3>1
  <2>2. JoinPending \/ Recv \/ RecvPending \/ Timer \/ Wake =>
          mux' \in {"recv", "fan", "timer", "join"}
    BY DEF JoinPending, Recv, RecvPending, Timer, Wake
  <2>3. mux' \in {"recv", "fan", "timer", "join"}
    BY <1>10, <2>1, <2>2
  <2> QED
    BY <2>3 DEF ShutdownIsClean
<1>11. CASE HealthStep \/ UNCHANGED vars
  <2>1. UNCHANGED <<chan, closed, mux, slot, tasks>>
    BY <1>11 DEF HealthStep, vars
  <2> QED
    BY <1>2, <2>1
<1> QED
  BY <1>1, <1>3, <1>4, <1>5, <1>6, <1>7, <1>8, <1>9, <1>10, <1>11
  DEF Next, Caller, FlushTask, MuxTask

\* A draining multiplexer has nothing left to flush or to receive, however
\* the close raced requests, windows and finished tasks, and takes no flush
\* task with it when it returns.
THEOREM CleanShutdown == Spec => []ShutdownIsClean
BY SizesInductive, ShutdownInit, ShutdownNext, PTL DEF Spec

-----------------------------------------------------------------------------
(* Nobody is forgotten *)

\* Legs are new only while their request is fanned out; who waits is queued or
\* has legs, and the leg of a single-provider request has not been answered.
Course ==
  /\ \A r \in Req : \A i \in DOMAIN legs[r] : legs[r][i].st = "new" =>
       /\ mux = "fan"
       /\ \A q \in Req : \A j \in DOMAIN legs[q] : legs[q][j].st = "new" => q = r
  /\ \A r \in Req : status[r] = "pending" =>
       /\ legs[r] # <<>> \/ \E j \in 1 .. Len(chan) : chan[j] = r
       /\ Single(r) => \A i \in DOMAIN legs[r] : legs[r][i].st \in {"new", "waiting"}

LEMMA CourseInit == Init => Course
BY EmptySeq DEF Init, Course

\* Senders that are used or dropped take their caller with them if it waits
\* for nothing else, and so does a channel that is dropped.
LEMMA SettleCourse ==
  ASSUME IInv, Course, NEW STATE out, NEW STATE lost, Settle(out, lost), UNCHANGED req,
         DOMAIN out \subseteq WaitingIds,
         \A c \in DOMAIN out : out[c].st \notin {"new", "skipped"},
         \/ chan' = chan
         \/ \A j \in 1 .. Len(chan) : chan[j] \in lost,
         mux' = mux \/ mux # "fan"
  PROVE  Course'
<1>1. ASSUME NEW r \in Req
      PROVE  /\ DOMAIN legs'[r] = DOMAIN legs[r]
             /\ legs'[r] = <<>> => legs[r] = <<>>
             /\ \A i \in DOMAIN legs[r] :
                  legs'[r][i].st = IF <<r, i>> \in DOMAIN out THEN out[<<r, i>>].st
                                                              ELSE legs[r][i].st
  BY SettledLegs, EmptySeq DEF IInv, Requests
<1>2. ASSUME NEW r \in Req, NEW i \in DOMAIN legs'[r], legs'[r][i].st = "new"
      PROVE  i \in DOMAIN legs[r] /\ legs[r][i].st = "new"
  BY <1>1, <1>2
<1>3. ASSUME NEW r \in Req, status'[r] = "pending"
      PROVE  /\ status[r] = "pending" /\ r \notin lost
             /\ Single(r) => <<r, 1>> \notin DOMAIN out
  BY <1>3 DEF Settle, IInv, Requests
<1>4. ASSUME NEW r \in Req, status'[r] = "pending"
      PROVE  legs'[r] # <<>> \/ \E j \in 1 .. Len(chan') : chan'[j] = r
  <2>1. legs[r] # <<>> \/ \E j \in 1 .. Len(chan) : chan[j] = r
    BY <1>3, <1>4 DEF Course
  <2>2. CASE chan' = chan
    BY <1>1, <2>1, <2>2
  <2>3. CASE \A j \in 1 .. Len(chan) : chan[j] \in lost
    <3>1. legs[r] # <<>>
      BY <1>3, <1>4, <2>1, <2>3
    <3> QED
      BY <1>1, <3>1
  <2> QED
    BY <2>2, <2>3
<1>5. ASSUME NEW r \in Req, status'[r] = "pending", Single(r)', NEW i \in DOMAIN legs'[r]
      PROVE  legs'[r][i].st \in {"new", "waiting"}
  <2>1. Single(r) /\ i \in DOMAIN legs[r] /\ legs[r] # <<>>
    BY <1>1, <1>5, EmptySeq DEF Single
  <2>2. i = 1
    <3>1. LegsOK(r, req[r], legs[r]) /\ legs[r] \in Seq(LegState)
      BY DEF IInv, Requests, RequestOK
    <3>2. Len(legs[r]) = 1 /\ DOMAIN legs[r] = 1 .. Len(legs[r])
      BY <2>1, <3>1, LenProperties DEF LegsOK, Single
    <3> QED
      BY <2>1, <3>2
  <2>3. <<r, i>> \notin DOMAIN out
    BY <1>3, <1>5, <2>1, <2>2
  <2> QED
    BY <1>1, <1>3, <1>5, <2>1, <2>3 DEF Course
<1> QED
  BY <1>2, <1>4, <1>5 DEF Course

\* The request at the head of the channel is fanned out, and no other.
LEMMA RecvCourse ==
  ASSUME IInv, Places, Replies, Course, Recv
  PROVE  Course'
<1> DEFINE r == Head(chan)
           ps == req[r].providers
<1>1. /\ legs' = [legs EXCEPT ![r] =
            [i \in DOMAIN ps |-> [p |-> ps[i], embs |-> <<>>,
                                  st |-> IF i \in Attempted(r) THEN "new" ELSE "skipped"]]]
      /\ chan # <<>> /\ chan' = Tail(chan) /\ UNCHANGED <<req, status>>
      /\ mux = "recv" /\ mux' = "fan"
  BY DEF Recv
<1>2. /\ chan \in Seq(Req) /\ r \in Req /\ chan' \in Seq(Req) /\ r = chan[1]
      /\ Len(chan) \in Nat \ {0} /\ Len(chan') = Len(chan) - 1
      /\ \A j \in 1 .. Len(chan') : chan'[j] = chan[j + 1]
  BY <1>1, HeadTailProperties, LenProperties, EmptySeq DEF IInv, Channel
<1>3. status[r] # "idle" /\ ps \in Seq(Provider) /\ ps # <<>>
  <2>1. 1 \in 1 .. Len(chan)
    BY <1>2
  <2> QED
    BY <1>2, <2>1 DEF Places, IInv, Channel, Requests, Shape, Replies
<1>4. DOMAIN ps # {}
  BY <1>3, FilterNotEmpty
<1>5. /\ legs'[r] = [i \in DOMAIN ps |->
            [p |-> ps[i], embs |-> <<>>, st |-> IF i \in Attempted(r) THEN "new" ELSE "skipped"]]
      /\ \A q \in Req \ {r} : legs'[q] = legs[q]
  BY <1>1, <1>2 DEF IInv, Requests
<1>6. legs'[r] # <<>> /\ (Single(r) => \A i \in DOMAIN legs'[r] : legs'[r][i].st = "new")
  <2>1. DOMAIN legs'[r] = DOMAIN ps
    BY <1>5
  <2>2. Single(r) => Attempted(r) = DOMAIN ps
    BY DEF Attempted
  <2> QED
    BY <1>4, <1>5, <2>1, <2>2, EmptySeq
<1> HIDE DEF r, ps
<1>7. ASSUME NEW q \in Req, NEW i \in DOMAIN legs'[q], legs'[q][i].st = "new" PROVE q = r
  BY <1>1, <1>5, <1>7 DEF Course
<1>8. ASSUME NEW q \in Req, status'[q] = "pending"
      PROVE  /\ legs'[q] # <<>> \/ \E j \in 1 .. Len(chan') : chan'[j] = q
             /\ Single(q)' => \A i \in DOMAIN legs'[q] : legs'[q][i].st \in {"new", "waiting"}
  <2>1. CASE q = r
    BY <1>1, <1>6, <2>1 DEF Single
  <2>2. CASE q # r
    <3>1. legs'[q] = legs[q] /\ status[q] = "pending" /\ (Single(q)' <=> Single(q))
      BY <1>1, <1>5, <1>8, <2>2 DEF Single
    <3>2. ASSUME NEW j \in 1 .. Len(chan), chan[j] = q
          PROVE  \E k \in 1 .. Len(chan') : chan'[k] = q
      <4>1. j # 1
        BY <1>2, <2>2, <3>2
      <4>2. j - 1 \in 1 .. Len(chan') /\ (j - 1) + 1 = j
        BY <1>2, <4>1
      <4> QED
        BY <1>2, <3>2, <4>2
    <3> QED
      BY <3>1, <3>2 DEF Course
  <2> QED
    BY <2>1, <2>2
<1> QED
  BY <1>1, <1>7, <1>8 DEF Course

LEMMA CourseNext ==
  ASSUME IInv, Places, Replies, Course, [Next]_vars
  PROVE  Course'
<1>1. ASSUME UNCHANGED <<chan, req, legs, status>>, mux' = mux \/ mux # "fan" PROVE Course'
  BY <1>1 DEF Course, Single
<1>2. ASSUME NEW r \in Req, NEW s \in Shapes, Submit(r, s) PROVE Course'
  <2>1. /\ status[r] = "idle" /\ UNCHANGED <<mux, legs>>
        /\ \A q \in Req \ {r} : req'[q] = req[q] /\ status'[q] = status[q]
        /\ \/ chan' = Append(chan, r)
           \/ chan' = chan /\ status'[r] = "refused"
        /\ legs[r] = <<>> /\ DOMAIN legs[r] = {}
    BY <1>2, EmptySeq DEF Submit, IInv, Requests, RequestOK
  <2>2. CASE chan' = chan /\ status'[r] = "refused"
    BY <2>1, <2>2 DEF Course, Single
  <2>3. CASE chan' = Append(chan, r)
    <3>1. /\ Len(chan') = Len(chan) + 1 /\ Len(chan) \in Nat
          /\ \A j \in 1 .. Len(chan) : chan'[j] = chan[j]
          /\ chan'[Len(chan) + 1] = r
      BY <2>3, AppendProperties, LenProperties DEF IInv, Channel
    <3>2. \E j \in 1 .. Len(chan') : chan'[j] = r
      BY <3>1
    <3>3. \A q : (\E j \in 1 .. Len(chan) : chan[j] = q) => \E j \in 1 .. Len(chan') : chan'[j] = q
      BY <3>1
    <3> QED
      BY <2>1, <3>2, <3>3 DEF Course, Single
  <2> QED
    BY <2>1, <2>2, <2>3
<1>3. ASSUME NEW r \in Req, Leave(r) \/ Collect(r) PROVE Course'
  <2>1. /\ UNCHANGED <<chan, mux, req, legs>> /\ status'[r] # "pending"
        /\ \A q \in Req \ {r} : status'[q] = status[q]
    BY <1>3 DEF Leave, Collect, IInv, Requests
  <2> QED
    BY <2>1 DEF Course, Single
<1>4. ASSUME NEW r \in Req, NEW i \in DOMAIN legs[r], Relay(r, i) PROVE Course'
  <2>1. /\ legs' = [legs EXCEPT ![r] = [legs[r] EXCEPT ![i] =
                      [legs[r][i] EXCEPT !.st = "relayed", !.embs = <<>>]]]
        /\ ~Single(r) /\ UNCHANGED <<chan, mux, req, status>>
    BY <1>4 DEF Relay, IInv, Requests
  <2>2. /\ \A q \in Req \ {r} : legs'[q] = legs[q]
        /\ DOMAIN legs'[r] = DOMAIN legs[r] /\ legs'[r] # <<>>
        /\ \A k \in DOMAIN legs[r] \ {i} : legs'[r][k] = legs[r][k]
        /\ legs'[r][i].st = "relayed"
    <3>1. legs[r][i] \in LegState
      BY LegType DEF IInv
    <3> QED
      BY <2>1, <3>1, EmptySeq DEF IInv, Requests, LegState
  <2> QED
    BY <2>1, <2>2 DEF Course, Single
<1>5. ASSUME NEW r \in Req, NEW i \in DOMAIN legs[r], AddToSlot(r, i) PROVE Course'
  <2> DEFINE rest == {j \in DOMAIN legs[r] : j # i /\ legs[r][j].st = "new"}
  <2>1. /\ legs' = [legs EXCEPT ![r] = [legs[r] EXCEPT ![i] =
                      [legs[r][i] EXCEPT !.st = "waiting"]]]
        /\ legs[r][i].st = "new" /\ UNCHANGED <<chan, req, status>>
        /\ mux = "fan" /\ mux' = IF rest = {} THEN "join" ELSE "fan"
    BY <1>5 DEF AddToSlot, IInv, Requests
  <2>2. /\ \A q \in Req \ {r} : legs'[q] = legs[q]
        /\ DOMAIN legs'[r] = DOMAIN legs[r] /\ legs'[r] # <<>>
        /\ \A k \in DOMAIN legs[r] \ {i} : legs'[r][k] = legs[r][k]
        /\ legs'[r][i].st = "waiting"
    <3>1. legs[r][i] \in LegState
      BY LegType DEF IInv
    <3> QED
      BY <2>1, <3>1, EmptySeq DEF IInv, Requests, LegState
  <2>3. ASSUME NEW q \in Req, NEW k \in DOMAIN legs'[q], legs'[q][k].st = "new"
        PROVE  q = r /\ k \in rest
    <3>1. q = r
      BY <2>1, <2>2, <2>3 DEF Course
    <3> QED
      BY <2>2, <2>3, <3>1
  <2> QED
    BY <2>1, <2>2, <2>3 DEF Course, Single
<1>6. ASSUME NEW t \in tasks, FlushTaskPanics(t) PROVE Course'
  <2> DEFINE out == [c \in t.senders |-> Dropped]
  <2>1. /\ Settle(out, {}) /\ UNCHANGED <<chan, mux, req>> /\ DOMAIN out \subseteq WaitingIds
        /\ \A c \in DOMAIN out : out[c].st \notin {"new", "skipped"}
    BY <1>6 DEF FlushTaskPanics, Places, SendersHeldOnce, Dropped
  <2> HIDE DEF out
  <2> QED
    BY <2>1, SettleCourse
<1>7. ASSUME NEW t \in tasks, JoinOutcome(t) PROVE Course'
  <2> DEFINE out == [c \in t.senders |-> OutcomeFor(t, c)]
  <2>1. /\ Settle(out, {}) /\ UNCHANGED <<chan, mux, req>> /\ DOMAIN out \subseteq WaitingIds
    BY <1>7 DEF JoinOutcome, Places, SendersHeldOnce
  <2>2. \A c \in DOMAIN out : out[c].st \notin {"new", "skipped"}
    <3>1. t \in TaskState /\ BatchOK(t, req, status, legs) /\ t.st \in {"ok", "rate_limited", "other"}
      BY <1>7, SendersOK DEF JoinOutcome, Finished, TaskState
    <3> QED
      BY <3>1, OutcomeOK DEF IInv, OutOK
  <2> HIDE DEF out
  <2> QED
    BY <2>1, <2>2, SettleCourse
<1>8. ASSUME NEW t \in tasks, Crash(t) PROVE Course'
  <2> DEFINE out == [c \in WaitingIds |-> IF c \in t.senders THEN OutcomeFor(t, c) ELSE Dropped]
             lost == {chan[j] : j \in DOMAIN chan}
  <2>1. /\ Settle(out, lost) /\ UNCHANGED req /\ DOMAIN out = WaitingIds /\ mux # "fan"
    BY <1>8 DEF Crash
  <2>2. \A c \in DOMAIN out : out[c].st \notin {"new", "skipped"}
    <3>1. t \in TaskState /\ BatchOK(t, req, status, legs) /\ t.st = "ok"
      BY <1>8, SendersOK DEF Crash, SlicePanics
    <3> QED
      BY <3>1, OutcomeOK DEF IInv, OutOK, Dropped
  <2>3. \A j \in 1 .. Len(chan) : chan[j] \in lost
    BY LenProperties DEF IInv, Channel
  <2> HIDE DEF out, lost
  <2> QED
    BY <2>1, <2>2, <2>3, SettleCourse
<1>9. ASSUME DrainDone PROVE Course'
  <2> DEFINE out == [c \in WaitingIds |-> Dropped]
  <2>1. /\ Settle(out, {}) /\ UNCHANGED <<chan, req>> /\ DOMAIN out = WaitingIds /\ mux # "fan"
        /\ \A c \in DOMAIN out : out[c].st \notin {"new", "skipped"}
    BY <1>9 DEF DrainDone, Dropped
  <2> HIDE DEF out
  <2> QED
    BY <2>1, SettleCourse
<1>10. CASE \/ \E p \in Provider : WindowElapses(p)
            \/ \E t \in tasks : FlushTaskEnds(t) \/ JoinPanicked(t)
            \/ CloseChannel \/ JoinPending \/ RecvPending \/ Wake \/ HealthStep \/ RecvClosed
            \/ Timer \/ UNCHANGED vars
  <2>1. UNCHANGED <<chan, req, legs, status>> /\ (mux' = mux \/ mux # "fan")
    BY <1>10 DEF WindowElapses, FlushTaskEnds, JoinPanicked, CloseChannel, JoinPending,
                 RecvPending, Wake, HealthStep, RecvClosed, Timer, vars
  <2> QED
    BY <1>1, <2>1
<1> QED
  BY <1>2, <1>3, <1>4, <1>5, <1>6, <1>7, <1>8, <1>9, <1>10, RecvCourse
  DEF Next, Caller, Multi, FlushTask, MuxTask

\* Every request has a text.
NotEmpty == \A s \in Shapes : s.n # 0

\* A slot that holds a sender holds its texts, so it is open and not empty: the
\* threshold, the timer and the shutdown all see it.
LEMMA SlotOfSender ==
  ASSUME NotEmpty, IInv, Sizes, Together, NEW p \in Provider, NEW c \in slot[p].senders
  PROVE  slot[p].open /\ ~IsEmpty(slot[p])
<1>1. /\ slot[p] \in SlotState /\ BatchOK(slot[p], req, status, legs)
      /\ slot[p].senders = Callers(slot[p].ranges)
      /\ ~slot[p].open => slot[p] = NoSlot
  BY DEF IInv, Batches, Sizes, SlotFits, Together, NoOrphanSender
<1>2. PICK j \in DOMAIN slot[p].ranges : slot[p].ranges[j].caller = c
  BY <1>1 DEF Callers
<1> DEFINE g == slot[p].ranges[j]
           r == g.caller[1]
<1>3. slot[p].ranges \in Seq(CallerRange) /\ slot[p].texts \in Seq(Text)
  BY <1>1, BatchFields
<1>4. g.start \in Nat /\ g.end \in Nat /\ r \in Req
  BY <1>3, RangeType
<1>5. g.end = g.start + req[r].n /\ g.end <= Len(slot[p].texts) /\ status[r] # "idle"
  BY <1>1 DEF BatchOK, Tiled, Addressed
<1>6. req[r].n \in Nat \ {0}
  <2>1. req[r] \in Shapes /\ req[r] \in Shape
    BY <1>4, <1>5 DEF Together, IInv, Requests
  <2> QED
    BY <2>1 DEF NotEmpty, Shape
<1> HIDE DEF g, r
<1>7. Len(slot[p].texts) # 0
  BY <1>3, <1>4, <1>5, <1>6, LenProperties
<1>8. ~IsEmpty(slot[p])
  BY <1>7, EmptySeq DEF IsEmpty
<1> QED
  BY <1>1, <1>8 DEF NoSlot, IsEmpty

LEMMA SomethingIsUnderway ==
  ASSUME NotEmpty, IInv, Sizes, Places, Together, Course, ShutdownIsClean
  PROVE  NobodyForgotten
<1> SUFFICES ASSUME NEW r \in Req, status[r] = "pending"
             PROVE  \/ Receives /\ \E j \in DOMAIN chan : chan[j] = r
                    \/ ~Single(r) /\ RelaysEnded(r)
                    \/ \E i \in DOMAIN legs[r] : Underway(r, i)
  BY DEF NobodyForgotten
<1>1. CASE legs[r] = <<>>
  <2>1. PICK j \in 1 .. Len(chan) : chan[j] = r
    BY <1>1 DEF Course
  <2>2. j \in DOMAIN chan /\ chan # <<>>
    <3>1. DOMAIN chan = 1 .. Len(chan)
      BY LenProperties DEF IInv, Channel
    <3> QED
      BY <3>1, EmptySeq
  <2> QED
    BY <2>1, <2>2 DEF Receives, ShutdownIsClean
<1>2. ASSUME NEW i \in DOMAIN legs[r], legs[r][i].st = "new" PROVE Underway(r, i)
  BY <1>2 DEF Course, Underway
<1>3. ASSUME NEW i \in DOMAIN legs[r], legs[r][i].st = "waiting" PROVE Underway(r, i)
  <2>1. <<r, i>> \in WaitingIds
    BY <1>3, IsWaiting
  <2>2. ASSUME NEW p \in Provider, <<r, i>> \in slot[p].senders PROVE Underway(r, i)
    <3>1. slot[p].open /\ ~IsEmpty(slot[p])
      BY <2>2, SlotOfSender
    <3>2. Receives
      BY <3>1 DEF Receives, ShutdownIsClean, IsEmpty
    <3> QED
      BY <2>2, <3>1, <3>2 DEF Underway, Holds
  <2>3. ASSUME NEW t \in tasks, <<r, i>> \in t.senders PROVE Underway(r, i)
    BY <2>3 DEF Underway, Carries, ShutdownIsClean
  <2> QED
    BY <2>1, <2>2, <2>3 DEF Places, SendersHeldOnce, Holds, Carries
<1>4. ASSUME NEW i \in DOMAIN legs[r], ~Single(r), Settled(legs[r][i]) PROVE Underway(r, i)
  BY <1>4 DEF Underway
<1>5. CASE legs[r] # <<>> /\ Single(r)
  <2>1. 1 \in DOMAIN legs[r]
    <3>1. legs[r] \in Seq(LegState)
      BY DEF IInv, Requests
    <3> QED
      BY <1>5, <3>1, EmptySeq, LenProperties
  <2>2. legs[r][1].st \in {"new", "waiting"}
    BY <1>5, <2>1 DEF Course
  <2> QED
    BY <1>2, <1>3, <2>1, <2>2
<1>6. CASE legs[r] # <<>> /\ ~Single(r)
  <2>1. CASE \A i \in DOMAIN legs[r] : legs[r][i].st \in {"relayed", "skipped"}
    BY <1>6, <2>1 DEF RelaysEnded, Received
  <2>2. ASSUME NEW i \in DOMAIN legs[r], legs[r][i].st \notin {"relayed", "skipped"}
        PROVE  Underway(r, i)
    <3>1. legs[r][i].st \in {"new", "waiting", "ok", "rate_limited", "other", "dropped"}
      <4>1. legs[r][i] \in LegState
        BY LegType DEF IInv
      <4> QED
        BY <2>2, <4>1 DEF LegState
    <3> QED
      BY <1>2, <1>3, <1>4, <1>6, <3>1 DEF Settled
  <2> QED
    BY <2>1, <2>2
<1> QED
  BY <1>1, <1>5, <1>6

\* If no request is empty or larger than the providers it names take, nobody
\* waits for something that nobody will do: the safety part of "every request
\* settles", for any interleaving of panics, crashes, windows and shutdowns.
THEOREM NobodyIsForgotten ==
  ASSUME WithinLimits, NotEmpty PROVE Spec => []NobodyForgotten
<1>1. IInv /\ Sizes /\ Together /\ [Next]_vars => Together'
  BY TogetherNext
<1>2. IInv /\ Places /\ Replies /\ [Next]_vars => Replies'
  BY RepliesNext
<1>3. IInv /\ Places /\ Replies /\ Course /\ [Next]_vars => Course'
  BY CourseNext
<1>4. IInv /\ Sizes /\ Places /\ Together /\ Course /\ ShutdownIsClean => NobodyForgotten
  BY SomethingIsUnderway
<1> QED
  BY <1>1, <1>2, <1>3, <1>4, SizesInductive, PlacesInit, PlacesNext, RepliesInit, TogetherInit,
     CourseInit, CleanShutdown, PTL DEF Spec

-----------------------------------------------------------------------------
(* Legs only move on *)

Onward ==
  /\ \A r \in Req : \A i \in DOMAIN legs[r] : Stage(r, i)' <= Stage(r, i)
  /\ \A t \in tasks' \ tasks : ~Finished(t) =>
       \A c \in t.senders : Stage(c[1], c[2]) >= 4

\* The sender of a waiting leg is no further back than it was.
StaysOrMoves(c) ==
  /\ CallEnded(c) => CallEnded(c)'
  /\ Sent(c) => Sent(c)'
  /\ Due(c) => Due(c)' \/ Sent(c)'

\* What may happen to a leg in one step.
LEMMA StageDown ==
  ASSUME NEW r, NEW i,
         \/ /\ legs'[r][i].st = legs[r][i].st
            /\ legs[r][i].st = "waiting" => StaysOrMoves(<<r, i>>)
         \/ legs[r][i].st \in {"new", "waiting"} /\ Settled(legs[r][i])'
         \/ legs[r][i].st = "new" /\ legs'[r][i].st = "waiting"
         \/ Settled(legs[r][i]) /\ legs'[r][i].st = "relayed"
  PROVE  Stage(r, i)' <= Stage(r, i)
<1>1. CASE legs'[r][i].st = legs[r][i].st /\ legs[r][i].st # "waiting"
  BY <1>1 DEF Stage, Settled
<1>2. CASE /\ legs'[r][i].st = legs[r][i].st /\ legs[r][i].st = "waiting"
           /\ StaysOrMoves(<<r, i>>)
  <2>1. CallEnded(<<r, i>>)' => Sent(<<r, i>>)'
    BY DEF CallEnded, Sent
  <2> QED
    BY <1>2, <2>1 DEF Stage, Settled, StaysOrMoves
<1>3. CASE legs[r][i].st \in {"new", "waiting"} /\ Settled(legs[r][i])'
  BY <1>3 DEF Stage, Settled
<1>4. CASE legs[r][i].st = "new" /\ legs'[r][i].st = "waiting"
  BY <1>4 DEF Stage, Settled
<1>5. CASE Settled(legs[r][i]) /\ legs'[r][i].st = "relayed"
  BY <1>5 DEF Stage, Settled
<1> QED
  BY <1>1, <1>2, <1>3, <1>4, <1>5

\* A leg whose sender is in a slot has not been sent.
LEMMA NotSent ==
  ASSUME SendersHeldOnce, NEW p \in Provider, NEW c \in slot[p].senders
  PROVE  Stage(c[1], c[2]) >= 4 /\ c \in WaitingIds
<1>1. c \in WaitingIds /\ \A t \in tasks : c \notin t.senders
  BY DEF SendersHeldOnce
<1>2. PICK r \in Req : \E i \in DOMAIN legs[r] : c = <<r, i>> /\ legs[r][i].st = "waiting"
  BY <1>1 DEF WaitingIds, Waiting
<1>3. PICK i \in DOMAIN legs[r] : c = <<r, i>> /\ legs[r][i].st = "waiting"
  BY <1>2
<1>4. ~CallEnded(<<r, i>>) /\ ~Sent(<<r, i>>)
  BY <1>1, <1>3 DEF CallEnded, Sent, Carries
<1>5. Stage(r, i) >= 4
  BY <1>3, <1>4 DEF Stage, Settled
<1> QED
  BY <1>1, <1>3, <1>5

\* Senders are used or dropped; the others stay where they were.
LEMMA SettleOnward ==
  ASSUME IInv, NEW STATE out, NEW STATE lost, Settle(out, lost),
         DOMAIN out \subseteq WaitingIds,
         \A c \in DOMAIN out : out[c].st \in {"ok", "rate_limited", "other", "dropped"},
         \A c \in WaitingIds \ DOMAIN out : StaysOrMoves(c),
         \A t \in tasks' \ tasks : t.senders = {}
  PROVE  Onward
<1>1. ASSUME NEW r \in Req, NEW i \in DOMAIN legs[r] PROVE Stage(r, i)' <= Stage(r, i)
  <2>1. legs'[r][i].st = IF <<r, i>> \in DOMAIN out THEN out[<<r, i>>].st ELSE legs[r][i].st
    BY SettledLegs DEF IInv
  <2>2. CASE <<r, i>> \in DOMAIN out
    <3>1. legs[r][i].st = "waiting" /\ Settled(legs[r][i])'
      BY <2>1, <2>2, IsWaiting DEF Settled
    <3> QED
      BY <3>1, StageDown
  <2>3. CASE <<r, i>> \notin DOMAIN out
    <3>1. legs[r][i].st = "waiting" => <<r, i>> \in WaitingIds
      BY IsWaiting
    <3> QED
      BY <2>1, <2>3, <3>1, StageDown
  <2> QED
    BY <2>2, <2>3
<1> QED
  BY <1>1 DEF Onward

\* flush_slot sends what was not sent yet.
LEMMA FlushOnward ==
  ASSUME IInv, Places, NEW ps, ps \subseteq Provider, FlushSlots(ps), UNCHANGED legs
  PROVE  Onward
<1> DEFINE flushed == {p \in ps : slot[p].open /\ ~IsEmpty(slot[p])}
<1>1. /\ tasks' = tasks \cup {TaskOf(p, slot[p]) : p \in flushed}
      /\ slot' = [p \in Provider |-> IF p \in flushed THEN NoSlot ELSE slot[p]]
      /\ flushed \subseteq Provider
  BY DEF FlushSlots
<1> HIDE DEF flushed
<1>2. \A p \in Provider : TaskOf(p, slot[p]).senders = slot[p].senders
  BY DEF TaskOf
<1>3. ASSUME NEW c PROVE StaysOrMoves(c)
  <2>1. (CallEnded(c) => CallEnded(c)') /\ (Sent(c) => Sent(c)')
    BY <1>1 DEF CallEnded, Sent
  <2>2. ASSUME NEW p \in Provider, Holds(p, c), slot[p].expired PROVE Due(c)' \/ Sent(c)'
    <3>1. CASE p \in flushed
      <4>1. TaskOf(p, slot[p]) \in tasks' /\ c \in TaskOf(p, slot[p]).senders
        BY <1>1, <1>2, <2>2, <3>1 DEF Holds
      <4> QED
        BY <4>1 DEF Sent, Carries
    <3>2. CASE p \notin flushed
      BY <1>1, <2>2, <3>2 DEF Due, Holds
    <3> QED
      BY <3>1, <3>2
  <2> QED
    BY <2>1, <2>2 DEF StaysOrMoves, Due
<1>4. ASSUME NEW t \in tasks' \ tasks, NEW c \in t.senders PROVE Stage(c[1], c[2]) >= 4
  <2>1. PICK p \in Provider : t = TaskOf(p, slot[p])
    BY <1>1
  <2> QED
    BY <1>2, <2>1, NotSent DEF Places
<1> QED
  BY <1>3, <1>4, StageDown DEF Onward

\* add_to_slot keeps what it does not send where it was, and sends nothing twice.
LEMMA AddToSlotOnward ==
  ASSUME IInv, Sizes, Places, NEW r \in Req, NEW i \in DOMAIN legs[r], AddToSlot(r, i)
  PROVE  Onward
<1> DEFINE p    == legs[r][i].p
           x    == <<r, i>>
           old  == slot[p]
           full == MustFlushFirst(p, old, req[r].n)
           base == IF old.open /\ ~full THEN old ELSE NewSlot(p)
           new  == AddCaller(p, base, x, Texts(r))
           flush == ShouldFlush(new) /\ ~IsEmpty(new)
<1>1. /\ tasks' = tasks \cup (IF full THEN {TaskOf(p, old)} ELSE {})
                        \cup (IF flush THEN {TaskOf(p, new)} ELSE {})
      /\ slot' = [slot EXCEPT ![p] = IF flush THEN NoSlot ELSE new]
      /\ legs' = [legs EXCEPT ![r] = [legs[r] EXCEPT ![i] = [legs[r][i] EXCEPT !.st = "waiting"]]]
      /\ legs[r][i].st = "new"
  BY DEF AddToSlot, IInv, Requests
<1>2. /\ p \in Provider /\ old \in SlotState /\ slot \in [Provider -> SlotState]
      /\ legs[r][i] \in LegState /\ NewSlot(p) \in SlotState
      /\ ~old.open => old = NoSlot
  BY LegType, NewSlotOK DEF IInv, Batches, Sizes, SlotFits
<1>3. /\ TaskOf(p, old).senders = old.senders /\ TaskOf(p, new).senders = new.senders
      /\ NewSlot(p).senders = {} /\ NoSlot.senders = {}
  BY DEF TaskOf, NewSlot, NoSlot
<1>4. base \in SlotState /\ base.senders \in {old.senders, {}}
      /\ (base = old \/ full \/ old.senders = {})
  BY <1>2, <1>3
<1> HIDE DEF base
<1>5. new.senders = base.senders \cup {x} /\ new.expired = base.expired
  <2> DEFINE t == [base EXCEPT !.senders = @ \cup {x}]
  <2>1. t.senders = base.senders \cup {x} /\ t.expired = base.expired
    BY <1>4 DEF SlotState
  <2>2. new = t \/ new = Extend(t, x, Texts(r))
    BY DEF AddCaller
  <2>3. Extend(t, x, Texts(r)).senders = t.senders /\ Extend(t, x, Texts(r)).expired = t.expired
    BY <1>4 DEF Extend, SlotState
  <2> QED
    BY <2>1, <2>2, <2>3
<1> HIDE DEF new, old, full, flush
<1>6. ASSUME NEW c PROVE StaysOrMoves(c)
  <2>1. (CallEnded(c) => CallEnded(c)') /\ (Sent(c) => Sent(c)')
    BY <1>1 DEF CallEnded, Sent
  <2>2. ASSUME NEW q \in Provider, Holds(q, c), slot[q].expired PROVE Due(c)' \/ Sent(c)'
    <3>1. CASE q # p
      <4>1. slot'[q] = slot[q]
        BY <1>1, <1>2, <3>1
      <4> QED
        BY <2>2, <4>1 DEF Due, Holds
    <3>2. CASE q = p /\ full
      <4>1. TaskOf(p, old) \in tasks' /\ c \in TaskOf(p, old).senders
        BY <1>1, <1>3, <2>2, <3>2 DEF Holds, old
      <4> QED
        BY <4>1 DEF Sent, Carries
    <3>3. CASE q = p /\ ~full /\ flush
      <4>1. c \in new.senders
        BY <1>4, <1>5, <2>2, <3>3 DEF Holds, old
      <4>2. TaskOf(p, new) \in tasks' /\ c \in TaskOf(p, new).senders
        BY <1>1, <1>3, <3>3, <4>1
      <4> QED
        BY <4>2 DEF Sent, Carries
    <3>4. CASE q = p /\ ~full /\ ~flush
      <4>1. slot'[p] = new /\ base = old
        BY <1>1, <1>2, <1>4, <2>2, <3>4 DEF Holds, old
      <4>2. c \in slot'[p].senders /\ slot'[p].expired
        BY <1>5, <2>2, <3>4, <4>1 DEF Holds, old
      <4> QED
        BY <1>2, <4>2 DEF Due, Holds
    <3> QED
      BY <3>1, <3>2, <3>3, <3>4
  <2> QED
    BY <2>1, <2>2 DEF StaysOrMoves, Due
<1>7. ASSUME NEW q \in Req, NEW k \in DOMAIN legs[q] PROVE Stage(q, k)' <= Stage(q, k)
  <2>1. CASE q = r /\ k = i
    <3>1. legs'[r][i].st = "waiting"
      BY <1>1, <1>2 DEF IInv, Requests, LegState
    <3> QED
      BY <1>1, <2>1, <3>1, StageDown
  <2>2. CASE ~(q = r /\ k = i)
    <3>1. legs'[q][k] = legs[q][k]
      BY <1>1, <2>2 DEF IInv, Requests
    <3> QED
      BY <1>6, <3>1, StageDown
  <2> QED
    BY <2>1, <2>2
<1>8. ASSUME NEW c \in old.senders PROVE Stage(c[1], c[2]) >= 4
  BY <1>2, <1>8, NotSent DEF Places, old
<1>9. Stage(r, i) >= 4 /\ x[1] = r /\ x[2] = i
  BY <1>1 DEF Stage, Settled
<1>10. ASSUME NEW t \in tasks' \ tasks, NEW c \in t.senders PROVE Stage(c[1], c[2]) >= 4
  <2>1. c \in old.senders \/ c = x
    BY <1>1, <1>3, <1>4, <1>5
  <2> QED
    BY <1>8, <1>9, <2>1
<1> QED
  BY <1>7, <1>10 DEF Onward

LEMMA OnwardNext ==
  ASSUME IInv, Sizes, Places, [Next]_vars
  PROVE  Onward
<1>1. ASSUME UNCHANGED <<legs, slot, tasks>> PROVE Onward
  <2>1. \A c : StaysOrMoves(c)
    BY <1>1 DEF StaysOrMoves, CallEnded, Sent, Due, Holds, Carries
  <2> QED
    BY <1>1, <2>1, StageDown DEF Onward
<1>2. ASSUME NEW p \in Provider, WindowElapses(p) PROVE Onward
  <2>1. slot' = [slot EXCEPT ![p].expired = TRUE] /\ UNCHANGED <<tasks, legs>>
    BY <1>2 DEF WindowElapses
  <2>2. \A q \in Provider : /\ slot'[q].senders = slot[q].senders
                            /\ slot[q].expired => slot'[q].expired
    BY <2>1 DEF IInv, Batches, SlotState
  <2>3. \A c : StaysOrMoves(c)
    BY <2>1, <2>2 DEF StaysOrMoves, CallEnded, Sent, Due, Holds, Carries
  <2> QED
    BY <2>1, <2>3, StageDown DEF Onward
<1>3. ASSUME NEW t \in tasks, FlushTaskEnds(t) PROVE Onward
  <2>1. PICK u \in TaskEnds(t) : tasks' = (tasks \ {t}) \cup {u} /\ UNCHANGED <<slot, legs>>
    BY <1>3 DEF FlushTaskEnds
  <2>2. u.senders = t.senders /\ u.st # "running" /\ ~Finished(t)
    <3>1. t \in TaskState
      BY SendersOK
    <3> QED
      BY <1>3, <2>1, <3>1 DEF TaskEnds, TaskState, FlushTaskEnds
  <2>3. \A c : StaysOrMoves(c)
    BY <2>1, <2>2 DEF StaysOrMoves, CallEnded, Sent, Due, Holds, Carries
  <2>4. \A v \in tasks' \ tasks : Finished(v)
    BY <2>1, <2>2 DEF Finished
  <2> QED
    BY <2>1, <2>3, <2>4, StageDown DEF Onward
<1>4. ASSUME NEW t \in tasks, FlushTaskPanics(t) PROVE Onward
  <2> DEFINE out == [c \in t.senders |-> Dropped]
             u == [t EXCEPT !.st = "panic", !.senders = {}]
  <2>1. /\ Settle(out, {}) /\ DOMAIN out = t.senders /\ t.senders \subseteq WaitingIds
        /\ \A c \in DOMAIN out : out[c].st \in {"ok", "rate_limited", "other", "dropped"}
        /\ tasks' = (tasks \ {t}) \cup {u} /\ UNCHANGED slot
    BY <1>4 DEF FlushTaskPanics, Places, SendersHeldOnce, Dropped
  <2>2. u.senders = {}
    BY SendersOK DEF TaskState
  <2> HIDE DEF out, u
  <2>3. \A c \in WaitingIds \ DOMAIN out : StaysOrMoves(c)
    BY <2>1 DEF StaysOrMoves, CallEnded, Sent, Due, Holds, Carries
  <2>4. \A v \in tasks' \ tasks : v.senders = {}
    BY <2>1, <2>2
  <2> QED
    BY <2>1, <2>3, <2>4, SettleOnward
<1>5. ASSUME NEW t \in tasks, JoinOutcome(t) PROVE Onward
  <2> DEFINE out == [c \in t.senders |-> OutcomeFor(t, c)]
  <2>1. /\ Settle(out, {}) /\ DOMAIN out = t.senders /\ t.senders \subseteq WaitingIds
        /\ tasks' = tasks \ {t} /\ UNCHANGED slot
    BY <1>5 DEF JoinOutcome, Places, SendersHeldOnce
  <2>2. \A c \in DOMAIN out : out[c].st \in {"ok", "rate_limited", "other", "dropped"}
    <3>1. t \in TaskState /\ BatchOK(t, req, status, legs) /\ t.st \in {"ok", "rate_limited", "other"}
      BY <1>5, SendersOK DEF JoinOutcome, Finished, TaskState
    <3> QED
      BY <3>1, OutcomeOK DEF IInv, OutOK
  <2> HIDE DEF out
  <2>3. \A c \in WaitingIds \ DOMAIN out : StaysOrMoves(c)
    BY <2>1 DEF StaysOrMoves, CallEnded, Sent, Due, Holds, Carries
  <2> QED
    BY <2>1, <2>2, <2>3, SettleOnward
<1>6. ASSUME NEW t \in tasks, JoinPanicked(t) PROVE Onward
  <2>1. t.senders = {} /\ UNCHANGED <<legs, slot>> /\ tasks' = tasks \ {t}
    BY <1>6 DEF JoinPanicked, Places
  <2>2. \A c : StaysOrMoves(c)
    BY <2>1 DEF StaysOrMoves, CallEnded, Sent, Due, Holds, Carries
  <2> QED
    BY <2>1, <2>2, StageDown DEF Onward
<1>7. ASSUME (\E t \in tasks : Crash(t)) \/ DrainDone PROVE Onward
  <2>1. \E out, lost :
          /\ Settle(out, lost) /\ DOMAIN out = WaitingIds
          /\ \A c \in DOMAIN out : out[c].st \in {"ok", "rate_limited", "other", "dropped"}
    <3>1. CASE DrainDone
      <4> DEFINE out == [c \in WaitingIds |-> Dropped]
      <4>1. /\ Settle(out, {}) /\ DOMAIN out = WaitingIds
            /\ \A c \in DOMAIN out : out[c].st \in {"ok", "rate_limited", "other", "dropped"}
        BY <3>1 DEF DrainDone, Dropped
      <4> QED
        BY <4>1
    <3>2. ASSUME NEW t \in tasks, Crash(t)
          PROVE \E out, lost :
                  /\ Settle(out, lost) /\ DOMAIN out = WaitingIds
                  /\ \A c \in DOMAIN out : out[c].st \in {"ok", "rate_limited", "other", "dropped"}
      <4> DEFINE out == [c \in WaitingIds |-> IF c \in t.senders THEN OutcomeFor(t, c) ELSE Dropped]
      <4>1. Settle(out, {chan[j] : j \in DOMAIN chan}) /\ DOMAIN out = WaitingIds
        BY <3>2 DEF Crash
      <4>2. \A c : OutcomeFor(t, c).st \in {"ok", "rate_limited", "other", "dropped"}
                   /\ Dropped.st = "dropped"
        <5>1. t \in TaskState /\ BatchOK(t, req, status, legs) /\ t.st = "ok"
          BY <3>2, SendersOK DEF Crash, SlicePanics
        <5> QED
          BY <5>1, OutcomeOK DEF IInv, OutOK, Dropped
      <4> QED
        BY <4>1, <4>2
    <3> QED
      BY <1>7, <3>1, <3>2
  <2>2. tasks' = {}
    BY <1>7 DEF Crash, DrainDone
  <2>3. PICK out, lost :
          /\ Settle(out, lost) /\ DOMAIN out = WaitingIds
          /\ \A c \in DOMAIN out : out[c].st \in {"ok", "rate_limited", "other", "dropped"}
    BY <2>1
  <2> QED
    BY <2>2, <2>3, SettleOnward
<1>8. ASSUME Recv PROVE Onward
  <2> DEFINE r == Head(chan)
  <2>1. r \in Req /\ legs[r] = <<>>
    <3>1. chan # <<>> /\ chan \in Seq(Req)
      BY <1>8 DEF Recv, IInv, Channel
    <3>2. r = chan[1] /\ r \in Req /\ 1 \in 1 .. Len(chan)
      BY <3>1, HeadTailProperties, LenProperties, EmptySeq
    <3> QED
      BY <3>2 DEF Places
  <2>2. UNCHANGED <<slot, tasks>> /\ \A q \in Req \ {r} : legs'[q] = legs[q]
    BY <1>8 DEF Recv, IInv, Requests
  <2> HIDE DEF r
  <2>3. \A c : StaysOrMoves(c)
    BY <2>2 DEF StaysOrMoves, CallEnded, Sent, Due, Holds, Carries
  <2>4. ASSUME NEW q \in Req, NEW k \in DOMAIN legs[q] PROVE Stage(q, k)' <= Stage(q, k)
    <3>1. q # r
      BY <2>1, EmptySeq
    <3> QED
      BY <2>2, <2>3, <3>1, StageDown
  <2> QED
    BY <2>2, <2>4 DEF Onward
<1>9. ASSUME NEW r \in Req, NEW i \in DOMAIN legs[r], Relay(r, i) PROVE Onward
  <2>1. /\ legs' = [legs EXCEPT ![r] = [legs[r] EXCEPT ![i] =
                      [legs[r][i] EXCEPT !.st = "relayed", !.embs = <<>>]]]
        /\ Settled(legs[r][i]) /\ UNCHANGED <<slot, tasks>>
    BY <1>9 DEF Relay, IInv, Requests
  <2>2. legs'[r][i].st = "relayed"
    <3>1. legs[r][i] \in LegState
      BY LegType DEF IInv
    <3> QED
      BY <2>1, <3>1 DEF IInv, Requests, LegState
  <2>3. \A c : StaysOrMoves(c)
    BY <2>1 DEF StaysOrMoves, CallEnded, Sent, Due, Holds, Carries
  <2>4. ASSUME NEW q \in Req, NEW k \in DOMAIN legs[q] PROVE Stage(q, k)' <= Stage(q, k)
    <3>1. CASE q = r /\ k = i
      BY <2>1, <2>2, <3>1, StageDown
    <3>2. CASE ~(q = r /\ k = i)
      <4>1. legs'[q][k] = legs[q][k]
        BY <2>1, <3>2 DEF IInv, Requests
      <4> QED
        BY <2>3, <4>1, StageDown
    <3> QED
      BY <3>1, <3>2
  <2> QED
    BY <2>1, <2>4 DEF Onward
<1>10. CASE RecvClosed \/ Timer
  <2>1. PICK ps \in SUBSET Provider : FlushSlots(ps)
    BY <1>10 DEF RecvClosed, Timer, Expired
  <2>2. UNCHANGED legs
    BY <1>10 DEF RecvClosed, Timer
  <2> QED
    BY <2>1, <2>2, FlushOnward
<1>11. CASE \/ \E r \in Req : Caller(r) \/ Collect(r)
            \/ CloseChannel \/ JoinPending \/ RecvPending \/ Wake \/ HealthStep
            \/ UNCHANGED vars
  <2>1. UNCHANGED <<legs, slot, tasks>>
    BY <1>11 DEF Caller, Submit, Leave, Collect, CloseChannel, JoinPending, RecvPending, Wake,
                 HealthStep, vars
  <2> QED
    BY <1>1, <2>1
<1> QED
  BY <1>2, <1>3, <1>4, <1>5, <1>6, <1>7, <1>8, <1>9, <1>10, <1>11, AddToSlotOnward
  DEF Next, Multi, FlushTask, MuxTask

\* Each leg goes from its slot to one flush task, to the outcome, to its relay,
\* and never back: its texts are in at most one provider call, whatever is
\* flushed early, panics, crashes or is shut down around it.
THEOREM NothingIsSentTwice == Spec => NeverBack
<1>1. IInv /\ Sizes /\ Places /\ [Next]_vars => [Onward]_vars
  BY OnwardNext
<1>2. Spec => [][Onward]_vars
  BY <1>1, SizesInductive, PlacesInit, PlacesNext, PTL DEF Spec
<1> QED
  BY <1>2, PTL DEF NeverBack, Onward

-----------------------------------------------------------------------------
(* Draining *)

\* What is left of the work gets less whenever the tasks of a draining
\* multiplexer change.
RunsDown == mux = "drain" => tasks' = tasks \/ WorkLeft' < WorkLeft

\* A task that ends, or is joined, leaves less to wait for.
LEMMA TaskLess ==
  ASSUME NEW ts, IsFiniteSet(ts), NEW t \in ts, NEW us,
         \/ ~Finished(t) /\ \E u : Finished(u) /\ us = (ts \ {t}) \cup {u}
         \/ us = ts \ {t}
  PROVE  Cardinality(us) + Cardinality({v \in us : ~Finished(v)})
           < Cardinality(ts) + Cardinality({v \in ts : ~Finished(v)})
<1> DEFINE busy == {v \in ts : ~Finished(v)}
           rest == ts \ {t}
<1>1. /\ IsFiniteSet(rest) /\ Cardinality(rest) = Cardinality(ts) - 1
      /\ Cardinality(ts) \in Nat /\ Cardinality(rest) \in Nat
  BY FS_RemoveElement, FS_CardinalityType
<1>2. IsFiniteSet(busy) /\ Cardinality(busy) \in Nat
  BY FS_Subset, FS_CardinalityType
<1>3. CASE us = rest
  <2>1. {v \in us : ~Finished(v)} \subseteq busy
    BY <1>3
  <2>2. Cardinality({v \in us : ~Finished(v)}) <= Cardinality(busy)
        /\ Cardinality({v \in us : ~Finished(v)}) \in Nat
    BY <1>2, <2>1, FS_Subset, FS_CardinalityType
  <2> HIDE DEF busy, rest
  <2> QED
    BY <1>1, <1>2, <1>3, <2>2 DEF busy
<1>4. ASSUME ~Finished(t), NEW u, Finished(u), us = rest \cup {u}
      PROVE  Cardinality(us) + Cardinality({v \in us : ~Finished(v)})
               < Cardinality(ts) + Cardinality(busy)
  <2>1. {v \in us : ~Finished(v)} = busy \ {t} /\ t \in busy
    BY <1>4
  <2>2. Cardinality({v \in us : ~Finished(v)}) = Cardinality(busy) - 1
    BY <1>2, <2>1, FS_RemoveElement
  <2>3. Cardinality(us) \in {Cardinality(rest), Cardinality(rest) + 1}
    BY <1>1, <1>4, FS_AddElement
  <2> HIDE DEF busy, rest
  <2> QED
    BY <1>1, <1>2, <2>2, <2>3
<1> QED
  BY <1>3, <1>4

\* Provider calls that end, well or by a panic, and joins: nothing else changes
\* the flush tasks of a draining multiplexer, and each leaves it less to wait for.
THEOREM DrainEnds == Spec => DrainRunsDown
<1>1. IInv /\ [Next]_vars => [RunsDown]_vars
  <2> SUFFICES ASSUME IInv, Next, mux = "drain"
               PROVE  tasks' = tasks \/ WorkLeft' < WorkLeft
    BY DEF RunsDown
  <2>1. IsFiniteSet(tasks)
    BY DEF IInv, Batches
  <2>2. ASSUME NEW t \in tasks, FlushTaskEnds(t) \/ FlushTaskPanics(t) PROVE WorkLeft' < WorkLeft
    <3>1. PICK u : /\ tasks' = (tasks \ {t}) \cup {u} /\ ~Finished(t)
                   /\ \/ u \in TaskEnds(t)
                      \/ u = [t EXCEPT !.st = "panic", !.senders = {}]
      BY <2>2 DEF FlushTaskEnds, FlushTaskPanics
    <3>2. Finished(u)
      BY <3>1, SendersOK DEF TaskEnds, TaskState, Finished
    <3> QED
      BY <2>1, <3>1, <3>2, TaskLess DEF WorkLeft
  <2>3. ASSUME NEW t \in tasks, JoinOutcome(t) \/ JoinPanicked(t) PROVE WorkLeft' < WorkLeft
    <3>1. tasks' = tasks \ {t}
      BY <2>3 DEF JoinOutcome, JoinPanicked
    <3> QED
      BY <2>1, <3>1, TaskLess DEF WorkLeft
  <2>4. ASSUME NEW t \in tasks, Crash(t) PROVE WorkLeft' < WorkLeft
    <3>1. tasks' = {}
      BY <2>4 DEF Crash
    <3>2. WorkLeft' = 0
      <4>1. {v \in {} : ~Finished(v)} = {}
        OBVIOUS
      <4> QED
        BY <3>1, <4>1, FS_EmptySet DEF WorkLeft
    <3>3. Cardinality(tasks) \in Nat \ {0}
      BY <2>1, FS_EmptySet, FS_CardinalityType
    <3>4. Cardinality({v \in tasks : ~Finished(v)}) \in Nat
      BY <2>1, FS_Subset, FS_CardinalityType
    <3> QED
      BY <3>2, <3>3, <3>4 DEF WorkLeft
  <2>5. ASSUME NEW r \in Req, Caller(r) \/ Multi(r) PROVE UNCHANGED tasks
    BY <2>5 DEF Caller, Multi, Leave, Submit, Collect, Relay
  <2>6. ASSUME NEW r \in Req, NEW i \in DOMAIN legs[r], AddToSlot(r, i) PROVE FALSE
    BY <2>6 DEF AddToSlot
  <2>7. CASE \/ \E p \in Provider : WindowElapses(p)
             \/ CloseChannel \/ JoinPending \/ Recv \/ RecvClosed \/ RecvPending \/ Timer
             \/ Wake \/ HealthStep \/ DrainDone
    BY <2>7 DEF WindowElapses, CloseChannel, JoinPending, Recv, RecvClosed, RecvPending, Timer,
                Wake, HealthStep, DrainDone
  <2> QED
    BY <2>2, <2>3, <2>4, <2>5, <2>6, <2>7 DEF Next, FlushTask, MuxTask
<1>2. Spec => [][RunsDown]_vars
  BY <1>1, Inductive, PTL DEF Spec
<1> QED
  BY <1>2, PTL DEF DrainRunsDown, RunsDown

=============================================================================
