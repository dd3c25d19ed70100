--------------------------- MODULE ProvidersProofs ---------------------------
(***************************************************************************)
(* Theorems about module Providers, for any number of names, variables,    *)
(* types and requests, whatever the limits and the sizes of calibration.   *)
(***************************************************************************)
EXTENDS Providers, TLAPS, WellFoundedInduction

\* A set of sizes has a smallest one.
LEMMA SmallestIsIn ==
  ASSUME NEW sizes \in SUBSET Nat, sizes # {}
  PROVE  Smallest(sizes) \in sizes /\ \A s \in sizes : Smallest(sizes) <= s
<1> DEFINE R == OpToRel(<, Nat)
<1>1. IsWellFoundedOn(R, Nat)
  BY NatLessThanWellFounded
<1>2. \A m, n \in Nat : m < n => <<m, n>> \in R
  BY DEF OpToRel
<1> HIDE DEF R
<1>3. \E x \in sizes : \A y \in sizes : ~ (<<y, x>> \in R)
  BY <1>1, WFMin
<1>4. PICK x \in sizes : \A y \in sizes : ~ (<<y, x>> \in R)
  BY <1>3
<1>5. ASSUME NEW y \in sizes PROVE x <= y
  <2>1. x \in Nat /\ y \in Nat /\ ~ (y < x)
    BY <1>2, <1>4
  <2>2. QED
    BY <2>1
<1>6. QED
  BY <1>4, <1>5 DEF Smallest

-----------------------------------------------------------------------------
(* The inductive invariant *)

\* Nothing runs without a server, and its registry is built from rows that load.
OnlyWhileUp ==
  ~up => /\ registry = Nobody /\ bench = NoBench
         /\ task = [t \in Task |-> NoTask]

\* What a request brings.
TasksFit ==
  \A t \in Task :
    /\ task[t].st \in {"waiting", "queued"} /\ task[t].op # "page" => task[t].name \in Name
    /\ task[t].st = "waiting" /\ task[t].op = "add" => task[t].row # NoRow
    /\ task[t].st = "queued" => task[t].op = "embed"

\* Calibration knows the limit of the row it saw, and sends a size below it.
BenchKnows ==
  bench.st = "sampling" =>
    /\ bench.name \in Name /\ bench.size \in SizesFor(bench.max)
    /\ bench.fresh => /\ registry[bench.name] \in Row
                      /\ bench.max = Limit[registry[bench.name].kind]

ProvidersInv ==
  ProvidersTypeOK /\ OnlyWhileUp /\ TasksFit /\ BenchKnows /\ AcceptedIsServed /\ WhatServesIsShown

LEMMA ProvidersInit == Init => ProvidersInv
<1> SUFFICES ASSUME Init PROVE ProvidersInv
  OBVIOUS
<1>1. /\ NoTask \in [st : {"idle"}, op : Op, name : Name \cup {NoName},
                      row : [kind : Kind \cup {Other}, var : Var] \cup {NoRow}, seen : SUBSET Name]
      /\ NoBench \in [st : {"idle"}, name : Name \cup {NoName}, max : Nat, size : Nat,
                       fresh : BOOLEAN]
  BY DEF NoTask, NoBench, Op
<1>2. ProvidersTypeOK
  BY <1>1 DEF Init, ProvidersTypeOK, Nobody
<1>3. OnlyWhileUp /\ TasksFit /\ BenchKnows /\ AcceptedIsServed /\ WhatServesIsShown
  BY <1>1 DEF Init, OnlyWhileUp, TasksFit, BenchKnows, AcceptedIsServed, WhatServesIsShown
<1>4. QED
  BY <1>2, <1>3 DEF ProvidersInv

\* A request goes on or ends, and what was started from the table stays as it is.
LEMMA TaskKept ==
  ASSUME ProvidersInv, NEW t \in Task, up, UNCHANGED <<env, registry, up, bench>>,
         rows' \in [Name -> Row \cup {NoRow}],
         NEW r, task' = [task EXCEPT ![t] = r],
         r \in [st : {"idle", "waiting", "probing", "queued", "shown"}, op : Op,
                name : Name \cup {NoName},
                row : [kind : Kind \cup {Other}, var : Var] \cup {NoRow}, seen : SUBSET Name],
         r.st \in {"waiting", "queued"} /\ r.op # "page" => r.name \in Name,
         r.st = "waiting" /\ r.op = "add" => r.row # NoRow,
         r.st = "queued" => r.op = "embed" /\ registry[r.name] # NoRow,
         r.st = "shown" => Registered \subseteq r.seen
  PROVE  ProvidersInv'
<1> USE DEF ProvidersInv
<1>1. \A u \in Task : task'[u] = IF u = t THEN r ELSE task[u]
  BY DEF ProvidersTypeOK
<1>2. ProvidersTypeOK'
  BY <1>1 DEF ProvidersTypeOK
<1>3. OnlyWhileUp' /\ BenchKnows'
  BY DEF OnlyWhileUp, BenchKnows, SizesFor
<1>4. TasksFit' /\ AcceptedIsServed'
  BY <1>1 DEF TasksFit, AcceptedIsServed
<1>5. WhatServesIsShown'
  BY <1>1 DEF WhatServesIsShown, Registered
<1>6. QED
  BY <1>2, <1>3, <1>4, <1>5

\* A request in progress is a request to a running server.
LEMMA BusyMeansUp ==
  ASSUME ProvidersInv, NEW t \in Task, task[t].st # "idle"
  PROVE  up
BY DEF ProvidersInv, OnlyWhileUp, NoTask

LEMMA NoTaskFits ==
  /\ NoTask \in [st : {"idle"}, op : Op, name : Name \cup {NoName},
                  row : [kind : Kind \cup {Other}, var : Var] \cup {NoRow}, seen : SUBSET Name]
  /\ NoTask.st = "idle"
BY DEF NoTask, Op

\* One step per kind of request.
LEMMA TaskKeeps ==
  ASSUME ProvidersInv, NEW t \in Task,
         \/ \E op \in Op, n \in Name \cup {NoName},
               row \in [kind : Kind \cup {Other}, var : Var] \cup {NoRow} : Ask(t, op, n, row)
         \/ Handle(t) \/ TestEnds(t) \/ Over(t)
  PROVE  ProvidersInv'
<1>a. /\ task[t] \in [st : {"idle", "waiting", "probing", "queued", "shown"}, op : Op,
                      name : Name \cup {NoName},
                      row : [kind : Kind \cup {Other}, var : Var] \cup {NoRow}, seen : SUBSET Name]
      /\ task = [u \in Task |-> task[u]]
      /\ rows \in [Name -> Row \cup {NoRow}]
  BY DEF ProvidersInv, ProvidersTypeOK
<1>b. /\ task[t].st \in {"waiting", "queued"} /\ task[t].op # "page" => task[t].name \in Name
      /\ task[t].st = "waiting" /\ task[t].op = "add" => task[t].row # NoRow
  BY DEF ProvidersInv, TasksFit
<1>1. ASSUME NEW op \in Op, NEW n \in Name \cup {NoName},
             NEW row \in [kind : Kind \cup {Other}, var : Var] \cup {NoRow}, Ask(t, op, n, row)
      PROVE  ProvidersInv'
  <2> DEFINE r == [NoTask EXCEPT !.st = "waiting", !.op = op, !.name = n, !.row = row]
  <2>1. task' = [task EXCEPT ![t] = r] /\ up /\ UNCHANGED <<rows, env, registry, up, bench>>
    BY <1>1 DEF Ask
  <2>2. /\ r \in [st : {"waiting"}, op : Op, name : Name \cup {NoName},
                   row : [kind : Kind \cup {Other}, var : Var] \cup {NoRow}, seen : SUBSET Name]
        /\ r.op = op /\ r.name = n /\ r.row = row
    BY DEF NoTask
  <2>3. (op # "page" => n \in Name) /\ (op = "add" => row # NoRow)
    BY <1>1 DEF Ask
  <2> HIDE DEF r
  <2>4. QED
    BY <1>a, <2>1, <2>2, <2>3, TaskKept
<1>2. CASE Add(t)
  <2>1. task[t].name \in Name /\ (Takes(task[t].name, task[t].row) => task[t].row \in Row) /\ up
    BY <1>2, <1>a, <1>b, BusyMeansUp DEF Add, Has, Takes, KnownKind, Row
  <2>2. rows' \in [Name -> Row \cup {NoRow}]
    BY <1>2, <1>a, <2>1 DEF Add
  <2>3. QED
    BY <1>2, <2>1, <2>2, NoTaskFits, TaskKept DEF Add, Replied
<1>3. CASE Remove(t)
  BY <1>3, <1>a, NoTaskFits, BusyMeansUp, TaskKept DEF Remove, Replied, Has
<1>4. CASE TestReads(t)
  <2> DEFINE row == rows[task[t].name]
             r == [task[t] EXCEPT !.st = "probing", !.row = row]
  <2>1. CASE row # NoRow /\ row.var \in env /\ KnownKind(row)
    <3>1. task' = [task EXCEPT ![t] = r]
      BY <1>4, <1>a, <2>1 DEF TestReads
    <3>2. row \in [kind : Kind \cup {Other}, var : Var] \cup {NoRow}
      BY <1>4, <1>a, <1>b DEF TestReads, Has, Row
    <3>3. r.st = "probing" /\ r \in [st : {"probing"}, op : Op, name : Name \cup {NoName},
                row : [kind : Kind \cup {Other}, var : Var] \cup {NoRow}, seen : SUBSET Name]
      BY <1>a, <3>2
    <3> HIDE DEF r, row
    <3>4. QED
      BY <1>4, <1>a, <3>1, <3>3, BusyMeansUp, TaskKept DEF TestReads, Has
  <2>2. CASE ~(row # NoRow /\ row.var \in env /\ KnownKind(row))
    BY <1>4, <1>a, <2>2, NoTaskFits, BusyMeansUp, TaskKept DEF TestReads, Replied, Has
  <2>3. QED
    BY <2>1, <2>2
<1>5. CASE Page(t)
  <2> DEFINE r == [task[t] EXCEPT !.st = "shown", !.seen = PageNames]
  <2>1. task' = [task EXCEPT ![t] = r]
    BY <1>5, <1>a DEF Page
  <2>2. r.st = "shown" /\ r.seen = Rows \cup Registered
        /\ r \in [st : {"shown"}, op : Op, name : Name \cup {NoName},
                row : [kind : Kind \cup {Other}, var : Var] \cup {NoRow}, seen : SUBSET Name]
    BY <1>a DEF PageNames, Rows, Registered
  <2> HIDE DEF r
  <2>3. QED
    BY <1>5, <1>a, <2>1, <2>2, BusyMeansUp, TaskKept DEF Page, Has
<1>6. CASE Embed(t)
  <2> DEFINE r == [task[t] EXCEPT !.st = "queued"]
  <2>1. CASE Exists(task[t].name)
    <3>1. task' = [task EXCEPT ![t] = r]
      BY <1>6, <1>a, <2>1 DEF Embed
    <3>2. r.st = "queued" /\ r.op = "embed" /\ r.name = task[t].name /\ r.name \in Name
          /\ r \in [st : {"queued"}, op : Op, name : Name \cup {NoName},
                row : [kind : Kind \cup {Other}, var : Var] \cup {NoRow}, seen : SUBSET Name]
      BY <1>6, <1>a, <1>b DEF Embed, Has
    <3> HIDE DEF r
    <3>3. QED
      BY <1>6, <1>a, <2>1, <3>1, <3>2, BusyMeansUp, TaskKept DEF Embed, Has, Exists
  <2>2. CASE ~Exists(task[t].name)
    BY <1>6, <1>a, <2>2, NoTaskFits, BusyMeansUp, TaskKept DEF Embed, Replied, Has
  <2>3. QED
    BY <2>1, <2>2
<1>7. CASE TestEnds(t) \/ Over(t)
  BY <1>7, <1>a, NoTaskFits, BusyMeansUp, TaskKept DEF TestEnds, Over, Replied
<1>8. QED
  BY <1>1, <1>2, <1>3, <1>4, <1>5, <1>6, <1>7 DEF Handle

\* Calibration, which relies on 1 being one of the sizes.
LEMMA BenchKeeps ==
  ASSUME ProvidersInv, (\E n \in Name : BenchLists(n)) \/ BenchSamples
  PROVE  ProvidersInv'
<1>1. ASSUME BenchKnows', bench' \in [st : {"idle", "sampling"}, name : Name \cup {NoName},
                                      max : Nat, size : Nat, fresh : BOOLEAN],
             UNCHANGED <<rows, env, registry, up, task>>, up \/ bench' = bench
      PROVE  ProvidersInv'
  BY <1>1 DEF ProvidersInv, ProvidersTypeOK, OnlyWhileUp, TasksFit, AcceptedIsServed,
              WhatServesIsShown, Registered
<1>2. ASSUME NEW n \in Name, BenchLists(n)
      PROVE  ProvidersInv'
  <2> DEFINE max == Shown(rows[n])
  <2>1. rows[n] \in Row /\ rows[n].kind \in Kind
    BY <1>2 DEF BenchLists, ProvidersInv, ProvidersTypeOK, Row
  <2>2. max = Limit[rows[n].kind] /\ max \in Nat \ {0}
    BY <2>1, ProviderAssumption DEF Shown, KnownKind
  <2>a. 1 \in Sizes /\ 1 <= max /\ Sizes \subseteq Nat
    BY <2>2, ProviderAssumption
  <2>3. SizesFor(max) \in SUBSET Nat /\ SizesFor(max) # {}
    BY <2>a DEF SizesFor
  <2>4. Smallest(SizesFor(max)) \in SizesFor(max)
    BY <2>3, SmallestIsIn
  <2>5. bench' = [st |-> "sampling", name |-> n, max |-> max,
                  size |-> Smallest(SizesFor(max)), fresh |-> rows[n] = registry[n]]
        /\ up /\ UNCHANGED <<rows, env, registry, up, task>>
    BY <1>2 DEF BenchLists
  <2>6. BenchKnows'
    BY <2>1, <2>2, <2>4, <2>5 DEF BenchKnows, SizesFor
  <2>7. QED
    BY <1>1, <2>2, <2>3, <2>4, <2>5, <2>6
<1>3. CASE BenchSamples
  <2> DEFINE larger == {s \in SizesFor(bench.max) : s > bench.size}
  <2>0. up /\ bench.st = "sampling" /\ UNCHANGED <<rows, env, registry, up, task>>
        /\ bench \in [st : {"idle", "sampling"}, name : Name \cup {NoName},
                       max : Nat, size : Nat, fresh : BOOLEAN]
    BY <1>3 DEF BenchSamples, ProvidersInv, OnlyWhileUp, NoBench, ProvidersTypeOK
  <2>1. CASE larger # {} /\ bench' = [bench EXCEPT !.size = Smallest(larger)]
    <3>1. larger \in SUBSET Nat
      BY ProviderAssumption DEF SizesFor
    <3>2. Smallest(larger) \in larger
      BY <2>1, <3>1, SmallestIsIn
    <3>3. Smallest(larger) \in SizesFor(bench.max) /\ Smallest(larger) \in Nat
      BY <3>1, <3>2
    <3>4. /\ bench'.st = "sampling" /\ bench'.name = bench.name /\ bench'.max = bench.max
          /\ bench'.fresh = bench.fresh /\ bench'.size = Smallest(larger)
      BY <2>0, <2>1
    <3>5. BenchKnows'
      BY <2>0, <3>3, <3>4 DEF BenchKnows, SizesFor, ProvidersInv
    <3>6. bench' \in [st : {"idle", "sampling"}, name : Name \cup {NoName},
                      max : Nat, size : Nat, fresh : BOOLEAN]
      BY <2>0, <2>1, <3>3
    <3>7. QED
      BY <1>1, <2>0, <3>5, <3>6
  <2>2. CASE bench' = NoBench
    BY <1>1, <2>0, <2>2 DEF NoBench, BenchKnows
  <2>3. QED
    BY <1>3, <2>1, <2>2 DEF BenchSamples
<1>4. QED
  BY <1>2, <1>3

LEMMA ProvidersNext == ProvidersInv /\ [Next]_providerVars => ProvidersInv'
<1> SUFFICES ASSUME ProvidersInv, [Next]_providerVars PROVE ProvidersInv'
  OBVIOUS
<1>1. ASSUME NEW e \in SUBSET Var, Start(e)
      PROVE  ProvidersInv'
  <2>1. CASE \A n \in Needed(e) : Loads(e, n)
    <3>1. /\ UNCHANGED <<rows, task, bench>> /\ up' = TRUE /\ env' = e
          /\ registry' = [n \in Name |-> IF n \in Needed(e) THEN rows[n] ELSE NoRow]
          /\ task = [t \in Task |-> NoTask] /\ bench = NoBench
      BY <1>1, <2>1 DEF Start, ProvidersInv, OnlyWhileUp
    <3>2. ProvidersTypeOK'
      BY <3>1 DEF ProvidersInv, ProvidersTypeOK
    <3>3. OnlyWhileUp' /\ TasksFit' /\ BenchKnows' /\ AcceptedIsServed' /\ WhatServesIsShown'
      BY <3>1, NoTaskFits
         DEF OnlyWhileUp, TasksFit, BenchKnows, AcceptedIsServed, WhatServesIsShown, NoBench
    <3>4. QED
      BY <3>2, <3>3 DEF ProvidersInv
  <2>2. CASE ~ \A n \in Needed(e) : Loads(e, n)
    BY <1>1, <2>2
       DEF Start, ProvidersInv, ProvidersTypeOK, OnlyWhileUp, TasksFit, BenchKnows,
           AcceptedIsServed, WhatServesIsShown, Registered, SizesFor
  <2>3. QED
    BY <2>1, <2>2
<1>2. CASE Stop
  BY <1>2, NoTaskFits
     DEF Stop, ProvidersInv, ProvidersTypeOK, OnlyWhileUp, TasksFit, BenchKnows,
         AcceptedIsServed, WhatServesIsShown, Nobody, NoBench, NoTask
<1>3. CASE UNCHANGED providerVars
  BY <1>3 DEF providerVars, ProvidersInv, ProvidersTypeOK, OnlyWhileUp, TasksFit, BenchKnows,
              AcceptedIsServed, WhatServesIsShown, Registered, SizesFor
<1>4. QED
  BY <1>1, <1>2, <1>3, TaskKeeps, BenchKeeps DEF Next

LEMMA ProvidersInvariant == Spec => []ProvidersInv
BY ProvidersInit, ProvidersNext, PTL DEF Spec

-----------------------------------------------------------------------------

\* The table holds no type the router does not know.
THEOREM ProvidersTypes == Spec => []ProvidersTypeOK
<1>1. ProvidersInv => ProvidersTypeOK
  BY DEF ProvidersInv
<1>2. QED
  BY <1>1, ProvidersInvariant, PTL

\* However the table changes, an accepted request finds its adapter.
THEOREM Accepted == Spec => []AcceptedIsServed
<1>1. ProvidersInv => AcceptedIsServed
  BY DEF ProvidersInv
<1>2. QED
  BY <1>1, ProvidersInvariant, PTL

\* No provider that takes requests is missing from the health page.
THEOREM PageIsWhole == Spec => []WhatServesIsShown
<1>1. ProvidersInv => WhatServesIsShown
  BY DEF ProvidersInv
<1>2. QED
  BY <1>1, ProvidersInvariant, PTL

\* Calibration of the provider that runs stays within its limit.
THEOREM Calibrated == Spec => []BenchFits
<1>1. ProvidersInv => BenchFits
  BY DEF ProvidersInv, BenchKnows, BenchFits, SizesFor
<1>2. QED
  BY <1>1, ProvidersInvariant, PTL

-----------------------------------------------------------------------------
(* Table and registry implement the directory *)

\* One step per action that changes the table or the registry.
LEMMA DirectorySteps ==
  ASSUME ProvidersInv, [Next]_providerVars
  PROVE  Whole!DirectoryNext \/ UNCHANGED Whole!directoryVars
<1>a. rows \in [Name -> Row \cup {NoRow}]
  BY DEF ProvidersInv, ProvidersTypeOK
<1>1. ASSUME NEW t \in Task, Add(t)
      PROVE  Whole!DirectoryNext \/ UNCHANGED Whole!directoryVars
  <2> DEFINE n == task[t].name
             row == task[t].row
  <2>1. CASE Takes(n, row)
    <3>1. n \in Name /\ row \in Row
      BY <1>1, <2>1 DEF Add, Has, Takes, KnownKind, Row, ProvidersInv, TasksFit, ProvidersTypeOK
    <3>2. Whole!Enter(n, row)
      BY <1>1, <2>1 DEF Add, Takes, Whole!Enter
    <3>3. QED
      BY <3>1, <3>2 DEF Whole!DirectoryNext
  <2>2. CASE ~Takes(n, row)
    BY <1>1, <2>2 DEF Add, Whole!directoryVars
  <2>3. QED
    BY <2>1, <2>2
<1>2. ASSUME NEW t \in Task, Remove(t)
      PROVE  Whole!DirectoryNext \/ UNCHANGED Whole!directoryVars
  <2>1. task[t].name \in Name
    BY <1>2 DEF Remove, Has, ProvidersInv, TasksFit
  <2>2. CASE rows[task[t].name] = NoRow
    <3>1. rows' = rows
      BY <1>2, <1>a, <2>1, <2>2 DEF Remove
    <3>2. QED
      BY <1>2, <3>1 DEF Remove, Whole!directoryVars
  <2>3. CASE rows[task[t].name] # NoRow
    <3>1. Whole!Strike(task[t].name)
      BY <1>2, <2>3 DEF Remove, Whole!Strike
    <3>2. QED
      BY <2>1, <3>1 DEF Whole!DirectoryNext
  <2>4. QED
    BY <2>2, <2>3
<1>3. ASSUME NEW e \in SUBSET Var, Start(e)
      PROVE  Whole!DirectoryNext \/ UNCHANGED Whole!directoryVars
  <2>1. CASE \A n \in Needed(e) : Loads(e, n)
    <3>1. registry' = rows
      BY <1>3, <1>a, <2>1 DEF Start, Needed, Rows
    <3>2. Whole!TurnOn
      BY <1>3, <2>1, <3>1 DEF Start, Whole!TurnOn
    <3>3. QED
      BY <3>2 DEF Whole!DirectoryNext
  <2>2. CASE ~ \A n \in Needed(e) : Loads(e, n)
    BY <1>3, <2>2 DEF Start, Whole!directoryVars
  <2>3. QED
    BY <2>1, <2>2
<1>4. CASE Stop
  <2>1. Whole!TurnOff
    BY <1>4 DEF Stop, Whole!TurnOff, Whole!Nothing, Nobody
  <2>2. QED
    BY <2>1 DEF Whole!DirectoryNext
<1>5. ASSUME NEW t \in Task,
             \/ \E op \in Op, n \in Name \cup {NoName},
                   row \in [kind : Kind \cup {Other}, var : Var] \cup {NoRow} : Ask(t, op, n, row)
             \/ TestReads(t) \/ Page(t) \/ Embed(t) \/ TestEnds(t) \/ Over(t)
      PROVE  UNCHANGED Whole!directoryVars
  BY <1>5 DEF Ask, TestReads, Page, Embed, TestEnds, Over, Whole!directoryVars
<1>6. CASE (\E n \in Name : BenchLists(n)) \/ BenchSamples \/ UNCHANGED providerVars
  BY <1>6 DEF BenchLists, BenchSamples, providerVars, Whole!directoryVars
<1>7. QED
  BY <1>1, <1>2, <1>3, <1>4, <1>5, <1>6 DEF Next, Handle

\* A running server has every provider that was in the table when it started, as
\* it was, and no other.
THEOREM RegistryIsWhole == Spec => ImplementsDirectory
<1>1. Init => Whole!DirectoryInit
  BY DEF Init, Whole!DirectoryInit, Whole!Nothing, Nobody
<1>2. ProvidersInv /\ [Next]_providerVars => [Whole!DirectoryNext]_(Whole!directoryVars)
  BY DirectorySteps
<1>3. QED
  BY <1>1, <1>2, ProvidersInvariant, PTL DEF Spec, ImplementsDirectory, Whole!DirectorySpec

-----------------------------------------------------------------------------
(* Starting again *)

\* The table loads as soon as each variable it names is set.
OnlyVariables ==
  \A e \in SUBSET Var :
    Start(e) /\ (\A n \in Rows : rows[n].var \in e) => up' /\ registry' = rows

\* The types in the table are all known, so a start can fail for want of a
\* variable and for nothing else: no row keeps the server down for good.
THEOREM StartNeedsOnlyVariables == Spec => StartNeedsVariables
<1>1. ProvidersInv /\ [Next]_providerVars => [OnlyVariables]_providerVars
  <2> SUFFICES ASSUME ProvidersInv, NEW e \in SUBSET Var, Start(e),
                      \A n \in Rows : rows[n].var \in e
               PROVE  up' /\ registry' = rows
    BY DEF OnlyVariables
  <2>1. rows \in [Name -> Row \cup {NoRow}]
    BY DEF ProvidersInv, ProvidersTypeOK
  <2>2. \A n \in Needed(e) : Loads(e, n)
    BY <2>1 DEF Needed, Rows, Loads, KnownKind, Row
  <2>3. /\ up' = TRUE
        /\ registry' = [n \in Name |-> IF n \in Rows THEN rows[n] ELSE NoRow]
    BY <2>2 DEF Start, Needed
  <2>4. \A n \in Name : n \notin Rows => rows[n] = NoRow
    BY DEF Rows
  <2>5. registry' = rows
    BY <2>1, <2>3, <2>4
  <2> QED
    BY <2>3, <2>5
<1>2. Spec => [][OnlyVariables]_providerVars
  BY <1>1, ProvidersInvariant, PTL DEF Spec
<1> QED
  BY <1>2, PTL DEF StartNeedsVariables, OnlyVariables

=============================================================================
