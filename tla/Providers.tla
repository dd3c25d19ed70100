------------------------------ MODULE Providers ------------------------------
(***************************************************************************)
(* The provider table and what becomes of it: the admin handlers that      *)
(* change it behind the database mutex, the registry built from it when    *)
(* the server starts and never changed again, and the requests that use    *)
(* one or the other.  The command line client sends one request per        *)
(* command; calibration (emr providers probe) sends many.                  *)
(*                                                                         *)
(* A row is a provider type and the name of an environment variable;       *)
(* endpoint and model are passed through.  A handler is one step per stay  *)
(* in the mutex: the statements in between cannot be told apart.  Replies  *)
(* that are no more than a status are left out.                            *)
(***************************************************************************)
EXTENDS Naturals, FiniteSets

CONSTANTS Name,     \* provider names
          Kind,     \* the provider types the router knows
          Other,    \* a type it does not know
          Var,      \* environment variables
          Limit,    \* max_texts_per_request of each type
          Fallback, \* the limit shown for a type the router does not know
          Sizes,    \* BATCH_CANDIDATES
          Task,     \* HTTP requests at a time
          NoName, NoRow

ASSUME ProviderAssumption ==
  /\ Other \notin Kind
  /\ NoName \notin Name
  /\ Limit \in [Kind -> Nat \ {0}] /\ Fallback \in Nat \ {0}
  /\ Sizes \subseteq Nat /\ 1 \in Sizes

Row == [kind : Kind, var : Var]

ASSUME NoRowAssumption == NoRow \notin [kind : Kind \cup {Other}, var : Var]

VARIABLES rows,      \* the providers table
          env,       \* the variables set in the server's environment
          registry,  \* ProviderRegistry: the row each adapter was built from
          up,        \* whether the server runs
          task,
          bench      \* emr providers probe

providerVars == <<rows, env, registry, up, task, bench>>

Nobody == [n \in Name |-> NoRow]

Op == {"add", "remove", "test", "page", "embed"}

NoTask == [st |-> "idle", op |-> "page", name |-> NoName, row |-> NoRow, seen |-> {}]

NoBench == [st |-> "idle", name |-> NoName, max |-> 0, size |-> 0, fresh |-> FALSE]

Init ==
  /\ rows = Nobody /\ registry = Nobody
  /\ env = {} /\ up = FALSE
  /\ task = [t \in Task |-> NoTask]
  /\ bench = NoBench

Rows == {n \in Name : rows[n] # NoRow}

Registered == {n \in Name : registry[n] # NoRow}

-----------------------------------------------------------------------------
(* Requests *)

\* Every request but this one to be had: admin requests name a provider, and
\* bring a row to add; the type is text, and may be none the router knows.
Ask(t, op, n, row) ==
  /\ up /\ task[t] = NoTask
  /\ op = "page" <=> n = NoName
  /\ op = "add" <=> row # NoRow
  /\ task' = [task EXCEPT ![t] = [NoTask EXCEPT !.st = "waiting", !.op = op,
                                                !.name = n, !.row = row]]
  /\ UNCHANGED <<rows, env, registry, up, bench>>

\* state.db.lock().await returned: no handler keeps the mutex while it awaits
\* something else, test_provider least of all, whose guard goes out of scope with
\* the block that reads the row.
Has(t, op) == task[t].st = "waiting" /\ task[t].op = op

Replied(t) == task' = [task EXCEPT ![t] = NoTask]

\* ProviderType::from_str
KnownKind(row) == row.kind \in Kind

\* Mutant: the type is not looked at.
TakesAnyKind(n, row) == rows[n] = NoRow

\* 400 for the type without looking at the table, 409 for a name that is taken.
Takes(n, row) == KnownKind(row) /\ rows[n] = NoRow

Add(t) ==
  LET n == task[t].name
  IN /\ Has(t, "add")
     /\ IF Takes(n, task[t].row)
        THEN rows' = [rows EXCEPT ![n] = task[t].row]
        ELSE UNCHANGED rows
     /\ Replied(t)
     /\ UNCHANGED <<env, registry, up, bench>>

\* 204, or 404.  The registry keeps its adapter.
Remove(t) ==
  /\ Has(t, "remove")
  /\ rows' = [rows EXCEPT ![task[t].name] = NoRow]
  /\ Replied(t)
  /\ UNCHANGED <<env, registry, up, bench>>

\* The row is read, and then the adapter built from it is called.
TestReads(t) ==
  LET row == rows[task[t].name]
  IN /\ Has(t, "test")
     /\ IF row # NoRow /\ row.var \in env /\ KnownKind(row)
        THEN task' = [task EXCEPT ![t].st = "probing", ![t].row = row]
        ELSE Replied(t)
     /\ UNCHANGED <<rows, env, registry, up, bench>>

\* health_probe returns, as it may never: the HTTP client has no timeout.
TestEnds(t) ==
  /\ task[t].st = "probing"
  /\ Replied(t)
  /\ UNCHANGED <<rows, env, registry, up, bench>>

\* What /health/providers shows, and in part GET /admin/providers.
PageNames == Rows \cup Registered

Page(t) ==
  /\ Has(t, "page")
  /\ task' = [task EXCEPT ![t].st = "shown", ![t].seen = PageNames]
  /\ UNCHANGED <<rows, env, registry, up, bench>>

\* state.providers.get
Exists(n) == registry[n] # NoRow

\* CallerAuth has had the mutex; an unknown provider is refused.
Embed(t) ==
  /\ Has(t, "embed")
  /\ IF Exists(task[t].name)
     THEN task' = [task EXCEPT ![t].st = "queued"]
     ELSE Replied(t)
  /\ UNCHANGED <<rows, env, registry, up, bench>>

\* The multiplexer answers, the page is read, or the client disconnects: a
\* handler is dropped wherever it awaits.
Over(t) ==
  /\ task[t].st \in {"waiting", "queued", "shown"}
  /\ Replied(t)
  /\ UNCHANGED <<rows, env, registry, up, bench>>

Handle(t) == Add(t) \/ Remove(t) \/ TestReads(t) \/ Page(t) \/ Embed(t)

-----------------------------------------------------------------------------
(* emr providers probe: one GET, then batches of rising size *)

\* Mutant: the sizes are those of the largest type.
EverySize(max) == Sizes

\* batch_sizes_sequence
SizesFor(max) == {s \in Sizes : s <= max}

\* max_texts_per_request as GET /admin/providers shows it.
Shown(row) == IF KnownKind(row) THEN Limit[row.kind] ELSE Fallback

Smallest(sizes) == CHOOSE s \in sizes : \A other \in sizes : s <= other

\* GET /admin/providers: the limit is that of the type in the table.
\* fresh: that row is the one the server was started with.
BenchLists(n) ==
  /\ up /\ bench.st = "idle" /\ rows[n] # NoRow
  /\ LET max == Shown(rows[n])
     IN bench' = [st |-> "sampling", name |-> n, max |-> max,
                  size |-> Smallest(SizesFor(max)), fresh |-> rows[n] = registry[n]]
  /\ UNCHANGED <<rows, env, registry, up, task>>

\* The samples of one size, answered or not, and on to the next; a request that
\* cannot be sent ends the command.
BenchSamples ==
  LET larger == {s \in SizesFor(bench.max) : s > bench.size}
  IN /\ bench.st = "sampling"
     /\ \/ larger # {} /\ bench' = [bench EXCEPT !.size = Smallest(larger)]
        \/ bench' = NoBench
     /\ UNCHANGED <<rows, env, registry, up, task>>

-----------------------------------------------------------------------------
(* The process *)

\* Mutant: the variables are those of the process before.
LoadsFromBefore(e, n) == rows[n].var \in env /\ KnownKind(rows[n])

Loads(e, n) == rows[n].var \in e /\ KnownKind(rows[n])

\* Mutant: a provider that cannot be built is left out.
WhatLoads(e) == {n \in Rows : Loads(e, n)}

\* The rows from_db_providers must build: one variable unset, or one type unknown,
\* and the server does not start.
Needed(e) == Rows

\* cmd_serve, with whatever variables are set.
Start(e) ==
  /\ ~up
  /\ IF \A n \in Needed(e) : Loads(e, n)
     THEN /\ up' = TRUE /\ env' = e
          /\ registry' = [n \in Name |-> IF n \in Needed(e) THEN rows[n] ELSE NoRow]
     ELSE UNCHANGED <<up, env, registry>>
  /\ UNCHANGED <<rows, task, bench>>

\* The server is stopped or killed.  The client notices, and gives up.
Stop ==
  /\ up /\ up' = FALSE
  /\ env' = {} /\ registry' = Nobody
  /\ task' = [t \in Task |-> NoTask]
  /\ bench' = NoBench
  /\ UNCHANGED rows

Next ==
  \/ \E t \in Task :
       \/ \E op \in Op, n \in Name \cup {NoName},
             row \in [kind : Kind \cup {Other}, var : Var] \cup {NoRow} : Ask(t, op, n, row)
       \/ Handle(t) \/ TestEnds(t) \/ Over(t)
  \/ \E n \in Name : BenchLists(n)
  \/ BenchSamples
  \/ \E e \in SUBSET Var : Start(e)
  \/ Stop

Spec == Init /\ [][Next]_providerVars

\* The operator tries a start with every variable set.
Fairness == WF_providerVars(Start(Var))

FairSpec == Spec /\ Fairness

-----------------------------------------------------------------------------
(* Properties *)

\* Types: the table never holds a type the router does not know.
ProvidersTypeOK ==
  /\ rows \in [Name -> Row \cup {NoRow}]
  /\ registry \in [Name -> Row \cup {NoRow}]
  /\ env \subseteq Var /\ up \in BOOLEAN
  /\ task \in [Task ->
       [st : {"idle", "waiting", "probing", "queued", "shown"}, op : Op,
        name : Name \cup {NoName},
        row : [kind : Kind \cup {Other}, var : Var] \cup {NoRow}, seen : SUBSET Name]]
  /\ bench \in [st : {"idle", "sampling"}, name : Name \cup {NoName}, max : Nat,
                size : Nat, fresh : BOOLEAN]

\* A request that was accepted finds its adapter when the multiplexer flushes it,
\* whatever was added or removed in the meantime.
AcceptedIsServed ==
  \A t \in Task : task[t].st = "queued" => registry[task[t].name] # NoRow

\* A provider that takes requests is never missing from the health page, removed
\* from the table as it may be.
WhatServesIsShown ==
  \A t \in Task : task[t].st = "shown" => Registered \subseteq task[t].seen

\* Calibration never sends more than the running adapter takes, unless the row
\* was replaced since the server started: a table of another type would have it
\* send batches the multiplexer can only refuse.
BenchFits ==
  bench.st = "sampling" /\ bench.fresh => bench.size <= Limit[registry[bench.name].kind]

Whole == INSTANCE Directory WITH listed <- rows, serving <- registry, on <- up

\* registry.rs: built once from the table and immutable: a running server has
\* every provider that was in the table when it started and no other.
ImplementsDirectory == Whole!DirectorySpec

\* Nothing but a variable can be missing: a start with each variable the table
\* names succeeds, whatever was entered and removed while the server ran.
StartNeedsVariables ==
  [][\A e \in SUBSET Var :
       Start(e) /\ (\A n \in Rows : rows[n].var \in e) => up' /\ registry' = rows]_providerVars

\* Whatever was entered, the server starts again once every variable is set: no
\* row can keep it from starting, which only a running server could remove.
StartsAgain == ~up ~> up

=============================================================================
