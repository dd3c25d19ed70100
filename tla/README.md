# A verification of the embeddings router

The embeddings router is a server between clients that want texts embedded and
the providers (Voyage, Cohere) that embed them. It groups the texts of
concurrent requests into few provider calls, adapts the size of the groups to
rate limits, keeps failing providers out for a while, and gives each client
the embeddings of its own texts. This directory holds TLA+ models of the parts
of it that keep state, TLC instances of them, and TLAPS proofs.
Source paths are below `src/src/` of the repository unless they say otherwise;
`PROJECT.json` maps each definition to the lines it models.

## 1. The system

### Parts

| Part (source) | State | Operations |
|---|---|---|
| Multiplexer (`mux/multiplexer.rs`, `mux/accumulator.rs`, `mux/mod.rs`) | one slot per provider (texts, caller ranges, reply senders, deadline), the set of flush tasks | receive, add to slot, flush by threshold, window or shutdown, hand out a batch's answer; relay and collect for several providers |
| Adaptive batch size (`mux/adaptive.rs`) | K and a success streak per provider | success lowers K after a streak, a terminal 429 doubles it |
| Circuit breaker (`health/mod.rs`) | consecutive failures, sin-bin, rounds, probe tasks | record success/failure, filter providers, probe |
| Retry engine (`retry/mod.rs`) | attempt, accumulated sleep | call, sleep, retry, give up |
| Embedding handlers (`server/handlers/embeddings.rs`) | one awaiting future per HTTP request | validate, submit, await, apply the policy, reply |
| API keys (`db.rs`, `server/middleware/auth.rs`, `server/handlers/admin_keys.rs`) | the `api_keys` table behind one mutex | create, list, revoke, rotate, authenticate |
| Providers (`provider/registry.rs`, `server/handlers/admin_providers.rs`) | the `providers` table, the registry built from it at startup | add, remove, list, test, restart |
| Adapters (`provider/voyage.rs`, `provider/cohere.rs`) | none | one HTTP exchange turned into embeddings or an error |
| Configuration (`config.rs`) | `config.toml` | load with defaults, validate |
| Server and container (`cli/serve.rs`, `cli/up.rs`, `cli/down.rs`, `cli/env.rs`) | the `.env` file with the admin secret, the docker container, requests in flight | up, down, serve, drain, read the secret |
| Health page, other commands | views | read-only |

### How they interact

A handler puts a `MuxRequest` with a oneshot sender on a bounded channel
(`try_send`, full means 503) and awaits the oneshot. The multiplexer is one task
around a biased `select!`: finished flush tasks first, then the channel, then
the window timer. A request becomes one *leg* per available provider; a leg's
texts go into that provider's slot. A flush takes the slot's texts, ranges and
senders into a spawned task that calls the provider through the retry engine.
When it ends, the multiplexer records the outcome in the breaker and in K, cuts
the embeddings by the ranges and uses the senders. For a request with several
providers the senders lead to relay tasks, whose partial answers a collector
merges. A failure that sin-bins a provider spawns a probe task beside all this.
Shutdown drops the channel's senders; the multiplexer then flushes and drains.

Every request first authenticates against the key table, under the same mutex
the admin handlers work under. The provider table is read once, at startup: what
serves is the registry made from it. The server is process 1 of a container that
`emr up` and `emr down` manage through docker, and that gets its admin secret
from the file the other commands read theirs from.

### What is hard

Concurrency: five kinds of task and free interleaving between them; answers in
any order. Failure: short answers, panics of a flush task (its senders vanish)
and of the multiplexer itself, clients that leave, statements of a transaction
that fail, kills between two of them, commands that stop half-way. Time: windows, sin-bins,
probes and sleeps racing each other. Boundaries: batch capacity, K, rounding,
budgets. `PROJECT.json` lists the hazards one by one.

### What makes each part correct

* Multiplexer: an embedding reaches only the caller of its text; a batch never
  exceeds the provider's limit; every accepted request is answered once, with
  every provider it was fanned out to; shutdown loses nobody.
* K: stays between 1 and the provider's limit.
* Breaker: a sin-bin starts only at the threshold and is bounded, never
  extended; a sin-binned provider is looked at again; an answering one recovers.
* Retry: a bounded number of attempts and of sleep; no 429 is terminal unretried.
* Handlers: one reply, which says what the answers say.
* Keys: a revoked or rotated-out key never authenticates again; a rotation leaves
  exactly one key of an application valid, whatever fails during it.
* Providers: a running server has the table it was started with, and whatever
  the table accepts the next start can load.
* Container: `emr up` and `emr down` end whatever the server does, one secret is
  generated and stays the one the other commands know, and `emr up` brings the
  server back.

## 2. Modules

| Module | Models | Used by |
|---|---|---|
| `AdaptiveK` | arithmetic of K (no state of its own) | `Mux` |
| `SinBin` | the breaker without time, as the multiplexer meets it | `Mux`; implemented by `Health` |
| `Mux` | the multiplexer with callers, flush tasks, relays, collectors | `MuxProperties` |
| `EmbeddingService` | what a caller is promised, with no batching in sight | implemented by `Mux`, relied on by `Handlers` |
| `MuxProperties` | the properties of `Mux` and the refinement mapping | `MCMux`, `MuxProofs` |
| `Health` | the breaker with counted-down time and probe tasks | `MCHealth`, `HealthProofs` |
| `Adapter` | what an HTTP exchange with a provider is turned into | `Retry` |
| `Retry` | one `execute_with_backoff` over an adapter | `MCRetry`, `RetryProofs` |
| `Handlers` | `embed` and `embed_batch` | `MCHandlers`, `HandlersProofs` |
| `AccessList` | keys as an operator thinks of them: granted, replaced, withdrawn | implemented by `KeyStore` |
| `KeyStore` | the key table, its mutex and transactions, admin handlers, `CallerAuth` | `MCKeyStore`, `KeyStoreProofs` |
| `Directory` | what is listed and what serves, as of the last start | implemented by `Providers` |
| `Providers` | provider table, registry, handlers, calibration, restarts | `MCProviders`, `ProvidersProofs` |
| `Configuration` | fields, defaults, validation, what the server and the other modules need of them | `Container` |
| `Container` | secret file, docker container, up, down, the server's start and drain | `MCContainer`, `ContainerProofs` |
| `*Proofs` | theorems (`MuxBatchProofs` continues `MuxProofs`) | |
| `MC*` | TLC instances | |

**Mux.** `chan` and `closed` are the mpsc channel. `mux` is the place of the
task in its loop: `join`, `recv` and `timer` are the three priorities of the
biased `select!`; `fan` is inside `handle_request`, between two `add_to_slot`
calls; `drain` is `drain_flush_tasks`; `crashed` is a panic in the task.
`slot` is the map of `ProviderSlot`s, `tasks` the `JoinSet`, `aimd` the K
registry, `legs` the legs of each request with their oneshots, `status` and
`resp` what the caller's oneshot holds. `AddToSlot` is the whole of
`add_to_slot` (pre-flush, store the sender, add the texts, threshold flush),
`JoinOutcome` the whole of `handle_flush_outcome`. An embedding is written as
the text it belongs to, so that a mix-up is visible. A deadline is a flag,
`expired`, that may come on at any time for a slot with texts. The path of a
provider missing from the registry at flush time is left out: the handlers
check every name, the registry does not change, and `Handlers` checks that
nothing else is submitted (`SubmitsWhatMuxTakes`, proved).

**SinBin** is what the multiplexer needs of the breaker: several sin-bins may
end in one step, because one tick of the clock ends them together.

**Health.** Time is counted down in ticks: `left` of a sin-bin and `wait` of a
probe. The failure count saturates at the threshold and `sinbin_rounds` is
represented by the duration it leads to; nothing can tell them apart from the
counters. `spawned` is a history variable for the refinement. `Prompt` says
whether due timers fire before time goes on. Both runs set it, since recovery
depends on it; of the theorems only `RecoveryReaches` assumes it.

**Retry** and **Adapter.** Durations are whole units. The outcome of an attempt is
the adapter's verdict on an exchange: no response, a status, a body with too few
embeddings (which the adapters let pass). A Retry-After on which
`Duration::from_secs_f64` panics is the outcome `panic`.

**Handlers.** The body of a request is a record whose optional fields are
sequences of length at most one; Retry-After is counted in half seconds so that
rounding happens. The multiplexer is `EmbeddingService` plus dropped requests.
The contract is what `Mux` implements within the providers' limits and while no
flush task panics; outside of them see the divergences below.

**KeyStore.** `disk` is what is committed, `view` what the one connection sees;
they differ inside a rotation. `lock` is the tokio mutex where it is held over
several steps. A key stands for its text, id and hash; `PrefixOf` may give two of
them the same prefix. `Lookup` holds the mutex, `Verify` does not. `line` and
`closed` are history: the key an application's present key descends from, and the
ones revoked. `Crash` throws away what was not committed, and all requests.

**Providers.** `rows` is the table, `registry` what `from_db_providers` built, with
the row each adapter was made from; `env` the variables the process was started
with. A handler is one step per stay in the mutex; a test is two, because its
probe runs outside. `bench` is `emr providers probe`, a client of many requests.

**Container.** `op` is the command each operator is in, one step per docker call or
file operation, and nothing keeps two commands apart, as nothing in `cmd_up` does;
`box` the container with the secret and configuration it was started with;
`inside` the callers' requests at the server, to which those of operators in stage
`asking` come. `Empty` is the file that `std::fs::write` has created, or emptied,
and not filled. `issued` and `raced` are history that only properties read: the
secrets generated, and whether an `emr up` ever found no file while another that
had found none had not yet made it. Such a race may end with one secret in
the file and another in the server; `AdminLetIn`, `OneSecret` and `SecretStays` except
the runs in which it happened, and no others.


## 3. What TLC checks

| Run | Question | Bounds, and why they are enough |
|---|---|---|
| `multi` | `Mux` implements `EmbeddingService`; each leg is reported | two requests, two providers, one failure sin-bins, shutdown at any moment: each provider of each request may be batched with the other's, fail, be filtered, be drained |
| `hard` | nothing is misdelivered or held twice, come what may; a closed channel ends the multiplexer | texts that do not fit, no texts, a provider named twice, short answers (which crash the task), panics |
| `live` | every accepted request within the limits settles, because nobody is forgotten; batches fit, K stays in range | batching, fan-out and pre-flush, panicking flush tasks, a caller that leaves |
| `recovery` | bounds of the breaker, probing, `Health` implements `SinBin`, an answering provider recovers, every sin-bin ends | one provider answers probes, the other never does and keeps failing; a sin-bin doubles once and then is at its maximum |
| `budget` | attempts and sleeps of the retry loop over an adapter | four retries; hints absent, zero, below and past the cap, unusable; a budget that runs out first |
| `replies` | the reply says what the answers say, and there is one | every form of request, batches of up to three; one HTTP request, because handlers share nothing but the multiplexer |
| `keys` | `KeyStore` implements `AccessList`; revocation, rotation, hand-out | two operators and a caller, three keys of which two share a prefix, a stray token; failing statements, disconnects and kills anywhere |
| `providers` | `Providers` implements `Directory`; calibration, tests, restarts | one name that may be re-entered with another type and variable, two requests, two types with different limits; larger than one name adds nothing, since rows do not interact except at startup |
| `container` | the secret, commands that end, recovery by `emr up` | two operators, because two are enough to race and each may run any sequence of commands; two secrets, one caller's request, two polls, four troubles (failed steps, crashes, downs), three configurations |
| `all_of_them`, `oversized`, `default_interval` | the divergences of section 6 | expected violations |

Bounds are constants of the modules: requests are used once, `ChannelCapacity`,
`MaxLive` (probe tasks of a provider at once), `MaxSubs`, `Polls`, `MaxTroubles`;
`Leavers` and `MayClose` switch departures and shutdown on where a run is about
them. Limits, batch sizes and durations are scaled down, keeping their order.
Deadlock checking is off where the system may stop: a server with no request
left, the retry loop, a handler. Symmetry is used for safety runs only.

**Fairness.** Tokio runs every runnable task and fires its timers: the steps of
the mux task, relays, collectors, windows, probe wake-ups and handlers are
weakly fair. Callers, shutdown, recorded outcomes and departures are not. A
provider call ends only for providers in `Responsive` (`Answering` for probes):
`reqwest::Client::new()` has no timeout, so the code does not ensure it, and the
liveness results are conditional on it. In `Handlers` the service settles
accepted requests that have texts; nothing makes it settle the others. In
`Providers` only the operator's tries to start with every variable set are fair; no
handler is, and no test is assumed to be answered. In `Container` an `emr up` or
`emr down` that has begun goes on, docker's timeout fires, an admin command sends
its request, and some operator repeats `emr up` (strongly fair, since containers
come and go). Nothing makes the server answer an admin command or a caller: the
commands have no timeout, and `CommandsEnd` does not speak of them.

## 4. What is proved

All theorems hold for every value of the constants that satisfies the `ASSUME`s
of the modules: finitely many providers with limits of at least one, a positive
threshold and the like. TLC evaluates the same assumptions on every instance.

* `MuxProofs`: `TypeCorrect`, `Demultiplexing` (`OwnEmbeddings`), `BatchesTiled`
  (`RangesTileBatches`), `KStaysInRange`. None of the four is inductive. The
  invariant `IInv` has four parts. *Control*: types of the loop, K and health.
  *Channel*: what is queued was sent. *Batches*: in each slot and
  task the ranges tile the texts and each range carries exactly its caller's
  texts. *Requests*: legs, partial and final answers hold only embeddings of the
  request's own texts. Demultiplexing then follows because the only way an
  embedding gets from a batch to a leg is `Slice`, and a tiled batch is cut
  where it was joined; a slice beyond a short answer panics before anything is
  delivered to that caller. There is one lemma per action, and general lemmas
  for what slices and appends of sequences are.
* `MuxBatchProofs` adds to `IInv`, one layer after the other:
  *Sizes* (slots and tasks fit, no slot is left at its threshold), *Places* (each
  waiting sender is in exactly one place), *Replies* (where each leg and answer
  stands), *Together* (senders travel with their texts), *Clean* (no leg is lost),
  *Accounts* (an answer accounts for its legs) and *Fanned* (legs are those of the
  list). `BatchSizes`, `Thresholds`, `SendersSafe`, `Attempts` and `FinalAnswers`
  need nothing else. `NoOrphans` needs that no request exceeds the limit of a
  provider it names (`WithinLimits`); `NobodyDropped`, `EveryoneReported`,
  `AllOfThem` and `IsService` need moreover that no request is empty and that
  providers return an embedding per text and do not panic (`Behaved`). Nothing in
  the code ensures the two assumptions; the runs `oversized` and `all_of_them`
  show that the conclusions fail without the first. `IsService` is the whole
  refinement: `Mux` implements `EmbeddingService`.
  Further layers follow a request on its way. `NobodyIsForgotten` (no request is
  empty or too large; panics and crashes are allowed) adds *Course*: whoever waits
  is queued or has legs, and legs are new only while their request is fanned out.
  With *Places* and *Together*, each waiting leg then has its sender in a slot that
  threshold, window or shutdown will flush, or in a task that will be joined.
  `NothingIsSentTwice` gives each leg a stage and shows that no step takes it
  back; `CleanShutdown` and `DrainEnds` are about the last loop of the task.
* `HandlersProofs`: `HandlersTypes`, `Submissions`, `Policies`, `Ordered`,
  `PassedThrough`, `PauseIsEnough`. The invariant: what was submitted is the valid
  sub-request of its number and its answer is right; the results found are those
  of the answers before the cursor, each meeting its policy; a reply is
  made of what was found or of the answer at the cursor. That the longest of
  several Retry-Afters exists is proved by taking least elements.
* `HealthProofs`: `HealthTypes`; `Probed`: if `MaxProbes * ProbeInterval` covers
  the longest sin-bin, a sin-binned provider always has a live probe task. The
  strengthening says of some task that its remaining sleep and probes outlast
  the sin-bin (`EverySinBinOutlasted`), which is what an expired task that ends
  early cannot break. `ImplementsBreaker`: every behaviour of `Health` is one of
  `SinBin`, step by step. `RecoveryReaches`: if the probe interval is shorter than
  the shortest sin-bin and timers fire on time, some probe of a provider that would
  answer is on its way or wakes before the sin-bin ends. The default settings have
  the two equal, and the run `default_interval` shows what comes of it.
* `RetryProofs`: `RetryTypes` (at most `max_retries + 1` attempts),
  `SleepBounded`, `RateLimitRetried`, from the loop invariant `Loop`. The last
  one rests on `per_attempt_cap <= cumulative_cap`, which `config.rs` validates.
* `KeyStoreProofs`: `KeyTypes`, `RevokedOut`, `HandedOut`, `OneKey`, `Committed`, and
  `AccessIsListed`, the refinement of `AccessList`. The invariant relates the two
  tables to the stage of the rotation that holds the mutex: outside of one they
  are equal, inside they differ in the old and the new key only.
* `ProvidersProofs`: `ProvidersTypes`, `Accepted`, `PageIsWhole`, `Calibrated` and
  `RegistryIsWhole`, the refinement of `Directory`, and `StartNeedsOnlyVariables`.
* `ContainerProofs`: `ContainerTypes`, `SecretFits`, `OneSecretForGood` and
  `CommandsGetNearer`. The invariant: nobody removes the file (`FileMade`); unless two
  `emr up` once found it missing together, one alone makes and fills it, from missing
  to empty to full (`Alone`, `OneMaker`), so that one secret at most is generated
  (`OneSecret`); and every secret in the file, the container or a command's hand was
  generated (`Known`). A command is then refused by a server that has that same
  secret, which cannot be. `ValidSuits`: a configuration that passes `emr config validate`
  meets what `Mux`, `Retry` and `Health` assume of it, the multiplier excepted;
  `ZeroConfig`: an empty file is valid and enough to start.

Several proved invariants are not in a run of their own because a stronger
property of the run implies them or because they are steps towards one:
`RangesTileBatches` (towards `OwnEmbeddings`), `NeverDropped`, `AnswersAreFinal` and
`SomeProviderAttempted` (of `ImplementsService`), `SlotsBelowThreshold`,
`SubmitsWhatMuxTakes`, `MutexMeansCommitted` (towards `ImplementsAccessList`),
`AcceptedIsServed`, `WhatServesIsShown`.

**Liveness.** Fairness and `ENABLED` are beyond the prover, so "eventually" stays
with TLC. What each liveness property needs besides fairness is safety, and is
proved: that there is always somebody whose turn it is, and that turns bring the
end nearer and nobody takes them back.

| Liveness (TLC) | Safety part (proved) |
|---|---|
| `EveryRequestSettles` | `NobodyForgotten` (`NobodyIsForgotten`), `NeverBack` (`NothingIsSentTwice`) |
| `ShutdownCompletes` | `ShutdownIsClean` (`CleanShutdown`), `DrainRunsDown` (`DrainEnds`) |
| `RecoveryHolds` | `AskedInTime` (`RecoveryReaches`), `BinnedIsProbed` (`Probed`) |
| `EveryBinEnds` | `SinBinRunsDown` (`BinsRunDown`) |
| `CallReturns` | `CallRunsDown` (`LoopRunsDown`) |
| `EveryHttpReplied` | `NobodyWaitsInVain` (`WaitsForTheServiceOnly`), `HandlersRunDown` (`HandlersGetNearer`) |
| `StartsAgain` | `StartNeedsVariables` (`StartNeedsOnlyVariables`) |
| `CommandsEnd` | `CommandsRunDown` (`CommandsGetNearer`) |
| `ServesAgain` | `OneSecret`, `SecretStays` (`OneSecretForGood`): a later `emr up` finds the secret an earlier one wrote |

`MutexComesFree` (`MutexIsGivenBack`) says the like of the database mutex, which a
rotation has for three statements at the most. What the table does not give, and what only TLC shows, is that the steps
which bring the end nearer are enabled whenever they are due.

**Composition.** The modules are specified apart, and theorems join them:
`HandlersKeepToService` (`Handlers` uses `EmbeddingService` as it may be used:
requests name providers, registered ones only, each is sent once) and `IsService`
(`Mux` implements it); `UsesSinBin` (every step of `Mux` is one of `SinBin`) and
`ImplementsBreaker` (`Health` implements it); `ValidSuits` (a validated
configuration gives the constants what the assumptions of `Mux`, `Retry` and `Health`
ask). Where the joint does not close, it says so: the handlers do not keep
requests within the limits or from being empty, which `IsService` needs.

## 5. Which properties hold only within limits

`NobodyForgotten`, `EveryRequestSettles`, `EveryProviderReported`, `NoOrphanSender`
(which only the theorem `NoOrphans` states) and the refinement hold for requests whose texts fit each provider they name. Nothing in
the handlers ensures that: the runs choose the shapes, the theorems assume
`WithinLimits`, and the run `hard` checks what holds without it.

## 6. Where the code and its documents differ

Shown by a run:

* `oversized`: a request with more texts than `max_texts_per_request` is refused
  by the accumulator after its sender was stored. Its slot counts as empty, no
  timer is armed, and it waits for somebody else's texts
  (`docs/architecture.md:41`: the window "ensures bounded latency").
* `all_of_them`: under policy `all` such a leg ends without a partial answer, so
  the answer has an empty `failed` map without all results; the handler replies
  200 (`mux/policy.rs:5-6`).
* `default_interval`: with the default settings the first probe wakes exactly
  when the first sin-bin is over, and ends without asking the provider; the
  failure count stays at the threshold (`health/mod.rs:8`).

Seen while modelling, with no run of their own yet:

* `collect_multi_provider` waits for every provider whatever the policy, while
  `README.md:35` says of `any` that the first success wins.
* The published `in_flight_batches` counts the flush tasks of all providers
  (`mux/adaptive_snapshot.rs:19` says of this one).
* The cumulative retry budget counts sleeps, not calls
  (`docs/architecture.md:83` says total time).
* `embed` refuses an empty input, `embed_batch` does not; such a sub-request,
  alone in its slot, is never flushed.
* `embed` accepts a provider as soon as it is in the registry, which is read at
  startup: the provider added in the Quick Start of the repository's `README.md`
  cannot be used until the server is started again (`Directory` says what serves).
* Two keys that share their 8-character prefix: only one of them authenticates
  (`db.rs:340` speaks of "the single active key"). `ImplementsAccessList` says
  "may be turned away" for a key with a namesake.
* A test of a provider, like any provider call, has no timeout.
* `emr serve` loads its configuration and does not validate it; `emr config
  validate` accepts an address nobody can bind and any multiplier.
* A negative multiplier makes the length of a sin-bin negative, on which
  `Duration::from_secs_f64` panics (`health/mod.rs:131`).
* A caller's share of a batch's tokens is computed in 32 bits
  (`mux/multiplexer.rs:350`), so a large product overflows.
* The adapters accept fewer embeddings than texts; the multiplexer panics on them.
* `emr up` waits for a health page it may never see: the image has no working
  directory to read `config.toml` from and the default address is 127.0.0.1, which
  a published port does not reach. It reports "already running" with the port
  asked for, not the one in use (`cli/up.rs:88`). Process 1 of the container
  notices SIGTERM only once it serves: a `docker stop` before that waits for its
  timeout.
* `emr down --force` fails on a container that has exited, without removing it.
* "Auto-generate .env if it doesn't exist" (`cli/up.rs:98`): two `emr up` that find
  it missing together both write it, the later over the earlier, and the container
  may have been started in between: then every admin command that reads the file is
  refused. The behaviour is in `Container`, and `raced` marks it.
* An empty `.env`, as a failed write leaves it, is never filled again. The database
  is inside the container and goes with it.
* The admin commands have no timeout (`reqwest::Client::new()` in `cli/keys.rs` and
  `cli/providers.rs`): `emr providers test` waits as long as the provider does.
* After a probe cleared a sin-bin the failures of the last 60 minutes still count
  in the error rate, so the status stays down, and a provider nobody asks stays so.
  With every provider sin-binned `/health` answers 200, and 503 once one has
  recovered and counts as down (`docs/api-reference.md:173`).

## 7. What is not modelled

* The drop of the runtime when `cmd_serve` returns, with the multiplexer task in it,
  which nobody joins: `Mux` shows that the task ends once its channel is closed,
  `Container` takes axum's drain before it for granted.
* Token counts and latencies, the rolling window of metrics and the status
  computed from it, the observability snapshot: figures that are shown and
  decide nothing about a request. The window drops entries by wall-clock time,
  which TLC would have to count in minutes against sin-bins of seconds.
* The JSON of the adapters and of the endpoints, logging, wording, argument
  parsing, routing.
* Commands that print the answer to one request (status, health, config).
* Docker, SQLite, hyper and tokio, beyond what the code relies on; the map marks
  those definitions external.
* The time a request may be kept from its window by a busy channel (the biased
  `select!`): no bound follows from the code alone.

`PROJECT.json` has a row for each part.

## 8. Left to do

1. The window of metrics with its status and health score, with the health page
   that reads it and K beside it, and the last divergence of section 6 as a run.
2. The snapshot, whose in-flight count is that of all providers.
3. A bound on the delay of an expired slot under a given rate of requests.
4. `WithinLimits` as a property of the handlers, should they come to check it.
