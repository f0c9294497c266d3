# A verification of EgressDNS in TLA+

EgressDNS is a caching, forwarding DNS resolver on Tokio. This directory holds TLA+ models
of it, the TLC configurations that check them, and TLAPS proofs of the properties that
carry the rest. Every definition is translated from the Rust source; `PROJECT.json` maps
each one to its lines. Paths below are relative to the crate (`src/src/`) unless they
begin with `docs/`.

## The system

A query passes through the **foreground plane**:

    server -> resolver -> local data -> failure cache, answer cache -> single flight
           -> fetch -> scheduler -> routes -> shaping of the answer -> server

and a **background plane** works on the same state: stale refreshes, prefetches,
background validation, probes, ranking, network detection, Cloudflare optimisation,
maintenance, storage, reload and administration.

What makes it hard is that almost nothing is done under one lock. The registry of flights
locks a shard, a route locks its health, the caches make each operation atomic, and the
rest are atomics and swapped snapshots; everything between two of these operations
interleaves with every other task. Any future may also be dropped at an await: a losing
hedge, an elapsed budget, a shutdown.

### Inventory

| Part | What is hard | Module |
|---|---|---|
| listeners (`dns/server.rs`, `dns/acl.rs`) | reader, queries and writer of a connection share permits and a channel | `Ingress` |
| rate limiter (`dns/ratelimit.rs`) | two generations of one bounded table | `RateLimiter` |
| request checks, local data (`dns/resolver.rs`, `dns/specialuse.rs`, `datasets/`) | one request reads a snapshot three times while it is replaced | `RequestGate`, `LocalData` |
| resolver and caches (`dns/resolver.rs`, `cache/mod.rs`) | lookup, join, store and publish are separate steps | `Resolver` |
| single flight (`cache/singleflight.rs`) | publishing is two steps; leaders and followers are dropped | `SingleFlight`, `Coalescing` |
| fetch (`dns/resolver.rs`, `policy/dnssec.rs`) | several kinds of failure that mean different things | `Fetch` |
| background validation (`dns/resolver.rs`, `cache/mod.rs`) | verdicts overtake and are overtaken by answers | `BackgroundValidation` |
| scheduler (`upstream/scheduler.rs`) | permits on every way out; attempts nobody polls | `Scheduler` |
| route health (`upstream/health.rs`) | checked and used under different lock holds | `RouteHealth`, `CircuitBreaker` |
| answer shaping (`policy/`, `ranking/mod.rs`) | in-place changes of a message that must not lose or move the rest | `AnswerPolicy`, `Augmentation`, `AnswerShaping` |
| endpoints, bootstrap, routes (`config/`, `upstream/`) | many ways to one address | `Endpoints`, `Lifecycle` |
| start and reload (`runtime/mod.rs`) | reloads take no lock | `Lifecycle` |
| configuration and its contract (`config/`) | some two hundred bounds; values that are read once | `Config`, `Reload` |
| probe engine (`probe/engine.rs`) | workers overtake the health they report to | `ProbeEngine` |
| Cloudflare, network (`cloudflare/`, `tasks/`) | several readers and writers of mode, prefixes and pool | `Cloudflare`, `Steering` |
| supervisor, storage (`tasks/mod.rs`, `storage/`) | panic, abort, kill between two steps | `Supervisor`, `Storage` |

## Modules

**`Coalescing`** is what the registry of flights promises: a flight is decided once, and
everybody attached to it holds that outcome from then on. **`SingleFlight`** is the
registry. A flight is named by the task that leads it: `map[k]` is the leader registered
for `k`, `tx[f]` the leader whose channel follower `f` subscribed to, `rx` the receive
buffers. `JoinLeader`, `JoinFollower` and `JoinSaturated` are the results of `join`;
`Publish` and `Send` are the two halves of `publish`, with another task's `join` possible
in between; the drop of an unpublished leader is a `Publish` of `LeaderGone`; `Abandon` is
the follower's timeout.

**`RouteHealth`** has the methods of `RouteHealth` as functions of a record: each runs
under the route's lock. The four failure outcomes move the circuit alike and are one.
**`CircuitBreaker`** puts attempts of concurrent resolutions around one such record. The
lock is taken at ranking, at reserving, at releasing and at recording, and those are the
four actions; `Cancel` drops an attempt in mid-exchange.

**`Scheduler`** has whole resolutions: `ranked` is any order of any of the group's routes
(what health decides is the subject of `CircuitBreaker`), `att` the state of each attempt,
`free` and `grace` the permits. A resolution in its truncation retry does not poll its
other attempts, which keep their permits: this is why the phase `retrying` is separate.
Whether the hedge budget allows a hedge is a free choice.

**`Resolver`** composes the caches with `SingleFlight` (an `INSTANCE` over the same
variables). An answer is the number of the fetch that brought it, so "older" and "newer"
are comparisons. TTLs and intervals lapse by events. A background verdict reads an entry
and writes its copy back, or removes what is there, in two steps (`VerdictReads`, then
`Promote` or `EvictVariant`). The ghosts `served`, `evidence` and `streak` record what
clients were given and what failures were about, `restored` that `Promote` put back what
had been replaced.

**`Fetch`** is one `fetch` between the flight and the cache, for every DNSSEC mode. A
message is its kind and the weakest proof of its records. Each wait may run out.

**`BackgroundValidation`** has one key, the fetches that store answers for it, and the
validations that judge them. `Look` and the write after it are the two steps of `promote`
and `evict_variant`. They compare fingerprints of the answer section, and every denial has
the same one.

**`Ingress`** has the datagram and stream listeners: access control, admission, the global
`inflight` permits, the pruned map of per-client counters, and for each connection the
reader, the counts of its queries by where they are, and the writer. Closing a reader,
a dead writer, a client that does not read, a shutdown and the drain are all in.
**`RateLimiter`** is the table
behind admission. The two share no state but the decision, which `Ingress` leaves open.

**`LocalData`** builds a snapshot (hosts, zones, rules, categories) from a configuration
and files, and looks names up in it; names are label sequences. **`RequestGate`** takes
one request through `handle_inner` up to the cache key, with the client subnet that is sent
upstream and the one that is part of the key, and sizes its reply, while the operator edits
files and reloads.

**`AnswerPolicy`** has the pure steps between a cached answer and a reply: ordering, TTL
caps, the AD bit. **`Augmentation`** is the step that adds verified addresses.
**`AnswerShaping`** is `build_response` over both, for fresh and stale entries, with the
signatures taken out for a client that did not ask for them. `Steering` uses `Augmentation` too, for
answers built while everything changes.

**`Endpoints`** has the pure way from the `upstreams` and `proxies` lists to routes: the
catalogue, the parser as cases, `auto`, bootstrap, cycle detection, companions.
**`Lifecycle`** is a process around it: start, concurrent reloads as sequences of single
stores, the dataset jobs and the periodic task that publish to one place.

**`Config`** has every table of the configuration with its defaults and every check of
`validate`, one operator for each function there. **`Reload`** has the contract: the groups of
`restart_required`, the fields declared reloadable, and those a constructor reads once.

**`Cloudflare`** has the critical sections of the shared Cloudflare state as functions.
**`ProbeEngine`** is the queue, the loop and the workers, in steps of one lock or atomic.
**`Steering`** extends it with mode and override, the prefix updater and its cache file,
seeds, samples, validations and an answer that reads all of it, under crashes.

**`Storage`** is the database file statement by statement, on a medium that may refuse any of
them, the bounded queue and the worker. **`Supervisor`** has the supervised tasks and the end
of the process around it, up to the drop of the runtime.

**`Lists`** has what several modules need of sequences: filtering, folding, joining, the orders
of a set.

`MC*` modules name the model values of each instance; where parts share no state, one run
explores several instances and `focus` says which one steps. `*Proofs` and
`SequenceFacts` hold the theorems. Definitions whose comment begins with "Mutant"
are plausible bugs: each replaces the definition it stands before, and the property
`PROJECT.json` names must then fail.

## Runs

| Run | Instance | Shows |
|---|---|---|
| `coordination` | 3 tasks, 2 keys in one shard with room for 1 flight; 3 attempts, 2 failures open, 2 successes close; 2 validations for 1 slot, an address and two denials, 2 fetches | every follower returns, and the registry implements `Coalescing`; no half-open slot leaks and a withdrawn route is offered again; what is marked Secure has the fingerprint of an answer that was proved |
| `scheduler` | 2 resolutions over 3 routes and 2 permits; 1 resolution over 4 routes, 3 of one authority | permits are conserved; parked attempts never hold every permit; errors say what was done; it returns |
| `resolver` | 2 clients, a stale refresh and a prefetch on 1 key; a client, a refresh and verdicts on 1 key; a client and a refresh on 2 keys with a table and a shard of 1 | neither cache nor client goes back to an older answer, unless `promote` wrote one back; every query is answered without a timer |
| `fetch` | 2 fetches, 1 validation slot, 3 authorities, every configuration | Bogus fails closed; what unproved answers and long-lived denials rest on; no slot is lost or returned twice |
| `ingress` | 3 clients (one denied by a narrower network), 2 connections, 1 pipelined query, 1 permit; 4 clients for a table of 1; 5 scripts of requests over 4 configurations; 7 answers in every surrounding, fresh and stale | budgets are kept; connections per client are bounded; a drain writes everything; nobody waits in a circle, and no connection for the client of another; the right mechanism answers, from the right cache entry, within the size; answers change only as they may and outlive nothing |
| `lifecycle` | 5 upstream lists, a file that does not load and one that needs a restart; 2 concurrent reloads over 2 files | routes keep identity, companions and independence; refused files leave no trace; datasets settle |
| `probing` | 2 addresses of one prefix, 1 host, 2 workers, threshold 2, 2 resizes, 2 generations | the failures counted against addresses are bounded; evidence is measured; a cancelled engine ends with its probes |
| `steering` | 3 addresses, 3 prefixes, pool of 1, 1 worker, in six casts of actors | additions are allowed by mode and prefixes; validations are earned on the path in force, but for a probe that a change of path overtakes; prefixes never collapse; the updater comes back |
| `process` | 2 tasks, one of which blocks; 2 tables, a queue of 2; files that differ from the defaults in up to two places of one topic | openings make good what interrupted ones left, and the database moves forward; panics are restarted, and shutdowns end unless a task never yields; accepted configurations are sound, and what was sized at start is enough |

The bounds are the smallest with the contention in question. Two tasks race for a key and a
third meets what the first left behind; one shard slot for two keys, one validation slot
for two fetches and two permits for two hedged resolutions make every limit bind; two
failures and two successes separate "first" from "enough"; a second fetch lets a verdict be
overtaken, and two denials have one fingerprint. A table of one rotates with every new client;
one permit makes a reader wait for its own queries. In `probing` two workers
are more than the smaller pool takes, so a resized pool meets permits of the old one;
`steering` has the one worker its pool of probes allows, and the theorem covers more. A pool of one evicts for every
proposal. `process` draws the values of a field from around each bound that `validate`
checks, and pairs of them because its rules relate two fields at most.

The named bounds in the guards are `MaxAnswers`, `MaxArrivals`, `MaxLearned`, `MaxEpochs`,
`MaxGeneration`, `SuccessCap`, `CounterMax`, `CacheRoom` and `MapLimit` (the last is the
code's own, made small).

### Also stated

These definitions hold in the instances above. No standing run lists them; to check one,
add it to the cfg named. The type invariants of all modules are among them, and the
properties that a theorem covers for every instance are left out.

| cfg | Definitions |
|---|---|
| `Coordination` | `ValidationsEnd` |
| `Scheduler` | `PermitsComeBack` |
| `Resolver` | `OneStorePerKey`, `StaleTableBounded` |
| `Ingress` | `InflightConserved` |
| `ProbeEngine` | `JobsAreTaken` |
| `Steering` | `ProvenIsKept` |

## Where the code and what is said of it differ

Each of these runs checks one sentence of the repository, and TLC shows a behaviour of the
code that contradicts it.

| Run | The sentence | The behaviour |
|---|---|---|
| `reloadable_is_live` | `config/reload.rs:10` "The value is read from the live [`Config`] every time it is used" | `serve_tcp` copies the connection limits before its loop, and a reload changes neither |
| `both_are_independent` | `dns/resolver.rs:343` "if two independent authorities agree on it" | `resolve_pair` asks independence of the second of the pair only; the first is the route that ranks best, which may be a local forwarder |
| `unreadable_keeps_snapshot` | `docs/ARCHITECTURE.md:213` "Previous valid snapshot retained" | a file that cannot be read is left out, and the rest is published |

More sentences are stated in the modules and have counterexamples, but no run of their own.
To see one, make the definition the only INVARIANT or PROPERTY of the cfg named.

| Definition | cfg | The sentence | The behaviour |
|---|---|---|---|
| `OneAttemptPerRoute` | `Scheduler` | `docs/CONFIGURATION.md:767` "one resolution makes at most one attempt per route" | the truncation retry asks a stream route that was already started |
| `TransientNotRemembered` | `Resolver` | `error.rs:173` "A transient failure must not enter the failure cache" | `refresh` publishes every error as lasting, and a client following it records it |
| `ConsecutiveCounts` | `Resolver` | `cache/mod.rs:259` "Number of consecutive failures" | the lookup removes the lapsed entry before its streak is read |
| `MissesShareOneFetch` | `Resolver` | `cache/singleflight.rs:3` "exactly one upstream operation" | a flight ends between a client's lookup and its join |
| `OneHalfOpenProbe` | `Coordination` | `upstream/health.rs:518` "only one half-open probe at a time" | two resolutions rank the route before either reserves |
| `EvictsWhatItExamined` | `Coordination` | `cache/mod.rs:510` "cannot delete an answer it never examined" | an insert between the check and the removal |
| `NewerLeftAlone` | `Coordination` | `cache/mod.rs:489` "is left alone" | an insert between the read and the write |
| `VerdictStaysWithItsAnswer` | `Coordination` | `dns/resolver.rs:596` "an early Secure verdict cannot bless one" | the fingerprint is that of the answer section, so a verdict on one denial applies to another |
| `CondemnedIsGone` | `Coordination` | `dns/resolver.rs:490` "served at most once and never again" | the eviction comes before the insert |
| `IncompleteIsNotBogus` | `Fetch` | `policy/dnssec.rs:25` "must not fail closed on its own" | the marks of an incomplete pass are read again, as a verdict |
| `FullTakesNobodyNew` | `Ingress` | `dns/ratelimit.rs:5` "when the table is full, new clients share the global budget only" | a full table is rotated and the new client gets a limiter of its own |
| `LifetimeIsHard` | `Ingress` | `config/mod.rs:325` "Hard ceiling on connection lifetime regardless of activity" | the lifetime ends the reading; a writer whose client takes nothing is waited for |
| `StaleTtlIsFixed` | `Ingress` | `docs/RFC_COMPLIANCE.md:336` "the stale TTL handed to the client is a small fixed value (default 30 s)" | the TTL is also capped by what is left of the authority's, which is 0 for a stale entry |
| `TableBounded` | `Ingress` | `dns/ratelimit.rs:131`, twice the capacity | a client of the older generation enters the newer one unchecked |
| `GoesWhereTheRuleSays` | `Ingress` | `docs/CONFIGURATION.md`, Precedence: the rule's group | the rule is read twice, and the second read may find another |
| `MarkerOnWholeLabels` | `Ingress` | `dns/specialuse.rs` "never on string suffixes" | `is_loop_marker` compares the end of the text |
| `ProxiedRoutesCarry` | `Lifecycle` | `upstream/pool.rs:306` "no proxy implemented here carries them" | `is_stream` counts DoQ and DoH3 as streams, so their routes are offered on proxies |
| `ReloadTakesEffect` | `Lifecycle` | `config/reload.rs:3` "either takes effect completely or is refused" | two reloads interleave their stores |
| `OutageIsRecognised` | `ProbeEngine` | `probe/engine.rs:30` "the engine detects the pattern and downgrades new observations to indeterminate until it recovers" | a timeout is held against its address and is not counted, so an outage that shows as timeouts is never detected |
| `ShutdownIsQuiet` | `ProbeEngine` | `probe/engine.rs:160` "rather than leaving them" | a supervised engine is dropped before its drain |
| `EvidenceOfThisPath` | `Steering` | `docs/adr/0010-preserve-before-augment.md:34` "The network generation has not changed since the evidence was gathered." | a probe that runs through the change reports a success, which is counted after the old claims were cleared |
| `PoolInsideSnapshot` | `Steering` | `cloudflare/candidates.rs:382`, unusable immediately | an admission that read the old snapshot follows the revalidation |
| `CacheNeverShrinks` | `Steering` | `tasks/cloudflare.rs:125`, the validation a refresh has to pass | the cache is compared with no snapshot |
| `OnlyDamagedAside` | `Process` | `storage/mod.rs:150` "A corrupt database is renamed aside" | so is a sound one whose opening failed for any other reason, such as a full disk or a lock |
| `ShutdownIsBounded` | `Process` | `bin/egressdnsd.rs:498` "the unit is stopped by our own bounded wait" | the runtime is dropped after that wait, without a deadline, and waits for a task that does not yield |
| `FlushMeansApplied` | `Process` | `storage/mod.rs:247` "every queued write has been applied" | the last batch leaves the queue before it is applied |
| `CleanMeansStopped` | `Process` | `tasks/mod.rs` `join_all` "zero for a clean shutdown" | a supervisor gives up its child after five seconds, uncounted |
| `InternalTtlDocumented` | `Process` | `docs/CONFIGURATION.md:762` "at most 86400s" | `validate.rs` takes up to a week |

`RunsDocumented` states the rows of "Validation rules" that relate several fields. Three
rows say more than the code checks and are not in it: the ceiling of `internal_max_ttl`
above, a non-empty `allow_from`, and `allow_special_use_targets`. Two values the tables
offer are never accepted: `trust_upstream_ad = true`, and a `foreground_budget` under 1500.
A `probe.queue_size` of zero passes `validate` while probing is off; the channel is built
anyway (`runtime/mod.rs:159`) and panics, which is why `Start` requires a positive one.

## Fairness

Only liveness properties use it, and it asks no more than the executor and the timers give.

- A leader publishes: its fetch is bounded by a budget, and its drop publishes too. Sending,
  receiving and recording are steps of a running task. Every wait of a resolution ends by a
  timeout if by nothing else.
- `Rank(a, TRUE, FALSE)` is fair: open periods end and queries keep arriving, though no
  query need find a route its group's last resort.
- In `Ingress` a connection's tasks are scheduled and a resolution ends by its budget.
  `StopReading` is strongly fair, because the connection's lifetime is looked at before each message.
  Nothing makes a write end: `ConnectionsMoveOn` is about connections whose client goes on
  taking bytes, or fails, and says so in its premise.
- In `Lifecycle` the blocking jobs and the periodic task run. Nothing makes a reload happen.
- In `ProbeEngine` every stage of a probe has a timeout, and the drain has its ten seconds.
- In `Steering` the updater runs, since each of its awaits has a timeout.
- In `Supervisor` the supervisors and the waits of `main` have deadlines, `main` goes on to drop
  the runtime and to exit when nothing runs, and a task that is not blocking yields. A blocking
  task, the worker and the disk owe nothing.

Nothing assumes that a follower's own timer fires, that an exchange or a probe succeeds,
that a task is not cancelled, or that a file can be read.

## Proofs

TLC checks the instances above; the theorems hold for every value of the constants that
satisfies the modules' named assumptions. Except for two, every safety property that a passing
run checks has a theorem.

**`CoordinationProofs`**
- Registry of flights: the inductive invariant is `TypeOK /\ EntryIsLeader /\
  NoStaleOutcome /\ NoStrandedFollower`. `OneLeaderPerKey` follows from `EntryIsLeader`:
  two leaders of one key would both be its entry. `NoStrandedFollower` is not inductive
  alone, for an entry must be an unpublished leader when someone subscribes to it. The
  ceiling (`Bounded`) needs the cardinality of a shard's flights to grow by at most one.
- Refinement: `Spec => CoalescingPromise`. A flight is decided when its entry is removed, so
  a follower of a publishing leader already holds the outcome in the abstract state. Each
  action has a lemma that it is a step or a stutter of `Coalescing`.
- Circuit breaker: the invariant is `BreakerTypeOK /\ HoldersAreSending /\ NoLeakedSlot /\
  StreakMatchesCircuit`. `NoLeakedSlot` counts holders, so it needs that only an exchange in
  progress holds. `RecoversInOrder` is an action property proved from it.
- Background validation: a verdict is acted on in two steps, so the invariant follows it
  through both: `HandIsUnproven`, `VerdictIsProven`, `SeenIsExamined`, `SecureIsProven`. All of
  it is up to the fingerprint, which is what the code compares.
  Slots are counted separately (`Conserved`).
- Connections: the bound per client rests on `Counted`: the counter a client has in the map
  is the number of its open connections, and none of them holds one the map has dropped. Who
  is served follows from the access lists. The drain has an invariant of one connection's
  record (`Settled`).
- Rate limiter: `KeepsItsBudget` is not inductive, because a rotation makes the older
  generation's past matter. `OlderHasSeen` says what that past is: a client that is only in
  the older generation has waited for all of the newer one.

**`SchedulerProofs`**
- Permits: `PermitInv` adds to the two properties where an exchange may be
  (`OnlyLiveExchange`). Without it a start or a return would overwrite a permit. Steps are
  sorted by what they do to the set of exchanges (lemmas `Quiet`, `Begins`, `Ends`).
- Errors: `ReportInv` says, at every phase of a resolution, which routes have been tried and
  how each ended. Only with this does the error that is returned last say what was done.

**`AnsweringProofs`**
- Requests: `RequestInv` follows one request through the gate and `CacheInv` says of every
  stored entry what its key was computed from. `GateAssumption` says that names are sequences
  of labels (`Labels`) and that lists are lists. That the most specific rule is found is a
  lemma about the fold that looks for it.
- Shaping: each pure step of `build_response` either keeps the records' times to live or
  lowers them to a cap. For ordering, the lemma is that the result draws its records from
  the answer, group by group. `ShapingAssumption` says that the answers given are lists of
  records with natural times to live.

**`LifecycleProofs`**
- Reloads: `LifeInv` says that every reload in progress, every dataset job and the periodic
  task hold only files that load, and that a reload past its check agrees with the process
  on what is fixed at start.
- Routes: `RoutesAreSound` follows a list of upstreams from its text to the routes. First come
  lemmas on what each operator of `Endpoints` returns: a search of the catalogue finds what is
  there, an entry that parses gives candidates on a host that was written or that the catalogue
  names (`ParseFacts`), a list that desugars gives servers that carry such a candidate
  (`DesugarFacts`), and lookups change addresses only. `BuiltRegistry` is about the routes of any
  such servers. No name is an address (`NamesAssumption`), so a route whose authority is that
  of the adopted gateway comes from a server `expand_auto` has marked. `CatalogAssumption`
  and `RegionsAssumption` are what the tests of `config/builtins.rs` and `config/auto.rs` say of
  the built-in tables; `Names` are the host names a file may hold.

**`ProbeProofs`**
- Evidence: `EvidenceInv` says that a worker past the connection has dialled the address
  of its job, so what it records was measured. `PermitInv` ties each live worker to the
  semaphore it took its permit from, which a resize may have replaced.
- Counted failures: how often a failure that `SubsystemHealth` counts is charged to an address
  after the last answer is bounded by `DamageLimit`, which is quadratic in the number of workers: each worker may undo the
  trip with a late recovery, and after each of these every worker that has not yet
  recovered may add one. `DamageInv` says that what was charged and what can still be charged
  (`Outstanding`) stay within it.

**`SteeringProofs`**
- `ValidationsEarned` is about a pair of host and address, and its invariant about
  the streak of successes of each pair on the path in force. A worker that a change of path finds
  past its look at the generation (`Overtaken`) may still report, once. What is claimed beyond
  the streak is therefore at most the number of workers that are not overtaken (`Slack`): all of
  them once the late ones have reported. `PrefixesNeverCollapse` needs `UpdaterInv`: the snapshot
  a candidate was compared with still stands when the candidate is stored. `AdditionsAreAllowed`
  needs `AnswerInv`: an answer obeys a mode no stronger than that of the configuration it read
  first.

**`ProcessProofs`**
- Fetches: three of the invariants are about entries, but what an entry rests on was decided
  several waits earlier. `FetchInv` says for each step of a fetch who has been heard and what
  the message in hand can be. Validation slots are counted separately (`SlotInv`).
- Configuration: `restart_required` compares a candidate with the live configuration, not
  with the one the process was built from, so the argument is a chain: the two agree on
  every field of every group (`Unmoved`). `StartedIsLive` and `SizedForWhatRuns` follow,
  the second with what `validate` guarantees of one file. `AcceptedIsSound` is a lemma for
  each rule of the table.
- Database: `InOrder` orders what is on disk, in the worker's hands and in the queue by age.
  `AloneWhileOpening` says that nobody else touches the file while it is opened, and `Whole`
  that a version row stands only beside its tables, which is what an opening relies on when it
  skips the migrations. Every kill and every refused statement leaves all three, so an
  interrupted opening can be taken up by the next and the contents never go back.

**`SequenceFacts`** has the lemmas about filters, folds and the joining of lists. The provers cannot apply an
induction theorem that takes an operator, so an induction here is a search for the least
place where the claim fails (`LeastElement`).

Model-checked only:
- liveness under fairness, which is outside the prover's reach;
- `OnlyEarnedChanges` of `AnswerShaping`: it counts how often a record occurs before and
  after a reordering, which would need induction over both lists at once;
- `AnswersNeverGoBack` of `Resolver`: its inductive invariant would relate two caches, the
  registry and every task in flight;
- `InflightConserved`, a sum over connections.

## Not modelled

- **Hot set** (`cache/hotset.rs`) and the latency model of `ranking/`: exponential decay and
  scores in floating point. They choose what is prefetched and which equal route goes
  first; the models take any choice.
- **Administration**, **doctor**, **bench**, **metrics**, the command lines and the
  utilities: request loops and sequential I/O that keep nothing between calls. The
  reloads and overrides that administration starts are actors of `Lifecycle` and
  `Steering`.
- **Connections**: pools, TLS, proxy and QUIC handshakes, and the draining of old pools
  after a reload. To the scheduler and the engine they are exchanges that succeed, fail or
  time out.
- **Probe gate and guard** (`probe/gate.rs`, `probe/safety.rs`): their verdicts are a free
  choice of `ProbeEngine`; the tables behind them are not modelled.
- **Variant sets** of the cache, the hedge budget's counters and `last_reload_error`: lost
  updates there lose an observation, and no property depends on them.
- **Refreshes across a reload**: a prefetch that began before a reload asks with the new
  configuration under the key it had; keys are fixed in `Resolver`.
- **Durations** too long for the clock, such as a connection lifetime whose end cannot be
  represented.
- **Text**: TOML, names, addresses and prefixes, zone records and messages on the wire are
  reduced to what the code tells apart. The contents of database rows are their age.
