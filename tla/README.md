# Malloy Publisher: a verification project

Malloy Publisher serves semantic models over HTTP and MCP. Its core is the
server package, `packages/server/src`: it loads environments and packages from
disk, compiles Malloy models in a pool of worker threads, runs queries
against connections, and materializes (`#@ persist`) sources into warehouse
tables that later queries are routed to. This directory models that core in
TLA+. Paths below are relative to `src/packages/server/src/` unless they start
with `docs/`.

## 1. Inventory

| component | state it keeps | operations | what is hard | what makes it correct |
|---|---|---|---|---|
| Materialization runs (`service/materialization_service.ts`, `storage/duckdb/MaterializationRepository.ts`) | rows of `materializations` (status, active_key, manifest), the in-process table of abort controllers, one background promise per run | create, stop, delete, the build task, `commitManifest`, the catch of `runInBackground`, delete with its package | requests interleave with tasks at every await; a crash loses tasks but not rows; a status is read and written by separate statements | one active run per package; a run that is over has stopped; every run settles |
| Serving what was built (`autoLoadManifest`, `rebindServeBindingsAfterDelete`, `service/environment.ts`, `service/manifest_loader.ts`) | manifest entries of each run, bindings inside the package models, physical tables | build a source, carry one forward, bind, rebind, reload, drop tables | three copies of one fact (table, manifest, binding) changed by different steps | the newest manifest tells the truth about the tables; a model is served only from a table of its own SQL |
| Incremental refresh (`service/incremental_apply.ts`, `incremental_build.ts`, `storage/duckdb/IncrementalLedgerRepository.ts`) | ledger row per physical table, the table itself | plan, seed, delta, advance, reset | the table and the ledger are in two databases, with no transaction over both | the ledger never says more than the table holds; a refresh brings the table up to date without duplicates |
| Package load pool (`package_load/package_load_pool.ts`, `package_load_worker.ts`) | queue, workers, jobs in flight, timers | load, dispatch, spawn, complete, time out, exit, shut down | a worker can die or hang at any point; dispatch waits for readiness | every load settles; no wakeup is lost; the pool is bounded; shutdown ends |
| Package registry (`service/environment.ts`, `service/package.ts`, `controller/package.controller.ts`) | loaded packages, statuses, recorded errors, retired connections, the canonical, staging and retired directories, one mutex per package | get, list, reload, add, unload, install, save, delete | swaps of directories with rollback; errors recorded outside the mutex; connections drained by timers | what is served is what is on disk, or is reported stale; nothing leaks; a refusal changes nothing |
| Environment store (`service/environment_store.ts`, `storage/duckdb/DuckDBRepository.ts`) | environments, recorded failures, database rows with their storage destinations, directories, the configuration file | start-up, look-up, add, update, delete an environment | the rows, the directory and the configuration stand in for each other at a restart; a sync is many statements | the destinations stored are the ones last asked for; what is served is not reported as failed |
| Scheduler (`service/materialization_scheduler.ts`, `cron_evaluator.ts`) | armed schedules with their next fire | tick, arm, fire, prune | ticks may overlap; a missed instant; a conflict with an active run, or with a row that a dead process left; runs and packages deleted | an occurrence is run once and none is skipped, across restarts, failed fires and deletions |
| Query slots, memory governor, health (`query_concurrency.ts`, `service/package_memory_governor.ts`, `health.ts`, `server.ts`) | active queries, back-pressure flag, readiness, two servers with their connections | acquire, release, sample, drain, shut down | double release, a limit that changes, SIGTERM during start-up, a connection that stays open | the count is exact and slots come back; not ready once draining; nothing is cut off; the shutdown ends |
| Watch mode (`controller/watch-mode.controller.ts`) | one watcher, a chain of starts, events under way | start, stop, reload on change, message to the pages | a stop during a start; edits faster than reloads | no orphaned watcher; the last edit is the one shown |
| Embedding index (`mcp/tools/embedding_index.ts`) | rows of vectors, sync meta with its mutex and generation, a memo per package instance | background sync, search with heal, delete with the package or the environment | a search decides over several statements while syncs write; a meta replaced while others wait on its mutex | a semantic answer is from a whole index; a memo is true; one writer |
| Build session, `storage=` tier (`service/materialization_build_session.ts`, `incremental_storage.ts`) | attachments and catalogs of a destination | attach, build, seal | partial failure across two engines | as for serving |
| Query execution, models, authorization, gates, pre-aggregation, build plan, dashboards, themes, MCP tools, connections, HTTP routes, configuration | mostly local to a request | | results depend on data and on a compiler, not on an order of steps | |

How they interact: a create request of a materialization starts a task, which
compiles its plan from the package registry's loaded package, writes warehouse
tables, commits a manifest to its row and reloads the package with it; a reload
goes through the load pool; a package that loads again asks the materialization
rows for its bindings; the scheduler creates runs; deleting a package deletes
its rows; the health module shuts the load pool down.

The other packages of the monorepo (sdk, app, cli, python-client, skills,
create-malloy-package, hammer, examples, e2e, docker) are clients, tests or
packaging and are not modelled. Every component, with the reason when it is left
out, and every hazard with its line are in `PROJECT.json`.

## 2. Plan

Written, in this order:

1. `MaterializationStatus`, `MaterializationRuns`, and above it the abstract
   `MaterializationLifecycle`, which `MaterializationRuns` is shown to implement;
2. `PackageLoadPool`;
3. `MaterializedServing`, which takes from `MaterializationRuns` that one run is
   active at a time and looks inside the run;
4. `IncrementalRefresh`, one source of such a run;
5. `EnvironmentPackages`;
6. `EmbeddingIndex`;
7. `MaterializationScheduler`;
8. `EnvironmentStore`;
9. `ServerLifecycle`: query slots, memory governor and health;
10. `WatchMode`;
11. `MaterializationRunsProofs`, `MaterializedServingProofs`,
    `EnvironmentStoreProofs`;
12. `PackageLoadPoolProofs`, `EnvironmentPackagesProofs`, `EmbeddingIndexProofs`,
    `IncrementalRefreshProofs`, and `ServerProcessProofs`, for what a process has one
    of: `ServerLifecycle`, `WatchMode` and `MaterializationScheduler`.

To come, most important first:

1. `EnvironmentPackages`: restart and the sweep of install directories, the
   database row of a package, `updatePackage`, closing an environment; an
   abstract registry (a package is absent or served at a version; a call either
   takes effect once or not at all) and the refinement;
2. two calls on one name in `EnvironmentStore`, which the store does not
   serialise;
3. two writers of one table in `IncrementalRefresh`, and an abstract refresh (a
   table is a prefix of its source) for it to implement;
4. the build session and the `storage=` tier.

## 3. The modules and the code

Everything runs on Node's event loop, so in each module a step is what one
coroutine does between two awaits, and the modules differ in what an await can
be. The `map` of `PROJECT.json` gives the lines of each definition. Operators
introduced by the word "Variant" are not part of a specification: each is a
definition changed the way a plausible mistake would change it, and shows that
some property depends on that detail. The definitions of `WatchMode` and
`MaterializationScheduler` carry the prefixes `Watch` and `Scheduler`, so that one
proof module can extend several components.

**MaterializationRuns.** `status`, `owner` and `activeKey` are the columns of a
row, `controller` is `runningAbortControllers`, `task` is where the promise of a
run is, `build` what it has done with each source, `client` the requests in
progress. A step is one database statement with the code up to the next await:
`DuckDBConnection` serialises statements with a mutex. A transition is three
steps, its read, its write and the read-back of `repo.update`. The unique index
on `active_key` is in `CreateInsert`. `Crash` keeps the rows and loses the rest;
`DbFault` makes any statement of a task throw; `PurgePackage` deletes the rows of
a package under its tasks. The build of a source is one step here.

**MaterializationLifecycle.** What the API promises of the rows: one active run
per package, transitions along `VALID_TRANSITIONS`, deletion of settled records.
The refinement mapping is the identity on `status` and `owner`.

**MaterializedServing.** `disk` and `mem` are the SQL of each source in the
directory and in the loaded models, `table` and `staging` the SQL that populated
each physical table, `rows` the manifests, `bound` the entries the models are
bound to. The content address of a source stands for its SQL. A build is Stage
(CTAS), SwapDrop and SwapRename; a deletion reads, drops tables one by one,
deletes the row and rebinds. What a behaviour may contain is its `regime`, chosen
by `Init`, so that a single run covers the combinations of events, each property
saying which events it holds under.

**IncrementalRefresh.** `table` counts the copies of each row (the lineage that
computed it, its key, its watermark), `source` is the data, `ledger` the recorded
boundary, in the local store or held by the caller. A run plans, then either
applies a delta of the half-open range and advances the boundary, or resets the
boundary, rebuilds through a staging table, probes the new maximum and advances.
Merge and range_replace, time and number watermarks, faults of both databases
and crashes at every step are regimes.

**PackageLoadPool.** `queue`, `inFlight` and `ready` are the pool's fields, `job`
follows each load, `life` each worker thread, `answer` what a worker has done.
The continuation of `await pw.ready` is a microtask: it runs before the loop's
next event (`LoopIsFree`), though not before its caller's own code. Workers boot,
answer, hang and die without any assumption of progress.

**EnvironmentPackages.** One package name. `packages`, `status`, `failed`,
`stale` are the four maps, `canonical`, `staging`, `previous` the trees, `queue`
the mutex with its waiters, `handles` and `draining` the connections. The tree of
a package is a number. What follows I/O is an event of its own; what follows the
release of the mutex, in the caller (`Record`, `Validate`) and in the next waiter
(the `Enter` actions), are microtasks that run in either order before it.
`disk` says whether file operations may fail. `found` and `forgotten` are
history.

**EmbeddingIndex.** One package name. `rows` is its part of `entity_embeddings`,
`live` the entry of `syncMeta`, `gen`, `holder`, `waiting`, `cooling` and
`suppressed` the fields of each meta ever minted, `memo` the `syncState` of each
`Package` object. A step is one statement, or one answer of the provider, with
the code after it: a sync plans, embeds and writes; a search embeds, scans,
looks at the mutex, counts stale rows, heals if there are any, and compares the
generation; a deletion takes the mutex, deletes, and repeats while the entry of
the map is another meta than the one it locked.

**MaterializationScheduler.** `entry` is the map of `ScheduleState`, `tick` the
sweeps in progress, cut at their two awaits (the look-up of the newest recorded
fire, the creation of a run). `records` are the rows of scheduled runs that
`publisher.db` holds, each with the time of its creation and of its sweep; `run`
is the active row of each package, *live* while a task of this process works on
it, *dead* when none will: a restart, or a failure whose write fails, leaves it so
until an operator stops it. Runs are deleted one by one and with their package,
and the first arm looks at what is left. A fire creates, coalesces with a live
run, is refused by a dead row, or fails; packages that are not followed take
fires of a sweep too (`FiresAnother`), so the cap bites with one package. Cron
expressions are abstract: `NextAfter` is a parameter, assumed monotone and later
than its argument. `settled` (up to when occurrences are accounted for),
`refused` (armed past a fire that a dead row refused) and `raced` (owed by two
sweeps of the process at once) are history.

**EnvironmentStore.** One environment name. `row`, `stored`, `dir` and `config`
survive a restart; `loaded`, `dests`, `authoritative` and `failed` are the
process's. A call is cut at its awaits: adding mounts the directory, enters the
environment in the map, writes the row, upserts the destinations one by one and
prunes the rest if the list in memory is the desired state; a boot reads the
rows, with the configuration as a stand-in. `asked`, `lapsed`, `unread` and
`torn` are history: what was last asked for, and what happened since that excuses
a difference.

**ServerLifecycle.** `active` and the `handle` of each request are
`query_concurrency.ts`, `operationalState`, `ready` and
`preGracefulShutdownCompleted` are `health.ts`, `backpressured` is the governor,
`server` the REST and the MCP server, `shutdown` how far the SIGTERM handler is.
A request goes through the middleware, the look-up that waits for the
initialisation, and its query; its connection closes at any time, which is a
second release of its slot.

**WatchMode.** `watcher` and `watching` are the controller's fields, `open` the
watchers that hold handles, `chain` is `setupChain`. The events of a watcher go
from the file system to the reload and to the message to the pages. `missed` and
`overtaken` are history.

## 4. The runs

| run | instance | properties | shows |
|---|---|---|---|
| `runs_faults` | 2 runs, 2 packages, 2 sources, 2 clients, crashes, database faults, purges | `SingleActive`, `OverMeansStopped`, `KeyMarksActive` | one active run per package, a run over has stopped, the key marks the active row |
| `runs_lifecycle` | 2 runs, 1 package, 1 source, 2 clients, no faults, fair | `SingleBuilder`, `ImplementsLifecycle`, `RunsSettle` | one builder at a time; the service implements the abstract lifecycle; every run settles |
| `pool_safety` | 3 loads, 2 workers, fair | `InFlightIsRunning`, `NoStrandedJob`, `LoadsSettle`, `ShutdownCompletes` | the books agree, no load is stranded, loads settle, shutdown ends |
| `serving_safety` | 2 sources, 2 addresses, up to 3 runs, five regimes | `OrderlyManifestHolds`, `ServesItsSql`, `BoundIsLatest`, `BoundIsRecorded`, `StagingReclaimed` | the newest manifest holds while the regime is orderly; bindings follow records; staging tables go away |
| `incremental_safety` | 2 lineages, 2 keys, times 1..3, twelve regimes | `SoundNeverLeads`, `RefreshIsCurrent`, `UniqueKeys` | the boundary never leads the table; a finished refresh is current; no duplicate keys |
| `packages_safety` | 2 calls at a time, 5 in all, 3 trees, a sound and a failing disk, fair | `ServesDisk`, `MapsAgree`, `HandlesAccountedFor`, `NothingLeftBehind`, `RefusedChangesNothing`, `CallsReturn` | the served package is the one on disk or stale, the maps agree, no handle or directory is lost, a refusal changes nothing, calls return |
| `embedding_safety` | 2 instances, 2 facets, 2 texts, 2 models, 2 vector lengths, 2 syncs, 2 calls at a time, 4 in all, 2 metas, faults | `AnswersAreWhole`, `MemoTellsTruth`, `OneWriter`, `MutexIsOwned` | a semantic answer is from a whole index, a trusted memo is true, writers exclude each other |
| `scheduler_safety` | 1 package, 2 schedules, 2 sweeps at a time, 1 fire per sweep, times 0..2, faults, deletions, restarts | `NothingSkipped`, `OneRunPerOccurrence` | no occurrence is lost but to a dead row; none is run twice but by two sweeps that owe it |
| `store_safety` | 2 destinations, 6 calls, restarts or edits, faults | `AskedAreStored`, `OnlyAskedAreStored`, `FailedIsAbsent` | the destinations stored are the ones last asked for |
| `store_lost` | the same | `AskedAreNeverLost` | *violation:* a look-up after a failed restore deletes them |
| `server_safety` | 2 queries, 1 stream, 1 tool, caps 0 and 1, fair | `SlotsAreExact`, `SlotsAreReturned`, `NeverReadyAgain`, `NothingIsCutOff`, `ShutdownEnds` | slots are exact and come back; the shutdown is orderly and ends |
| `watch_safety` | 2 environments, 2 starts, 1 stop, 3 watchers, 2 edits each | `NoOrphan`, `LastEditIsShown` | no watcher is orphaned; the last of quick edits is the one shown |

*Bounds.* Two of a kind (runs, sources, addresses, lineages, keys, calls) is what
an interference needs; a third run in `serving_safety` is needed because a
deletion between two runs shows in what the third carries forward, three loads
over two workers because a load must wait for a worker, three times so that a
range has an interior and two ends. Five calls in `packages_safety` allow a
load, a failed reload and two calls that race after it. Two metas in
`embedding_safety` are what a deletion and a later load mint; with four calls two
searches can heal and two deletions follow. In `scheduler_safety` two sweeps of
one package are what an overlap needs; packages meet only in the cap, which the
fires of others stand for; and times 0..2 hold a fire, an occurrence missed after
it and the sweep that recovers it. Six steps from outside
in `store_safety` allow a list, a restart, an edit of the configuration, another
restart, a look-up and a deletion. A cap of one in `server_safety` is contended by
three requests, a cap of zero takes no slots, and the cap changes under them. The
bounds are guards on starting something new (`MaxRuns`, `MaxTime`, `MaxCalls`,
`MaxTrees`, `MaxWatchers`, `MaxEdits`), never on finishing it.

*Deadlock.* Where a configuration says `CHECK_DEADLOCK FALSE`, a behaviour ends
because the bounded requests are used up.

*Symmetry* is used for invariants and action properties only, over sets of model
values that the specification neither orders nor chooses from.

*Fairness.* `MaterializationRuns`: a task and a request in progress go on, since
each await is on a statement of a local database; nothing is assumed of requests
arriving. `PackageLoadPool`: only what the main thread owns is fair (its
microtasks, its timers, the exit event after `terminate()`); a worker may hang
for ever. `EnvironmentPackages`: a call in progress goes on, which needs a
download, a load and a file operation to end; loads end because the pool settles
every job (`LoadsSettle`), and the mutex is first come first served.
`ServerLifecycle`: timers and callbacks that are due run, and a connection closes,
by its client or by the 600 s socket timeout of `server.ts`, except a live-reload
stream, whose 25 s heartbeat keeps its socket busy; nothing is assumed of requests
or of the initialisation. The other modules state no liveness.

## 5. The proofs

`MaterializationRunsProofs` (for any runs, packages, sources and requests, from
`NoPackageAssumption` alone):

- `TypeCorrect`, from `TypeStep`.
- `OneActiveRun` and `OverIsStopped`, from the inductive invariant `IInv`. The
  properties are not inductive: whether a write keeps a row's key right depends
  on where the task and the requests are. `IInv` adds that a row's status is one
  its task can be at (`RowOfTask`, with `Fits`), that a task runs exactly while
  its controller is registered (`ControllerOfTask`), and what the rows look like
  that a run owns or a request has read (`RowOfOwner`, `RowOfRequest`).
- `OneBuilder`: while packages are not purged, one task at a time builds.
- `Refinement`: without database faults, `Spec` implements
  `MaterializationLifecycle`. `IInv` makes the unchecked writes of the catch and
  of a stop steps along `VALID_TRANSITIONS`.

`MaterializedServingProofs` (for any sources, addresses, runs and regimes, from
the assumptions on `NoTable`, `MaxRuns`, `Regimes`):

- `ServingTypeCorrect`.
- `ManifestTellsTruth`: in an orderly regime (builds and reloads may fail, models
  change, superseded records are deleted, but no run is stopped or dies half way)
  every entry of the newest manifest names a table populated from that SQL. The
  inductive invariant `Strong` says it in the middle of a build too: what the
  build vouches for is in the tables (`OkHolds`), and is apart from what it has
  still to write (`PendingApart`, `StagedTarget`, `TouchedIsBuilt`); the row being
  built is the last (`RowsInOrder`), so committing makes it the newest; and a
  deletion takes nothing the newest manifest names (`DeletesSuperseded`).

`EnvironmentStoreProofs` (for any destinations and number of calls, from
`BoundsAssumption`):

- `StoreTypeCorrect`; `ServedDidNotFail`.
- `NoDestinationIsLost` and `NoDestinationComesBack`, from one inductive
  invariant. At rest the two properties are about the rows; in the middle of a
  call what was asked for may be in the payload, or in memory and about to be
  written. `Keeps` says that it is in the rows, or in an authoritative list from
  which nothing can be pruned before it was written; `Only` that what was not
  asked for is not in memory, and leaves the rows by the prune that an
  authoritative list brings; `Control` and `FallbackIsUnread` say which of the two
  applies at each await.

`ServerProcessProofs`, of `ServerLifecycle` (for any requests and caps, from
`RequestsAssumption` and `LimitsAssumption`):

- `ServerTypeCorrect`; `ShuttingDownIsNotReady`.
- `SlotsStayExact` and `SlotsComeBack`, from `SlotInv`: a request asks for a slot
  while it has none (`NoSlotYet`), and only a tool asks after its look-up
  (`FoundIsTool`). The cardinality facts are those of `FiniteSetTheorems`.
- `ShutdownCutsNothingOff`: past the servers all are closed (`LateIsClosed`), and a
  closed server has no connection (`ClosedIsIdle`).

of `WatchMode` (for any environments, requests, edits and number of watchers):

- `NoWatcherIsOrphaned`: the start that runs is the first of the chain
  (`RunningIsFirst`), so between its close and its new watcher nothing else is
  opened (`ClosedIsAlone`), and what a stop is closing is never reopened
  (`StoppedIsClosed`).
- `WatchTypes`, and `LastEditAlwaysShown` from `WatchInv`: the last edit of a
  watched environment is served and shown or still `OnItsWay`. That is true of a
  set of events, not of one: some event has still to read the package, or every
  reload under way has read the last edit, or that is served and the pages know
  or are being told. The first case covers the reload of an older edit that ends
  late: it holds the package's mutex, so the event of the last edit still waits.

of `MaterializationScheduler` (for any packages, schedules, caps, clock and number
of sweeps at a time, from `CronAssumption`, which is the monotony of `nextAfter`):

- `SchedulerTypes`, however sweeps overlap; it needs `PackageInHand`, that a sweep
  advances only a state object that is in the map under the schedule it read.
- `NothingIsSkipped`, from `SafeInv`: the next fire is not after the first
  occurrence past what is accounted for. It turns on the order of the clock, the
  rows and the sweeps (`BooksInOrder`): no row is newer than what is accounted for,
  which is what lets a first arm count from any row that deletions left.
- `OccurrencesRunOnce`, from `OnceInv`: for a package that was not raced, only one
  sweep owes it (`OneOwes`), its next fire is not before the first occurrence past
  any row (`NotTooSoon`), and a sweep about to fire is past that occurrence too
  (`DueAnew`). Deletions only take rows away, and a restart, which forgets the
  sweeps, begins without races.

`PackageLoadPoolProofs` (for any finite set of jobs, any workers and caps):

- `PoolTypes`; `InFlightAlwaysRunning` and `NeverStranded` from `PoolInv`. Its
  parts speak of the queue, the jobs and the workers as arguments, because
  `tryDispatch` runs inside other steps, on what they have changed already: what
  is queued is so in both books (`QueueIsQueued`), a job has a worker from its
  dispatch on (`Assigned`), the two properties (`BooksAgree`, `Attended`), and a
  worker was spawned for some job (`Spawned`), so there are no more workers than
  jobs and a spawn finds an identifier (`RoomForOne`, by cardinalities).
- Two action properties that no run lists: `LoadSettlesOnce` (no late answer,
  timeout or exit settles a load again) and `ShutdownOnlyLosesWorkers`.

`EnvironmentPackagesProofs` (for any number of calls and trees):

- `PackagesTypes`, `AlwaysServesDisk`, `AlwaysMapsAgree`, `AlwaysHandlesAccounted`,
  `AlwaysNothingLeft`, and the action property `AlwaysRefusedChangesNothing`. The
  properties speak of a free mutex or of a quiet registry. `PackagesInv` says what
  holds in between, for the call that has the mutex (`Alone`): for each of its
  phases, which of the canonical, staging and previous trees is the one it found,
  which the one it brings, what the maps say meanwhile and what it owes to
  `handles` and `litter` (`Phase`). `Exclusive` and `Owned` say that nobody else is
  in such a phase and that a call without the mutex owns nothing but its staging
  directory.

`EmbeddingIndexProofs` (for any instances, facets, models, callers and metas):

- `IndexTypes`, `MutexStaysOwned`, `WriterStaysAlone`, `MemosTellTruth`,
  `AnswersStayWhole`, from `IndexInv`. Its core is one relation between a meta's
  generation and the rows: a sync, a heal or a search that carries the generation
  of the live meta knows what changed since it planned or scanned (`SyncPhase`,
  `MemoPhase`, `CallPhase`). `Moves` says what any step may do to metas, rows and
  generations, and what a generation vouches for (`Valid`) survives any move. A
  section is entered only under the entry of the map (`WriterInv`), which is why a
  deletion that waited looks at the map again before it deletes.

`IncrementalRefreshProofs` (for any lineages, keys, times and data):

- `RefreshTypeCorrect`, `LedgerNeverLeads`, `RefreshAlwaysCurrent`, `KeysStayUnique`,
  in the regimes of `Sound`. `Strong` says of the recorded boundary, of the entry a
  run holds, of the delta it is about to apply, of the staging table and of a
  probe under way what the table contains below them (`Vouched`, `DeltaInv`,
  `StagedInv`, `ProbeInv`): each is a promise about the data then, kept because
  nothing arrives in the data below what a run has reached (`WorldMoves`).

Further, in `MaterializationRunsProofs`, `KeyAlwaysMarksActive` follows from `IInv`;
and in `MaterializedServingProofs`, `StagingAlwaysReclaimed`, `BoundAlwaysRecorded`,
`BoundAlwaysLatest` and `AlwaysServesItsSql` follow from `ServingInv`, which adds to
`IInv` what holds whatever fails (rows are in order, a deletion that is under way
has settled what it takes), and one conjunct for each property with the events it
excludes: `StagingInUse`, `BindsRecords`, `BindsLatest`, `BindsTruth`.

The inductive invariants of `MaterializedServing`, `IncrementalRefresh` and
`MaterializationScheduler` were first checked by TLC, part by part, on instances
whose regimes contain every event the part allows. That and the proofs changed
the models in three places: `BoundIsRecorded` held only because no regime of its
run has both a host and deletions, and now says so; sets that must be finite or
not empty are assumed so (`JobsAssumption`, `ClientsAssumption`,
`NamesAssumption`); and the package of an idle sweep is no package
(`NoPackageAssumption`), where a chosen one would have broken the symmetry.

Model-checked only: liveness and fairness (`RunsSettle`, `LoadsSettle`,
`ShutdownCompletes`, `CallsReturn`, `ShutdownEnds`), which the prover does not do.
Every other property of a passing run is a theorem. Two have a condition that
their runs have too: no package is deleted (`SingleBuilder`), no statement of the
database fails (`ImplementsLifecycle`).

## 6. Where code and documents disagree

`store_lost` has its finding in `PROJECT.json`. The following disagreements are
found by TLC in the same way, as a violation of a property that is defined in
its module, with the constants of the run of the module except where noted:

- Two builders of one package. `deleteByPackage` removes the active row, and with
  it the key, without telling the task; a package added again starts a second
  task. `storage/duckdb/schema.ts:201`: "the single writer is already guaranteed
  by the active_key unique index". (`SingleBuilder`, `runs_lifecycle` with
  `Purges = TRUE`, one client.)
- Two loads on one worker. `dispatchToWorker` awaits readiness before it registers
  the job, so the worker is offered again meanwhile. `package_load_pool.ts:37`:
  "Per-worker active job cap = 1." (`OneJobPerWorker`, two loads.)
- A failed source is bound. `autoLoadManifest` (1480) lacks the
  `isLegacyFailedEntry` filter of the two other rebind paths.
  `manifest_loader.ts:141`: "Binding it serves the prior generation as though it
  were fresh, so it is dropped". (`FailedEntryUnbound`, `MaxRuns = 2`,
  `Regimes <- FailedBuild`.)
- A stopped run leaves a table that the newest manifest misdescribes, and that a
  later run carries forward. `docs/materialization.md:312`: "a materialized table's
  identity is a content address". (`ManifestHolds`, `MaxRuns = 2`,
  `Regimes <- StoppedRun`.)
- A rebuild outside the delta path leaves the boundary of the previous SQL.
  `incremental_apply.ts:325`: "it must never LEAD it". (`NeverLeads`,
  `Regimes <- Undeclared`.)
- A load failure recorded after its package was deleted stays. `environment.ts:2869`
  says a leftover is "the one thing that channel must not do".
  (`DeletedIsForgotten`, `MaxCalls = 2`, `MaxTrees = 2`.)
- A search answers without the rows it skipped, when a sync that started after
  its look at the mutex rewrote them. `embedding_index.ts:1240`: "this catches the
  in-flight ones". (`SkippedRowsAreHealed`.)
- Overlapping sweeps fire an occurrence twice: both find it due, the run of the
  first ends, and the second fires too. `docs/materialization.md:277`: "fires
  exactly one catch-up". No occurrence is lost that way. (`OneRunPerOccurrence`
  without its exception `raced`.)
- A row that a dead process left active refuses every fire as a conflict, and the
  scheduler arms for the next occurrence as if a build covered it, until an
  operator stops the row. `docs/materialization.md:277`: "rather than skipping it";
  280: "the in-flight build covers the occurrence". (`NothingSkipped` without its
  exception `refused`; the row may come from `Restart` or from `RunIsLost`.)

Met while modelling, and not expressed as a property:

- `docs/configuration.md:94` says `SHUTDOWN_GRACEFUL_CLOSE_TIMEOUT` is the "Time to
  wait for in-flight requests to drain before forcing close"; no close is ever
  forced, so an open live-reload stream keeps the process alive (`ShutdownEnds`
  excepts it). The MCP server has no draining guard.
- A stop of watch mode that a start overtakes forgets the new watcher
  (`NoOrphan` excepts it); a reload that back-pressure refused is not tried again.
- Deleting the newest scheduled run moves the anchor of the next first arm back
  to an older one, or to none: an occurrence that the deleted run was for fires
  again, or those since are not recovered. `OneRunPerOccurrence` speaks of runs
  still recorded, and `NothingSkipped` counts what precedes an arm without a
  record as given up.
- A schedule that is removed and set again may fire at the tick that arms it; the
  cap takes packages in a fixed order, so the last may wait for ever.
- `getEnvironment` replaces the mutex of a name, so two look-ups that wake from one
  lock both create the environment; the directory of a deleted environment is
  removed after the map has forgotten it, also under a new one of that name; a
  deleted last environment comes back from the configuration at the next start; a
  boot without the directory stores again a destination that was removed. A stored
  destination that fails validation at a boot (`environment.ts:1076`) is left out
  of the list in memory, which still counts as the desired state, so the next sync
  prunes its row; in `Restore` every stored destination is valid.
- A restart leaves PENDING rows that no task will settle and that refuse every
  later create until an operator stops them (`materialization_service.ts:3879`);
  `RunsSettle` is checked without crashes.
- A stop that lands during the last source is answered 200 and ignored; a fault
  in the read-back after publishing overwrites MANIFEST_FILE_READY with FAILED.
- Deleting the newest record binds the manifest before it, over the table the
  deleted run replaced; dropping tables races a run that carried one forward, whose
  manifest then names a table that is gone; a build that stops between its DROP and
  its RENAME leaves no table. `BoundIsRecorded` compares bindings with records and
  sees neither.
- Between the RENAME of a build and the reload after it the loaded models of the
  previous SQL read the new table. `ServesItsSql` exempts the tables of a run for
  that time, so it says nothing of it.
- `docs/materialization.md:304` says `--drop-tables` drops every table; the code
  skips those other records name.
- `reloadAllModelsForPackage` does not look at `manifestLocation`
  (`environment.ts:2195`, compare 1670), so a load binds a package whose manifest a
  host distributes to its local records; the rebind after a deletion skips such a
  package (`environment.ts:2292`), and the deleted record's entries stay bound.
  `materialization_service.ts:3596` calls that rebind "so serving never points at a
  removed table". (TLC shows it for `BoundIsRecorded` without its `host` clause.)
- If both ledger writes of a rebuild are lost, or a caller answers a refused
  entry with reseed and keeps it, the boundary can lead (`incremental_build.ts`
  343, 385-395).
- A load submitted between a worker's timeout and its exit event is given to
  that worker; a failed spawn rejects its load where the header of the pool says
  it is queued again.
- `unloadPackage` (`environment.ts:2976`) says its only caller evicts a package
  that `addPackage` just created; `addPackage` also returns one that was loaded
  already, and another call may have replaced it.
- A rolled-back save says nothing changed; when the load after it fails, the
  refused text is still served, reported stale.
- An install whose rollback cannot rename the old tree back drops the package
  but keeps its stale-compile entry; a package that its validator refused, or
  whose load failed, is dropped with its connections open.
- A crash between the two renames of an install loses the package: the sweep at
  the next start deletes `.retired`.

## 7. Not modelled

What Malloy compiles to and what queries return; formatting, routes, metrics and
logs; the control plane that drives orchestrated builds, beyond the manifests and
ledger entries it sends; the `storage=` tier's own steps; within
`EnvironmentPackages`, the governor's refusals (they come before anything
changes), `mountErrors` (set once, cleared with the other errors), the binding of
manifests (in `MaterializedServing`) and edits of a directory from outside;
ranking and chunking in the embedding index; connection rows and package rows of
the environment store.

Most of the repository's lines have no state to model. `service/model.ts`,
`connection.ts`, `incremental_policy.ts`, the gates, the pre-aggregation planner,
the dashboards and the MCP tools turn one input into one output, by way of the
Malloy compiler and of SQL dialects: a model of them would restate text
processing. The SDK, the app, the clients and the load tests run outside the
server. The modules cover the code that keeps state between requests.
