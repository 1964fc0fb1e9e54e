# TLA+ models of the eventnative sources subsystem

This directory holds TLA+ models of the part of eventnative that pulls data
from external sources, of the authorization token service, and of the
server process's start-up and shutdown. The models are checked with TLC. Every module is
translated from the Go code under `src/`. `PROJECT.json` maps each
definition to the source lines it models.

## 1. Inventory of the system

| Component | Code | State it keeps | Operations |
|---|---|---|---|
| Driver Factory | `src/drivers/factory.go` | global map type → constructor | `RegisterDriverConstructor`, `Create` (pure: config → drivers or error) |
| Source Registry and hot reload | `src/unnamed/part_001` (`NewService`, `loadSources`, `updateSources`, `initDrivers`), `src/sources/parser.go` | `Service.sources`: name → Unit{DriverPerCollection, DestinationIds}, behind an RWMutex | initial load; `updateSources(payload)` from the file/HTTP watcher; per-source `initDrivers` |
| Sync orchestrator | `part_001` `Sync` | none of its own. It reads the registry, the destinations service and the lock. | `Sync(sourceId)`: snapshot, resolve destinations, then per collection `Lock` → `pool.Invoke` |
| Worker pool | `part_001` (`ants.PoolWithFunc`, `syncCollection`, `Close`) | running workers (at most `PoolSize`), released flag | `Invoke` blocks when the pool is full and fails after `Release`; `syncCollection` runs `driver.Sync` and then the deferred `Unlock` |
| Distributed lock (external) | `monitorKeeper.Lock/Unlock` | holder per (source, collection), shared by all nodes | grant when free; fail on timeout or lost connectivity |
| Status and log read path | `part_001` `GetStatus`, `GetLogs` | none | snapshot, then one meta-storage read per collection; the first error aborts |
| Pool monitoring | `part_001` `startMonitoring` | `Service.closed`, which it reads without synchronisation | loop: sample the metrics, sleep, stop once `closed` is set |
| Granularity | `src/unnamed/part_002` | none | `Lower`, `Upper`, `Format`, `String` of DAY/MONTH/YEAR/FOREVER periods |
| Authorization tokens | `src/unnamed/part_000` | `tokensHolder`, behind an RWMutex | `NewService` (static, inline, watched or generated tokens), `updateTokens`, token lookups |
| Process lifecycle (wiring) | `src/main.go` | which services exist, which are scheduled for closing and closed, whether a signal came, the exit status | `readInViperConfig`, the `*_JSON` overrides, building the services in order (each failure is `logging.Fatal`), `ListenAndServe`; the signal goroutine: `appconfig.Instance.Close`, sleep, `os.Exit(0)` |

How the components interact. An admin HTTP request calls `Sync`. `Sync`
reads the registry under RLock, then resolves destinations through the
destinations service. For each collection it takes the cluster-wide lock
and hands a `SyncTask` to the pool. A pool worker runs the driver and then
releases the lock. So the lock is taken by one goroutine (the request) and
released by another (the worker). At the same time the resource watcher
calls `updateSources`, which rewrites the registry one source at a time.
`Close` (called at shutdown) sets `closed` and releases the pool while
requests and tasks may still be running. Every server node runs all of
this, and the nodes share only the distributed lock.

`main` builds these services one after the other and schedules their
`Close` on `appconfig.Instance`. A goroutine installed early waits for a
signal, runs `appconfig.Instance.Close`, sleeps three seconds and calls
`os.Exit(0)`, while `main` may still be starting up. The authorization
service is built inside `appconfig.Init`. When its tokens come from a
file or URL, a watcher goroutine fills the token holder concurrently with
the rest of its `NewService`.

Hard behaviour:
- the interleavings of concurrent Sync calls on one node and on several
  nodes;
- the lock crossing from the request goroutine to the worker goroutine;
- the pool blocking while it is full;
- Close racing in-flight Syncs;
- reloads interleaved with reads;
- partial failures (lock, dispatch, meta reads, invalid sources) that must
  stay isolated;
- calendar arithmetic at month and year ends;
- a signal arriving at any point of start-up;
- the token watcher racing the start-up code of the authorization service.

What makes each component correct:
- **Factory:** it fails with the error kind spec.md 4.2 prescribes, in
  the order the spec gives its checks, and otherwise builds one driver per
  collection name, with the type defaulting to the name.
- **Registry:** it holds only valid Units, and after a reload it matches
  the new configuration.
- **Sync, pool and lock:**
  - no two executions of one (source, collection) at the same time;
  - every lock is released once its work is over;
  - every Sync returns;
  - a failure of one collection does not abort the others.
- **Read path:** NotFound for unknown sources, and no partial results.
- **Granularity:** `[Lower, Upper]` is the period of the instant, and
  `Format` names that period.
- **Lifecycle:** a signal ends the process, and the pool the server runs
  sources on is bounded.
- **Authorization:** it serves the tokens the watcher loaded last.

## 2. Modules

### DriverFactory.tla (`drivers.Create`)
`Create(name, cfg)` is an operator. A collection entry is a record with
`kind` "str", "map" or "other". The empty string stands for an absent or
non-string field, which is what `getStringParameter` returns. The operator
keeps the order of the code: the first bad entry returns; then come the
empty-collections check, the empty-destinations check, the constructor
lookup and the constructor failures. The result map is keyed by name, so
the last entry with a name wins. A Driver is abstracted to the collection
type it was built for. `Registered` and `CtorFails` are constants that
stand for the registered constructors.

`MCDriverFactory.tla` makes every input a state: `cfg` ranges over every
configuration of up to two entries. Structured collections take the names
`""`, `a` and `b` and the types `""` and `t`. Bare strings take the names
of the constant `StrNames`. There is one bad entry kind. The source type
is unset, registered or unknown, and destinations are empty or not.

The reference `SpecOutcome` is written from spec.md 3, 4.2 and 7, not from
`Create`. It gives the spec's error kind: ValidationError, then
UnknownSourceType, then DriverCreationError, in the order 4.2 lists the
checks. A collection without a name is a ValidationError, whether it is a
bare string or an object. `SpecKind` maps each error of `Create` to its
kind. The reference does not fix which entry wins when two share a name,
because spec.md 3 only says names are unique. It requires that each
driver be built for the type of some entry of that name.

### SourcesService.tla (`sources.Service` on a cluster)

Registry and reload state:

| Variable | Code |
|---|---|
| `remote` | the payload the watched resource serves |
| `seen[n]` | the last payload node `n`'s watcher passed to `updateSources` |
| `pending[n]` | the sources its `initDrivers` loop has not yet processed |
| `sources[n]` | `Service.sources` |

Pool state:

| Variable | Code |
|---|---|
| `closed[n]` | `Service.closed` together with `pool.Release()` |
| `running[n]` | the tasks on the node's workers, as a bag: one caller can dispatch the same key twice, and the bag keeps both copies |

Lock and caller state:

| Variable | Code |
|---|---|
| `lockOwner` | the distributed lock: which caller's handle holds each (source, collection) |
| `pc`, `src`, `todo`, `cur` | the local state of one `Sync` goroutine |
| `reply` | how the caller's last call returned |
| `multiErr`, `invoked`, `batch` | the collections named in `Sync`'s `multiErr`, those `pool.Invoke` accepted, and the collections of the Unit `Sync` read |

Actions:

| Action | Code |
|---|---|
| `UpdateSources`, `InitDriver` | `updateSources`, and one iteration of `initDrivers` |
| `ChangeRemote` | the environment edits the watched file or endpoint |
| `StartSync` | `Sync` up to its loop: NotFound, EmptyDestinations, or the loop starts |
| `AcquireLock`, `LockFailed` | `monitorKeeper.Lock` succeeds or fails; a failure is added to `multiErr` (`RecordError`) |
| `Dispatch`, `DispatchFailed` | `pool.Invoke` succeeds (only enabled while a worker is free, which models the blocking), or returns ErrPoolClosed |
| `FinishTask` | `syncCollection`: `driver.Sync` with any outcome, then the deferred `Unlock` |
| `GetStatus`, `GetLogs` | the read path |
| `Close` | `Service.Close` |
| `MonitorStop` | the iteration of `startMonitoring` that sees `closed` and breaks |

`Init` is the state `NewService` returns after loading its initial payload
on every node. `monitor[n]` is the state of the node's `startMonitoring`
loop. Its sampling iterations change no modelled state, so they are
stuttering steps. `ParseFromBytes` is `parseFromBytes` of
`src/sources/parser.go`: the payload is `Malformed` or a map of
configurations.

`SyncErrorsPerCollection` is the partial-failure contract of spec.md 4.3
and 8. When `Sync` returns, its error names exactly the collections whose
lock or dispatch failed, and every other collection of the Unit it read
was dispatched.

`ReloadApplied` is the liveness of hot reload. If the resource keeps
serving a well-formed payload, every node eventually finishes
`initDrivers` on it, and each source it accepts holds the new Unit.

### CollectionLock.tla (abstract) and the refinement

`CollectionLock` states what the orchestrator promises about each
(source, collection) key, without nodes, pools or callers' loops.

| Variable | Meaning |
|---|---|
| `holder[k]` | the owner holding the key's lock |
| `runner[k]` | the owner whose execution of the key runs |

| Action | Meaning |
|---|---|
| `Acquire` | a free key is taken |
| `Start` | its holder starts the one execution |
| `Finish` | the execution ends and frees the key (weakly fair) |

`SourcesService` instantiates it as `CL`, with this mapping:
- `holder` ← `lockOwner`;
- `runner[k]` ← the owner of the task of `k` running on any node (`RunnerOf`).

`ImplementsCollectionLock == CL!Spec` is checked in `sync_cluster`. The
concrete steps correspond as follows:

| Concrete | Abstract |
|---|---|
| `AcquireLock` | `Acquire` |
| `Dispatch` | `Start` |
| `FinishTask` | `Finish` |
| all other steps | stuttering |

A lock left held by `DispatchFailed` is an abstract holder that never
starts. The abstract specification allows this, and `lock_leak` reports it.

### Lifecycle.tla (`main` and its signal goroutine)

| Variable | Code |
|---|---|
| `conf` | what the flags, the config file and the environment select: `-cfg` state, `-cr`, the sources section and `SOURCES_JSON`, whether the meta storage is configured, `server.sync_tasks.pool.size`, the version reminder |
| `main` | the pc of `main`: the next group of statements |
| `sd`, `signalled` | the shutdown goroutine, and whether a signal came |
| `created`, `scheduled`, `closedSet` | services built, handed to `ScheduleClosing`, and closed |
| `pool` | the pool the sources service runs on: none, bounded or unbounded |
| `exit` | running, or the exit status |

Each group of statements of `main` is one action: `StartConfig`,
`InstallShutdownHandler`, `StartSyncService`, `OpenMetaStorage`,
`CreateCaches`, `CreateDestinations`, `CreateSources`, `StartUploader`,
`CreateFallback`, `StartReminder`, `Serve`. `StepFails` is the
`logging.Fatal` of a constructor that fails for a reason outside the
configuration, or of `ListenAndServe`. `ReadInViperConfig`, `EnvOverride`
and `NewServiceOutcomes` are operators for `readInViperConfig`, the
`SOURCES_JSON` override, and `sources.NewService` with `loadSources`.
`Signal` is the environment. `ShutdownBegin` and `ShutdownExit` are the
two halves of the signal goroutine, with the three-second sleep between
them. `MCLifecycle.tla` starts from all 1680 configurations of its set.

### Authorization.tla (`authorization.Service`)
`holder` is `tokensHolder`, kept as its set of token ids, or `NoHolder`
for nil. `pc` is the position in `NewService`. `watching`, `remote` and
`loaded` are the watcher and the resource it polls. `NewServiceStart`
covers the reload-interval check and the configuration modes. `CheckEmpty`
is the `IsEmpty` test, which runs without the lock. `WriteGenerated`
writes the default token, also without the lock. `UpdateTokens` is the
watcher calling `updateTokens`.

### Granularity.tla (`drivers.Granularity`)
An instant is a date plus a position in the day: start, mid, or the last
nanosecond. These positions are all that `Lower`, `Upper` and
`Add(-time.Nanosecond)` tell apart. `Date` models `time.Date`'s
normalisation of a day or month one past the end. `Format` is modelled by
the fields the Go layout prints: in a layout `01` is the month and `02` is
the day.

## 3. Runs

| Run | Config | Expect | Checks |
|---|---|---|---|
| factory_contract | MCDriverFactory.cfg | pass | `CreateMatchesSpec` over the 546 configurations whose bare names are non-empty: the error kind and the driver map agree with spec.md 4.2. The mutant `CreateResolvesTypeFirst` moves the constructor lookup before validation, and this run catches it |
| factory_bare_name | MCDriverFactory_bare.cfg | violation | `CreateMatchesSpec` with the bare name `""` added: `Create` accepts a collection with no name |
| sync_cluster | MCSourcesService_live.cfg | pass | `TypeOK`, `SyncErrorsPerCollection`, `SyncReturns`, `ImplementsCollectionLock`, with one caller on each of 2 nodes, pool 1, Close at any time. The refinement implies mutual exclusion across nodes and the release of every task's lock |
| sync_starvation | MCSourcesService_starve.cfg | violation | `SyncReturns` with 2 callers on one node and pool 1 |
| lock_leak | MCSourcesService_leak.cfg | violation | `LockHeldByLiveWork`: Close between Lock and Invoke leaks the lock |
| reload_safety | MCSourcesService_reload.cfg | pass | `CollectionMutualExclusion`, `RegisteredUnitsValid`, `ReloadApplied`, with reloads of two valid, an invalid (no destinations), an empty and a malformed payload, and 1 caller on 1 node with pool 2 |
| reload_registry | MCSourcesService_registry.cfg | violation | `RegistryMatchesConfig`: a removed source stays registered |
| granularity_bounds | MCGranularity.cfg | pass | `PeriodContainsInstant` for all instants of 2019 and 2020 |
| granularity_format | MCGranularity_format.cfg | violation | `FormatNamesPeriod`: the DAY label repeats the month |
| lifecycle_shutdown | MCLifecycle.cfg | pass | `SignalLeadsToExit`: a signal at any point of start-up or serving ends the process |
| lifecycle_pool | MCLifecycle_pool.cfg | violation | `SourcesPoolBounded`: with the pool size unset the server can serve sources on an unbounded pool |
| auth_stale | MCAuthorization_stale.cfg | violation | `WatchedTokensCurrent`: the generated default token replaces tokens the watcher just loaded |

Every property of a passing run has a mutant in `PROJECT.json`. A mutant
is an operator next to the definition it replaces, and it makes the run
fail.

### Findings
- **Lock leak** (`part_001:212`). If `pool.Invoke` fails after the
  collection lock was taken, nothing unlocks it. The collection then stays
  locked for every node until the lock service expires the lock.
- **Blocking Invoke** (`part_001:73`, `:203`). The spec asks that pool
  saturation be rejected with an error. With the ants defaults, `Invoke`
  blocks instead. A Sync can wait indefinitely while it holds a collection
  lock.
- **Reload is a merge, not a replacement** (`part_001:139`). Sources removed
  from the configuration stay registered, and so do sources whose new
  configuration is invalid.
- **`Format(DAY)`** (`part_002:52`). The label is `yyyy-mm-mm`.
- **Unchecked pool size** (`main.go:244`). `server.sync_tasks.pool.size`
  is 0 when unset and reaches ants unchecked. Depending on the ants
  version, start-up then fails or the pool is unbounded. The spec requires
  a positive size whenever a source is configured.
- **Bare empty collection name** (`factory.go:56`). A bare string becomes
  a collection without any check, so `""` registers a driver for a
  collection with no name. spec.md 4.2 requires a ValidationError.
- **Default token overwrites watched tokens** (`part_000:75`). In watch
  mode, `IsEmpty` sees the nil holder. If the watcher loads the configured
  tokens before the generated token is written (without the lock), they
  are replaced. The watcher reloads only on change, so they stay lost
  until the resource changes.

Observations without a run of their own (listed as hazards in
`PROJECT.json`):
- **Duplicate collection names** (`factory.go:95`) collapse into one
  driver, and the last one wins. The spec leaves this case open.
- **Racy read of `closed`** (`part_001:153`). The monitoring loop reads
  `closed` without synchronisation. Whether the write ever becomes visible
  is a question about Go's memory model. A leads-to property under weak
  fairness of `MonitorStop` would hold by construction, so none is stated.
- **Nil token holder** (`part_000:65`). In watch mode `IsEmpty` is called
  on a nil holder. Whether that is safe depends on `TokensHolder`, which is
  outside src. The model takes `IsEmpty(nil)` to be true.
- **Signal during start-up** (`main.go:134`). `appconfig.Instance.Close`
  closes only what was scheduled when the signal came. `main` keeps
  building services during the three-second sleep, and those are never
  closed.
- **Meta storage never closed** (`main.go:203`). Its `Close` is deferred
  in `main`, but every exit is an `os.Exit`.
- **`SOURCES_JSON` without a `sources` key** (`main.go:238`) replaces the
  file's sources with nothing.
- **Locks held across exit** (`main.go:139`). `Service.Close` does not
  wait for running tasks. A process exit therefore skips their deferred
  `Unlock`, and the keys stay locked cluster-wide until the lock service
  expires them.

### Bounds and why they are enough
- **Two nodes and one source with two collections** (sync runs). This gives
  both kinds of conflict: two nodes on one key, and one caller holding one
  key while it waits for a worker. With a pool of 1 and two collections,
  the second dispatch must wait, so the blocking path is taken. The
  starvation run puts two callers on one node.
- **One caller in the reload run.** This still gives the conflict inside
  a node. A task outlives the `Sync` that dispatched it, so the caller's
  next `Sync` meets its own running task. The bag of running tasks keeps
  such a duplicate visible.
- **Reload runs.** They use payloads that are valid, fail validation, are
  empty, or are malformed, so every branch of `updateSources` and
  `initDrivers` is taken. `reload_safety` also has a second valid payload
  with other collections. Without it, a reload that never overwrites an
  existing Unit would satisfy `ReloadApplied`. The initial registry is
  empty, so NotFound is reachable.
- **Pool of 2 in the reload run.** With 2 keys the pool is never full
  there. This keeps the run small; the blocking path is covered by the
  sync runs.
- **Factory.** Every entry kind appears alone and in pairs, so the check
  covers both the order of the checks and duplicate names.
- **Granularity.** The checked years are one leap year and one common
  year. They cover all month lengths and the year boundary.
- **Lifecycle.** Every sources form meets every `SOURCES_JSON` value
  that matters (unset, `{}`, unparsable, without the key, with an inline
  configuration). Every config-file state meets both values of `-cr`, and
  pool sizes 0 and 2 are both present. The signal can come before or after
  any step, and any fallible step can fail. One signal is enough, because
  the channel keeps one and the handler reads one.
- **Authorization.** Two token ids give payloads that are empty, hold one
  token, or hold a different one; one payload is malformed. This is enough
  for a load to be overwritten, and for a later change to be visible.

### Fairness
- **Started Sync requests:** weakly fair. A goroutine handling a request
  keeps running.
- **`initDrivers` iterations:** weakly fair. The loop runs to its end.
- **Task completion (`FinishTask`):** weakly fair. The code has no timeout
  on `driver.Sync`, so this is an assumption about drivers: each one
  eventually returns or panics.
- **Watcher callbacks (`UpdateSources`):** weakly fair. `resources.Watch`
  polls the resource on a timer and calls back when the payload has
  changed.
- **New requests, payload changes and Close:** not fair. They are up to
  operators.
- **Monitoring loop (`MonitorStop`):** weakly fair, so that it stops
  once it sees `closed`. No property depends on this.
- **`main` and the signal goroutine:** weakly fair. The Go scheduler runs
  every runnable goroutine, and `time.Sleep` returns. Signals and failures
  are not fair.
- **Authorization:** no fairness. Only safety is checked there.
- **No strong fairness.** Go's `sync.Cond`, which ants uses, does not stop
  a new Invoke from taking a freed worker ahead of a waiting one. This is
  why `sync_starvation` fails.

## 4. Not modelled, and why
- **`SetupRouter`.** It is a table of routes and middlewares handed to the
  HTTP framework, and spec.md 1 puts HTTP routing out of scope.
- **The destinations and meta-storage `*_JSON` overrides.** They are
  abstracted into the success or failure of their constructors.
- **What `appconfig.Instance.Close` and the meta storage's `Close` do.**
  Their code is not under `src/`.
- **Authorization lookups** (`GetClientOrigins`, `GetAllIdsByToken`,
  ...). They read maps built by `TokensHolder` code that is not under
  `src/`.
- **HTTP handlers and metrics.**
- **The `String` method.**
- **`unmarshalConfig`.** It is a JSON round trip.
- **The watchers' fetching** (`resources.Watch`). It is external. Only its
  effect is modelled: a changed payload reaches the callback, on a
  goroutine of its own.
- **Drivers, meta storage and destinations.** These are external. They
  appear only as nondeterministic outcomes.
- **Crash or exit of a node.** Nothing is persisted. A process that
  exits, whether by `os.Exit(0)` after a signal or by `logging.Fatal`,
  leaves its running tasks' locks held. What frees them (the lock
  service's expiry) is outside the repository. This is listed as a hazard
  with no property.

## 5. Plan

Done:
1. SourcesService, for Sync, the pool and the lock.
2. Registry reload.
3. DriverFactory.
4. Granularity.
5. The monitoring loop (its step only; see the racy read above).
6. Lifecycle (`main.go`).
7. Authorization.
8. The abstract `CollectionLock` and the refinement `ImplementsCollectionLock`.
9. `ReloadApplied`, and a bag of running tasks.
10. The per-collection aggregate error of `Sync` (`SyncErrorsPerCollection`).

Next, in order of importance:
1. **Abstract registry specification.** It would describe what reloads
   really guarantee: each source is overwritten on its own, and nothing
   is removed. `reload_registry` shows that the wholesale replacement of
   spec.md 4.1 does not hold.
2. **Compose Lifecycle with Authorization.** `appconfig.Init` builds the
   authorization service before the server serves, so requests meet the
   holder only after `NewService` has returned.
3. **Node exit.** Lock release through session expiry, if the lock
   service's contract is taken into the model.
