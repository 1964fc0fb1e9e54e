--------------------------- MODULE SourcesService ---------------------------
(***************************************************************************)
(* sources.Service (src/unnamed/part_001) on a cluster of server nodes.    *)
(*                                                                         *)
(* Every node runs its own Service: a registry s.sources rebuilt by        *)
(* initDrivers from the watched configuration, and an ants pool of         *)
(* PoolSize workers running syncCollection.  The nodes share one           *)
(* distributed lock (the MonitorKeeper) keyed by (source, collection).     *)
(* Administrative Sync requests are Callers, each served by one node.      *)
(*                                                                         *)
(* Sync is not atomic: it reads a snapshot of the Unit under RLock, then   *)
(* for each collection (Go map order, so any order) takes the lock and     *)
(* invokes the pool, which blocks while the pool is full.  The task        *)
(* releases the lock in a deferred Unlock once driver.Sync is over         *)
(* (success, error or a panic recovered by the pool: the same effect).     *)
(***************************************************************************)
EXTENDS DriverFactory, Bags

CONSTANTS
  Nodes,        \* server instances sharing the distributed lock
  Callers,      \* concurrent Sync requests (HTTP handler goroutines)
  NodeOf,       \* Callers -> Nodes: the node serving each caller
  SourceNames,  \* source ids that appear in configuration payloads
  Collections,  \* collection names that appear in configuration payloads
  Payloads,     \* configuration payloads the watched resource may serve
  Malformed,    \* a payload parseFromBytes rejects
  InitialPayload,
  PoolSize,     \* server.sync_tasks.pool.size
  NoUnit,       \* absent entry of s.sources
  NoOwner       \* free distributed lock

ASSUME NodeOf \in [Callers -> Nodes]
ASSUME PoolSize \in Nat \ {0}
ASSUME InitialPayload \in Payloads /\ InitialPayload # Malformed

VARIABLES
  remote,     \* payload currently served by the watched file/HTTP resource
  seen,       \* [Nodes -> Payloads]: last payload passed to updateSources
  pending,    \* [Nodes -> SUBSET SourceNames]: sources initDrivers has yet to process
  sources,    \* [Nodes -> [SourceNames -> Unit or NoUnit]]: Service.sources
  closed,     \* [Nodes -> BOOLEAN]: Service.closed, pool released
  running,    \* [Nodes -> bag of Task]: tasks executing in the node's pool
  lockOwner,  \* [Key -> Callers or NoOwner]: the distributed lock
  pc,         \* [Callers -> {"idle","lock","invoke"}]
  src,        \* [Callers -> SourceNames]: sourceId of the current Sync
  todo,       \* [Callers -> SUBSET Collections]: collections not yet handled
  cur,        \* [Callers -> Collections]: collection locked, not yet invoked
  reply,      \* [Callers -> Replies]: how the caller's last Sync returned
  multiErr,   \* [Callers -> SUBSET Collections]: collections with an entry in Sync's multiErr
  invoked,    \* [Callers -> SUBSET Collections]: collections pool.Invoke accepted in this Sync
  batch,      \* [Callers -> SUBSET Collections]: DriverPerCollection of the Unit Sync read
  monitor     \* [Nodes -> {"running","stopped"}]: the startMonitoring loop

vars == <<remote, seen, pending, sources, closed, running, lockOwner,
          pc, src, todo, cur, reply, monitor, multiErr, invoked, batch>>

aggVars == <<multiErr, invoked, batch>>

Replies == {"none", "NotFound", "EmptyDestinations", "Returned",
            "Statuses", "Logs", "MetaStorageError"}

Key  == SourceNames \X Collections
Task == [src : SourceNames, col : Collections, owner : Callers]

KeyOf(t) == <<t.src, t.col>>

\* The distinct tasks running on node n (a caller may dispatch one key twice).
Tasks(n) == BagToSet(running[n])

-----------------------------------------------------------------------------
(* Registry and hot reload                                                 *)
(***************************************************************************)

\* The Unit initDrivers stores for a successful drivers.Create.
UnitOf(name, cfg) == [drivers |-> Create(name, cfg).drivers,
                      dests   |-> cfg.destinations]

\* The registry a complete initDrivers(p) leaves behind when it starts from
\* the registry reg: accepted sources are overwritten, all others kept.
InitDriversFrom(reg, p) ==
  [s \in SourceNames |->
     IF s \in DOMAIN p /\ Create(s, p[s]).err = "none"
     THEN UnitOf(s, p[s]) ELSE reg[s]]

\* parseFromBytes: json.Unmarshal of the payload into a fresh map of
\* SourceConfig; it fails on a payload that is not such a JSON object.
ParseFromBytes(p) == IF p = Malformed THEN "error" ELSE "ok"

\* The watcher hands a changed payload to updateSources.  A payload that
\* does not parse is logged and dropped; otherwise initDrivers starts on
\* every source of the payload.  The watcher calls back sequentially, so a
\* new payload waits for the previous initDrivers to finish.
UpdateSources(n) ==
  /\ remote # seen[n]
  /\ pending[n] = {}
  /\ seen' = [seen EXCEPT ![n] = remote]
  /\ pending' = [pending EXCEPT ![n] =
                   IF ParseFromBytes(remote) = "error" THEN {} ELSE DOMAIN remote]
  /\ UNCHANGED <<aggVars, monitor, remote, sources, closed, running, lockOwner, pc, src, todo, cur, reply>>

\* Mutant of InitDriver: the `continue` after a Create error is lost and
\* the failed result is stored as a Unit.
InitDriverStoresFailure(n, s) ==
  LET cfg == seen[n][s]
  IN /\ s \in pending[n]
     /\ pending' = [pending EXCEPT ![n] = @ \ {s}]
     /\ sources' = [sources EXCEPT ![n][s] = UnitOf(s, cfg)]
     /\ UNCHANGED <<aggVars, monitor, remote, seen, closed, running, lockOwner, pc, src, todo, cur, reply>>

\* Mutant of InitDriver: an existing Unit is kept, so only sources new to
\* the registry are stored.
InitDriverKeepsExisting(n, s) ==
  LET cfg == seen[n][s]
  IN /\ s \in pending[n]
     /\ pending' = [pending EXCEPT ![n] = @ \ {s}]
     /\ sources' = IF Create(s, cfg).err = "none" /\ sources[n][s] = NoUnit
                   THEN [sources EXCEPT ![n][s] = UnitOf(s, cfg)]
                   ELSE sources
     /\ UNCHANGED <<aggVars, monitor, remote, seen, closed, running, lockOwner, pc, src, todo, cur, reply>>

\* One iteration of the loop in initDrivers, in map order: Create the
\* drivers; on error log and continue, else store the Unit under Lock.
InitDriver(n, s) ==
  LET cfg == seen[n][s]
  IN /\ s \in pending[n]
     /\ pending' = [pending EXCEPT ![n] = @ \ {s}]
     /\ sources' = IF Create(s, cfg).err = "none"
                   THEN [sources EXCEPT ![n][s] = UnitOf(s, cfg)]
                   ELSE sources
     /\ UNCHANGED <<aggVars, monitor, remote, seen, closed, running, lockOwner, pc, src, todo, cur, reply>>

\* The watched resource changes (an operator edits the file or endpoint).
ChangeRemote ==
  /\ \E p \in Payloads \ {remote} : remote' = p
  /\ UNCHANGED <<aggVars, monitor, seen, pending, sources, closed, running, lockOwner, pc, src, todo, cur, reply>>

-----------------------------------------------------------------------------
(* Sync                                                                    *)
(***************************************************************************)

\* Sync(sourceId) up to the collection loop: read the Unit under RLock
\* (NotFound when absent), resolve every destination id (each may be
\* unknown or not initialized yet), return "Empty destinations" when none
\* resolves; otherwise start the loop over DriverPerCollection.
StartSync(c, s) ==
  LET u == sources[NodeOf[c]][s]
  IN /\ pc[c] = "idle"
     /\ \/ /\ u = NoUnit
           /\ reply' = [reply EXCEPT ![c] = "NotFound"]
           /\ UNCHANGED <<aggVars, monitor, pc, src, todo>>
        \/ /\ u # NoUnit
           /\ \E live \in SUBSET u.dests :
                IF live = {}
                THEN /\ reply' = [reply EXCEPT ![c] = "EmptyDestinations"]
                     /\ UNCHANGED <<aggVars, monitor, pc, src, todo>>
                ELSE /\ pc' = [pc EXCEPT ![c] = "lock"]
                     /\ src' = [src EXCEPT ![c] = s]
                     /\ todo' = [todo EXCEPT ![c] = DOMAIN u.drivers]
                     /\ reply' = [reply EXCEPT ![c] = "none"]
                     /\ multiErr' = [multiErr EXCEPT ![c] = {}]
                     /\ invoked' = [invoked EXCEPT ![c] = {}]
                     /\ batch' = [batch EXCEPT ![c] = DOMAIN u.drivers]
                     /\ UNCHANGED monitor
     /\ UNCHANGED <<remote, seen, pending, sources, closed, running, lockOwner, cur>>

\* GetStatus and GetLogs: read the Unit under RLock (NotFound when absent),
\* then query the meta storage collection by collection; the first failed
\* read returns its error and discards what was read so far.  Neither
\* touches the pool or the locks.
ReadMeta(c, s, answer) ==
  LET u == sources[NodeOf[c]][s]
  IN /\ pc[c] = "idle"
     /\ \/ u = NoUnit /\ reply' = [reply EXCEPT ![c] = "NotFound"]
        \/ /\ u # NoUnit
           /\ \E failedReads \in SUBSET DOMAIN u.drivers :
                reply' = [reply EXCEPT ![c] =
                            IF failedReads = {} THEN answer ELSE "MetaStorageError"]
     /\ UNCHANGED <<aggVars, monitor, remote, seen, pending, sources, closed, running, lockOwner,
                    pc, src, todo, cur>>

GetStatus(c, s) == ReadMeta(c, s, "Statuses")

GetLogs(c, s) == ReadMeta(c, s, "Logs")

\* Mutant of NextCollection: the loop does not end after the last
\* collection and the caller waits for another one.
NextCollectionNoReturn(c, rest) ==
  /\ todo' = [todo EXCEPT ![c] = rest]
  /\ pc' = [pc EXCEPT ![c] = "lock"]
  /\ UNCHANGED reply

\* After a collection is handled, the loop goes on or Sync returns.
NextCollection(c, rest) ==
  /\ todo' = [todo EXCEPT ![c] = rest]
  /\ pc' = [pc EXCEPT ![c] = IF rest = {} THEN "idle" ELSE "lock"]
  /\ reply' = [reply EXCEPT ![c] = IF rest = {} THEN "Returned" ELSE @]

\* monitorKeeper.Lock(sourceId, collection) succeeds on a free lock.
AcquireLock(c) ==
  /\ pc[c] = "lock"
  /\ \E col \in todo[c] :
       /\ lockOwner[<<src[c], col>>] = NoOwner
       /\ lockOwner' = [lockOwner EXCEPT ![<<src[c], col>>] = c]
       /\ cur' = [cur EXCEPT ![c] = col]
       /\ todo' = [todo EXCEPT ![c] = @ \ {col}]
       /\ pc' = [pc EXCEPT ![c] = "invoke"]
  /\ UNCHANGED <<aggVars, monitor, remote, seen, pending, sources, closed, running, src, reply>>

\* multierror.Append(multiErr, ...) for collection col.
RecordError(c, col) ==
  /\ multiErr' = [multiErr EXCEPT ![c] = @ \cup {col}]
  /\ UNCHANGED <<invoked, batch>>

\* The task of the current collection is on a worker.
RecordInvoked(c) ==
  /\ invoked' = [invoked EXCEPT ![c] = @ \cup {cur[c]}]
  /\ UNCHANGED <<multiErr, batch>>

\* Mutant of LockFailed: Sync returns on the first lock error instead of
\* going on with the other collections.
LockFailedReturns(c) ==
  /\ pc[c] = "lock"
  /\ \E col \in todo[c] : NextCollection(c, {}) /\ RecordError(c, col)
  /\ UNCHANGED <<monitor, remote, seen, pending, sources, closed, running, lockOwner, src, cur>>

\* monitorKeeper.Lock fails (held elsewhere until its timeout, or the
\* lock service is unreachable): the error joins multiErr, loop continues.
LockFailed(c) ==
  /\ pc[c] = "lock"
  /\ \E col \in todo[c] : NextCollection(c, todo[c] \ {col}) /\ RecordError(c, col)
  /\ UNCHANGED <<monitor, remote, seen, pending, sources, closed, running, lockOwner, src, cur>>

\* Mutant of Dispatch: Sync unlocks the collection right after Invoke
\* instead of leaving the Unlock to the task.
DispatchUnlocksEarly(c) ==
  LET n == NodeOf[c]
  IN /\ pc[c] = "invoke"
     /\ ~closed[n]
     /\ BagCardinality(running[n]) < PoolSize
     /\ running' = [running EXCEPT ![n] = @ (+) SetToBag(
                      {[src |-> src[c], col |-> cur[c], owner |-> c]})]
     /\ lockOwner' = [lockOwner EXCEPT ![<<src[c], cur[c]>>] = NoOwner]
     /\ NextCollection(c, todo[c])
     /\ RecordInvoked(c)
     /\ UNCHANGED <<monitor, remote, seen, pending, sources, closed, src, cur>>

\* Mutant of Dispatch: the pool does not check its capacity.
DispatchIgnoresCapacity(c) ==
  LET n == NodeOf[c]
  IN /\ pc[c] = "invoke"
     /\ ~closed[n]
     /\ running' = [running EXCEPT ![n] = @ (+) SetToBag(
                      {[src |-> src[c], col |-> cur[c], owner |-> c]})]
     /\ NextCollection(c, todo[c])
     /\ RecordInvoked(c)
     /\ UNCHANGED <<monitor, remote, seen, pending, sources, closed, lockOwner, src, cur>>

\* pool.Invoke(SyncTask{...}) with a free worker: the task starts.  While
\* the open pool is full, Invoke blocks (this action is not enabled).
Dispatch(c) ==
  LET n == NodeOf[c]
  IN /\ pc[c] = "invoke"
     /\ ~closed[n]
     /\ BagCardinality(running[n]) < PoolSize
     /\ running' = [running EXCEPT ![n] = @ (+) SetToBag(
                      {[src |-> src[c], col |-> cur[c], owner |-> c]})]
     /\ NextCollection(c, todo[c])
     /\ RecordInvoked(c)
     /\ UNCHANGED <<monitor, remote, seen, pending, sources, closed, lockOwner, src, cur>>

\* pool.Invoke on a released pool returns an error: it joins multiErr and
\* the loop continues.  The collection lock taken just before stays held.
DispatchFailed(c) ==
  /\ pc[c] = "invoke"
  /\ closed[NodeOf[c]]
  /\ NextCollection(c, todo[c])
  /\ RecordError(c, cur[c])
  /\ UNCHANGED <<monitor, remote, seen, pending, sources, closed, running, lockOwner, src, cur>>

\* Mutant of FinishTask: the worker never returns to the pool.
FinishTaskLeaksWorker(n, t) ==
  /\ BagIn(t, running[n])
  /\ lockOwner[KeyOf(t)] # NoOwner
  /\ lockOwner' = [lockOwner EXCEPT ![KeyOf(t)] = NoOwner]
  /\ UNCHANGED <<aggVars, monitor, remote, seen, pending, sources, closed, running, pc, src, todo, cur, reply>>

\* syncCollection: driver.Sync runs to its end, then the deferred
\* monitorKeeper.Unlock releases the task's lock; the worker is freed.
FinishTask(n, t) ==
  /\ BagIn(t, running[n])
  /\ running' = [running EXCEPT ![n] = @ (-) SetToBag({t})]
  /\ lockOwner' = [lockOwner EXCEPT ![KeyOf(t)] = NoOwner]
  /\ UNCHANGED <<aggVars, monitor, remote, seen, pending, sources, closed, pc, src, todo, cur, reply>>

\* One iteration of the startMonitoring loop that finds s.closed set and
\* breaks.  The iterations that sample pool.Running()/Free() into the
\* metrics and sleep change no modelled state and are stuttering steps.
\* s.closed is read without synchronisation; the loop calls into other
\* packages and sleeps, so the compiled loop re-reads the field and sees
\* the write of Close eventually, which the fairness of this step states.
MonitorStop(n) ==
  /\ monitor[n] = "running"
  /\ closed[n]
  /\ monitor' = [monitor EXCEPT ![n] = "stopped"]
  /\ UNCHANGED <<aggVars, remote, seen, pending, sources, closed, running, lockOwner, pc, src, todo, cur, reply>>

\* Service.Close: closed = true and pool.Release(); running tasks go on.
Close(n) ==
  /\ ~closed[n]
  /\ closed' = [closed EXCEPT ![n] = TRUE]
  /\ UNCHANGED <<aggVars, monitor, remote, seen, pending, sources, running, lockOwner, pc, src, todo, cur, reply>>

-----------------------------------------------------------------------------

\* NewService with an inline or static configuration: initDrivers has run
\* over the initial payload on every node before the service is returned.
Init ==
  /\ remote = InitialPayload
  /\ seen = [n \in Nodes |-> InitialPayload]
  /\ pending = [n \in Nodes |-> {}]
  /\ sources = [n \in Nodes |->
                  InitDriversFrom([s \in SourceNames |-> NoUnit], InitialPayload)]
  /\ closed = [n \in Nodes |-> FALSE]
  /\ running = [n \in Nodes |-> EmptyBag]
  /\ lockOwner = [k \in Key |-> NoOwner]
  /\ pc = [c \in Callers |-> "idle"]
  /\ src = [c \in Callers |-> CHOOSE s \in SourceNames : TRUE]
  /\ todo = [c \in Callers |-> {}]
  /\ cur = [c \in Callers |-> CHOOSE col \in Collections : TRUE]
  /\ reply = [c \in Callers |-> "none"]
  /\ monitor = [n \in Nodes |-> "running"]
  /\ multiErr = [c \in Callers |-> {}]
  /\ invoked = [c \in Callers |-> {}]
  /\ batch = [c \in Callers |-> {}]

\* The steps of one Sync request after it has started.
SyncStep(c) == AcquireLock(c) \/ LockFailed(c) \/ Dispatch(c) \/ DispatchFailed(c)

Next ==
  \/ ChangeRemote
  \/ \E n \in Nodes : UpdateSources(n) \/ Close(n) \/ MonitorStop(n)
  \/ \E n \in Nodes, s \in SourceNames : InitDriver(n, s)
  \/ \E c \in Callers, s \in SourceNames : StartSync(c, s)
  \/ \E c \in Callers, s \in SourceNames : GetStatus(c, s) \/ GetLogs(c, s)
  \/ \E c \in Callers : SyncStep(c)
  \/ \E n \in Nodes : \E t \in Tasks(n) : FinishTask(n, t)

\* A started request keeps running (its goroutine is never abandoned), a
\* running initDrivers finishes, and driver.Sync returns: the code has no
\* timeout on it, so termination of drivers is an assumption on them.
\* resources.Watch polls the resource every reload interval and calls
\* back on a changed payload, so a change it can deliver is delivered.
\* Operators and new requests are not obliged to act.
Fairness ==
  /\ \A c \in Callers : WF_vars(SyncStep(c))
  /\ \A n \in Nodes, s \in SourceNames : WF_vars(InitDriver(n, s))
  /\ \A n \in Nodes : WF_vars(UpdateSources(n))
  /\ \A n \in Nodes, t \in Task : WF_vars(FinishTask(n, t))
  /\ \A n \in Nodes : WF_vars(MonitorStop(n))

Spec == Init /\ [][Next]_vars /\ Fairness

-----------------------------------------------------------------------------
(* Properties                                                              *)
(***************************************************************************)

TypeOK ==
  /\ remote \in Payloads
  /\ seen \in [Nodes -> Payloads]
  /\ pending \in [Nodes -> SUBSET SourceNames]
  /\ \A n \in Nodes, s \in SourceNames :
       sources[n][s] = NoUnit \/ DOMAIN sources[n][s].drivers \subseteq Collections
  /\ closed \in [Nodes -> BOOLEAN]
  /\ \A n \in Nodes : IsABag(running[n]) /\ Tasks(n) \subseteq Task
  /\ \A n \in Nodes : BagCardinality(running[n]) <= PoolSize
  /\ lockOwner \in [Key -> Callers \cup {NoOwner}]
  /\ pc \in [Callers -> {"idle", "lock", "invoke"}]
  /\ src \in [Callers -> SourceNames]
  /\ todo \in [Callers -> SUBSET Collections]
  /\ cur \in [Callers -> Collections]
  /\ reply \in [Callers -> Replies]
  /\ monitor \in [Nodes -> {"running", "stopped"}]
  /\ \A v \in {multiErr, invoked, batch} : v \in [Callers -> SUBSET Collections]

\* spec.md 5: the distributed lock is what keeps two executions of the same
\* (source, collection) apart, on one node or on two: Sync takes the lock
\* before pool.Invoke and the task's deferred Unlock gives it back only
\* when driver.Sync is over.  At no time do two tasks of one key run.
CollectionMutualExclusion ==
  \A n1, n2 \in Nodes : \A t1 \in Tasks(n1), t2 \in Tasks(n2) :
    KeyOf(t1) = KeyOf(t2) => n1 = n2 /\ t1 = t2 /\ CopiesIn(t1, running[n1]) = 1

\* spec.md 3: every Unit in a registry is a valid drivers.Create result,
\* with at least one collection and one destination, whatever sequence of
\* payloads (valid, invalid or malformed) the watcher delivered.
RegisteredUnitsValid ==
  \A n \in Nodes, s \in SourceNames :
    sources[n][s] # NoUnit =>
      sources[n][s].drivers # << >> /\ sources[n][s].dests # {}

\* spec.md 3: the lock is "released exactly once after task completion
\* regardless of outcome".  Every held lock belongs to live work: the
\* caller that took it is about to call pool.Invoke for it, or the task it
\* dispatched is running.
LockHeldByLiveWork ==
  \A k \in Key : lockOwner[k] # NoOwner =>
    LET c == lockOwner[k]
    IN \/ pc[c] = "invoke" /\ <<src[c], cur[c]>> = k
       \/ \E n \in Nodes : \E t \in Tasks(n) : KeyOf(t) = k /\ t.owner = c

\* spec.md 4.1 and 3: a reload replaces the registry wholesale.  Once a
\* node has finished applying a well-formed payload, its registry holds
\* exactly the sources of that payload that pass validation.
RegistryMatchesConfig ==
  \A n \in Nodes :
    pending[n] = {} /\ seen[n] # Malformed =>
      sources[n] = InitDriversFrom([s \in SourceNames |-> NoUnit], seen[n])

\* Every Sync call returns, although pool.Invoke blocks while the pool is
\* full and the caller holds a collection lock while it waits.
SyncReturns ==
  \A c \in Callers : pc[c] # "idle" ~> pc[c] = "idle"

\* The sources of a well-formed payload that pass drivers.Create.
Accepted(p) == {s \in DOMAIN p : Create(s, p[s]).err = "none"}

\* spec.md 4.1: hot reload "observes" the configuration.  If the watched
\* resource serves a well-formed payload and is not changed again, every
\* node eventually finishes initDrivers on it and serves its sources with
\* the new configuration, although updateSources may still be busy with an
\* older payload and Sync and Close go on meanwhile.
ReloadApplied ==
  \A n \in Nodes, p \in Payloads \ {Malformed} :
    remote = p ~>
      \/ remote # p
      \/ /\ seen[n] = p
         /\ pending[n] = {}
         /\ \A s \in Accepted(p) : sources[n][s] = UnitOf(s, p[s])

\* spec.md 4.3 and 8: the error Sync returns has one entry per collection
\* whose lock or dispatch failed, and every other collection of the Unit it
\* read was dispatched: a failure of one collection neither aborts the
\* rest nor is lost, whatever the lock service, the pool and Close do.
SyncErrorsPerCollection ==
  \A c \in Callers :
    reply[c] = "Returned" =>
      /\ multiErr[c] \cup invoked[c] = batch[c]
      /\ multiErr[c] \cap invoked[c] = {}

-----------------------------------------------------------------------------
(* Refinement of CollectionLock                                            *)
(***************************************************************************)

\* The caller whose dispatched task of key k runs on some node, if any.
RunnerOf(k) ==
  IF \E n \in Nodes : \E t \in Tasks(n) : KeyOf(t) = k
  THEN (CHOOSE t \in UNION {Tasks(n) : n \in Nodes} : KeyOf(t) = k).owner
  ELSE NoOwner

\* The distributed lock is the abstract holder and the running task its
\* execution; the callers' loops, the pools, reloads and monitoring are
\* internal to the implementation.
CL == INSTANCE CollectionLock
        WITH Owners <- Callers, Keys <- Key,
             holder <- lockOwner, runner <- [k \in Key |-> RunnerOf(k)]

\* spec.md 3 and 5: Sync, the pools of all nodes and the deferred Unlock of
\* syncCollection together behave as CollectionLock: a task starts only
\* for the caller that holds its key's lock, the lock is never given back
\* while the task runs (nor by anyone but the task's end), and every
\* started task ends and frees its key.
ImplementsCollectionLock == CL!Spec

=============================================================================
