------------------------------ MODULE Lifecycle ------------------------------
(***************************************************************************)
(* The server process of src/main.go: main builds the services one after   *)
(* the other, each failure ending the process through logging.Fatal        *)
(* (exit status 1), then blocks in ListenAndServe.  A goroutine installed  *)
(* early waits for SIGTERM/SIGINT/SIGHUP, closes what was scheduled for     *)
(* closing on appconfig.Instance, sleeps three seconds and exits with      *)
(* status 0.  main goes on with its start-up while that goroutine runs.    *)
(*                                                                         *)
(* A service is a name; what a constructor does inside is left to the      *)
(* modules of those services.  appconfig.Instance.Close is taken to close  *)
(* the closers scheduled when it runs (appconfig is not part of src/).     *)
(***************************************************************************)
EXTENDS Naturals, FiniteSets

CONSTANTS
  Configs   \* start-up configurations: records, see Config below

\* What main reads from the flags, the config file and the environment, at
\* the precision the control flow tells apart.
\*   cfgFile       : -cfg flag "none", a readable file "ok", or "bad"
\*   containerized : the -cr flag
\*   sourcesFile   : the "sources" section of the file (see SourceForms)
\*   sourcesEnv    : SOURCES_JSON: "unset", "{}", "unparsable", or the
\*                   form of the "sources" key of the JSON it holds
\*   metaDummy     : the meta storage configuration selects no storage
\*   poolSize      : server.sync_tasks.pool.size, 0 when unset
\*   reminder      : tag # "" and the version reminder is not disabled
SourceForms == {"none", "map", "badMap", "watch", "inline", "badInline", "other"}
EnvValues   == {"unset", "{}", "unparsable"} \cup SourceForms

Config == [cfgFile : {"none", "ok", "bad"}, containerized : BOOLEAN,
           sourcesFile : SourceForms, sourcesEnv : EnvValues,
           metaDummy : BOOLEAN, poolSize : Nat, reminder : BOOLEAN]

ASSUME Configs \subseteq Config

\* Services main creates, and those it hands to ScheduleClosing.
Services == {"syncService", "metaStorage", "eventsCache", "inMemoryEventsCache",
             "destinations", "sources", "uploader", "fallback", "versionReminder"}
Closable == {"eventsCache", "inMemoryEventsCache", "destinations", "sources",
             "versionReminder"}

\* Steps whose constructor can fail for reasons outside the configuration
\* modelled here (appconfig.Init, unwritable log.path, unreachable sync or meta storage
\* endpoint, uploader or fallback directory errors), and the blocking
\* ListenAndServe, which only returns with an error.
EnvironmentFailures == {"config", "syncService", "metaStorage", "destinations",
                        "uploader", "fallback", "serving"}

VARIABLES
  conf,       \* the configuration of this run
  main,       \* pc of the main goroutine: the next statement group to run
  sd,         \* the shutdown goroutine: "none", "waiting", "sleeping"
  signalled,  \* SIGTERM, SIGINT or SIGHUP has been delivered to the process
  created,    \* services constructed so far
  scheduled,  \* closers registered with appconfig.Instance.ScheduleClosing
  closedSet,  \* services whose Close has run
  pool,       \* the ants pool of the sources service: "none", "bounded", "unbounded"
  exit        \* "running", or the exit status "0", "1", or "signal"

vars == <<conf, main, sd, signalled, created, scheduled, closedSet, pool, exit>>

Running == exit = "running"


-----------------------------------------------------------------------------
(* Configuration                                                           *)
(***************************************************************************)

\* readInViperConfig: a config file that cannot be read fails start-up only
\* when it was named with -cfg and the run is not containerised; otherwise
\* a warning is kept and the server starts without it.
ReadInViperConfig(c) ==
  IF c.cfgFile = "bad" /\ ~c.containerized THEN "error" ELSE "ok"

\* The sources section after the SOURCES_JSON override: the variable wins
\* when it is set, not "{}" and parses; its JSON without a "sources" key
\* yields no section at all, whatever the file says.
EnvOverride(file, env) ==
  IF env \in {"unset", "{}", "unparsable"} THEN file ELSE env

\* sources.NewService with loadSources, as outcomes: "none" (no sources:
\* a service without pool), "error", or the kind of pool it runs.  The
\* pool is created before the configuration is decoded.  ants refuses a
\* size of 0 in some versions and makes the pool unbounded in others, so
\* both are outcomes of an unset pool size.
NewServiceOutcomes(sec, c) ==
  LET pools == IF c.poolSize > 0 THEN {"bounded"} ELSE {"error", "unbounded"}
  IN CASE sec = "none" -> {"none"}
       [] c.metaDummy  -> {"error"}
       [] OTHER        ->
            {IF p # "error" /\ sec \in {"badMap", "badInline", "other"}
             THEN "error" ELSE p : p \in pools}

-----------------------------------------------------------------------------
(* main                                                                    *)
(***************************************************************************)

\* logging.Fatal: log and os.Exit(1); deferred calls do not run.
Fatal == exit' = "1" /\ UNCHANGED main

\* A statement group of main that constructs the services new and hands the
\* closers among them to appconfig.Instance.ScheduleClosing.
Construct(step, next, new, closers) ==
  /\ Running
  /\ main = step
  /\ main' = next
  /\ created' = created \cup new
  /\ scheduled' = scheduled \cup closers
  /\ UNCHANGED <<conf, sd, signalled, closedSet, pool, exit>>

\* main up to the signal handler: readInViperConfig (fatal on error),
\* appconfig.Init, enrichment, telemetry, metrics, notifications.
StartConfig ==
  /\ Running
  /\ main = "config"
  /\ \/ ReadInViperConfig(conf) = "error" /\ Fatal
     \/ ReadInViperConfig(conf) = "ok" /\ main' = "signals" /\ UNCHANGED exit
  /\ UNCHANGED <<conf, sd, signalled, created, scheduled, closedSet, pool>>

\* signal.Notify and the shutdown goroutine, which waits on channel c.
InstallShutdownHandler ==
  /\ Running
  /\ main = "signals"
  /\ main' = "syncService"
  /\ sd' = "waiting"
  /\ UNCHANGED <<conf, signalled, created, scheduled, closedSet, pool, exit>>

StartSyncService == Construct("syncService", "metaStorage", {"syncService"}, {})

\* The destinations and meta storage sections (with their *_JSON
\* overrides) are resolved, meta.NewStorage runs and its Close is deferred.
OpenMetaStorage == Construct("metaStorage", "caches", {"metaStorage"}, {})

CreateCaches ==
  Construct("caches", "destinations", {"eventsCache", "inMemoryEventsCache"},
                                      {"eventsCache", "inMemoryEventsCache"})

CreateDestinations == Construct("destinations", "sources", {"destinations"}, {"destinations"})

\* The sources section with the SOURCES_JSON override, the pool size, and
\* sources.NewService (fatal on error) whose service is scheduled for closing.
CreateSources ==
  LET sec == EnvOverride(conf.sourcesFile, conf.sourcesEnv)
  IN /\ Running
     /\ main = "sources"
     /\ \E outcome \in NewServiceOutcomes(sec, conf) :
          \/ outcome = "error" /\ Fatal /\ UNCHANGED <<created, scheduled, pool>>
          \/ /\ outcome # "error"
             /\ main' = "uploader"
             /\ created' = created \cup {"sources"}
             /\ scheduled' = scheduled \cup {"sources"}
             /\ pool' = outcome
             /\ UNCHANGED exit
     /\ UNCHANGED <<conf, sd, signalled, closedSet>>

StartUploader == Construct("uploader", "fallback", {"uploader"}, {})

CreateFallback == Construct("fallback", "reminder", {"fallback"}, {})

\* The version reminder exists only for a tagged build that does not
\* disable it.
StartReminder ==
  IF conf.reminder
  THEN Construct("reminder", "serve", {"versionReminder"}, {"versionReminder"})
  ELSE Construct("reminder", "serve", {}, {})

\* SetupRouter and http.Server.ListenAndServe, which blocks.
Serve == Construct("serve", "serving", {}, {})

\* One of the fallible constructors, or ListenAndServe, returns an error.
StepFails ==
  /\ Running
  /\ main \in EnvironmentFailures
  /\ Fatal
  /\ UNCHANGED <<conf, sd, signalled, created, scheduled, closedSet, pool>>

-----------------------------------------------------------------------------
(* Signals and the shutdown goroutine                                      *)
(***************************************************************************)

\* A signal arrives.  Before signal.Notify its default action ends the
\* process; afterwards it is buffered in c.  One signal is modelled.
Signal ==
  /\ Running
  /\ ~signalled
  /\ signalled' = TRUE
  /\ \/ sd = "none" /\ exit' = "signal"
     \/ sd # "none" /\ UNCHANGED exit
  /\ UNCHANGED <<conf, main, sd, created, scheduled, closedSet, pool>>

\* The goroutine receives the signal: ServerStop, Idle, cancel(), then
\* appconfig.Instance.Close closes what is scheduled, telemetry and
\* notifications are flushed; then it sleeps for three seconds.
ShutdownBegin ==
  /\ Running
  /\ sd = "waiting"
  /\ signalled
  /\ sd' = "sleeping"
  /\ closedSet' = closedSet \cup scheduled
  /\ UNCHANGED <<conf, main, signalled, created, scheduled, pool, exit>>

\* Mutant of ShutdownExit: the goroutine returns without os.Exit(0).
ShutdownExitReturns ==
  /\ Running
  /\ sd = "sleeping"
  /\ sd' = "done"
  /\ UNCHANGED <<conf, main, signalled, created, scheduled, closedSet, pool, exit>>

\* telemetry.Close and os.Exit(0): main is ended wherever it is.
ShutdownExit ==
  /\ Running
  /\ sd = "sleeping"
  /\ exit' = "0"
  /\ UNCHANGED <<conf, main, sd, signalled, created, scheduled, closedSet, pool>>

-----------------------------------------------------------------------------

Init ==
  /\ conf \in Configs
  /\ main = "config"
  /\ sd = "none"
  /\ signalled = FALSE
  /\ created = {}
  /\ scheduled = {}
  /\ closedSet = {}
  /\ pool = "none"
  /\ exit = "running"

MainStep ==
  \/ StartConfig \/ InstallShutdownHandler \/ StartSyncService
  \/ OpenMetaStorage \/ CreateCaches \/ CreateDestinations \/ CreateSources
  \/ StartUploader \/ CreateFallback \/ StartReminder \/ Serve

ShutdownStep == ShutdownBegin \/ ShutdownExit

\* Once the process has exited nothing happens: no step is enabled.
Next == MainStep \/ ShutdownStep \/ StepFails \/ Signal

\* Both goroutines run while the process lives: the Go scheduler runs
\* every runnable goroutine and time.Sleep ends.  Failures and signals
\* are the environment's and are not obliged to happen.
Spec == Init /\ [][Next]_vars /\ WF_vars(MainStep) /\ WF_vars(ShutdownStep)

-----------------------------------------------------------------------------
(* Properties                                                              *)
(***************************************************************************)

\* A signal delivered to the process ends it: the shutdown goroutine exits
\* even while main blocks in ListenAndServe or is still starting up.
SignalLeadsToExit == signalled ~> ~Running

\* spec.md 5 and 6: one bounded pool "sized by configuration", the size
\* "required when any source is configured".  A server that serves with
\* sources configured runs them on a bounded pool.
SourcesPoolBounded ==
  main = "serving" /\ EnvOverride(conf.sourcesFile, conf.sourcesEnv) # "none"
    => pool = "bounded"

=============================================================================
