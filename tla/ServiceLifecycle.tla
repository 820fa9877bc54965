--------------------------- MODULE ServiceLifecycle ---------------------------
(***************************************************************************)
(* The life of one replica: main.go starts the configuration, the database *)
(* (DbSession, with the registered services), the scheduler engine, the    *)
(* queue manager and the REST server, one after the other, and shuts down  *)
(* the engine and the database when a start fails or a signal arrives.     *)
(* Goroutines of the engine run while the queue manager is not there yet,  *)
(* and the goroutines that watch the queues are never told to stop.        *)
(***************************************************************************)
EXTENDS DbSession

CONSTANTS
    Watchers,      \* goroutines that watch a queue; the other Loops belong to the engine
    Configured,    \* services in the configuration of this replica
    NoService

ASSUME LifeAssumption ==
    /\ Watchers \subseteq Loops
    /\ NoService \notin Configured

VARIABLES
    phase,         \* what main is at
    engine,        \* "off", "mqtt" (messages arrive), "running" (the daemon too), "stopped"
    queue,         \* queuemgr.Provider: "none" (nil), "created", or "ready"
    registry,      \* table registered_services: whose registration is there
    known,         \* serviceConfigTable, from which messages are routed
    todo,          \* services main still has to look up
    missing,       \* a service it has to insert
    \* History:
    skipped        \* services whose look-up failed

tables == <<registry, known, todo, missing, skipped>>
lifeVars == <<phase, engine, queue, tables>>
allVars == <<vars, lifeVars>>

Registrations == {"none", "ours", "theirs"}

LifeTypeOK ==
    /\ TypeOK
    /\ phase \in {"config", "services", "db", "engine", "provider", "client", "rest", "ending", "exit"}
    /\ engine \in {"off", "mqtt", "running", "stopped"}
    /\ queue \in {"none", "created", "ready"}
    /\ registry \in [Configured -> Registrations]
    /\ known \in [Configured -> Registrations]
    /\ todo \in SUBSET Configured
    /\ missing \in Configured \cup {NoService}
    /\ skipped \in SUBSET Configured

\* What a setting is when the file says one thing and an environment variable
\* another. A variable that cannot be parsed, or whose setting has a type that the
\* overrides do not know (uint16, int32, Duration), leaves it alone.
Override(type, file, env) ==
    IF \/ env = "unset"
       \/ type \in {"bool", "int"} /\ env = "unparsable"
       \/ type \notin {"string", "list", "bool", "int"}
    THEN file
    ELSE env

LifeInit ==
    /\ Init
    /\ \E file \in {"cassandra", "aws_keyspaces"}, env \in {"unset", "cassandra", "other"} :
          provider = Override("string", file, env)
    /\ phase = "config"
    /\ engine = "off"
    /\ queue = "none"
    /\ registry \in [Configured -> Registrations]
    /\ known = [s \in Configured |-> "none"]
    /\ todo = Configured
    /\ missing = NoService
    /\ skipped = {}

-----------------------------------------------------------------------------
(* Start.                                                                  *)

\* Either of the two files may be missing or no YAML.
LoadConfig ==
    /\ phase = "config"
    /\ phase' \in {"services", "exit"}
    /\ UNCHANGED <<vars, engine, queue, tables>>

LoadRegisteredServiceConfig ==
    /\ phase = "services"
    /\ phase' \in {"db", "exit"}
    /\ UNCHANGED <<vars, engine, queue, tables>>

\* A step of db.Init.
InDbInit ==
    /\ phase = "db"
    /\ phase' = CASE main' = "serve" -> "engine"
                  [] main' \in Ended -> "exit"
                  [] OTHER -> "db"
    /\ UNCHANGED <<engine, queue>>

ConnectDb ==
    /\ ConnectCassandra \/ ConnectKeyspaces \/ ConnectOther \/ Migrate \/ StartRegistering
    /\ InDbInit
    /\ UNCHANGED tables

LockForMigration == StartMigration /\ InDbInit /\ UNCHANGED tables

\* A registration that is there already is left as it is; a look-up that fails
\* leaves the service unregistered.
LookUpService ==
    /\ Register
    /\ InDbInit
    /\ missing = NoService
    /\ \E s \in todo :
        IF main' = "crashed" THEN UNCHANGED tables
        ELSE /\ main' = "register"
             /\ todo' = todo \ {s}
             /\ \/ skipped' = skipped \cup {s} /\ UNCHANGED missing
                \/ /\ missing' = IF registry[s] = "none" THEN s ELSE NoService
                   /\ UNCHANGED skipped
             /\ UNCHANGED <<registry, known>>

\* Mutant: an error of the insert is only logged.
InsertServiceLoggingError ==
    /\ Register
    /\ InDbInit
    /\ missing # NoService
    /\ main' # "serve"
    /\ \/ main' = "register" /\ registry' \in {registry, [registry EXCEPT ![missing] = "ours"]}
       \/ main' = "crashed" /\ UNCHANGED registry
    /\ missing' = NoService
    /\ UNCHANGED <<known, todo, skipped>>

InsertService ==
    /\ Register
    /\ InDbInit
    /\ missing # NoService
    /\ main' # "serve"
    /\ registry' = IF main' = "register" THEN [registry EXCEPT ![missing] = "ours"] ELSE registry
    /\ missing' = NoService
    /\ UNCHANGED <<known, todo, skipped>>

ListServices ==
    /\ Register
    /\ InDbInit
    /\ missing = NoService /\ todo = {}
    /\ main' # "register"
    /\ known' = IF main' = "serve" THEN registry ELSE known
    /\ UNCHANGED <<registry, todo, missing, skipped>>

\* The connection manager starts: from now on messages may arrive.
StartMqtt ==
    /\ phase = "engine" /\ Alive
    /\ engine = "off"
    /\ engine' = "mqtt"
    /\ UNCHANGED <<vars, phase, queue, tables>>

\* mqtt.Init registers services once more, which the tables no longer notice.
StartDaemon ==
    /\ phase = "engine" /\ Alive
    /\ engine = "mqtt"
    /\ \/ /\ session # "none"
          /\ \E found \in SUBSET Configured :
                registry' = [s \in Configured |->
                    IF s \notin found /\ registry[s] = "none" THEN "ours" ELSE registry[s]]
          /\ engine' = "running" /\ phase' = "provider"
          /\ UNCHANGED vars
       \/ /\ session = "none"
          /\ CrashElsewhere
          /\ UNCHANGED <<registry, engine, phase>>
    /\ UNCHANGED <<queue, known, todo, missing, skipped>>

\* The messages of a manager that runs already may still be handled.
EngineFails ==
    /\ phase = "engine"
    /\ StopServing
    /\ phase' = "ending"
    /\ engine' = IF engine = "mqtt" THEN "stopped" ELSE "off"
    /\ UNCHANGED <<queue, tables>>

CreateProvider ==
    /\ phase = "provider" /\ Alive
    /\ phase' = "client"
    /\ queue' = "created"
    /\ UNCHANGED <<vars, engine, tables>>

\* Mutant: a provider without its queues is good enough.
InitProviderLoggingError ==
    /\ phase = "client" /\ Alive
    /\ phase' = "rest" /\ queue' \in {"created", "ready"}
    /\ UNCHANGED <<vars, engine, tables>>

\* The client and three queue URLs; then the goroutines start that watch the queues.
InitProvider ==
    /\ phase = "client" /\ Alive
    /\ \/ /\ phase' = "rest" /\ queue' = "ready"
          /\ UNCHANGED <<vars, engine>>
       \/ /\ phase' = "ending" /\ engine' = "stopped"
          /\ StopServing
          /\ UNCHANGED queue
    /\ UNCHANGED tables

\* A signal, or a fatal error of the REST server.
StopService ==
    /\ phase = "rest"
    /\ StopServing
    /\ phase' = "ending"
    /\ engine' = "stopped"
    /\ UNCHANGED <<queue, tables>>

\* A step of db.Shutdown.
InShutdown ==
    /\ phase = "ending"
    /\ phase' = IF main' = "done" THEN "exit" ELSE "ending"
    /\ UNCHANGED <<engine, queue, tables>>

LockForShutdown == StartShutdown /\ InShutdown
CloseDb == CloseAtShutdown /\ InShutdown
StopRefreshing == StopRefresher /\ InShutdown

-----------------------------------------------------------------------------
(* Meanwhile.                                                              *)

\* Another replica, with other registrations. It may have found none before this
\* one inserted its own. What it does later changes nothing here.
OtherReplicaRegisters ==
    /\ phase = "db" /\ Alive
    /\ \E s \in Configured :
        /\ registry[s] # "theirs"
        /\ registry' = [registry EXCEPT ![s] = "theirs"]
    /\ UNCHANGED <<vars, phase, engine, queue, known, todo, missing, skipped>>

\* A message or a run is handled that has to go to a queue.
UseProviderTooEarly ==
    /\ engine # "off"
    /\ queue # "ready"
    /\ CrashElsewhere
    /\ UNCHANGED lifeVars

Runs(u) ==
    CASE u \in Watchers -> queue = "ready"
      [] u \in Loops \ Watchers -> engine # "off"
      [] u \in Handlers -> phase \in {"rest", "ending"} /\ queue = "ready"

StartQueryOf(u) == Runs(u) /\ StartQuery(u) /\ UNCHANGED lifeVars
QueryOf(u) == Query(u) /\ UNCHANGED lifeVars

RefreshTick == Tick /\ UNCHANGED lifeVars
LockTheRefresh == LockForRefresh /\ UNCHANGED lifeVars
Refresh == (RetrieveCredentials \/ CloseOld \/ CreateNew) /\ UNCHANGED lifeVars

StartStep ==
    \/ LoadConfig \/ LoadRegisteredServiceConfig
    \/ ConnectDb
    \/ LookUpService \/ InsertService \/ ListServices
    \/ StartMqtt \/ StartDaemon \/ EngineFails
    \/ CreateProvider \/ InitProvider

LifeNext ==
    \/ StartStep
    \/ LockForMigration
    \/ StopService
    \/ LockForShutdown \/ CloseDb \/ StopRefreshing
    \/ OtherReplicaRegisters
    \/ UseProviderTooEarly
    \/ RefreshTick \/ LockTheRefresh \/ Refresh
    \/ \E u \in Users : StartQueryOf(u) \/ QueryOf(u)

LifeSpec == LifeInit /\ [][LifeNext]_allVars

\* The fairness of DbSession, on the steps of this module.
LifeFairness ==
    /\ WF_allVars(StartStep)
    /\ WF_allVars(CloseDb)
    /\ WF_allVars(Refresh)
    /\ SF_allVars(LockTheRefresh)
    /\ SF_allVars(LockForMigration)
    /\ SF_allVars(LockForShutdown)
    /\ SF_allVars(StopRefreshing)
    /\ \A u \in Users : WF_allVars(QueryOf(u))

FairLife == LifeSpec /\ LifeFairness

-----------------------------------------------------------------------------
(* Properties.                                                             *)

\* A replica that serves has everything it started for: its queues, its engine, and
\* a route for every configured service, unless the look-up of that one failed, and
\* whatever another replica registers in the meantime.
ReadyWhenServing ==
    (phase = "rest" /\ Alive) =>
        /\ queue = "ready"
        /\ engine = "running"
        /\ \A s \in Configured \ skipped : known[s] # "none"

\* Once the service is up, only the loss of its session brings it down; before that,
\* a message or a run that comes before the queues are there may.
CrashHasACause ==
    (main = "crashed" /\ session # "none") =>
        phase \in {"engine", "provider", "client"} \/ (phase = "ending" /\ queue # "ready")

\* The strengthening under which these two are inductive: how far the database and
\* the other parts are when main is at a phase, that no query comes before main
\* serves, and that no service is forgotten on its way into the table of routes.
Early == {"connect", "migrate", "migrating", "register", "registering"}

MainIsAtPhase ==
    /\ phase \in {"config", "services"} => main = "connect"
    /\ phase = "db" => main \in Early
    /\ phase \in {"engine", "provider", "client", "rest"} => main \in {"serve", "crashed"}
    /\ phase = "ending" => main \in {"shutdown", "closing", "stopping", "crashed"}
    /\ phase = "exit" => main \in {"connect"} \cup Ended
    /\ main \in Early => \A u \in Users : user[u] = "idle"

PartsAreAtPhase ==
    /\ phase \in {"config", "services", "db"} => engine = "off"
    /\ phase = "engine" => engine \in {"off", "mqtt"}
    /\ phase \in {"provider", "client", "rest"} => engine = "running"
    /\ phase \in {"config", "services", "db", "engine", "provider"} => queue = "none"
    /\ phase = "client" => queue = "created"
    /\ phase = "rest" => queue = "ready"

NoServiceIsForgotten ==
    \A s \in Configured \ skipped :
        /\ registry[s] # "none" \/ s \in todo \/ s = missing \/ phase = "exit" \/ ~Alive
        /\ phase \in {"engine", "provider", "client", "rest"} => known[s] # "none"

LifeInv == MainIsAtPhase /\ PartsAreAtPhase /\ NoServiceIsForgotten /\ CrashHasACause
=============================================================================
