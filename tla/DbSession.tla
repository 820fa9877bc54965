------------------------------ MODULE DbSession ------------------------------
(***************************************************************************)
(* The session of package db: one global, replaced by a refresher every    *)
(* few hours when the database is AWS Keyspaces, closed by Shutdown, and   *)
(* used by every query under a read-write lock.                            *)
(*                                                                         *)
(* Queries come from the program's own goroutines (queue watchers, daemon, *)
(* MQTT handlers), where a panic ends the process, and from REST handlers, *)
(* where net/http recovers from it.  A query on a nil session panics; one  *)
(* on a closed session returns an error.                                   *)
(***************************************************************************)
EXTENDS Naturals

CONSTANTS
    Loops,         \* goroutines of the program that query in a loop
    Handlers       \* goroutines that serve REST requests

Users == Loops \cup Handlers

ASSUME SessionAssumption ==
    /\ Loops \cap Handlers = {}
    /\ "main" \notin Users

VARIABLES
    provider,      \* the database type of the configuration
    migrates,      \* whether schema migration is enabled
    main,          \* next step of the main goroutine
    refresher,     \* next step of the session refresher
    user,          \* user[u]: "idle", "query", or "dead" after a panic
    session,       \* gSession: "none" (nil), "open" or "closed"
    live,          \* sessions that have connections
    turn, readers, waiting    \* gSessionMutex

INSTANCE RWMutex WITH Readers <- Users \cup {"main"},
                      Writers <- {"main", "refresher"}, Nobody <- "nobody"

config == <<provider, migrates>>
sessionVars == <<session, live>>
gSessionMutex == <<turn, readers, waiting>>
vars == <<config, main, refresher, user, sessionVars, gSessionMutex>>

Ended == {"failed", "crashed", "done"}
Alive == main \notin Ended

TypeOK ==
    /\ provider \in {"cassandra", "aws_keyspaces", "other"}
    /\ migrates \in BOOLEAN
    /\ main \in {"connect", "migrate", "migrating", "register", "registering",
                 "serve", "shutdown", "closing", "stopping"} \cup Ended
    /\ refresher \in {"off", "select", "retrieve", "lock", "locked", "create", "stopped"}
    /\ user \in [Users -> {"idle", "query", "dead"}]
    /\ session \in {"none", "open", "closed"}
    /\ live \in Nat
    /\ LockTypeOK

Init ==
    /\ provider \in {"cassandra", "aws_keyspaces", "other"}
    /\ migrates \in BOOLEAN
    /\ main = "connect"
    /\ refresher = "off"
    /\ user = [u \in Users |-> "idle"]
    /\ session = "none"
    /\ live = 0
    /\ LockInit

-----------------------------------------------------------------------------
(* The session. CreateSession gives a new one or nil and an error.         *)

CreateSession ==
    \/ session' = "open" /\ live' = live + 1
    \/ session' = "none" /\ UNCHANGED live

CloseSession ==
    /\ session' = "closed"
    /\ live' = IF session = "open" THEN live - 1 ELSE live

Crash == main' = "crashed" /\ UNCHANGED gSessionMutex

-----------------------------------------------------------------------------
(* db.Init, on the main goroutine: nobody else uses the session yet.       *)

ConnectCassandra ==
    /\ main = "connect"
    /\ provider = "cassandra"
    /\ CreateSession
    /\ main' = IF session' = "open" THEN "migrate" ELSE "failed"
    /\ UNCHANGED <<config, refresher, user, gSessionMutex>>

\* An unknown database type.
ConnectOther ==
    /\ main = "connect"
    /\ provider = "other"
    /\ main' = "failed"
    /\ UNCHANGED <<config, refresher, user, sessionVars, gSessionMutex>>

\* An error of the first refresh is only logged; the refresher starts anyway.
\* Without a token file there is no refresh at all.
ConnectKeyspaces ==
    /\ main = "connect"
    /\ provider = "aws_keyspaces"
    /\ \/ CreateSession /\ main' = "migrate" /\ refresher' = "select"
       \/ main' = "failed" /\ UNCHANGED <<sessionVars, refresher>>
    /\ UNCHANGED <<config, user, gSessionMutex>>

StartMigration ==
    /\ main = "migrate"
    /\ IF migrates THEN main' = "migrating" /\ Lock("main")
                   ELSE main' = "register" /\ UNCHANGED gSessionMutex
    /\ UNCHANGED <<config, refresher, user, sessionVars>>

\* Mutant: a migration that returns forgets the unlock.
MigrateKeepingLock ==
    /\ main = "migrating"
    /\ Locked("main")
    /\ \/ session = "none" /\ Crash
       \/ session # "none" /\ main' \in {"register", "failed"} /\ UNCHANGED gSessionMutex
    /\ UNCHANGED <<config, refresher, user, sessionVars>>

Migrate ==
    /\ main = "migrating"
    /\ Locked("main")
    /\ \/ session = "none" /\ Crash
       \/ session # "none" /\ main' \in {"register", "failed"} /\ Unlock
    /\ UNCHANGED <<config, refresher, user, sessionVars>>

\* The registered services are looked up and listed, one query after another.
StartRegistering ==
    /\ main = "register"
    /\ main' = "registering"
    /\ RLock("main")
    /\ UNCHANGED <<config, refresher, user, sessionVars>>

Register ==
    /\ main = "registering"
    /\ "main" \in readers
    /\ \/ session = "none" /\ Crash
       \/ session # "none" /\ main' \in {"register", "serve", "failed"} /\ RUnlock("main")
    /\ UNCHANGED <<config, refresher, user, sessionVars>>

-----------------------------------------------------------------------------
(* Shutdown, on the main goroutine. Users and refresher still run.         *)

\* A signal, or a subsystem that does not start, ends the service.
StopServing ==
    /\ main = "serve"
    /\ main' = "shutdown"
    /\ UNCHANGED <<config, refresher, user, sessionVars, gSessionMutex>>

StartShutdown ==
    /\ main = "shutdown"
    /\ main' = "closing"
    /\ Lock("main")
    /\ UNCHANGED <<config, refresher, user, sessionVars>>

\* Mutant: the lock is kept until Shutdown returns.
CloseAtShutdownHolding ==
    /\ main = "closing"
    /\ Locked("main")
    /\ \/ session = "none" /\ Crash /\ UNCHANGED sessionVars
       \/ /\ session # "none"
          /\ CloseSession
          /\ main' = IF provider = "aws_keyspaces" THEN "stopping" ELSE "done"
          /\ UNCHANGED gSessionMutex
    /\ UNCHANGED <<config, refresher, user>>

CloseAtShutdown ==
    /\ main = "closing"
    /\ Locked("main")
    /\ \/ session = "none" /\ Crash /\ UNCHANGED sessionVars
       \/ /\ session # "none"
          /\ CloseSession
          /\ Unlock
          /\ main' = IF provider = "aws_keyspaces" THEN "stopping" ELSE "done"
    /\ UNCHANGED <<config, refresher, user>>

\* The stop channel has no buffer: main and the refresher meet.
StopRefresher ==
    /\ main = "stopping"
    /\ refresher = "select"
    /\ main' = "done"
    /\ refresher' = "stopped"
    /\ UNCHANGED <<config, user, sessionVars, gSessionMutex>>

-----------------------------------------------------------------------------
(* awsKeyspacesSessionRefresher.                                           *)

Tick ==
    /\ Alive
    /\ refresher = "select"
    /\ refresher' = "retrieve"
    /\ UNCHANGED <<config, main, user, sessionVars, gSessionMutex>>

RetrieveCredentials ==
    /\ Alive
    /\ refresher = "retrieve"
    /\ refresher' \in {"lock", "select"}
    /\ UNCHANGED <<config, main, user, sessionVars, gSessionMutex>>

LockForRefresh ==
    /\ Alive
    /\ refresher = "lock"
    /\ refresher' = "locked"
    /\ Lock("refresher")
    /\ UNCHANGED <<config, main, user, sessionVars>>

\* Mutant: the old session is left to itself.
CloseOldForgotten ==
    /\ Alive
    /\ refresher = "locked"
    /\ Locked("refresher")
    /\ refresher' = "create"
    /\ UNCHANGED <<config, main, user, sessionVars, gSessionMutex>>

CloseOld ==
    /\ Alive
    /\ refresher = "locked"
    /\ Locked("refresher")
    /\ refresher' = "create"
    /\ IF session # "none" THEN CloseSession ELSE UNCHANGED sessionVars
    /\ UNCHANGED <<config, main, user, gSessionMutex>>

\* Mutant: an error returns without the unlock.
CreateNewKeepingLock ==
    /\ Alive
    /\ refresher = "create"
    /\ refresher' = "select"
    /\ CreateSession
    /\ IF session' = "open" THEN Unlock ELSE UNCHANGED gSessionMutex
    /\ UNCHANGED <<config, main, user>>

\* A failure leaves the program without a session until the next tick.
CreateNew ==
    /\ Alive
    /\ refresher = "create"
    /\ refresher' = "select"
    /\ CreateSession
    /\ Unlock
    /\ UNCHANGED <<config, main, user>>

-----------------------------------------------------------------------------
(* A query of package db.                                                  *)

StartQuery(u) ==
    /\ main \in {"serve", "shutdown", "closing", "stopping"}
    /\ user[u] = "idle"
    /\ user' = [user EXCEPT ![u] = "query"]
    /\ RLock(u)
    /\ UNCHANGED <<config, main, refresher, sessionVars>>

\* The read lock is given back only if the query returns.
Query(u) ==
    /\ Alive
    /\ user[u] = "query"
    /\ u \in readers
    /\ \/ /\ session # "none"
          /\ user' = [user EXCEPT ![u] = "idle"]
          /\ RUnlock(u)
          /\ UNCHANGED main
       \/ /\ session = "none"
          /\ user' = [user EXCEPT ![u] = "dead"]
          /\ IF u \in Loops THEN Crash ELSE UNCHANGED <<main, gSessionMutex>>
    /\ UNCHANGED <<config, refresher, sessionVars>>

\* A panic that has nothing to do with the session ends the process.
CrashElsewhere ==
    /\ main \in {"serve", "shutdown", "closing", "stopping"}
    /\ Crash
    /\ UNCHANGED <<config, refresher, user, sessionVars>>

-----------------------------------------------------------------------------
MainStep ==
    \/ ConnectCassandra \/ ConnectKeyspaces \/ ConnectOther
    \/ StartMigration \/ Migrate
    \/ StartRegistering \/ Register
    \/ StartShutdown \/ CloseAtShutdown \/ StopRefresher

RefreshStep == RetrieveCredentials \/ LockForRefresh \/ CloseOld \/ CreateNew

Next ==
    \/ MainStep
    \/ StopServing
    \/ CrashElsewhere
    \/ Tick
    \/ RefreshStep
    \/ \E u \in Users : StartQuery(u) \/ Query(u)

Spec == Init /\ [][Next]_vars

\* Goroutines run and their remote calls return. Nothing makes a query, a tick
\* or a shutdown happen. A goroutine in Lock gets its turn, and a waiting sender
\* is chosen by the refresher's select in the end.
Fairness ==
    /\ WF_vars(MainStep)
    /\ WF_vars(RetrieveCredentials \/ CloseOld \/ CreateNew)
    /\ SF_vars(LockForRefresh)
    /\ SF_vars(StartMigration \/ StartShutdown)
    /\ SF_vars(StopRefresher)
    /\ \A u \in Users : WF_vars(Query(u))

FairSpec == Spec /\ Fairness

-----------------------------------------------------------------------------
(* Properties.                                                             *)

\* Handlers that panicked while they held the lock, and hold it for ever.
Leaked == {u \in Handlers : user[u] = "dead"}

\* However refreshes, failures and the shutdown interleave, at most the current
\* session has connections: a replaced session was closed first.
OneSessionIsLive == live = (IF session = "open" THEN 1 ELSE 0)

\* No query meets the session in the middle of a refresh: the one it finds
\* under the lock is closed only once the service is shutting down.
QueryMeetsNoClosedSession ==
    (readers # {} /\ session = "closed") => main = "stopping" \/ ~Alive

\* What a query may rely on.
SessionIsSound == OneSessionIsLive /\ QueryMeetsNoClosedSession

\* While a query holds the read lock, nobody changes the session.
SessionIsSteady == [][readers # {} => UNCHANGED sessionVars]_vars

\* The strengthening under which these are inductive: who has announced itself
\* to the lock is at the steps between Lock and Unlock, and the session is closed
\* and not yet replaced only there.
SessionInv ==
    /\ turn = "refresher" <=> refresher \in {"locked", "create"}
    /\ main \in {"migrating", "closing"} => turn = "main"
    /\ turn = "main" => main \in {"migrating", "closing", "crashed"}
    /\ refresher = "create" => readers = {} /\ session # "open"
    /\ main = "connect" => session = "none" /\ readers = {} /\ refresher = "off"
    /\ turn = "nobody" => waiting = {}
    /\ session = "closed" => refresher = "create" \/ main = "stopping" \/ ~Alive
    /\ OneSessionIsLive

\* Queries, refresher and Shutdown never all wait for each other, for the lock or on
\* the stop channel, unless a handler has taken the lock with it: somebody can take
\* its next step alone. Ticks and new queries do not count.
SomeoneWaits ==
    \/ \E u \in Users : user[u] = "query" /\ u \notin readers
    \/ main = "registering" /\ "main" \notin readers
    \/ main \in {"migrate", "shutdown"} /\ turn # "nobody"
    \/ main \in {"migrating", "closing"} /\ readers # {}
    \/ main = "stopping" /\ refresher # "select"
    \/ refresher = "lock" /\ turn # "nobody"
    \/ refresher = "locked" /\ readers # {}

SomeoneRuns ==
    \/ \E u \in Users : user[u] = "query" /\ u \in readers
    \/ main = "registering" /\ "main" \in readers
    \/ main \in {"migrate", "shutdown"} /\ turn = "nobody"
    \/ main \in {"migrating", "closing"} /\ Locked("main")
    \/ main = "stopping" /\ refresher = "select"
    \/ refresher \in {"retrieve", "create"}
    \/ refresher = "lock" /\ turn = "nobody"
    \/ refresher = "locked" /\ Locked("refresher")

NoDeadlock == Alive /\ Leaked = {} /\ SomeoneWaits => SomeoneRuns

\* What carries it: only queries, and db.Init, have the lock for reading or wait for it,
\* each until it returns; and there is a refresher for main to meet.
ReadersInv ==
    Alive =>
        /\ readers \cap waiting = {}
        /\ \A u \in Users : user[u] = "query" => u \in readers \cup waiting
        /\ \A u \in Users : u \in readers \cup waiting => user[u] \in {"query", "dead"}
        /\ \A u \in Loops : user[u] # "dead"
        /\ "main" \in readers \cup waiting <=> main = "registering"
        /\ refresher # "stopped"
        /\ provider = "aws_keyspaces" => main = "connect" \/ refresher # "off"
        /\ main = "stopping" => provider = "aws_keyspaces"

(* Liveness, under FairSpec.                                               *)

\* A query gets its answer, whatever refreshes and shutdown do, unless a
\* handler has taken the lock with it.
QueriesAreServed ==
    \A u \in Users : user[u] = "query" ~> (user[u] # "query" \/ Leaked # {} \/ ~Alive)

\* Shutdown ends: the lock is free in the end, and the refresher comes round to
\* its channel.
ShutdownEnds == main = "shutdown" ~> (~Alive \/ Leaked # {})
=============================================================================
