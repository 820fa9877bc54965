------------------------ MODULE ServiceLifecycle_proofs ------------------------
(***************************************************************************)
(* Theorems about ServiceLifecycle, for any goroutines and registered      *)
(* services: the life of a replica implements DbSession, whose theorems    *)
(* therefore hold of it, and what a serving replica is.                    *)
(***************************************************************************)
EXTENDS ServiceLifecycle, DbSession_proofs

-----------------------------------------------------------------------------
(* The refinement.                                                         *)

\* Every step of a replica is a step of its database session, or leaves the
\* session, its lock and all who use it as they are.
LEMMA LifeStepIsSessionStep == [LifeNext]_allVars => [Next]_vars
<1> SUFFICES ASSUME [LifeNext]_allVars PROVE [Next]_vars
  OBVIOUS
<1>1. CASE StartStep
  BY <1>1 DEF StartStep, LoadConfig, LoadRegisteredServiceConfig, ConnectDb, LookUpService,
     InsertService, ListServices, StartMqtt, StartDaemon, EngineFails, CreateProvider,
     InitProvider, Next, MainStep
<1>2. CASE LockForMigration
  BY <1>2 DEF LockForMigration, Next, MainStep
<1>3. CASE StopService \/ LockForShutdown \/ CloseDb \/ StopRefreshing
  BY <1>3 DEF StopService, LockForShutdown, CloseDb, StopRefreshing, Next, MainStep
<1>4. CASE OtherReplicaRegisters \/ UseProviderTooEarly
  BY <1>4 DEF OtherReplicaRegisters, UseProviderTooEarly, Next
<1>5. CASE RefreshTick \/ LockTheRefresh \/ Refresh
  BY <1>5 DEF RefreshTick, LockTheRefresh, Refresh, Next, RefreshStep
<1>6. CASE \E u \in Users : StartQueryOf(u) \/ QueryOf(u)
  BY <1>6 DEF StartQueryOf, QueryOf, Next
<1>7. CASE UNCHANGED allVars
  BY <1>7 DEF allVars
<1> QED BY <1>1, <1>2, <1>3, <1>4, <1>5, <1>6, <1>7 DEF LifeNext

\* A replica, from its configuration to its exit, implements DbSession: neither
\* the order of main nor the goroutines it starts give the session a behaviour
\* that its own specification does not have.
THEOREM LifeImplementsSession == LifeSpec => Spec
<1>1. LifeInit => Init
  BY DEF LifeInit
<1> QED BY <1>1, LifeStepIsSessionStep, PTL DEF LifeSpec, Spec

\* In the life of a replica, too, there is one live session, and no query finds
\* it closed before the service stops.
THEOREM SessionIsSoundInLife == LifeSpec => []SessionIsSound
BY LifeImplementsSession, SessionIsSoundHolds, PTL

\* In the life of a replica, too, queries, refresher and shutdown never all wait for each
\* other, unless a handler took the lock with it.
THEOREM NoDeadlockInLife == LifeSpec => []NoDeadlock
BY LifeImplementsSession, NoDeadlockHolds, PTL

-----------------------------------------------------------------------------
(* What main has started.                                                  *)

\* Every step keeps the state of the replica within its types.
LEMMA LifeTypeStep == LifeTypeOK /\ TypeOK' /\ [LifeNext]_allVars => LifeTypeOK'
<1> SUFFICES ASSUME LifeTypeOK, TypeOK', [LifeNext]_allVars PROVE LifeTypeOK'
  OBVIOUS
<1> USE DEF LifeTypeOK, Registrations, lifeVars, tables
<1>1. CASE LoadConfig \/ LoadRegisteredServiceConfig \/ CreateProvider \/ InitProvider
  BY <1>1 DEF LoadConfig, LoadRegisteredServiceConfig, CreateProvider, InitProvider
<1>2. CASE ConnectDb \/ LockForMigration
  BY <1>2 DEF ConnectDb, LockForMigration, InDbInit
<1>3. CASE LookUpService
  BY <1>3 DEF LookUpService, InDbInit
<1>4. CASE InsertService \/ ListServices
  BY <1>4 DEF InsertService, ListServices, InDbInit
<1>5. CASE StartMqtt \/ EngineFails \/ StopService
  BY <1>5 DEF StartMqtt, EngineFails, StopService
<1>6. CASE StartDaemon
  BY <1>6 DEF StartDaemon
<1>7. CASE LockForShutdown \/ CloseDb \/ StopRefreshing
  BY <1>7 DEF LockForShutdown, CloseDb, StopRefreshing, InShutdown
<1>8. CASE OtherReplicaRegisters
  BY <1>8 DEF OtherReplicaRegisters
<1>9. CASE UNCHANGED lifeVars
  BY <1>9
<1> QED
  BY <1>1, <1>2, <1>3, <1>4, <1>5, <1>6, <1>7, <1>8, <1>9
     DEF LifeNext, StartStep, UseProviderTooEarly, RefreshTick, LockTheRefresh, Refresh,
         StartQueryOf, QueryOf, allVars

\* LifeInv is preserved by every step, case by case: main starting, a query,
\* the refresher, the shutdown, and what other replicas do.
LEMMA LifeInvStep == LifeTypeOK /\ LifeInv /\ [LifeNext]_allVars => LifeInv'
<1> SUFFICES ASSUME LifeTypeOK, LifeInv, [LifeNext]_allVars PROVE LifeInv'
  OBVIOUS
<1> USE DEF LifeTypeOK, TypeOK, LifeInv, MainIsAtPhase, PartsAreAtPhase, NoServiceIsForgotten,
            CrashHasACause, Early, Ended, Alive, vars, config, sessionVars,
            lifeVars, tables
<1>1. CASE LoadConfig \/ LoadRegisteredServiceConfig \/ StartMqtt \/ CreateProvider
  BY <1>1 DEF LoadConfig, LoadRegisteredServiceConfig, StartMqtt, CreateProvider
<1>2. CASE ConnectDb
  BY <1>2 DEF ConnectDb, InDbInit, ConnectCassandra, ConnectKeyspaces, ConnectOther, Migrate,
     StartRegistering, CreateSession, Crash
<1>3. CASE LockForMigration
  BY <1>3 DEF LockForMigration, StartMigration, InDbInit
<1>4. CASE LookUpService
  <2>1. CASE main' = "crashed"
    BY <1>4, <2>1 DEF LookUpService, Register, InDbInit, Crash
  <2>2. CASE main' # "crashed"
    <3> PICK s \in todo :
           /\ main' = "register" /\ todo' = todo \ {s}
           /\ skipped' = skipped \cup {s} \/ (UNCHANGED skipped /\ (registry[s] # "none" \/ missing' = s))
           /\ UNCHANGED <<registry, known>>
      BY <1>4, <2>2 DEF LookUpService
    <3>1. /\ missing = NoService /\ phase = "db" /\ UNCHANGED <<engine, queue, user>>
      BY <1>4 DEF LookUpService, Register, InDbInit
    <3>2. phase' = "db"
      BY <1>4 DEF LookUpService, InDbInit
    <3>3. MainIsAtPhase' /\ PartsAreAtPhase' /\ CrashHasACause'
      BY <3>1, <3>2
    <3>4. NoServiceIsForgotten'
      BY <3>1, <3>2, LifeAssumption
    <3> QED BY <3>3, <3>4
  <2> QED BY <2>1, <2>2
<1>5. CASE InsertService
  BY <1>5 DEF InsertService, Register, InDbInit, Crash
<1>6. CASE ListServices
  BY <1>6, LifeAssumption DEF ListServices, Register, InDbInit, Crash
<1>7. CASE StartDaemon
  BY <1>7 DEF StartDaemon, CrashElsewhere, Crash
<1>8. CASE EngineFails \/ InitProvider \/ StopService
  BY <1>8 DEF EngineFails, InitProvider, StopService, StopServing
<1>9. CASE LockForShutdown \/ StopRefreshing
  BY <1>9 DEF LockForShutdown, StartShutdown, StopRefreshing, StopRefresher, InShutdown
<1>10. CASE CloseDb
  BY <1>10 DEF CloseDb, CloseAtShutdown, InShutdown, CloseSession, Crash
<1>11. CASE OtherReplicaRegisters
  BY <1>11 DEF OtherReplicaRegisters
<1>12. CASE UseProviderTooEarly
  BY <1>12 DEF UseProviderTooEarly, CrashElsewhere, Crash
<1>13. CASE RefreshTick \/ LockTheRefresh
  BY <1>13 DEF RefreshTick, Tick, LockTheRefresh, LockForRefresh
<1>14. CASE Refresh
  BY <1>14 DEF Refresh, RetrieveCredentials, CloseOld, CloseSession, CreateNew, CreateSession
<1>15. ASSUME NEW u \in Users, StartQueryOf(u) PROVE LifeInv'
  BY <1>15 DEF StartQueryOf, StartQuery
<1>16. ASSUME NEW u \in Users, QueryOf(u) PROVE LifeInv'
  BY <1>16 DEF QueryOf, Query, Crash
<1>17. CASE UNCHANGED allVars
  BY <1>17 DEF allVars
<1> QED
  BY <1>1, <1>2, <1>3, <1>4, <1>5, <1>6, <1>7, <1>8, <1>9, <1>10, <1>11, <1>12, <1>13,
     <1>14, <1>15, <1>16, <1>17 DEF LifeNext, StartStep

\* In every behaviour the phases of main, the parts it has started and the services
\* it has registered agree.
THEOREM LifeInvariant == LifeSpec => [](LifeTypeOK /\ LifeInv)
<1>1. LifeSpec => []TypeOK
  BY LifeImplementsSession, TypeCorrect, PTL
<1>2. LifeInit /\ TypeOK => LifeTypeOK /\ LifeInv
  BY DEF LifeInit, Init, LifeTypeOK, LifeInv, Registrations, MainIsAtPhase, PartsAreAtPhase,
     NoServiceIsForgotten, CrashHasACause, Early, Ended, Alive
<1>3. LifeTypeOK /\ LifeInv /\ TypeOK' /\ [LifeNext]_allVars => (LifeTypeOK /\ LifeInv)'
  BY LifeTypeStep, LifeInvStep
<1> QED BY <1>1, <1>2, <1>3, PTL DEF LifeSpec

\* A replica that serves has its queues, its engine and a route for every
\* configured service whose look-up did not fail, for any number of services.
THEOREM ReadyWhenServingHolds == LifeSpec => []ReadyWhenServing
<1>1. LifeInv => ReadyWhenServing
  BY DEF LifeInv, ReadyWhenServing, PartsAreAtPhase, NoServiceIsForgotten
<1> QED BY <1>1, LifeInvariant, PTL

\* A replica that has its session crashes only while its queues are not there.
THEOREM CrashHasACauseHolds == LifeSpec => []CrashHasACause
<1>1. LifeInv => CrashHasACause
  BY DEF LifeInv
<1> QED BY <1>1, LifeInvariant, PTL
=============================================================================
