--------------------------- MODULE DbSession_proofs ---------------------------
(***************************************************************************)
(* Theorems about DbSession, for any sets of querying goroutines.          *)
(***************************************************************************)
EXTENDS DbSession, TLAPS

\* Every step of main, of the refresher and of a query keeps the state within
\* its types; the count of live sessions never goes below zero.
LEMMA TypeStep == TypeOK /\ OneSessionIsLive /\ [Next]_vars => TypeOK'
<1> SUFFICES ASSUME TypeOK, OneSessionIsLive, [Next]_vars PROVE TypeOK'
  OBVIOUS
<1> USE DEF TypeOK, LockTypeOK, Ended, config, sessionVars, gSessionMutex
<1>1. ASSUME ConnectCassandra \/ ConnectKeyspaces \/ ConnectOther PROVE TypeOK'
  BY <1>1 DEF ConnectCassandra, ConnectKeyspaces, ConnectOther, CreateSession
<1>2. ASSUME StartMigration \/ Migrate PROVE TypeOK'
  BY <1>2 DEF StartMigration, Migrate, Crash, Lock, Unlock
<1>3. ASSUME StartRegistering \/ Register PROVE TypeOK'
  BY <1>3 DEF StartRegistering, Register, Crash, RLock, RUnlock
<1>4. ASSUME StopServing \/ StartShutdown \/ StopRefresher PROVE TypeOK'
  BY <1>4 DEF StopServing, StartShutdown, StopRefresher, Lock
<1>5. ASSUME CloseAtShutdown PROVE TypeOK'
  BY <1>5 DEF CloseAtShutdown, CloseSession, Crash, Unlock, OneSessionIsLive
<1>6. ASSUME Tick \/ RetrieveCredentials \/ LockForRefresh PROVE TypeOK'
  BY <1>6 DEF Tick, RetrieveCredentials, LockForRefresh, Lock
<1>7. ASSUME CloseOld PROVE TypeOK'
  BY <1>7 DEF CloseOld, CloseSession, OneSessionIsLive
<1>8. ASSUME CreateNew PROVE TypeOK'
  BY <1>8 DEF CreateNew, CreateSession, Unlock
<1>9. ASSUME NEW u \in Users, StartQuery(u) PROVE TypeOK'
  BY <1>9 DEF StartQuery, RLock
<1>10. ASSUME NEW u \in Users, Query(u) PROVE TypeOK'
  BY <1>10 DEF Query, RUnlock, Crash
<1>11. CASE CrashElsewhere
  BY <1>11 DEF CrashElsewhere, Crash
<1>12. CASE UNCHANGED vars
  BY <1>12 DEF vars
<1> QED
  BY <1>1, <1>2, <1>3, <1>4, <1>5, <1>6, <1>7, <1>8, <1>9, <1>10, <1>11, <1>12
     DEF Next, MainStep, RefreshStep

\* SessionInv is preserved by every step: only the holder of the lock changes
\* the session, and it holds it from the close to the replacement.
LEMMA SessionStep == TypeOK /\ SessionInv /\ [Next]_vars => SessionInv'
<1> SUFFICES ASSUME TypeOK, SessionInv, [Next]_vars PROVE SessionInv'
  OBVIOUS
<1> USE DEF TypeOK, LockTypeOK, Ended, Alive, SessionInv, OneSessionIsLive, config,
            sessionVars, gSessionMutex
<1>1. ASSUME ConnectCassandra \/ ConnectKeyspaces \/ ConnectOther PROVE SessionInv'
  BY <1>1 DEF ConnectCassandra, ConnectKeyspaces, ConnectOther, CreateSession
<1>2. ASSUME StartMigration PROVE SessionInv'
  BY <1>2 DEF StartMigration, Lock
<1>3. ASSUME Migrate PROVE SessionInv'
  BY <1>3 DEF Migrate, Locked, Crash, Unlock
<1>4. ASSUME StartRegistering \/ Register PROVE SessionInv'
  BY <1>4 DEF StartRegistering, Register, Crash, RLock, RUnlock
<1>5. ASSUME StopServing \/ StartShutdown \/ StopRefresher PROVE SessionInv'
  BY <1>5 DEF StopServing, StartShutdown, StopRefresher, Lock
<1>6. ASSUME CloseAtShutdown PROVE SessionInv'
  BY <1>6 DEF CloseAtShutdown, Locked, CloseSession, Crash, Unlock
<1>7. ASSUME Tick \/ RetrieveCredentials \/ LockForRefresh PROVE SessionInv'
  BY <1>7 DEF Tick, RetrieveCredentials, LockForRefresh, Lock
<1>8. ASSUME CloseOld PROVE SessionInv'
  BY <1>8 DEF CloseOld, Locked, CloseSession
<1>9. ASSUME CreateNew PROVE SessionInv'
  BY <1>9 DEF CreateNew, CreateSession, Unlock
<1>10. ASSUME NEW u \in Users, StartQuery(u) PROVE SessionInv'
  BY <1>10 DEF StartQuery, RLock
<1>11. ASSUME NEW u \in Users, Query(u) PROVE SessionInv'
  BY <1>11 DEF Query, RUnlock, Crash
<1>12. CASE CrashElsewhere
  BY <1>12 DEF CrashElsewhere, Crash
<1>13. CASE UNCHANGED vars
  BY <1>13 DEF vars
<1> QED
  BY <1>1, <1>2, <1>3, <1>4, <1>5, <1>6, <1>7, <1>8, <1>9, <1>10, <1>11, <1>12, <1>13
     DEF Next, MainStep, RefreshStep

\* Types and lock discipline hold together in every behaviour.
THEOREM SessionInvariant == Spec => [](TypeOK /\ SessionInv)
<1>1. Init => TypeOK /\ SessionInv
  BY DEF Init, LockInit, TypeOK, LockTypeOK, SessionInv, OneSessionIsLive
<1>2. TypeOK /\ SessionInv /\ [Next]_vars => (TypeOK /\ SessionInv)'
  BY TypeStep, SessionStep DEF SessionInv
<1> QED BY <1>1, <1>2, PTL DEF Spec

THEOREM TypeCorrect == Spec => []TypeOK
BY SessionInvariant, PTL

\* A replaced session was closed first: never are two of them connected.
THEOREM OneSessionIsLiveHolds == Spec => []OneSessionIsLive
<1>1. SessionInv => OneSessionIsLive
  BY DEF SessionInv
<1> QED BY <1>1, SessionInvariant, PTL

\* A query finds a closed session only after Shutdown has closed it.
THEOREM QueryMeetsNoClosedSessionHolds == Spec => []QueryMeetsNoClosedSession
<1>1. SessionInv => QueryMeetsNoClosedSession
  BY DEF SessionInv, QueryMeetsNoClosedSession, Alive, Ended
<1> QED BY <1>1, SessionInvariant, PTL

\* Both at once: what a query may rely on, for any number of goroutines.
THEOREM SessionIsSoundHolds == Spec => []SessionIsSound
BY OneSessionIsLiveHolds, QueryMeetsNoClosedSessionHolds, PTL DEF SessionIsSound

\* Neither refresher nor Shutdown changes the session under a query.
THEOREM SessionIsSteadyHolds == Spec => SessionIsSteady
<1>1. TypeOK /\ SessionInv /\ [Next]_vars => [readers # {} => UNCHANGED sessionVars]_vars
  <2> SUFFICES ASSUME TypeOK, SessionInv, Next, readers # {}
               PROVE  UNCHANGED sessionVars
    OBVIOUS
  <2> USE DEF SessionInv, Locked
  <2>1. CASE MainStep
    BY <2>1 DEF MainStep, ConnectCassandra, ConnectKeyspaces, ConnectOther, StartMigration,
       Migrate, StartRegistering, Register, StartShutdown, CloseAtShutdown,
       StopRefresher
  <2>2. CASE RefreshStep
    BY <2>2 DEF RefreshStep, RetrieveCredentials, LockForRefresh, CloseOld, CreateNew
  <2>3. CASE StopServing \/ CrashElsewhere \/ Tick \/ \E u \in Users : StartQuery(u) \/ Query(u)
    BY <2>3 DEF StopServing, CrashElsewhere, Tick, StartQuery, Query
  <2> QED BY <2>1, <2>2, <2>3 DEF Next
<1> QED BY <1>1, SessionInvariant, PTL DEF Spec, SessionIsSteady

-----------------------------------------------------------------------------
(* Nobody waits in vain.                                                   *)

\* ReadersInv is preserved by every step: RLock and RUnlock frame each query, and
\* Unlock makes readers of those that wait when the earlier readers have left.
LEMMA ReadersStep == TypeOK /\ SessionInv /\ ReadersInv /\ [Next]_vars => ReadersInv'
<1> SUFFICES ASSUME TypeOK, SessionInv, ReadersInv, [Next]_vars, Alive' PROVE ReadersInv'
  BY DEF ReadersInv
<1>1. /\ main \notin Ended /\ main' \notin Ended
      /\ "main" \notin Users /\ Loops \subseteq Users
      /\ user \in [Users -> {"idle", "query", "dead"}]
  <2>1. Alive
    BY DEF Next, MainStep, RefreshStep, StopServing, CrashElsewhere, Tick,
       ConnectCassandra, ConnectKeyspaces, ConnectOther, StartMigration, Migrate,
       StartRegistering, Register, StartShutdown, CloseAtShutdown, StopRefresher,
       RetrieveCredentials, LockForRefresh, CloseOld, CreateNew, StartQuery, Query, vars,
       Alive, Ended
  <2> QED BY <2>1, SessionAssumption DEF Alive, Users, TypeOK
<1>2. ReadersInv /\ Alive
  BY <1>1 DEF Alive
<1> USE DEF ReadersInv, Ended, config, sessionVars, gSessionMutex
<1>3. CASE ConnectCassandra \/ ConnectKeyspaces \/ ConnectOther
  BY <1>1, <1>2, <1>3 DEF ConnectCassandra, ConnectKeyspaces, ConnectOther, SessionInv
<1>4. CASE StartMigration
  BY <1>1, <1>2, <1>4 DEF StartMigration, Lock
<1>5. CASE Migrate
  BY <1>1, <1>2, <1>5 DEF Migrate, Crash, Locked, Unlock
<1>6. CASE StartRegistering \/ Register
  BY <1>1, <1>2, <1>6 DEF StartRegistering, Register, Crash, RLock, RUnlock
<1>7. CASE StopServing \/ StartShutdown \/ StopRefresher
  BY <1>1, <1>2, <1>7 DEF StopServing, StartShutdown, StopRefresher, Lock
<1>8. CASE CloseAtShutdown
  BY <1>1, <1>2, <1>8 DEF CloseAtShutdown, Crash, Locked, Unlock
<1>9. CASE Tick \/ RetrieveCredentials \/ LockForRefresh \/ CloseOld
  BY <1>1, <1>2, <1>9 DEF Tick, RetrieveCredentials, LockForRefresh, CloseOld, Lock
<1>10. CASE CreateNew
  BY <1>1, <1>2, <1>10 DEF CreateNew, Unlock, SessionInv
<1>11. ASSUME NEW u \in Users, StartQuery(u) PROVE ReadersInv'
  BY <1>1, <1>2, <1>11 DEF StartQuery, RLock
<1>12. ASSUME NEW u \in Users, Query(u) PROVE ReadersInv'
  BY <1>1, <1>2, <1>12 DEF Query, RUnlock, Crash
<1>13. CASE CrashElsewhere
  BY <1>1, <1>13 DEF CrashElsewhere, Crash
<1>14. CASE UNCHANGED vars
  BY <1>1, <1>2, <1>14 DEF vars
<1> QED
  BY <1>3, <1>4, <1>5, <1>6, <1>7, <1>8, <1>9, <1>10, <1>11, <1>12, <1>13, <1>14
     DEF Next, MainStep, RefreshStep

\* Who has the lock for reading can finish its query, unless a handler took the lock
\* with it.
LEMMA ReaderRuns ==
  ASSUME TypeOK, ReadersInv, Alive, Leaked = {}, readers # {}
  PROVE  SomeoneRuns
<1>1. PICK r \in readers : r \in Users \cup {"main"}
  BY DEF TypeOK, LockTypeOK
<1>2. CASE r = "main"
  BY <1>1, <1>2 DEF ReadersInv, SomeoneRuns
<1>3. CASE r \in Users
  <2>1. user[r] # "dead"
    BY <1>3 DEF ReadersInv, Leaked, Users
  <2>2. user[r] = "query"
    BY <1>1, <1>3, <2>1 DEF ReadersInv
  <2> QED BY <1>1, <1>3, <2>2 DEF SomeoneRuns
<1> QED BY <1>1, <1>2, <1>3

\* The holder of the lock, or the one that it waits for, can go on; with the lock free
\* nobody waits but for the refresher.
LEMMA NoDeadlockHere == TypeOK /\ SessionInv /\ ReadersInv => NoDeadlock
<1> SUFFICES ASSUME TypeOK, SessionInv, ReadersInv, Alive, Leaked = {}, SomeoneWaits
             PROVE  SomeoneRuns
  BY DEF NoDeadlock
<1>1. turn \in {"main", "refresher", "nobody"}
  BY DEF TypeOK, LockTypeOK
<1>2. CASE readers # {}
  BY <1>2, ReaderRuns
<1>3. CASE readers = {} /\ turn = "refresher"
  BY <1>3 DEF SessionInv, SomeoneRuns, Locked
<1>4. CASE readers = {} /\ turn = "main"
  BY <1>4 DEF SessionInv, SomeoneRuns, Locked, Alive, Ended
<1>5. CASE readers = {} /\ turn = "nobody"
  <2>1. /\ waiting = {} /\ refresher \notin {"locked", "create"}
        /\ main \notin {"migrating", "closing"}
    BY <1>5 DEF SessionInv
  <2>2. /\ \A u \in Users : user[u] # "query"
        /\ main # "registering"
    BY <1>5, <2>1 DEF ReadersInv
  <2>3. main = "stopping"
    BY <1>5, <2>1, <2>2 DEF SomeoneWaits
  <2>4. refresher \in {"select", "retrieve", "lock"}
    BY <2>1, <2>3 DEF ReadersInv, TypeOK
  <2> QED BY <1>5, <2>3, <2>4 DEF SomeoneRuns
<1> QED BY <1>1, <1>2, <1>3, <1>4, <1>5

\* Types, lock and readers, in every behaviour.
THEOREM ReadersInvariant == Spec => []ReadersInv
<1>1. Init => ReadersInv
  BY SessionAssumption DEF Init, LockInit, ReadersInv, Users
<1> QED BY <1>1, ReadersStep, SessionInvariant, PTL DEF Spec

\* Queries, refresher and Shutdown never all wait for each other, whatever their
\* number: the lock and the stop channel admit no circle, except through a handler that
\* panicked in its query.
THEOREM NoDeadlockHolds == Spec => []NoDeadlock
BY NoDeadlockHere, ReadersInvariant, SessionInvariant, PTL
=============================================================================
