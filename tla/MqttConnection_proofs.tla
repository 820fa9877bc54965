------------------------- MODULE MqttConnection_proofs -------------------------
(***************************************************************************)
(* Theorems about MqttConnection, for any publishers, any number of        *)
(* callbacks at a time, any number of attempts and of expiries: what the   *)
(* mutex and the order of steps in the callbacks guarantee about the       *)
(* connection manager.                                                     *)
(***************************************************************************)
EXTENDS MqttConnection, TLAPS

\* A step of a callback concerns a goroutine that is neither main nor a publisher.
LEMMA CallbackIsApart ==
  ASSUME NEW c \in Callbacks
  PROVE  c # "main" /\ c # "nobody" /\ c \notin Publishers
BY MqttAssumption

\* Types of what the token functions leave.
LEMMA TokenType ==
  ASSUME TypeOK, NEW g \in Callbacks \cup {"main"}, GetAccessToken(g)
  PROVE  /\ token' \in Tokens
         /\ got' \in [Callbacks \cup {"main"} -> Tokens]
         /\ tries' \in [Callbacks \cup {"main"} -> 0..RetryCount - 1]
BY MqttAssumption DEF TypeOK, GetAccessToken, TokenKept, TokenAnswer, BadStatus, Tokens, Unexpired

LEMMA TriesType ==
  ASSUME TypeOK, NEW g \in Callbacks \cup {"main"}, AttemptFails(g)
  PROVE  tries' \in [Callbacks \cup {"main"} -> 0..RetryCount - 1]
BY MqttAssumption DEF TypeOK, AttemptFails

\* To stop the manager, if there is one, leaves none.
LEMMA StopType ==
  ASSUME TypeOK, OneManagerRuns, StopManager
  PROVE  /\ status' = "stopped" /\ login' \in Names /\ managers' \in Nat
         /\ mine' \in SUBSET Callbacks
         /\ OneManagerRuns'
BY DEF TypeOK, OneManagerRuns, StopManager, Names

\* A new connection manager, or none, after the one before is gone.
LEMMA ConnectionType ==
  ASSUME TypeOK, OneManagerRuns,
         \/ NoConnection /\ status \in {"none", "stopped"}
         \/ \E l \in Names : NewConnection(l) /\ status \in {"none", "stopped"}
  PROVE  /\ status' \in {"none", "stopped", "connecting", "up"}
         /\ login' \in Names
         /\ managers' \in Nat
         /\ mine' \in SUBSET Callbacks
         /\ OneManagerRuns'
BY DEF TypeOK, OneManagerRuns, NoConnection, NewConnection, Names

\* Every step keeps the state within its types; that managers is never taken below
\* zero follows from the invariant.
LEMMA TypeStep == TypeOK /\ OneManagerRuns /\ StoppedUnderLock /\ AloneAtStart /\ [Next]_vars
                    => TypeOK' /\ OneManagerRuns'
<1> SUFFICES ASSUME TypeOK, OneManagerRuns, StoppedUnderLock, AloneAtStart, [Next]_vars
             PROVE  TypeOK' /\ OneManagerRuns'
  OBVIOUS
<1> USE DEF LockTypeOK, Ended, tokenVars, connVars, connMutex, Goto, Crash
<1>1. CASE Expire
  <2>1. ASSUME NEW n \in Names PROVE Aged(n) \in Names
    BY DEF Aged, Names, Tokens
  <2>2. ASSUME NEW n \in Tokens PROVE Aged(n) \in Tokens
    BY DEF Aged, Tokens
  <2>3. got' \in [Callbacks \cup {"main"} -> Tokens] /\ token' \in Tokens
    BY <1>1, <2>2 DEF Expire, TypeOK, Tokens
  <2>4. expiries' \in 0..MaxExpiries
    BY <1>1, MqttAssumption DEF Expire, TypeOK
  <2> QED BY <1>1, <2>1, <2>3, <2>4 DEF Expire, TypeOK, OneManagerRuns
<1>2. CASE Dial \/ Ping
  BY <1>2, TriesType, MqttAssumption DEF Dial, Ping, TypeOK, OneManagerRuns
<1>3. CASE FirstToken
  BY <1>3, TokenType, TriesType DEF FirstToken, TypeOK, OneManagerRuns
<1>4. CASE FirstUsername
  BY <1>4 DEF FirstUsername, TypeOK, OneManagerRuns, Names, Tokens
<1>5. CASE LockForFirst
  BY <1>5 DEF LockForFirst, Lock, TypeOK, OneManagerRuns
<1>6. CASE FirstConnection
  <2>1. status = "none" /\ username \in Names
    BY <1>6 DEF FirstConnection, AloneAtStart, Starting, TypeOK
  <2> QED BY <1>6, <2>1, ConnectionType DEF FirstConnection, Unlock, TypeOK
<1>7. CASE RegisterServices
  BY <1>7 DEF RegisterServices, TypeOK, OneManagerRuns
<1>8. CASE Shutdown
  <2>1. CASE StopManager
    BY <1>8, <2>1, StopType DEF Shutdown, TypeOK
  <2> QED BY <1>8, <2>1 DEF Shutdown, TypeOK, OneManagerRuns
<1>9. CASE ConnectionLost
  BY <1>9 DEF ConnectionLost, TypeOK, OneManagerRuns
<1>10. ASSUME NEW c \in Callbacks, LibraryStep(c) \/ ServerDisconnect(c)
       PROVE TypeOK' /\ OneManagerRuns'
  BY <1>10 DEF LibraryStep, ConnectError, ConnectionUp, ServerDisconnect, TypeOK, OneManagerRuns
<1>11. ASSUME NEW c \in Callbacks, CallbackStep(c) PROVE TypeOK' /\ OneManagerRuns'
  <2>1. CASE ResetUsername(c) \/ SetUsername(c)
    BY <2>1 DEF ResetUsername, SetUsername, TypeOK, OneManagerRuns, Names, Tokens
  <2>2. CASE RenewToken(c)
    BY <2>2, TokenType, TriesType DEF RenewToken, TypeOK, OneManagerRuns
  <2>3. CASE Reconnect(c)
    BY <2>3 DEF Reconnect, TypeOK, OneManagerRuns
  <2>4. CASE LockForReconnect(c)
    BY <2>4 DEF LockForReconnect, Lock, TypeOK, OneManagerRuns
  <2>5. CASE Disconnect(c)
    <3>1. CASE StopManager
      BY <2>5, <3>1, StopType DEF Disconnect, TypeOK
    <3> QED BY <2>5, <3>1 DEF Disconnect, TypeOK, OneManagerRuns
  <2>6. CASE Connect(c)
    <3>1. status \in {"none", "stopped"}
      BY <2>6 DEF Connect, StoppedUnderLock
    <3>2. username \in Names /\ "torn" \in Names
      BY DEF TypeOK, Names, Tokens
    <3> QED BY <2>6, <3>1, <3>2, ConnectionType DEF Connect, Unlock, TypeOK
  <2>7. CASE StartSubscribe(c) \/ Subscribe(c)
    BY <2>7 DEF StartSubscribe, Subscribe, RLock, RUnlock, TypeOK, OneManagerRuns
  <2> QED BY <1>11, <2>1, <2>2, <2>3, <2>4, <2>5, <2>6, <2>7 DEF CallbackStep
<1>12. ASSUME NEW p \in Publishers, StartSend(p) \/ Send(p) PROVE TypeOK' /\ OneManagerRuns'
  BY <1>12 DEF StartSend, Send, RLock, RUnlock, TypeOK, OneManagerRuns
<1>13. CASE UNCHANGED vars
  BY <1>13 DEF vars, TypeOK, OneManagerRuns
<1> QED BY <1>1, <1>2, <1>3, <1>4, <1>5, <1>6, <1>7, <1>8, <1>9, <1>10, <1>11, <1>12, <1>13
        DEF Next, MainStep
-----------------------------------------------------------------------------
(* The order of the steps.                                                 *)

\* Before the first connection main is alone.
LEMMA AloneStep == TypeOK /\ AloneAtStart /\ [Next]_vars => AloneAtStart'
<1> SUFFICES ASSUME TypeOK, AloneAtStart, [Next]_vars, main' \in Starting PROVE AloneAtStart'
  BY DEF AloneAtStart
<1> USE DEF AloneAtStart, Starting, Ended, tokenVars, connVars, connMutex, Goto, Crash
<1>1. CASE MainStep
  BY <1>1 DEF MainStep, Dial, Ping, FirstToken, FirstUsername, LockForFirst, FirstConnection,
     RegisterServices
<1>2. CASE Expire \/ Shutdown \/ ConnectionLost \/ UNCHANGED vars
  BY <1>2 DEF Expire, Shutdown, ConnectionLost, vars
<1>3. ASSUME NEW c \in Callbacks, LibraryStep(c) \/ ServerDisconnect(c) PROVE FALSE
  BY <1>3 DEF LibraryStep, ConnectError, ConnectionUp, ServerDisconnect
<1>4. ASSUME NEW c \in Callbacks, CallbackStep(c) PROVE FALSE
  BY <1>4 DEF CallbackStep, ResetUsername, RenewToken, SetUsername, Reconnect,
     LockForReconnect, Disconnect, Connect, StartSubscribe, Subscribe
<1>5. ASSUME NEW p \in Publishers, StartSend(p) \/ Send(p) PROVE FALSE
  BY <1>5 DEF StartSend, Send
<1> QED BY <1>1, <1>2, <1>3, <1>4, <1>5 DEF Next

\* A cancelled service has no manager that runs, and gets none.
LEMMA CancelledStep == AloneAtStart /\ CancelledIsDown /\ [Next]_vars => CancelledIsDown'
<1> SUFFICES ASSUME AloneAtStart, CancelledIsDown, [Next]_vars PROVE CancelledIsDown'
  OBVIOUS
<1> USE DEF CancelledIsDown, tokenVars, connVars, connMutex
<1>1. CASE MainStep
  BY <1>1 DEF MainStep, Dial, Ping, FirstToken, FirstUsername, LockForFirst, FirstConnection,
     RegisterServices, NewConnection, NoConnection
<1>2. CASE Expire \/ Shutdown \/ ConnectionLost \/ UNCHANGED vars
  BY <1>2 DEF Expire, Shutdown, ConnectionLost, StopManager, vars
<1>3. ASSUME NEW c \in Callbacks, LibraryStep(c) \/ ServerDisconnect(c) PROVE CancelledIsDown'
  BY <1>3 DEF LibraryStep, ConnectError, ConnectionUp, ServerDisconnect
<1>4. ASSUME NEW c \in Callbacks, CallbackStep(c) PROVE CancelledIsDown'
  BY <1>4 DEF CallbackStep, ResetUsername, RenewToken, SetUsername, Reconnect,
     LockForReconnect, Disconnect, StopManager, Connect, NewConnection, NoConnection,
     StartSubscribe, Subscribe
<1>5. ASSUME NEW p \in Publishers, StartSend(p) \/ Send(p) PROVE CancelledIsDown'
  BY <1>5 DEF StartSend, Send
<1> QED BY <1>1, <1>2, <1>3, <1>4, <1>5 DEF Next
\* The callback that resets the user name is the one that will set it.
LEMMA NameStep == TypeOK /\ AloneAtStart /\ NameIsSetAgain /\ [Next]_vars => NameIsSetAgain'
<1> SUFFICES ASSUME TypeOK, AloneAtStart, NameIsSetAgain, [Next]_vars PROVE NameIsSetAgain'
  OBVIOUS
<1> USE DEF tokenVars, connVars, connMutex, Goto, Crash
<1>1. ASSUME UNCHANGED <<broker, username>>, main' \notin {"lock", "connect"} \/ main' = main,
             main' \in {"register", "serve"} => main \in {"register", "serve", "connect"},
             \A c \in Callbacks : step[c] \in {"renew", "set"} => step'[c] \in {"renew", "set"}
      PROVE  NameIsSetAgain'
  BY <1>1 DEF NameIsSetAgain
<1>2. CASE Expire
  <2>1. username' = "unset" <=> username = "unset"
    BY <1>2 DEF Expire, Aged
  <2> QED BY <1>2, <2>1 DEF Expire, NameIsSetAgain
<1>3. CASE Dial \/ Ping \/ LockForFirst \/ FirstConnection \/ RegisterServices
  BY <1>3 DEF Dial, Ping, LockForFirst, FirstConnection, RegisterServices, NameIsSetAgain
<1>4. CASE FirstToken
  BY <1>4 DEF FirstToken, NameIsSetAgain
<1>5. CASE FirstUsername
  BY <1>5, MqttAssumption DEF FirstUsername, NameIsSetAgain, TypeOK, Tokens
<1>6. CASE Shutdown \/ ConnectionLost \/ UNCHANGED vars
  BY <1>1, <1>6 DEF Shutdown, ConnectionLost, vars
<1>7. ASSUME NEW c \in Callbacks, LibraryStep(c) \/ ServerDisconnect(c) PROVE NameIsSetAgain'
  <2>1. \A d \in Callbacks : step[d] \in {"renew", "set"} => step'[d] = step[d]
    BY <1>7 DEF LibraryStep, ConnectError, ConnectionUp, ServerDisconnect, TypeOK
  <2> QED BY <1>1, <1>7, <2>1 DEF LibraryStep, ConnectError, ConnectionUp, ServerDisconnect
<1>8. ASSUME NEW c \in Callbacks, CallbackStep(c) PROVE NameIsSetAgain'
  <2>1. main \in {"register", "serve"} /\ main' \in {main, "crashed"}
    BY <1>8, CallbackIsApart DEF AloneAtStart, Starting, TypeOK, Ended, Alive, CallbackStep,
       ResetUsername, RenewToken, SetUsername, Reconnect, LockForReconnect, Disconnect, Connect,
       StartSubscribe, Subscribe
  <2>2. CASE ResetUsername(c)
    <3>1. step'[c] = "renew" /\ main' \notin {"lock", "connect"}
      BY <2>1, <2>2 DEF ResetUsername, TypeOK
    <3> QED BY <3>1 DEF NameIsSetAgain
  <2>3. CASE SetUsername(c)
    <3>1. username' # "unset"
      BY <2>3 DEF SetUsername, TypeOK, Tokens
    <3> QED BY <3>1 DEF NameIsSetAgain
  <2>4. CASE RenewToken(c)
    <3>1. \A d \in Callbacks : step[d] \in {"renew", "set"} => step'[d] \in {"renew", "set"}
      BY <2>4 DEF RenewToken, TypeOK
    <3> QED BY <1>1, <2>1, <2>4, <3>1 DEF RenewToken
  <2>5. CASE \/ Reconnect(c) \/ LockForReconnect(c) \/ Disconnect(c) \/ Connect(c)
             \/ StartSubscribe(c) \/ Subscribe(c)
    <3>1. \A d \in Callbacks : step[d] \in {"renew", "set"} => step'[d] = step[d]
      BY <2>5 DEF Reconnect, LockForReconnect, Disconnect, Connect, StartSubscribe, Subscribe,
         TypeOK
    <3>2. UNCHANGED <<broker, username>>
      BY <2>5 DEF Reconnect, LockForReconnect, Disconnect, Connect, StartSubscribe, Subscribe
    <3> QED BY <1>1, <2>1, <3>1, <3>2
  <2> QED BY <1>8, <2>2, <2>3, <2>4, <2>5 DEF CallbackStep
<1>9. ASSUME NEW p \in Publishers, StartSend(p) \/ Send(p) PROVE NameIsSetAgain'
  <2>1. \A d \in Callbacks : step'[d] = step[d]
    BY <1>9, MqttAssumption DEF StartSend, Send, TypeOK
  <2> QED BY <1>1, <1>9, <2>1 DEF StartSend, Send
<1> QED BY <1>2, <1>3, <1>4, <1>5, <1>6, <1>7, <1>8, <1>9 DEF Next, MainStep

\* A manager without credentials keeps its replacer until it is stopped.
LEMMA AnonymousStep ==
  TypeOK /\ AloneAtStart /\ CancelledIsDown /\ NameIsSetAgain /\ AnonymousIsReplaced
    /\ [Next]_vars => AnonymousIsReplaced'
<1> SUFFICES ASSUME TypeOK, AloneAtStart, CancelledIsDown, NameIsSetAgain, AnonymousIsReplaced,
                    [Next]_vars
             PROVE  AnonymousIsReplaced'
  OBVIOUS
<1> USE DEF tokenVars, connVars, connMutex, Goto, Crash
<1>1. ASSUME UNCHANGED <<broker, login>>,
             status' \in {"connecting", "up"} => status \in {"connecting", "up"},
             \A c \in Callbacks : Replacing(c) => Replacing(c)'
      PROVE  AnonymousIsReplaced'
  BY <1>1 DEF AnonymousIsReplaced
<1>2. CASE Expire
  <2>1. login' = "unset" <=> login = "unset"
    BY <1>2 DEF Expire, Aged
  <2> QED BY <1>2, <2>1 DEF Expire, AnonymousIsReplaced, Replacing
<1>3. CASE Dial \/ Ping \/ FirstToken \/ FirstUsername \/ LockForFirst \/ RegisterServices
           \/ ConnectionLost \/ UNCHANGED vars
  BY <1>1, <1>3 DEF Dial, Ping, FirstToken, FirstUsername, LockForFirst, RegisterServices,
     ConnectionLost, vars, Replacing
<1>4. CASE FirstConnection
  BY <1>4 DEF FirstConnection, NewConnection, NoConnection, NameIsSetAgain, AnonymousIsReplaced
<1>5. CASE Shutdown
  BY <1>5 DEF Shutdown, StopManager, AnonymousIsReplaced
<1>6. ASSUME NEW c \in Callbacks, LibraryStep(c) \/ ServerDisconnect(c) PROVE AnonymousIsReplaced'
  <2>1. \A d \in Callbacks : Replacing(d) => Replacing(d)'
    BY <1>6 DEF LibraryStep, ConnectError, ConnectionUp, ServerDisconnect, TypeOK, Replacing
  <2> QED BY <1>1, <1>6, <2>1 DEF LibraryStep, ConnectError, ConnectionUp, ServerDisconnect
<1>7. ASSUME NEW c \in Callbacks, CallbackStep(c) PROVE AnonymousIsReplaced'
  <2>1. CASE ResetUsername(c) \/ SetUsername(c)
    <3>1. \A d \in Callbacks : Replacing(d) => Replacing(d)'
      BY <2>1 DEF ResetUsername, SetUsername, TypeOK, Replacing
    <3> QED BY <1>1, <2>1, <3>1 DEF ResetUsername, SetUsername
  <2>2. CASE RenewToken(c)
    <3>1. \A d \in Callbacks : Replacing(d) => Replacing(d)'
      BY <2>2 DEF RenewToken, TypeOK, Replacing
    <3> QED BY <1>1, <2>2, <3>1 DEF RenewToken
  <2>3. CASE Reconnect(c)
    <3>1. CASE cancelled
      BY <2>3, <3>1 DEF Reconnect, CancelledIsDown, AnonymousIsReplaced
    <3>2. CASE ~cancelled
      <4>1. \A d \in Callbacks : Replacing(d) => Replacing(d)'
        BY <2>3, <3>2 DEF Reconnect, TypeOK, Replacing
      <4> QED BY <1>1, <2>3, <4>1 DEF Reconnect
    <3> QED BY <3>1, <3>2
  <2>4. CASE LockForReconnect(c)
    <3>1. \A d \in Callbacks : Replacing(d) => Replacing(d)'
      BY <2>4 DEF LockForReconnect, TypeOK, Replacing
    <3> QED BY <1>1, <2>4, <3>1 DEF LockForReconnect
  <2>5. CASE Disconnect(c)
    BY <2>5, <1>1 DEF Disconnect, StopManager, AnonymousIsReplaced, Replacing
  <2>6. CASE Connect(c)
    <3>1. \A d \in Callbacks : Replacing(d) => Replacing(d)'
      BY <2>6 DEF Connect, TypeOK, Replacing
    <3>2. login' = "unset" /\ status' \in {"connecting", "up"} => username = "unset"
      BY <2>6 DEF Connect, NewConnection, NoConnection
    <3>3. main \in {"register", "serve"} /\ broker' = broker
      BY <2>6, CallbackIsApart DEF Connect, AloneAtStart, Starting, TypeOK, Ended, Alive
    <3>4. broker = "aws_iot" /\ username = "unset" => \E d \in Callbacks : Replacing(d)
      BY <3>3 DEF NameIsSetAgain, Replacing
    <3> QED BY <3>1, <3>2, <3>3, <3>4 DEF AnonymousIsReplaced
  <2>7. CASE StartSubscribe(c) \/ Subscribe(c)
    <3>1. \A d \in Callbacks : Replacing(d) => Replacing(d)'
      BY <2>7 DEF StartSubscribe, Subscribe, TypeOK, Replacing
    <3> QED BY <1>1, <2>7, <3>1 DEF StartSubscribe, Subscribe
  <2> QED BY <1>7, <2>1, <2>2, <2>3, <2>4, <2>5, <2>6, <2>7 DEF CallbackStep
<1>8. ASSUME NEW p \in Publishers, StartSend(p) \/ Send(p) PROVE AnonymousIsReplaced'
  <2>1. \A d \in Callbacks : step'[d] = step[d]
    BY <1>8, MqttAssumption DEF StartSend, Send, TypeOK
  <2> QED BY <1>1, <1>8, <2>1 DEF StartSend, Send, Replacing
<1> QED BY <1>2, <1>3, <1>4, <1>5, <1>6, <1>7, <1>8 DEF Next, MainStep

\* From Disconnect to NewConnection one callback has the lock to itself.
LEMMA LockStep ==
  TypeOK /\ AloneAtStart /\ CancelledIsDown /\ StoppedUnderLock /\ [Next]_vars => StoppedUnderLock'
<1> SUFFICES ASSUME TypeOK, AloneAtStart, CancelledIsDown, StoppedUnderLock, [Next]_vars
             PROVE  StoppedUnderLock'
  OBVIOUS
<1> USE DEF tokenVars, connVars, connMutex, Goto, Crash
<1>1. ASSUME \A c \in Callbacks : /\ step'[c] \in {"disconnect", "connect"} => step'[c] = step[c]
                                  /\ step[c] = "connect" => step'[c] = "connect",
             UNCHANGED <<cancelled, status, turn>>, readers' \subseteq readers
      PROVE  StoppedUnderLock'
  BY <1>1 DEF StoppedUnderLock
<1>2. CASE Expire \/ Dial \/ Ping \/ FirstToken \/ FirstUsername \/ RegisterServices
           \/ UNCHANGED vars
  BY <1>1, <1>2 DEF Expire, Dial, Ping, FirstToken, FirstUsername, RegisterServices, vars
<1>3. CASE LockForFirst \/ FirstConnection
  <2>1. status' # "stopped" /\ step' = step /\ \A g \in Publishers \cup Callbacks : step[g] = "idle"
    BY <1>3 DEF LockForFirst, FirstConnection, AloneAtStart, Starting, NewConnection, NoConnection
  <2> QED BY <2>1 DEF StoppedUnderLock
<1>4. CASE Shutdown
  BY <1>4 DEF Shutdown, StopManager, StoppedUnderLock
<1>5. CASE ConnectionLost
  BY <1>5 DEF ConnectionLost, StoppedUnderLock
<1>6. ASSUME NEW c \in Callbacks, LibraryStep(c) \/ ServerDisconnect(c) PROVE StoppedUnderLock'
  <2>1. status \in {"connecting", "up"} /\ status' \in {"connecting", "up"}
        /\ UNCHANGED <<readers, turn>>
    BY <1>6 DEF LibraryStep, ConnectError, ConnectionUp, ServerDisconnect
  <2>2. \A d \in Callbacks : step'[d] \in {"disconnect", "connect"} => step'[d] = step[d]
    BY <1>6 DEF LibraryStep, ConnectError, ConnectionUp, ServerDisconnect, TypeOK
  <2> QED BY <2>1, <2>2 DEF StoppedUnderLock
<1>7. ASSUME NEW c \in Callbacks, CallbackStep(c) PROVE StoppedUnderLock'
  <2>1. CASE ResetUsername(c) \/ SetUsername(c) \/ Reconnect(c)
    BY <1>1, <2>1 DEF ResetUsername, SetUsername, Reconnect, TypeOK
  <2>2. CASE RenewToken(c)
    BY <1>1, <2>2 DEF RenewToken, TypeOK
  <2>3. CASE LockForReconnect(c)
    <3>1. turn = "nobody" /\ turn' = c /\ UNCHANGED <<cancelled, status, readers>>
      BY <2>3 DEF LockForReconnect, Lock
    <3>2. step'[c] = "disconnect" /\ \A d \in Callbacks \ {c} : step'[d] = step[d]
      BY <2>3 DEF LockForReconnect, TypeOK
    <3>3. \A d \in Callbacks : step[d] \notin {"disconnect", "connect"}
      BY <3>1, CallbackIsApart DEF StoppedUnderLock
    <3> QED BY <3>1, <3>2, <3>3 DEF StoppedUnderLock
  <2>4. CASE Disconnect(c)
    <3>1. turn = c /\ readers = {} /\ UNCHANGED <<turn, readers, cancelled>>
      BY <2>4 DEF Disconnect, Locked
    <3>2. \A d \in Callbacks \ {c} : step[d] \notin {"disconnect", "connect"} /\ step'[d] = step[d]
      BY <2>4, <3>1 DEF StoppedUnderLock, Disconnect, TypeOK
    <3>3. CASE StopManager /\ step'[c] = "connect"
      BY <3>1, <3>2, <3>3 DEF StopManager, StoppedUnderLock
    <3>4. CASE UNCHANGED <<step, status>>
      BY <3>1, <3>4 DEF StoppedUnderLock
    <3> QED BY <2>4, <3>3, <3>4 DEF Disconnect, TypeOK
  <2>5. CASE Connect(c)
    <3>1. turn = c /\ step'[c] = "idle" /\ \A d \in Callbacks \ {c} : step'[d] = step[d]
      BY <2>5 DEF Connect, StoppedUnderLock, TypeOK
    <3>2. \A d \in Callbacks : step'[d] \notin {"disconnect", "connect"}
      BY <3>1 DEF StoppedUnderLock
    <3>3. status' = "stopped" => cancelled'
      BY <2>5 DEF Connect, NewConnection, NoConnection
    <3> QED BY <3>2, <3>3 DEF StoppedUnderLock
  <2>6. CASE StartSubscribe(c)
    <3>1. \A d \in Callbacks : /\ step'[d] \in {"disconnect", "connect"} => step'[d] = step[d]
                               /\ step[d] = "connect" => step'[d] = "connect"
      BY <2>6 DEF StartSubscribe, TypeOK
    <3>2. UNCHANGED <<cancelled, status, turn>> /\ (turn # "nobody" => readers' = readers)
      BY <2>6 DEF StartSubscribe, RLock
    <3> QED BY <3>1, <3>2, CallbackIsApart DEF StoppedUnderLock
  <2>7. CASE Subscribe(c)
    <3>1. \A d \in Callbacks : /\ step'[d] \in {"disconnect", "connect"} => step'[d] = step[d]
                               /\ step[d] = "connect" => step'[d] = "connect"
      BY <2>7 DEF Subscribe, TypeOK
    <3>2. UNCHANGED <<cancelled, status, turn>> /\ readers' \subseteq readers
      BY <2>7 DEF Subscribe, RUnlock
    <3> QED BY <1>1, <3>1, <3>2
  <2> QED BY <1>7, <2>1, <2>2, <2>3, <2>4, <2>5, <2>6, <2>7 DEF CallbackStep
<1>8. ASSUME NEW p \in Publishers, StartSend(p) \/ Send(p) PROVE StoppedUnderLock'
  <2>1. \A d \in Callbacks : step'[d] = step[d]
    BY <1>8, MqttAssumption DEF StartSend, Send, TypeOK
  <2>2. UNCHANGED <<cancelled, status, turn>> /\ (turn # "nobody" => readers' \subseteq readers)
    BY <1>8 DEF StartSend, Send, RLock, RUnlock
  <2> QED BY <2>1, <2>2, CallbackIsApart DEF StoppedUnderLock
<1> QED BY <1>2, <1>3, <1>4, <1>5, <1>6, <1>7, <1>8 DEF Next, MainStep

-----------------------------------------------------------------------------
(* The theorems.                                                           *)

\* In every behaviour the invariant holds: it is the conjunction of the facts
\* above, each kept by every step with the help of those before it.
THEOREM MqttInvariant == Spec => [](TypeOK /\ MqttInv)
<1>1. Init => TypeOK /\ MqttInv
  <2> SUFFICES ASSUME Init PROVE TypeOK /\ MqttInv
    OBVIOUS
  <2>1. TypeOK
    <3>1. tries \in [Callbacks \cup {"main"} -> 0..RetryCount - 1] /\ expiries \in 0..MaxExpiries
      BY MqttAssumption DEF Init
    <3>2. LockTypeOK
      BY DEF Init, LockInit, LockTypeOK
    <3>3. /\ broker \in {"aws_iot", "local"} /\ main = "dial" /\ cancelled \in BOOLEAN
          /\ token \in Tokens /\ username \in Names /\ status = "none" /\ login \in Names
          /\ managers \in Nat /\ mine \in SUBSET Callbacks
      BY DEF Init, Names, Tokens
    <3>4. /\ step \in [Publishers \cup Callbacks -> {"idle"}]
          /\ got \in [Callbacks \cup {"main"} -> Tokens]
      BY DEF Init, Tokens
    <3> QED BY <3>1, <3>2, <3>3, <3>4 DEF TypeOK
  <2>2. OneManagerRuns /\ AnonymousIsReplaced /\ CancelledIsDown /\ NameIsSetAgain
    BY DEF Init, OneManagerRuns, AnonymousIsReplaced, CancelledIsDown, NameIsSetAgain
  <2>3. AloneAtStart /\ StoppedUnderLock
    BY DEF Init, AloneAtStart, StoppedUnderLock
  <2> QED BY <2>1, <2>2, <2>3 DEF MqttInv
<1>2. TypeOK /\ MqttInv /\ [Next]_vars => TypeOK' /\ MqttInv'
  BY TypeStep, AloneStep, CancelledStep, NameStep, AnonymousStep, LockStep DEF MqttInv
<1> QED BY <1>1, <1>2, PTL DEF Spec

\* The connection, the token and the mutex have the values of their types, torn
\* strings included.
THEOREM TypeCorrect == Spec => []TypeOK
BY MqttInvariant, PTL

\* However callbacks, expiry and shutdown interleave, one manager runs.
THEOREM OneManagerRunsHolds == Spec => []OneManagerRuns
<1>1. MqttInv => OneManagerRuns
  BY DEF MqttInv
<1> QED BY <1>1, MqttInvariant, PTL

\* A manager that was made while the user name was reset does not stay.
THEOREM AnonymousIsReplacedHolds == Spec => []AnonymousIsReplaced
<1>1. MqttInv => AnonymousIsReplaced
  BY DEF MqttInv
<1> QED BY <1>1, MqttInvariant, PTL

\* Whoever holds the lock for reading, to publish or to subscribe, has a manager
\* that no reconnect has stopped.
THEOREM PublisherKeepsManagerHolds == Spec => []PublisherKeepsManager
<1>1. MqttInv => PublisherKeepsManager
  BY DEF MqttInv, StoppedUnderLock, PublisherKeepsManager
<1> QED BY <1>1, MqttInvariant, PTL

-----------------------------------------------------------------------------
(* Nobody waits in vain.                                                   *)

\* A process that has ended stays so.
LEMMA EndedStays == [Next]_vars /\ Alive' => Alive
<1> SUFFICES ASSUME [Next]_vars, ~Alive PROVE ~Alive'
  OBVIOUS
<1> USE DEF Alive, Ended
<1>1. CASE MainStep \/ Shutdown
  BY <1>1 DEF MainStep, Dial, Ping, FirstToken, FirstUsername, LockForFirst, FirstConnection,
     RegisterServices, Shutdown
<1>2. CASE Expire \/ ConnectionLost \/ UNCHANGED vars
  BY <1>2 DEF Expire, ConnectionLost, vars
<1>3. ASSUME NEW c \in Callbacks, LibraryStep(c) \/ ServerDisconnect(c) \/ CallbackStep(c) PROVE FALSE
  BY <1>3 DEF LibraryStep, ConnectError, ConnectionUp, ServerDisconnect, CallbackStep,
     ResetUsername, RenewToken, SetUsername, Reconnect, LockForReconnect, Disconnect, Connect,
     StartSubscribe, Subscribe
<1>4. ASSUME NEW p \in Publishers, StartSend(p) \/ Send(p) PROVE FALSE
  BY <1>4 DEF StartSend, Send
<1> QED BY <1>1, <1>2, <1>3, <1>4 DEF Next

\* MutexInv is preserved by every step: RLock and RUnlock frame a publication and a
\* subscription, Lock and Unlock a reconnect; Unlock makes readers of those that wait
\* when the earlier readers have left.
LEMMA MutexStep ==
  TypeOK /\ AloneAtStart /\ StoppedUnderLock /\ MutexInv /\ [Next]_vars => MutexInv'
<1> SUFFICES ASSUME TypeOK, AloneAtStart, StoppedUnderLock, MutexInv, [Next]_vars, Alive'
             PROVE  MutexInv'
  BY DEF MutexInv
<1> DEFINE Users == Publishers \cup Callbacks
           Reading(g) == step[g] \in {"await", "subscribe"}
<1>1. /\ Alive
      /\ turn = "nobody" => waiting = {}
      /\ readers \cap waiting = {}
      /\ turn = "main" => main = "connect"
      /\ turn \in Callbacks => step[turn] \in {"disconnect", "connect"}
      /\ \A g \in Users : Reading(g) <=> g \in readers \cup waiting
  BY EndedStays DEF MutexInv
<1>2. /\ step \in [Users -> {"idle", "await", "reset", "renew", "set", "reconnect", "lock",
                              "disconnect", "connect", "up", "subscribe"}]
      /\ turn \in Callbacks \cup {"main", "nobody"}
      /\ "main" \notin Callbacks /\ "nobody" \notin Callbacks
      /\ Publishers \cap Callbacks = {}
  BY MqttAssumption DEF TypeOK, LockTypeOK
<1> USE DEF tokenVars, connVars, connMutex, Goto, Crash
\* A step that leaves the mutex alone and does not begin or end a use of it.
<1>3. ASSUME UNCHANGED connMutex, main = "connect" => main' = "connect",
             \A g \in Users : \/ step'[g] = step[g]
                             \/ /\ ~Reading(g) /\ step'[g] \notin {"await", "subscribe"}
                                /\ turn = g => step'[g] \in {"disconnect", "connect"}
      PROVE  MutexInv'
  BY <1>1, <1>2, <1>3 DEF MutexInv
<1>4. CASE Expire \/ Dial \/ Ping \/ FirstToken \/ FirstUsername \/ RegisterServices
           \/ Shutdown \/ ConnectionLost \/ UNCHANGED vars
  BY <1>3, <1>4 DEF Expire, Dial, Ping, FirstToken, FirstUsername, RegisterServices, Shutdown,
     ConnectionLost, vars
<1>5. CASE LockForFirst
  BY <1>1, <1>2, <1>5 DEF LockForFirst, Lock, MutexInv
<1>6. CASE FirstConnection
  BY <1>1, <1>2, <1>6 DEF FirstConnection, Locked, Unlock, MutexInv
<1>7. ASSUME NEW c \in Callbacks, LibraryStep(c) \/ ServerDisconnect(c) PROVE MutexInv'
  <2>1. /\ UNCHANGED connMutex /\ main' = main /\ step[c] = "idle"
        /\ step'[c] \in {"reset", "reconnect", "up"}
        /\ \A g \in Users \ {c} : step'[g] = step[g]
    BY <1>2, <1>7 DEF LibraryStep, ConnectError, ConnectionUp, ServerDisconnect
  <2>2. turn # c
    BY <1>1, <2>1
  <2> QED BY <1>3, <2>1, <2>2
<1>8. ASSUME NEW c \in Callbacks, CallbackStep(c) PROVE MutexInv'
  <2>1. CASE ResetUsername(c) \/ SetUsername(c) \/ Reconnect(c) \/ RenewToken(c)
    <3>1. /\ UNCHANGED connMutex /\ main' = main
          /\ step[c] \in {"reset", "renew", "set", "reconnect"}
          /\ step'[c] \notin {"await", "subscribe"}
          /\ \A g \in Users \ {c} : step'[g] = step[g]
      BY <1>2, <2>1 DEF ResetUsername, SetUsername, Reconnect, RenewToken, Alive, Ended
    <3>2. turn # c
      BY <1>1, <3>1
    <3> QED BY <1>3, <3>1, <3>2
  <2>2. CASE LockForReconnect(c)
    BY <1>1, <1>2, <2>2 DEF LockForReconnect, Lock, MutexInv
  <2>3. CASE Disconnect(c)
    <3>1. /\ UNCHANGED connMutex /\ main' = main
          /\ step[c] = "disconnect" /\ step'[c] = "connect"
          /\ \A g \in Users \ {c} : step'[g] = step[g]
      BY <1>2, <2>3 DEF Disconnect, Alive, Ended
    <3> QED BY <1>3, <3>1
  <2>4. CASE Connect(c)
    <3>1. turn = c /\ readers = {} /\ step[c] = "connect"
      BY <2>4 DEF Connect, StoppedUnderLock
    <3>2. /\ turn' = "nobody" /\ readers' = waiting /\ waiting' = {} /\ main' = main
          /\ step'[c] = "idle" /\ \A g \in Users \ {c} : step'[g] = step[g]
      BY <1>2, <2>4 DEF Connect, Unlock
    <3>3. \A g \in Users : step'[g] \in {"await", "subscribe"} <=> g \in waiting
      BY <1>1, <3>1, <3>2
    <3> QED BY <1>2, <3>2, <3>3 DEF MutexInv
  <2>5. CASE StartSubscribe(c)
    <3>1. /\ main' = main /\ step[c] = "up" /\ turn # c
          /\ \A g \in Users \ {c} : step'[g] = step[g]
      BY <1>1, <1>2, <2>5 DEF StartSubscribe
    <3>2. CASE step'[c] = "idle" /\ UNCHANGED connMutex
      BY <1>3, <3>1, <3>2
    <3>3. CASE step'[c] = "subscribe" /\ RLock(c)
      BY <1>1, <1>2, <3>1, <3>3 DEF RLock, MutexInv
    <3> QED BY <1>2, <2>5, <3>2, <3>3 DEF StartSubscribe
  <2>6. CASE Subscribe(c)
    <3>1. /\ main' = main /\ step[c] = "subscribe" /\ step'[c] = "idle" /\ c \in readers
          /\ readers' = readers \ {c} /\ UNCHANGED <<turn, waiting>>
          /\ \A g \in Users \ {c} : step'[g] = step[g]
      BY <1>2, <2>6 DEF Subscribe, RUnlock, Alive, Ended
    <3> QED BY <1>1, <1>2, <3>1 DEF MutexInv
  <2> QED BY <1>8, <2>1, <2>2, <2>3, <2>4, <2>5, <2>6 DEF CallbackStep
<1>9. ASSUME NEW p \in Publishers, StartSend(p) \/ Send(p) PROVE MutexInv'
  <2>1. CASE StartSend(p)
    <3>1. /\ main' = main /\ step[p] = "idle" /\ step'[p] = "await" /\ RLock(p)
          /\ \A g \in Users \ {p} : step'[g] = step[g]
      BY <1>2, <2>1 DEF StartSend
    <3> QED BY <1>1, <1>2, <3>1 DEF RLock, MutexInv
  <2>2. CASE Send(p)
    <3>1. /\ main' = main /\ step[p] = "await" /\ step'[p] = "idle" /\ p \in readers
          /\ readers' = readers \ {p} /\ UNCHANGED <<turn, waiting>>
          /\ \A g \in Users \ {p} : step'[g] = step[g]
      BY <1>2, <2>2 DEF Send, RUnlock, Alive, Ended
    <3> QED BY <1>1, <1>2, <3>1 DEF MutexInv
  <2> QED BY <1>9, <2>1, <2>2
<1> QED BY <1>4, <1>5, <1>6, <1>7, <1>8, <1>9 DEF Next, MainStep

\* A reader can finish; without readers the announced writer can; and without either
\* nobody waits.
LEMMA NoDeadlockHere == TypeOK /\ AloneAtStart /\ MutexInv => NoDeadlock
<1> SUFFICES ASSUME TypeOK, AloneAtStart, MutexInv, Alive,
                    NEW g \in Publishers \cup Callbacks, Waits(g)
             PROVE  \E h \in Publishers \cup Callbacks : Runs(h)
  BY DEF NoDeadlock
<1>1. turn \in Callbacks \cup {"main", "nobody"} /\ readers \subseteq Publishers \cup Callbacks
  BY DEF TypeOK, LockTypeOK
<1>2. CASE readers # {}
  <2>1. PICK r \in readers : TRUE
    BY <1>2
  <2>2. r \in Publishers \cup Callbacks /\ step[r] \in {"await", "subscribe"}
    BY <1>1, <2>1 DEF MutexInv
  <2> QED BY <2>1, <2>2 DEF Runs
<1>3. CASE readers = {} /\ turn \in Callbacks
  <2>1. step[turn] \in {"disconnect", "connect"} /\ Locked(turn)
    BY <1>3 DEF MutexInv, Locked
  <2> QED BY <1>3, <2>1 DEF Runs
<1>4. CASE turn = "main"
  <2>1. step[g] = "idle"
    BY <1>4 DEF MutexInv, AloneAtStart, Starting
  <2> QED BY <2>1 DEF Waits
<1>5. CASE readers = {} /\ turn = "nobody"
  BY <1>5 DEF MutexInv, Waits
<1> QED BY <1>1, <1>2, <1>3, <1>4, <1>5

\* Who uses the mutex, in every behaviour.
THEOREM MutexInvariant == Spec => []MutexInv
<1>1. Init => MutexInv
  BY MqttAssumption DEF Init, LockInit, MutexInv
<1>2. TypeOK /\ MqttInv /\ MutexInv /\ [Next]_vars => MutexInv'
  BY MutexStep DEF MqttInv
<1> QED BY <1>1, <1>2, MqttInvariant, PTL DEF Spec

\* Publishers, subscribing and reconnecting callbacks, in any number, never all wait for
\* each other on the mutex.
THEOREM NoDeadlockHolds == Spec => []NoDeadlock
<1>1. TypeOK /\ MqttInv /\ MutexInv => NoDeadlock
  BY NoDeadlockHere DEF MqttInv
<1> QED BY <1>1, MqttInvariant, MutexInvariant, PTL
=============================================================================
