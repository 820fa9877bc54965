---------------------------- MODULE MqttConnection ----------------------------
(***************************************************************************)
(* The connection of package mqtt to the broker and the app access token   *)
(* of package dstsclient that AWS IoT wants as its user name.              *)
(*                                                                         *)
(* A connection manager of the MQTT library connects, reconnects and calls *)
(* back: when an attempt fails, when the connection is up and when the     *)
(* broker disconnects.  Two of the callbacks replace the manager itself.   *)
(* Each runs in a goroutine of the library, beside the other ones and      *)
(* beside those that publish; a callback may outlive its manager.          *)
(***************************************************************************)
EXTENDS Naturals

CONSTANTS
    Publishers,    \* goroutines that call SendTaskToBroker
    Callbacks,     \* goroutines of the library in which callbacks run
    RetryCount,    \* dstsOperationRetryCount
    MaxExpiries    \* bound: how often a token expires

ASSUME MqttAssumption ==
    /\ Publishers \cap Callbacks = {}
    /\ "main" \notin Publishers \cup Callbacks
    /\ "nobody" \notin Publishers \cup Callbacks
    /\ RetryCount \in Nat \ {0}
    /\ MaxExpiries \in Nat

VARIABLES
    broker,        \* mqttConfig.BrokerType
    main,          \* next step of Init, then "serve"
    cancelled,     \* mqttCtx (and gCtx, which is the same)
    token,         \* gAppToken; "none" and "expired": gAppTokenExpiresAt is past
    username,      \* user name in clientConfig: "unset" or a token
    status,        \* connMgr: "none" (nil), "stopped", "connecting" or "up"
    login,         \* user name with which connMgr was made
    managers,      \* managers that were made and not stopped
    mine,          \* callbacks that the current manager has raised
    step,          \* next step of each callback and publisher
    got,           \* got[c]: what GetAccessToken has returned to c, until used
    tries,         \* failed attempts in retryWithBackoff
    expiries,
    turn, readers, waiting    \* connMutex

INSTANCE RWMutex WITH Readers <- Publishers \cup Callbacks,
                      Writers <- Callbacks \cup {"main"}, Nobody <- "nobody"

tokenVars == <<token, username, got, expiries>>
connVars == <<status, login, managers, mine>>
connMutex == <<turn, readers, waiting>>
vars == <<broker, main, cancelled, tokenVars, connVars, step, tries, connMutex>>

Goroutines == Publishers \cup Callbacks \cup {"main"}
Tokens == {"none", "fresh", "expired", "torn"}

\* "torn" is the mixture that two unsynchronised accesses to a string can leave.
Names == Tokens \cup {"unset"}

Ended == {"failed", "crashed"}
Alive == main \notin Ended

TypeOK ==
    /\ broker \in {"aws_iot", "local"}
    /\ main \in {"dial", "ping", "token", "reset", "renew", "set", "lock", "connect",
                 "register", "serve"} \cup Ended
    /\ cancelled \in BOOLEAN
    /\ token \in Tokens
    /\ username \in Names
    /\ status \in {"none", "stopped", "connecting", "up"}
    /\ login \in Names
    /\ managers \in Nat
    /\ mine \in SUBSET Callbacks
    /\ step \in [Publishers \cup Callbacks ->
                    {"idle", "await", "reset", "renew", "set", "reconnect", "lock",
                     "disconnect", "connect", "up", "subscribe"}]
    /\ got \in [Callbacks \cup {"main"} -> Tokens]
    /\ tries \in [Callbacks \cup {"main"} -> 0..RetryCount - 1]
    /\ expiries \in 0..MaxExpiries
    /\ LockTypeOK

Init ==
    /\ broker \in {"aws_iot", "local"}
    /\ main = "dial"
    /\ cancelled = FALSE
    /\ token = "none"
    /\ username = "unset"
    /\ status = "none"
    /\ login = "unset"
    /\ managers = 0
    /\ mine = {}
    /\ step = [g \in Publishers \cup Callbacks |-> "idle"]
    /\ got = [g \in Callbacks \cup {"main"} |-> "none"]
    /\ tries = [g \in Callbacks \cup {"main"} |-> 0]
    /\ expiries = 0
    /\ LockInit

Goto(c, s) == step' = [step EXCEPT ![c] = s]
Crash == main' = "crashed"

-----------------------------------------------------------------------------
(* The manager that connMgr points to, and its connection.                 *)

\* NewConnection copies the configuration. Of a cancelled context it makes a
\* manager that ends at once.
NewConnection(l) ==
    /\ login' = l
    /\ status' = IF cancelled THEN "stopped" ELSE "connecting"
    /\ managers' = IF cancelled THEN managers ELSE managers + 1
    /\ mine' = {}

NoConnection ==
    /\ status' = "none"
    /\ UNCHANGED <<login, managers, mine>>

\* Mutant: the old manager goes on.
StopManagerForgotten ==
    /\ status' = "stopped"
    /\ UNCHANGED managers
    /\ mine' = {}
    /\ login' = "unset"

\* Disconnect tells the manager to stop, whether or not it waits to the end.
StopManager ==
    /\ status' = "stopped"
    /\ managers' = IF status \in {"connecting", "up"} THEN managers - 1 ELSE managers
    /\ mine' = {}
    /\ login' = "unset"

-----------------------------------------------------------------------------
(* The app access token, acquired with retryWithBackoff by goroutine g.    *)

Unexpired == token \in {"fresh", "torn"}

\* Another callback is at one of these steps: it may access what g accesses.
Meanwhile(g, steps) == \E c \in Callbacks \ {g} : step[c] \in steps

\* getAppToken has a token from the two RPCs.
TokenAnswer(g) ==
    /\ token' = "fresh" \/ (Meanwhile(g, {"renew"}) /\ token' = "torn")
    /\ got' = [got EXCEPT ![g] = token']

\* One of the RPCs answered with a bad status: getAppToken returns no error, and
\* GetAccessToken what there was before.
BadStatus(g) ==
    /\ got' = [got EXCEPT ![g] = token]
    /\ UNCHANGED token

\* What GetAccessToken finds without an RPC.
TokenKept(g) ==
    /\ Unexpired
    /\ \/ got' = [got EXCEPT ![g] = token]
       \/ Meanwhile(g, {"renew"}) /\ got' = [got EXCEPT ![g] = "torn"]
    /\ UNCHANGED token

GetAccessToken(g) ==
    /\ tries' = [tries EXCEPT ![g] = 0]
    /\ \/ TokenKept(g)
       \/ ~Unexpired /\ ~cancelled /\ (TokenAnswer(g) \/ BadStatus(g))

\* An attempt failed and another one follows.
AttemptFails(g) ==
    /\ ~cancelled
    /\ tries[g] < RetryCount - 1
    /\ tries' = [tries EXCEPT ![g] = @ + 1]

\* The last one failed, or the context was cancelled.
AttemptsEnd(g) == cancelled \/ tries[g] = RetryCount - 1

\* Time passes: the token, and every copy of it, is of no use any more.
Aged(n) == IF n = "fresh" THEN "expired" ELSE n

Expire ==
    /\ Alive
    /\ Unexpired
    /\ expiries < MaxExpiries
    /\ expiries' = expiries + 1
    /\ token' = "expired"
    /\ username' = Aged(username)
    /\ login' = Aged(login)
    /\ got' = [g \in DOMAIN got |-> Aged(got[g])]
    /\ UNCHANGED <<broker, main, cancelled, status, managers, mine, step,
                   tries, connMutex>>

-----------------------------------------------------------------------------
(* Init and Shutdown, on the main goroutine.                               *)

\* dstsclient.Start: connect to the token service, then ping it.
Dial ==
    /\ main = "dial"
    /\ \/ main' = "ping" /\ tries' = [tries EXCEPT !["main"] = 0]
       \/ AttemptFails("main") /\ UNCHANGED main
       \/ AttemptsEnd("main") /\ main' = "failed" /\ UNCHANGED tries
    /\ UNCHANGED <<broker, cancelled, tokenVars, connVars, step, connMutex>>

Ping ==
    /\ main = "ping"
    /\ \/ main' = "token" /\ tries' = [tries EXCEPT !["main"] = 0]
       \/ AttemptFails("main") /\ UNCHANGED main
       \/ AttemptsEnd("main") /\ main' = "failed" /\ UNCHANGED tries
    /\ UNCHANGED <<broker, cancelled, tokenVars, connVars, step, connMutex>>

\* The first token: a bad status passes for one.
FirstToken ==
    /\ main \in {"token", "renew"}
    /\ \/ GetAccessToken("main") /\ main' = IF main = "renew" THEN "set"
                                           ELSE IF broker = "aws_iot" THEN "reset"
                                           ELSE "lock"
       \/ ~Unexpired /\ AttemptFails("main") /\ UNCHANGED <<main, token, got>>
       \/ ~Unexpired /\ AttemptsEnd("main") /\ main' = "failed" /\ UNCHANGED <<tries, token, got>>
    /\ UNCHANGED <<broker, cancelled, username, expiries, connVars, step, connMutex>>

\* updateMqttUsername before the first connection.
FirstUsername ==
    /\ main \in {"reset", "set"}
    /\ username' = IF main = "reset" THEN "unset" ELSE got["main"]
    /\ main' = IF main = "reset" THEN "renew" ELSE "lock"
    /\ got' = [got EXCEPT !["main"] = "none"]
    /\ UNCHANGED <<broker, cancelled, token, expiries, connVars, step, tries, connMutex>>

LockForFirst ==
    /\ main = "lock"
    /\ Lock("main")
    /\ main' = "connect"
    /\ UNCHANGED <<broker, cancelled, tokenVars, connVars, step, tries>>

FirstConnection ==
    /\ main = "connect"
    /\ Locked("main")
    /\ \/ NewConnection(username) /\ main' = "register"
       \/ NoConnection /\ main' = "failed"
    /\ Unlock
    /\ UNCHANGED <<broker, cancelled, tokenVars, step, tries>>

\* The services of the configuration are registered in the database.
RegisterServices ==
    /\ main = "register"
    /\ main' \in {"serve", "failed"}
    /\ UNCHANGED <<broker, cancelled, tokenVars, connVars, step, tries, connMutex>>

Shutdown ==
    /\ main = "serve"
    /\ ~cancelled
    /\ cancelled' = TRUE
    /\ IF status \in {"connecting", "up"}
       THEN StopManager
       ELSE UNCHANGED connVars
    /\ UNCHANGED <<broker, main, tokenVars, step, tries, connMutex>>

-----------------------------------------------------------------------------
(* What the library does with the current manager, and its callbacks.      *)

BrokerAccepts == broker = "local" \/ login = "fresh"

\* Mutant: an expired token is not refreshed.
ConnectErrorKeepingToken(c) ==
    /\ Alive
    /\ status = "connecting"
    /\ step[c] = "idle"
    /\ mine' = mine \cup {c}
    /\ Goto(c, "reconnect")
    /\ UNCHANGED <<broker, main, cancelled, tokenVars, status, login, managers,
                   tries, connMutex>>

\* An attempt fails: connectionErrorCallback begins.
ConnectError(c) ==
    /\ Alive
    /\ status = "connecting"
    /\ step[c] = "idle"
    /\ mine' = mine \cup {c}
    /\ Goto(c, IF broker = "aws_iot" /\ ~Unexpired THEN "reset" ELSE "reconnect")
    /\ UNCHANGED <<broker, main, cancelled, tokenVars, status, login, managers,
                   tries, connMutex>>

\* An attempt succeeds: connectionUpCallback begins.
ConnectionUp(c) ==
    /\ Alive
    /\ status = "connecting"
    /\ BrokerAccepts
    /\ step[c] = "idle"
    /\ status' = "up"
    /\ mine' = mine \cup {c}
    /\ Goto(c, "up")
    /\ UNCHANGED <<broker, main, cancelled, tokenVars, login, managers,
                   tries, connMutex>>

\* The connection is lost, or the broker ends it for any reason but 135: the
\* callbacks only log, the library connects again.
ConnectionLost ==
    /\ Alive
    /\ status = "up"
    /\ status' = "connecting"
    /\ UNCHANGED <<broker, main, cancelled, tokenVars, login, managers, mine, step,
                   tries, connMutex>>

\* Reason 135, not authorised: serverDisconnectCallback begins.
ServerDisconnect(c) ==
    /\ Alive
    /\ status = "up"
    /\ step[c] = "idle"
    /\ status' = "connecting"
    /\ mine' = mine \cup {c}
    /\ Goto(c, IF broker = "aws_iot" THEN "reset" ELSE "reconnect")
    /\ UNCHANGED <<broker, main, cancelled, tokenVars, login, managers, tries, connMutex>>

-----------------------------------------------------------------------------
(* updateMqttUsername and reconnect, in a callback.                        *)

ResetUsername(c) ==
    /\ Alive
    /\ step[c] = "reset"
    /\ username' = "unset" \/ (Meanwhile(c, {"reset", "set"}) /\ username' = "torn")
    /\ Goto(c, "renew")
    /\ UNCHANGED <<broker, main, cancelled, token, got, expiries, connVars, tries, connMutex>>

\* No token in spite of all attempts: Shutdown and panic.
RenewToken(c) ==
    /\ Alive
    /\ step[c] = "renew"
    /\ \/ GetAccessToken(c) /\ Goto(c, "set") /\ UNCHANGED main
       \/ ~Unexpired /\ AttemptFails(c) /\ UNCHANGED <<main, step, token, got>>
       \/ ~Unexpired /\ AttemptsEnd(c) /\ Crash /\ UNCHANGED <<step, token, got, tries>>
    /\ UNCHANGED <<broker, cancelled, username, expiries, connVars, connMutex>>

\* Mutant: the name is set for the next connection, whenever that is.
SetUsernameOnly(c) ==
    /\ Alive
    /\ step[c] = "set"
    /\ username' = got[c] \/ (Meanwhile(c, {"reset", "set"}) /\ username' = "torn")
    /\ got' = [got EXCEPT ![c] = "none"]
    /\ Goto(c, "idle")
    /\ UNCHANGED <<broker, main, cancelled, token, expiries, connVars, tries, connMutex>>

SetUsername(c) ==
    /\ Alive
    /\ step[c] = "set"
    /\ username' = got[c] \/ (Meanwhile(c, {"reset", "set"}) /\ username' = "torn")
    /\ got' = [got EXCEPT ![c] = "none"]
    /\ Goto(c, "reconnect")
    /\ UNCHANGED <<broker, main, cancelled, token, expiries, connVars, tries, connMutex>>

Reconnect(c) ==
    /\ Alive
    /\ step[c] = "reconnect"
    /\ Goto(c, IF cancelled THEN "idle" ELSE "lock")
    /\ UNCHANGED <<broker, main, cancelled, tokenVars, connVars, tries, connMutex>>

LockForReconnect(c) ==
    /\ Alive
    /\ step[c] = "lock"
    /\ Lock(c)
    /\ Goto(c, "disconnect")
    /\ UNCHANGED <<broker, main, cancelled, tokenVars, connVars, tries>>

\* Without a manager, Disconnect panics.
Disconnect(c) ==
    /\ Alive
    /\ step[c] = "disconnect"
    /\ Locked(c)
    /\ IF status = "none"
       THEN Crash /\ UNCHANGED <<step, connVars>>
       ELSE StopManager /\ Goto(c, "connect") /\ UNCHANGED main
    /\ UNCHANGED <<broker, cancelled, tokenVars, tries, connMutex>>

\* Mutant: an error returns without the unlock.
ConnectKeepingLock(c) ==
    /\ Alive
    /\ step[c] = "connect"
    /\ \/ NewConnection(username)
       \/ Meanwhile(c, {"reset", "set"}) /\ NewConnection("torn")
       \/ NoConnection
    /\ IF status' = "none" THEN UNCHANGED connMutex ELSE Unlock
    /\ Goto(c, "idle")
    /\ UNCHANGED <<broker, main, cancelled, tokenVars, tries>>

\* An error is only logged and leaves connMgr nil.
Connect(c) ==
    /\ Alive
    /\ step[c] = "connect"
    /\ \/ NewConnection(username)
       \/ Meanwhile(c, {"reset", "set"}) /\ NewConnection("torn")
       \/ NoConnection
    /\ Unlock
    /\ Goto(c, "idle")
    /\ UNCHANGED <<broker, main, cancelled, tokenVars, tries>>

-----------------------------------------------------------------------------
(* connectionUpCallback.                                                   *)

StartSubscribe(c) ==
    /\ Alive
    /\ step[c] = "up"
    /\ IF cancelled
       THEN Goto(c, "idle") /\ UNCHANGED connMutex
       ELSE Goto(c, "subscribe") /\ RLock(c)
    /\ UNCHANGED <<broker, main, cancelled, tokenVars, connVars, tries>>

\* A refusal of the broker comes with its SUBACK. A time-out, a cancelled context
\* and a connection that is down again come without, and the error path, which
\* logs what the SUBACK says, panics. After a refusal nothing subscribes again.
Subscribe(c) ==
    /\ Alive
    /\ step[c] = "subscribe"
    /\ c \in readers
    /\ RUnlock(c)
    /\ \/ /\ status = "up" /\ c \in mine
          /\ Goto(c, "idle")
          /\ UNCHANGED main
       \/ Crash /\ UNCHANGED step
    /\ UNCHANGED <<broker, cancelled, tokenVars, status, login, managers, mine, tries>>

-----------------------------------------------------------------------------
(* SendTaskToBroker.                                                       *)

StartSend(p) ==
    /\ main \in {"register", "serve"}
    /\ step[p] = "idle"
    /\ ~cancelled
    /\ Goto(p, "await")
    /\ RLock(p)
    /\ UNCHANGED <<broker, main, cancelled, tokenVars, connVars, tries>>

\* Mutant: the error of AwaitConnection returns without the unlock.
SendKeepingLock(p) ==
    /\ Alive
    /\ step[p] = "await"
    /\ p \in readers
    /\ IF status = "up" THEN RUnlock(p) ELSE UNCHANGED connMutex
    /\ IF status = "none"
       THEN Crash /\ UNCHANGED step
       ELSE Goto(p, "idle") /\ UNCHANGED main
    /\ UNCHANGED <<broker, cancelled, tokenVars, connVars, tries>>

\* AwaitConnection and Publish end with the context of five seconds at the latest.
\* Without a manager they panic.
Send(p) ==
    /\ Alive
    /\ step[p] = "await"
    /\ p \in readers
    /\ RUnlock(p)
    /\ IF status = "none"
       THEN Crash /\ UNCHANGED step
       ELSE Goto(p, "idle") /\ UNCHANGED main
    /\ UNCHANGED <<broker, cancelled, tokenVars, connVars, tries>>

-----------------------------------------------------------------------------
MainStep ==
    \/ Dial \/ Ping \/ FirstToken \/ FirstUsername
    \/ LockForFirst \/ FirstConnection \/ RegisterServices

LibraryStep(c) == ConnectError(c) \/ ConnectionUp(c)

CallbackStep(c) ==
    \/ ResetUsername(c) \/ RenewToken(c) \/ SetUsername(c)
    \/ Reconnect(c) \/ LockForReconnect(c) \/ Disconnect(c) \/ Connect(c)
    \/ StartSubscribe(c) \/ Subscribe(c)

Next ==
    \/ Expire
    \/ MainStep
    \/ Shutdown
    \/ ConnectionLost
    \/ \E c \in Callbacks : LibraryStep(c) \/ ServerDisconnect(c) \/ CallbackStep(c)
    \/ \E p \in Publishers : StartSend(p) \/ Send(p)

Spec == Init /\ [][Next]_vars

\* Goroutines run, a goroutine in Lock gets its turn, and remote calls end. The
\* library goes on trying to connect; an attempt that the broker would accept and
\* a request for a token, made over and over, do not fail every time. Nothing
\* makes a publisher publish, a connection break or the service stop.
Fairness ==
    /\ WF_vars(MainStep)
    /\ SF_vars(LockForFirst)
    /\ WF_vars(\E c \in Callbacks : LibraryStep(c))
    /\ SF_vars(\E c \in Callbacks : ConnectionUp(c))
    /\ \A c \in Callbacks :
        /\ WF_vars(CallbackStep(c))
        /\ SF_vars(LockForReconnect(c))
        /\ SF_vars(RenewToken(c) /\ token' = "fresh")
    /\ \A p \in Publishers : WF_vars(Send(p))

FairSpec == Spec /\ Fairness

-----------------------------------------------------------------------------
(* Safety.                                                                 *)

\* However callbacks of old and new managers, expiry and shutdown interleave, one
\* manager runs: each reconnect stops the one it replaces. Two would compete for
\* the client ID and disconnect each other for ever.
OneManagerRuns == managers = (IF status \in {"connecting", "up"} THEN 1 ELSE 0)

\* updateMqttUsername resets the user name first, and a callback of another
\* goroutine may connect at that moment. The manager that is then made without
\* credentials does not stay: the callback that reset the name comes to replace it.
Replacing(c) == step[c] \in {"renew", "set", "reconnect", "lock", "disconnect"}

AnonymousIsReplaced ==
    (broker = "aws_iot" /\ status \in {"connecting", "up"} /\ login = "unset")
        => \E c \in Callbacks : Replacing(c)

\* A publisher that holds the lock never meets a manager that was stopped to be
\* replaced: only Shutdown stops one under its feet.
PublisherKeepsManager ==
    (readers # {} /\ status = "stopped") => cancelled

\* What carries the three, step by step. Before the first connection nothing runs
\* beside Init.
Starting == {"dial", "ping", "token", "reset", "renew", "set", "lock", "connect"}

AloneAtStart ==
    main \in Starting =>
        /\ status = "none" /\ ~cancelled
        /\ \A g \in Publishers \cup Callbacks : step[g] = "idle"

CancelledIsDown == cancelled => status \notin {"connecting", "up"}

\* Whenever a manager can be made, the user name is set or about to be.
NameIsSetAgain ==
    broker = "aws_iot" /\ username = "unset" =>
        /\ main \notin {"lock", "connect"}
        /\ main \in {"register", "serve"} => \E c \in Callbacks : step[c] \in {"renew", "set"}

\* A callback that stopped the manager keeps the lock until it has made another.
StoppedUnderLock ==
    /\ \A c \in Callbacks : step[c] \in {"disconnect", "connect"} => turn = c
    /\ \A c \in Callbacks : step[c] = "connect" => readers = {} /\ status = "stopped"
    /\ status = "stopped" /\ ~cancelled => \E c \in Callbacks : step[c] = "connect"

MqttInv ==
    /\ OneManagerRuns
    /\ AnonymousIsReplaced
    /\ AloneAtStart
    /\ CancelledIsDown
    /\ NameIsSetAgain
    /\ StoppedUnderLock

\* Publishers, subscribing and reconnecting callbacks never all wait for each other:
\* if one waits for connMutex, somebody else can take its next step alone, with the
\* lock or into it.
Waits(g) ==
    \/ step[g] = "lock" /\ turn # "nobody"
    \/ step[g] = "disconnect" /\ readers # {}
    \/ step[g] \in {"await", "subscribe"} /\ g \notin readers

Runs(g) ==
    \/ step[g] = "lock" /\ turn = "nobody"
    \/ step[g] = "disconnect" /\ Locked(g)
    \/ step[g] = "connect"
    \/ step[g] \in {"await", "subscribe"} /\ g \in readers

NoDeadlock ==
    Alive /\ (\E g \in Publishers \cup Callbacks : Waits(g))
        => \E g \in Publishers \cup Callbacks : Runs(g)

\* What carries it: who has the lock, or is announced to it, is between RLock and
\* RUnlock or between Lock and Unlock, and nobody is left behind without a writer.
MutexInv ==
    Alive =>
        /\ turn = "nobody" => waiting = {}
        /\ readers \cap waiting = {}
        /\ turn = "main" => main = "connect"
        /\ turn \in Callbacks => step[turn] \in {"disconnect", "connect"}
        /\ \A g \in Publishers \cup Callbacks :
              step[g] \in {"await", "subscribe"} <=> g \in readers \cup waiting

(* Liveness, under FairSpec.                                               *)

\* SendTaskToBroker returns, although reconnects hold the lock and others wait for
\* it: the watcher that publishes goes on to its next message.
PublishReturns == \A p \in Publishers : step[p] = "await" ~> (step[p] = "idle" \/ ~Alive)

\* The service is stopped or has no manager (NewConnection refused the configuration).
GaveUp == cancelled \/ ~Alive \/ status = "none"

\* A callback that fetched the old token, got a bad status and set the user name
\* after the others were through: while the token is unexpired, no connection
\* error makes a callback set it again.
NameLost ==
    /\ Unexpired
    /\ username # "fresh"
    /\ \A c \in Callbacks : step[c] \notin {"reset", "renew", "set"}

\* After every loss, refusal and expiry the connection is up again, unless the
\* service gave up or the user name was lost.
ConnectionReturns == []<>(status = "up" \/ GaveUp) \/ <>[]NameLost
=============================================================================
