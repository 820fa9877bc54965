------------------------------- MODULE RestApi -------------------------------
(***************************************************************************)
(* The REST interface: what becomes of a request to create, get, list or   *)
(* remove tasks, from its route to its answer and its counters.  Each      *)
(* request is served in a goroutine of its own.  RequestHandler takes the  *)
(* creation of tasks apart, DbSession what a panicking query does.         *)
(***************************************************************************)
EXTENDS SigningKeys

CONSTANTS
    RestRequests,  \* requests, each with the goroutine that serves it
    RequestsSent,  \* what a request may be
    NoToken        \* a request without a bearer token

Ops == {"create", "get", "list", "remove"}

\* "params": what the handler looks at before it goes to the database.
Requests == [op: Ops, protobuf: BOOLEAN, token: Tokens \cup {NoToken}, params: BOOLEAN]

ASSUME RequestAssumption ==
    /\ RestRequests \subseteq Users
    /\ NoToken \notin Tokens
    /\ RequestsSent \subseteq Requests

VARIABLES
    authenticates, \* appTokenAuthnEnabled
    request,       \* request[h]: the request that h serves
    stage,         \* stage[h]: next step of its handler
    answer,        \* answer[h]: status of the response
    row,           \* the task that requests get and remove ask for is in the database
    metric,        \* metric[op][c]: the counters of package metrics
    requests,      \* MetricRequestCount
    \* History:
    changed        \* requests that changed the database

restVars == <<authenticates, request, stage, answer, row, metric, requests, changed>>

Answers == {"none", "200", "201", "400", "401", "404", "415", "500", "dropped"}
Classes == {"responses", "bad", "missing", "internal"}

RestTypeOK ==
    /\ authenticates \in BOOLEAN
    /\ request \in [RestRequests -> Requests]
    /\ stage \in [RestRequests -> {"new", "auth", "params", "db", "done"}]
    /\ answer \in [RestRequests -> Answers]
    /\ row \in BOOLEAN
    /\ metric \in [Ops -> [Classes -> Nat]]
    /\ requests \in Nat
    /\ changed \in SUBSET RestRequests

RestInit ==
    /\ authenticates \in BOOLEAN
    /\ request \in [RestRequests -> RequestsSent]
    /\ stage = [h \in RestRequests |-> "new"]
    /\ answer = [h \in RestRequests |-> "none"]
    /\ row \in BOOLEAN
    /\ metric = [o \in Ops |-> [c \in Classes |-> 0]]
    /\ requests = 0
    /\ changed = {}

\* The handler sends its answer; commonRequestHandler counts the request.
Answer(h, status) ==
    /\ answer' = [answer EXCEPT ![h] = status]
    /\ stage' = [stage EXCEPT ![h] = "done"]
    /\ requests' = requests + 1

Counts(h, c) == metric' = [metric EXCEPT ![request[h].op][c] = @ + 1]

Proceed(h, s) ==
    /\ stage' = [stage EXCEPT ![h] = s]
    /\ UNCHANGED <<answer, metric, requests>>

\* Nothing is counted for a request without a valid token.
Unauthorized(h) == Answer(h, "401") /\ UNCHANGED metric

-----------------------------------------------------------------------------
\* The content type of a request to create a task is looked at first.
StartRequest(h) ==
    /\ alive
    /\ stage[h] = "new"
    /\ IF request[h].op = "create" /\ ~request[h].protobuf
       THEN Answer(h, "415") /\ Counts(h, "bad") /\ UNCHANGED keyVars
       ELSE IF ~authenticates
       THEN Proceed(h, "params") /\ UNCHANGED keyVars
       ELSE IF request[h].token = NoToken
       THEN Unauthorized(h) /\ UNCHANGED keyVars
       ELSE Proceed(h, "auth") /\ StartValidation(h, request[h].token)
    /\ UNCHANGED <<authenticates, request, row, changed>>

\* Mutant: any token that validates will do.
ValidateAnyToken(h) ==
    /\ alive
    /\ stage[h] = "auth"
    /\ \/ /\ \E typ \in {"app", "device"} : Accepts(h, request[h].token, typ)
          /\ Proceed(h, "params")
       \/ check[h] = "refused" /\ Unauthorized(h)
    /\ UNCHANGED <<keyVars, authenticates, request, row, changed>>

ValidateAppToken(h) ==
    /\ alive
    /\ stage[h] = "auth"
    /\ \/ Accepts(h, request[h].token, "app") /\ Proceed(h, "params")
       \/ Refuses(h, request[h].token, "app") /\ Unauthorized(h)
    /\ UNCHANGED <<keyVars, authenticates, request, row, changed>>

CheckParams(h) ==
    /\ alive
    /\ stage[h] = "params"
    /\ IF request[h].params
       THEN Proceed(h, "db")
       ELSE Answer(h, "400") /\ Counts(h, "bad")
    /\ UNCHANGED <<keyVars, authenticates, request, row, changed>>

\* The database, or Schedule, failed; a write may have been made all the same.
InternalError(h) == Answer(h, "500") /\ Counts(h, "internal")

\* The handler panicked: the connection is dropped and nothing is counted.
Panics(h) ==
    /\ answer' = [answer EXCEPT ![h] = "dropped"]
    /\ stage' = [stage EXCEPT ![h] = "done"]
    /\ UNCHANGED <<metric, requests>>

\* The body may fail to be encoded, after its status was sent.
Answered(h, status) == Answer(h, status) /\ (Counts(h, "responses") \/ Counts(h, "internal"))

At(h, op) == alive /\ stage[h] = "db" /\ request[h].op = op

\* An invalid request may be found out after tasks for some devices are stored.
CreateTask(h) ==
    /\ At(h, "create")
    /\ \/ /\ changed' = changed \cup {h}
          /\ Answered(h, "201")
       \/ /\ changed' \in {changed, changed \cup {h}}
          /\ (Answer(h, "400") /\ Counts(h, "bad")) \/ InternalError(h) \/ Panics(h)
    /\ UNCHANGED <<keyVars, authenticates, request, row>>

\* Mutant: an error of the encoder ends the handler uncounted.
GetTaskUncounted(h) ==
    /\ At(h, "get")
    /\ \/ IF row
          THEN Answer(h, "200") /\ (Counts(h, "responses") \/ UNCHANGED metric)
          ELSE Answer(h, "404") /\ Counts(h, "missing")
       \/ InternalError(h)
       \/ Panics(h)
    /\ UNCHANGED <<keyVars, authenticates, request, row, changed>>

GetTask(h) ==
    /\ At(h, "get")
    /\ \/ IF row
          THEN Answered(h, "200")
          ELSE Answer(h, "404") /\ Counts(h, "missing")
       \/ InternalError(h)
       \/ Panics(h)
    /\ UNCHANGED <<keyVars, authenticates, request, row, changed>>

\* The first page of a consignment: the request cannot name another one.
ListTasks(h) ==
    /\ At(h, "list")
    /\ \/ Answered(h, "200")
       \/ InternalError(h)
       \/ Panics(h)
    /\ UNCHANGED <<keyVars, authenticates, request, row, changed>>

\* Removing what is not there is answered like any other removal.
RemoveTask(h) ==
    /\ At(h, "remove")
    /\ \/ /\ row' = FALSE
          /\ changed' = IF row THEN changed \cup {h} ELSE changed
          /\ Answer(h, "200") /\ Counts(h, "responses")
       \/ /\ row' \in {row, FALSE}
          /\ changed' = IF row # row' THEN changed \cup {h} ELSE changed
          /\ InternalError(h) \/ Panics(h)
    /\ UNCHANGED <<keyVars, authenticates, request>>

RestStep(h) ==
    \/ StartRequest(h) \/ ValidateAppToken(h) \/ CheckParams(h)
    \/ CreateTask(h) \/ GetTask(h) \/ ListTasks(h) \/ RemoveTask(h)

-----------------------------------------------------------------------------
(* Properties.                                                             *)

HasAppToken(h) ==
    request[h].token # NoToken /\ request[h].token.sound /\ request[h].token.typ = "app"

\* With authentication on, the database changes only for requests that came with a
\* sound app access token, whatever the look-up of its key went through.
ChangeNeedsAppToken ==
    authenticates => \A h \in changed : HasAppToken(h)

WithAnswer == {h \in RestRequests : answer[h] \notin {"none", "dropped"}}

OfOp(o) == {h \in WithAnswer : request[h].op = o /\ answer[h] # "401"}

\* Every answer is counted once for its operation, except the refusal of a token;
\* what a panic cuts off is not counted at all.
RequestsAddUp ==
    /\ requests = Cardinality(WithAnswer)
    /\ \A o \in Ops :
          Cardinality(OfOp(o)) = metric[o]["responses"] + metric[o]["bad"]
                                 + metric[o]["missing"] + metric[o]["internal"]

\* Until its handler is done a request has no answer.
NoAnswerYet == \A h \in RestRequests : stage[h] # "done" => answer[h] = "none"

\* Behind the check of its token a request has one that passed it.
TokenIsChecked ==
    authenticates => \A h \in RestRequests :
        /\ stage[h] = "auth" => request[h].token # NoToken
        /\ stage[h] \in {"params", "db"} => HasAppToken(h)
=============================================================================
