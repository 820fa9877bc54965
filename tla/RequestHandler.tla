--------------------------- MODULE RequestHandler ---------------------------
(***************************************************************************)
(* Requests to schedule tasks.  They come over the scheduler input queue,  *)
(* where each replica's input queue watcher receives, handles and deletes  *)
(* them one at a time, or over REST, where a handler answers each once.    *)
(* Both call handleSchedulerInputQueueRequest, which validates the request *)
(* and schedules one task for each device it lists.                        *)
(*                                                                         *)
(* The writes of one Schedule() call are a single step here (TaskDispatch  *)
(* takes them apart); it may fail, with or without having stored a task.   *)
(***************************************************************************)
EXTENDS Naturals, Sequences, FiniteSets

CONSTANTS
    QueueRequests,   \* requests sent to the input queue
    RestRequests,    \* requests posted to the REST endpoint
    Watchers,        \* input queue watchers, one per replica
    RestHandlers,    \* REST handler goroutines
    FormsSent,       \* what requests may say
    Devices,         \* device IDs a request may list
    Broadcast,       \* the device ID @all
    MaxReceives,     \* maxReceiveCount of the input queue
    NoRequest        \* nothing in hand

Requests == QueueRequests \cup RestRequests
Workers == Watchers \cup RestHandlers

\* What the handler looks at: whether the body decodes, the service is
\* registered, a consignment and a payload are there and the tenant is a UUID;
\* and the list of devices, which may be missing.
Forms == [decodes: BOOLEAN, service: BOOLEAN, consignment: BOOLEAN,
          payload: BOOLEAN, tenant: BOOLEAN, devices: Seq(Devices \cup {Broadcast})]

ASSUME RequestAssumption ==
    /\ QueueRequests \cap RestRequests = {}
    /\ Watchers \cap RestHandlers = {}
    /\ \A f \in FormsSent : f \in Forms
    /\ Broadcast \notin Devices
    /\ IsFiniteSet(Workers)
    /\ MaxReceives \in Nat \ {0}
    /\ NoRequest \notin Requests

VARIABLES
    form,            \* form[q]: what request q says
    msg, receives,   \* the input queue
    posted,          \* REST requests that have arrived
    pc, work,        \* pc[w], work[w]: next step and request of worker w
    next,            \* next[w]: index of the device to schedule
    answer,          \* answer[w]: the response being built
    made,            \* made[q][i]: tasks stored for the i-th device of q
    \* History:
    granted,         \* granted[q][i]: Schedule() calls for it that succeeded
    missed,          \* missed[q]: devices for which one failed
    replied,         \* replied[q]: the response a client got, if any
    done             \* requests whose handling has run to its end

INSTANCE SqsQueue WITH Messages <- QueueRequests

queueVars == <<msg, receives>>
workVars == <<pc, work, next, answer>>
taskVars == <<made, granted, missed>>
vars == <<form, queueVars, posted, workVars, taskVars, replied, done>>

DevicesOf(q) == form[q].devices
Indices(q) == 1..Len(DevicesOf(q))
EmptyAnswer == [tasks |-> 0, errors |-> 0, listed |-> {}]
Refused == [EmptyAnswer EXCEPT !.listed = {0}]

\* A watcher may take up a request MaxReceives times, a REST handler once.
Counts(q) == [Indices(q) -> 0..MaxReceives]

Answers == [tasks: Nat, errors: Nat, listed: SUBSET Nat]

TypeOK ==
    /\ QueueTypeOK
    /\ form \in [Requests -> Forms]
    /\ posted \in SUBSET RestRequests
    /\ pc \in [Workers -> {"idle", "validate", "loop", "finish"}]
    /\ work \in [Workers -> Requests \cup {NoRequest}]
    /\ next \in [Workers -> Nat \ {0}]
    /\ answer \in [Workers -> Answers]
    /\ made = [q \in Requests |-> made[q]] /\ granted = [q \in Requests |-> granted[q]]
    /\ \A q \in Requests : made[q] \in Counts(q) /\ granted[q] \in Counts(q)
    /\ missed \in [Requests -> SUBSET Nat]
    /\ replied \in [RestRequests -> SUBSET Answers]
    /\ done \in SUBSET Requests

Init ==
    /\ form \in [Requests -> FormsSent]
    /\ QueueInit
    /\ posted = {}
    /\ pc = [w \in Workers |-> "idle"]
    /\ work = [w \in Workers |-> NoRequest]
    /\ next = [w \in Workers |-> 1]
    /\ answer = [w \in Workers |-> EmptyAnswer]
    /\ made = [q \in Requests |-> [i \in Indices(q) |-> 0]]
    /\ granted = [q \in Requests |-> [i \in Indices(q) |-> 0]]
    /\ missed = [q \in Requests |-> {}]
    /\ replied = [q \in RestRequests |-> {}]
    /\ done = {}

-----------------------------------------------------------------------------
(* Clients and the queue.                                                  *)

PostEvent(q) ==
    /\ Send(q)
    /\ UNCHANGED <<form, posted, workVars, taskVars, replied, done>>

QueueStep(q) ==
    /\ VisibilityTimeout(q) \/ Redrive(q)
    /\ UNCHANGED <<form, posted, workVars, taskVars, replied, done>>

TakeUp(w, q) ==
    /\ pc' = [pc EXCEPT ![w] = "validate"]
    /\ work' = [work EXCEPT ![w] = q]
    /\ next' = [next EXCEPT ![w] = 1]
    /\ answer' = [answer EXCEPT ![w] = EmptyAnswer]

LetGo(w) ==
    /\ pc' = [pc EXCEPT ![w] = "idle"]
    /\ work' = [work EXCEPT ![w] = NoRequest]
    /\ next' = [next EXCEPT ![w] = 1]
    /\ answer' = [answer EXCEPT ![w] = EmptyAnswer]

\* CreateTaskHandler: the body is read; one without a payload or that does not
\* decode is refused before the handler is called.
PostRest(w, q) ==
    /\ pc[w] = "idle"
    /\ q \notin posted
    /\ posted' = posted \cup {q}
    /\ IF form[q].decodes /\ form[q].payload
       THEN TakeUp(w, q) /\ UNCHANGED <<replied, done>>
       ELSE /\ replied' = [replied EXCEPT ![q] = {Refused}]
            /\ done' = done \cup {q}
            /\ UNCHANGED workVars
    /\ UNCHANGED <<form, queueVars, taskVars>>

\* receiveInputQueueMessage. A call that reports an error may have hidden the
\* message; a message that does not decode goes straight to deletion.
ReceiveInput(w, q) ==
    /\ pc[w] = "idle"
    /\ Receive(q)
    /\ \/ /\ form[q].decodes
          /\ TakeUp(w, q)
          /\ UNCHANGED done
       \/ /\ ~form[q].decodes
          /\ pc' = [pc EXCEPT ![w] = "finish"]
          /\ work' = [work EXCEPT ![w] = q]
          /\ done' = done \cup {q}
          /\ UNCHANGED <<next, answer>>
       \/ UNCHANGED <<workVars, done>>
    /\ UNCHANGED <<form, posted, taskVars, replied>>

-----------------------------------------------------------------------------
(* handleSchedulerInputQueueRequest.                                       *)

\* Mutant: a broadcast listed first is accepted whatever follows it.
BroadcastAmongOthers(q) == FALSE

\* A broadcast must be the only device.
BroadcastMixed(q) == DevicesOf(q)[1] = Broadcast /\ Len(DevicesOf(q)) # 1

TenantMissing(q) == DevicesOf(q)[1] # Broadcast /\ ~form[q].tenant

Rejected(q) ==
    \/ ~form[q].service
    \/ ~form[q].consignment
    \/ DevicesOf(q) = <<>>
    \/ BroadcastMixed(q)
    \/ TenantMissing(q)
    \/ ~form[q].payload

Reject(w) ==
    /\ pc[w] = "validate"
    /\ Rejected(work[w])
    /\ answer' = [answer EXCEPT ![w] = Refused]
    /\ pc' = [pc EXCEPT ![w] = "finish"]
    /\ done' = done \cup {work[w]}
    /\ UNCHANGED <<form, queueVars, posted, work, next, taskVars, replied>>

\* Mutant: the message is deleted as soon as it has been read.
AcceptDeleting(w) ==
    /\ pc[w] = "validate"
    /\ ~Rejected(work[w])
    /\ pc' = [pc EXCEPT ![w] = "loop"]
    /\ IF w \in Watchers THEN Delete(work[w]) ELSE UNCHANGED queueVars
    /\ UNCHANGED <<form, posted, work, next, answer, taskVars, replied, done>>

Accept(w) ==
    /\ pc[w] = "validate"
    /\ ~Rejected(work[w])
    /\ pc' = [pc EXCEPT ![w] = "loop"]
    /\ UNCHANGED <<form, queueVars, posted, work, next, answer, taskVars, replied, done>>

AtDevice(w) == pc[w] = "loop" /\ next[w] <= Len(DevicesOf(work[w]))

\* A broadcast that is not the first device is counted as an error.
Misplaced(w) == next[w] # 1 /\ DevicesOf(work[w])[next[w]] = Broadcast

Advance(w, a) ==
    /\ next' = [next EXCEPT ![w] = @ + 1]
    /\ answer' = [answer EXCEPT ![w] = a]

Failed(a) == [a EXCEPT !.errors = @ + 1]
Listing(w, a) == [a EXCEPT !.tasks = @ + 1,
                           !.listed = IF w \in RestHandlers THEN @ \cup {next[w]} ELSE @]

SkipBroadcast(w) ==
    /\ AtDevice(w)
    /\ Misplaced(w)
    /\ Advance(w, Failed(answer[w]))
    /\ UNCHANGED <<form, queueVars, posted, pc, work, taskVars, replied, done>>

Store(w) == made' = [made EXCEPT ![work[w]][next[w]] = @ + 1]

\* Schedule() returns nil or an error; what it stored before an error stays.
Grant(w) ==
    /\ Store(w)
    /\ granted' = [granted EXCEPT ![work[w]][next[w]] = @ + 1]
    /\ UNCHANGED missed

Miss(w) ==
    /\ Store(w) \/ UNCHANGED made
    /\ missed' = [missed EXCEPT ![work[w]] = @ \cup {next[w]}]
    /\ UNCHANGED granted

\* Mutant: a task is counted before it is known whether Schedule succeeded.
ScheduleDeviceUnchecked(w) ==
    /\ AtDevice(w)
    /\ ~Misplaced(w)
    /\ Advance(w, Listing(w, answer[w]))
    /\ Grant(w) \/ Miss(w)
    /\ UNCHANGED <<form, queueVars, posted, pc, work, replied, done>>

\* Mutant: a failed device is tried again without stepping back.
ScheduleDeviceTwice(w) ==
    /\ AtDevice(w)
    /\ ~Misplaced(w)
    /\ \/ Grant(w) /\ Advance(w, Listing(w, answer[w]))
       \/ Miss(w) /\ UNCHANGED <<next, answer>>
    /\ UNCHANGED <<form, queueVars, posted, pc, work, replied, done>>

\* Mutant: the first failure ends the loop.
ScheduleDeviceGivingUp(w) ==
    /\ AtDevice(w)
    /\ ~Misplaced(w)
    /\ \/ Grant(w) /\ Advance(w, Listing(w, answer[w])) /\ UNCHANGED <<pc, done>>
       \/ /\ Miss(w)
          /\ Advance(w, Failed(answer[w]))
          /\ pc' = [pc EXCEPT ![w] = "finish"]
          /\ done' = done \cup {work[w]}
    /\ UNCHANGED <<form, queueVars, posted, work, replied>>

ScheduleDevice(w) ==
    /\ AtDevice(w)
    /\ ~Misplaced(w)
    /\ \/ Grant(w) /\ Advance(w, Listing(w, answer[w]))
       \/ Miss(w) /\ Advance(w, Failed(answer[w]))
    /\ UNCHANGED <<form, queueVars, posted, pc, work, replied, done>>

FinishLoop(w) ==
    /\ pc[w] = "loop"
    /\ next[w] > Len(DevicesOf(work[w]))
    /\ pc' = [pc EXCEPT ![w] = "finish"]
    /\ done' = done \cup {work[w]}
    /\ UNCHANGED <<form, queueVars, posted, work, next, answer, taskVars, replied>>

-----------------------------------------------------------------------------
\* Mutant: the watcher posts a fresh copy of a request that had errors.
DeleteInputRequeueing(w) ==
    /\ pc[w] = "finish"
    /\ w \in Watchers
    /\ IF answer[w].errors = 0
       THEN Delete(work[w])
       ELSE /\ msg' = [msg EXCEPT ![work[w]] = "visible"]
            /\ receives' = [receives EXCEPT ![work[w]] = 0]
    /\ LetGo(w)
    /\ UNCHANGED <<form, posted, taskVars, replied, done>>

\* The watcher deletes the message whatever the handler returned; an error of
\* the call is only logged.
DeleteInput(w) ==
    /\ pc[w] = "finish"
    /\ w \in Watchers
    /\ Delete(work[w]) \/ UNCHANGED queueVars
    /\ LetGo(w)
    /\ UNCHANGED <<form, posted, taskVars, replied, done>>

\* The REST handler writes the response.
Respond(w) ==
    /\ pc[w] = "finish"
    /\ w \in RestHandlers
    /\ replied' = [replied EXCEPT ![work[w]] = {answer[w]}]
    /\ LetGo(w)
    /\ UNCHANGED <<form, queueVars, posted, taskVars, done>>

\* The replica stops: the request in hand is dropped where it is.
Crash(w) ==
    /\ pc[w] # "idle"
    /\ LetGo(w)
    /\ UNCHANGED <<form, queueVars, posted, taskVars, replied, done>>

HandlerStep(w) ==
    \/ Reject(w)
    \/ Accept(w)
    \/ SkipBroadcast(w)
    \/ ScheduleDevice(w)
    \/ FinishLoop(w)
    \/ DeleteInput(w)
    \/ Respond(w)

Next ==
    \/ \E q \in QueueRequests : \/ PostEvent(q)
                               \/ QueueStep(q)
                               \/ \E w \in Watchers : ReceiveInput(w, q)
    \/ \E q \in RestRequests, w \in RestHandlers : PostRest(w, q)
    \/ \E w \in Workers : HandlerStep(w) \/ Crash(w)

Spec == Init /\ [][Next]_vars

\* Watchers loop for ever and their calls return; the queue keeps its timeout
\* and its redrive policy.  Clients may be silent, calls may fail, and any
\* worker may crash any number of times.
Fairness ==
    /\ \A q \in QueueRequests :
        /\ WF_vars(QueueStep(q))
        /\ WF_vars(\E w \in Watchers : ReceiveInput(w, q))
    /\ \A w \in Workers : WF_vars(HandlerStep(w))

FairSpec == Spec /\ Fairness

-----------------------------------------------------------------------------
(* Safety.                                                                 *)

\* A request leaves the input queue as handled only when some watcher has gone
\* through all its devices, or has rejected it: a crash in the middle, before
\* the message is deleted, leaves it to be received again.
DeletedIsDone ==
    \A q \in QueueRequests : msg[q] = "deleted" => q \in done

\* Whatever is redelivered, handled twice at once or interrupted, each delivery
\* makes at most one task for a device, and a REST request makes one in all.
CopiesPerDelivery ==
    /\ \A q \in QueueRequests : \A i \in Indices(q) : made[q][i] <= receives[q]
    /\ \A q \in RestRequests : \A i \in Indices(q) : made[q][i] <= 1

\* A broadcast task comes only from a request that lists no other device.
BroadcastStandsAlone ==
    \A q \in Requests : \A i \in Indices(q) :
        made[q][i] > 0 /\ DevicesOf(q)[i] = Broadcast => Len(DevicesOf(q)) = 1

\* The answer a REST client gets accounts for each of its devices: those it
\* lists are the ones scheduled, their number is the task count, and task and
\* error count add up to the devices.
AnswerAddsUp ==
    \A q \in RestRequests : \A a \in replied[q] :
        a = Refused \/
        /\ a.tasks = Cardinality(a.listed)
        /\ a.tasks + a.errors = Len(DevicesOf(q))
        /\ a.listed = {i \in Indices(q) : granted[q][i] = 1}

\* What carries these, step by step. Each worker that has yet to come to a device
\* may make one more task for it, and each delivery brings in one worker.
Ready(q, i) == {w \in Workers : work[w] = q /\ next[w] <= i}

Deliveries(q) == IF q \in QueueRequests THEN receives[q] ELSE IF q \in posted THEN 1 ELSE 0

CopiesAndReady ==
    \A q \in Requests : \A i \in Indices(q) :
        /\ granted[q][i] <= made[q][i]
        /\ made[q][i] + Cardinality(Ready(q, i)) <= Deliveries(q)

WorkInOrder ==
    \A w \in Workers :
        /\ pc[w] = "idle" <=> work[w] = NoRequest
        /\ work[w] \in QueueRequests => w \in Watchers
        /\ work[w] \in RestRequests => w \in RestHandlers /\ work[w] \in posted
        /\ pc[w] = "validate" => next[w] = 1 /\ answer[w] = EmptyAnswer
        /\ pc[w] = "loop" => ~Rejected(work[w]) /\ next[w] <= Len(DevicesOf(work[w])) + 1
        /\ pc[w] = "finish" => work[w] \in done

\* A REST request is one handler's, until it is answered.
HandledAlone ==
    \A q \in RestRequests :
        /\ \A v, w \in Workers : work[v] = q /\ work[w] = q => v = w
        /\ replied[q] # {} => q \in posted /\ \A w \in Workers : work[w] # q

\* The answer accounts for the first n devices of q.
Accounts(a, q, n) ==
    /\ a.listed = {i \in Indices(q) : i <= n /\ granted[q][i] = 1}
    /\ a.tasks = Cardinality(a.listed)
    /\ a.tasks + a.errors = n

AnswersInOrder ==
    \A w \in RestHandlers :
        /\ pc[w] \in {"validate", "loop"} =>
              /\ Accounts(answer[w], work[w], next[w] - 1)
              /\ \A i \in Indices(work[w]) : i >= next[w] => granted[work[w]][i] = 0
        /\ pc[w] = "finish" => \/ answer[w] = Refused
                               \/ Accounts(answer[w], work[w], Len(DevicesOf(work[w])))

HandlerInv ==
    /\ DeletedIsDone
    /\ CopiesAndReady
    /\ BroadcastStandsAlone
    /\ AnswerAddsUp
    /\ WorkInOrder
    /\ HandledAlone
    /\ AnswersInOrder

(* What those who request tasks rely on.                                   *)

\* The devices that are to have a task: none if the request is refused, and never a
\* broadcast behind another device.
Wanted(q) ==
    IF form[q].decodes /\ ~Rejected(q)
    THEN {i \in Indices(q) : i = 1 \/ DevicesOf(q)[i] # Broadcast}
    ELSE {}

Promise == INSTANCE RequestPromise WITH
    size <- [q \in Requests |-> Len(DevicesOf(q))],
    wanted <- [q \in Requests |-> Wanted(q)],
    delivered <- [q \in Requests |-> Deliveries(q)],
    handled <- done,
    gone <- {q \in QueueRequests : msg[q] = "deleted"},
    reply <- replied

\* To them, all of this is RequestPromise: a device gets no more tasks than the request
\* has deliveries, none if the request is refused and none after the answer; a handled
\* request had every device tried, across crashes and redeliveries; and the answer says
\* what was granted.
KeepsPromise == Promise!Spec

\* What carries it, beside HandlerInv: a worker has tried all devices it has passed.
Tried(q, i) == granted[q][i] > 0 \/ i \in missed[q]

MadeIsWanted ==
    \A q \in Requests : \A i \in Indices(q) : made[q][i] > 0 => i \in Wanted(q)

DoneIsTried ==
    \A q \in done : \A i \in Wanted(q) : Tried(q, i)

TriedInOrder ==
    \A w \in Workers :
        /\ pc[w] # "idle" => Deliveries(work[w]) > 0
        /\ pc[w] \in {"validate", "loop"} => form[work[w]].decodes
        /\ pc[w] = "loop" => \A i \in Wanted(work[w]) : i < next[w] => Tried(work[w], i)

RefusedIsUnwanted ==
    \A w \in RestHandlers :
        pc[w] = "finish" => (answer[w] = Refused <=> Wanted(work[w]) = {})

PromiseInv ==
    /\ MadeIsWanted
    /\ DoneIsTried
    /\ TriedInOrder
    /\ RefusedIsUnwanted

(* Liveness, under FairSpec.                                               *)

\* A request on the input queue is handled to its end and leaves the queue, or
\* is dead-lettered.
RequestsAreHandled ==
    \A q \in QueueRequests :
        msg[q] \in Pending ~> (q \in done /\ msg[q] = "deleted") \/ msg[q] = "dead"
=============================================================================
