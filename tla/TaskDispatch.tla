---------------------------- MODULE TaskDispatch ----------------------------
(***************************************************************************)
(* The life of a one-time ("now") task: ScheduledTask.Schedule stores it   *)
(* and puts it on the dispatch queue; a dispatch queue watcher publishes   *)
(* it to the MQTT broker, marks it dispatched and deletes the message; the *)
(* device replies; a task response handler records the outcome in the      *)
(* tasks and consignments tables and forwards the reply to the service     *)
(* that asked for the task; a REST call may remove the task at any moment. *)
(*                                                                         *)
(* Every replica of the service runs one dispatch queue watcher and one    *)
(* task response handler (the MQTT client routes messages one at a time).  *)
(* All of them share the database, the queue and the broker.  Each remote  *)
(* call is one step and may fail; a call that reports an error may have    *)
(* taken effect.  A crash of a replica may happen between any two steps.   *)
(***************************************************************************)
EXTENDS TaskTables, Naturals

CONSTANTS
    Replicas,        \* running copies of the scheduler service
    BroadcastTasks,  \* tasks addressed to @all: stored under one fixed
                     \* device ID that no replying device has
    MaxReceives,     \* maxReceiveCount of the dispatch queue
    MaxReplies,      \* bound: replies a device sends about one task
    NoTask, NoReply  \* nothing in hand

ASSUME DispatchAssumption ==
    /\ BroadcastTasks \subseteq Tasks
    /\ MaxReceives \in Nat \ {0}
    /\ MaxReplies \in Nat
    /\ NoTask \notin Tasks

\* A device's answer. An outcome other than the two the handler knows is
\* "invalid".
Replies == [task: Tasks, id: 1..MaxReplies, outcome: Outcomes \cup {"invalid"}]

ASSUME ReplyAssumption == NoReply \notin Replies

VARIABLES
    msg, receives,   \* the dispatch queue, one message per task
    sched,           \* sched[t]: how far Schedule() of t has come
    dispPc,          \* dispPc[r]: next step of the queue watcher of r
    dispTask,        \* dispTask[r]: the message the watcher of r works on
    respPc,          \* respPc[r]: next step of the response handler of r
    respReply,       \* respReply[r]: the reply the handler of r works on
    replies,         \* replies the broker has not handed over yet
    \* History:
    published,       \* tasks the broker accepted for delivery
    removed,         \* tasks a client has removed
    said,            \* said[t]: outcomes the device of t has reported
    sent,            \* sent[t]: number of replies the device of t has sent
    events           \* replies forwarded to the requesting service

INSTANCE SqsQueue WITH Messages <- Tasks

queueVars == <<msg, receives>>
dispVars == <<dispPc, dispTask>>
respVars == <<respPc, respReply>>
deviceVars == <<said, sent>>
vars == <<tableVars, queueVars, sched, dispVars, respVars, replies,
          published, removed, deviceVars, events>>

SchedStates == {"new", "stored", "mapped", "accepted", "rejected"}
DispStates == {"idle", "publish", "mark", "delete"}
RespStates == {"idle", "task", "consignment", "forward"}

TypeOK ==
    /\ TablesTypeOK
    /\ QueueTypeOK
    /\ sched \in [Tasks -> SchedStates]
    /\ dispPc \in [Replicas -> DispStates]
    /\ dispTask \in [Replicas -> Tasks \cup {NoTask}]
    /\ \A r \in Replicas : dispPc[r] # "idle" => dispTask[r] \in Tasks
    /\ respPc \in [Replicas -> RespStates]
    /\ respReply \in [Replicas -> Replies \cup {NoReply}]
    /\ \A r \in Replicas : respPc[r] # "idle" =>
            respReply[r] \in [task: Tasks, id: 1..MaxReplies, outcome: Outcomes]
    /\ replies \in SUBSET Replies
    /\ published \in SUBSET Tasks
    /\ removed \in SUBSET Tasks
    /\ said \in [Tasks -> SUBSET Outcomes]
    /\ sent \in [Tasks -> 0..MaxReplies]
    /\ events \in SUBSET Replies

Init ==
    /\ TablesInit
    /\ QueueInit
    /\ sched = [t \in Tasks |-> "new"]
    /\ dispPc = [r \in Replicas |-> "idle"]
    /\ dispTask = [r \in Replicas |-> NoTask]
    /\ respPc = [r \in Replicas |-> "idle"]
    /\ respReply = [r \in Replicas |-> NoReply]
    /\ replies = {}
    /\ published = {}
    /\ removed = {}
    /\ said = [t \in Tasks |-> {}]
    /\ sent = [t \in Tasks |-> 0]
    /\ events = {}

-----------------------------------------------------------------------------
(* ScheduledTask.Schedule for a task whose unit is Once.  Nothing is       *)
(* undone when a later step fails.                                         *)

StoreTask(t) ==
    /\ sched[t] = "new"
    /\ InsertTask(t)
    /\ sched' = [sched EXCEPT ![t] = "stored"]
    /\ UNCHANGED <<queueVars, dispVars, respVars, replies, published, removed,
                   deviceVars, events>>

StoreConsignment(t) ==
    /\ sched[t] = "stored"
    /\ InsertConsignment(t)
    /\ sched' = [sched EXCEPT ![t] = "mapped"]
    /\ UNCHANGED <<queueVars, dispVars, respVars, replies, published, removed,
                   deviceVars, events>>

SendDispatchQueueMessage(t) ==
    /\ sched[t] = "mapped"
    /\ Send(t)
    /\ sched' = [sched EXCEPT ![t] = "accepted"]
    /\ UNCHANGED <<tableVars, dispVars, respVars, replies, published, removed,
                   deviceVars, events>>

\* The call at hand returned an error (or the replica died): Schedule reports
\* an error, with the call's effect or without it.
ScheduleFails(t) ==
    /\ sched[t] \in {"new", "stored", "mapped"}
    /\ sched' = [sched EXCEPT ![t] = "rejected"]
    /\ \/ UNCHANGED <<tableVars, queueVars>>
       \/ sched[t] = "new" /\ InsertTask(t) /\ UNCHANGED queueVars
       \/ sched[t] = "stored" /\ InsertConsignment(t) /\ UNCHANGED queueVars
       \/ sched[t] = "mapped" /\ Send(t) /\ UNCHANGED tableVars
    /\ UNCHANGED <<dispVars, respVars, replies, published, removed,
                   deviceVars, events>>

-----------------------------------------------------------------------------
(* WatchDispatchQueue: processSchedulerDispatchRequest in a loop.          *)

DispatcherDone(r) ==
    /\ dispPc' = [dispPc EXCEPT ![r] = "idle"]
    /\ dispTask' = [dispTask EXCEPT ![r] = NoTask]

\* Mutant: an empty answer is not told from a message.
ReceiveUnchecked(r, t) ==
    /\ dispPc[r] = "idle"
    /\ Receive(t)
    /\ dispPc' = [dispPc EXCEPT ![r] = "publish"]
    /\ dispTask' \in {dispTask, [dispTask EXCEPT ![r] = t]}
    /\ UNCHANGED <<tableVars, sched, respVars, replies, published, removed,
                   deviceVars, events>>

ReceiveDispatch(r, t) ==
    /\ dispPc[r] = "idle"
    /\ Receive(t)
    /\ \/ /\ dispPc' = [dispPc EXCEPT ![r] = "publish"]
          /\ dispTask' = [dispTask EXCEPT ![r] = t]
       \/ UNCHANGED dispVars        \* the receive call reported an error
    /\ UNCHANGED <<tableVars, sched, respVars, replies, published, removed,
                   deviceVars, events>>

\* Mutant: the watcher goes on after a failed publish.
SendTaskIgnoringError(r) ==
    /\ dispPc[r] = "publish"
    /\ published' \in {published, published \cup {dispTask[r]}}
    /\ dispPc' = [dispPc EXCEPT ![r] = "mark"]
    /\ UNCHANGED <<tableVars, queueVars, sched, dispTask, respVars, replies,
                   removed, deviceVars, events>>

\* SendTaskToBroker. On an error the message is left to its visibility timeout.
SendTaskToBroker(r) ==
    /\ dispPc[r] = "publish"
    /\ \/ /\ published' = published \cup {dispTask[r]}
          /\ dispPc' = [dispPc EXCEPT ![r] = "mark"]
          /\ UNCHANGED dispTask
       \/ /\ published' \in {published, published \cup {dispTask[r]}}
          /\ DispatcherDone(r)
    /\ UNCHANGED <<tableVars, queueVars, sched, respVars, replies, removed,
                   deviceVars, events>>

\* Mutant: the watcher goes on after a failed write.
MarkTaskIgnoringError(r) ==
    /\ dispPc[r] = "mark"
    /\ SetTaskStatus(dispTask[r], "dispatched") \/ UNCHANGED tableVars
    /\ dispPc' = [dispPc EXCEPT ![r] = "delete"]
    /\ UNCHANGED <<queueVars, sched, dispTask, respVars, replies, published,
                   removed, deviceVars, events>>

MarkTaskDispatched(r) ==
    /\ dispPc[r] = "mark"
    /\ \/ /\ SetTaskStatus(dispTask[r], "dispatched")
          /\ dispPc' = [dispPc EXCEPT ![r] = "delete"]
          /\ UNCHANGED dispTask
       \/ /\ SetTaskStatus(dispTask[r], "dispatched")
          /\ DispatcherDone(r)
       \/ /\ UNCHANGED tableVars
          /\ DispatcherDone(r)
    /\ UNCHANGED <<queueVars, sched, respVars, replies, published, removed,
                   deviceVars, events>>

\* Mutant: the watcher posts a fresh copy instead of leaving the old one.
DeleteAndRequeue(r) ==
    /\ dispPc[r] = "delete"
    /\ DispatcherDone(r)
    /\ msg' = [msg EXCEPT ![dispTask[r]] = "visible"]
    /\ receives' = [receives EXCEPT ![dispTask[r]] = 0]
    /\ UNCHANGED <<tableVars, sched, respVars, replies, published, removed,
                   deviceVars, events>>

\* An error is only logged; the call's effect is all that matters.
DeleteDispatch(r) ==
    /\ dispPc[r] = "delete"
    /\ DispatcherDone(r)
    /\ Delete(dispTask[r]) \/ UNCHANGED queueVars
    /\ UNCHANGED <<tableVars, sched, respVars, replies, published, removed,
                   deviceVars, events>>

-----------------------------------------------------------------------------
(* The device and the broker: external.                                    *)

\* A device that was sent t reports an outcome, at any later time.
DeviceReplies(t, o) ==
    /\ t \in published
    /\ sent[t] < MaxReplies
    /\ sent' = [sent EXCEPT ![t] = @ + 1]
    /\ said' = [said EXCEPT ![t] = @ \cup ({o} \cap Outcomes)]
    /\ replies' = replies \cup {[task |-> t, id |-> sent[t] + 1, outcome |-> o]}
    /\ UNCHANGED <<tableVars, queueVars, sched, dispVars, respVars, published,
                   removed, events>>

-----------------------------------------------------------------------------
(* handleTaskResponseMessage.                                              *)

HandlerDone(r) ==
    /\ respPc' = [respPc EXCEPT ![r] = "idle"]
    /\ respReply' = [respReply EXCEPT ![r] = NoReply]

\* Mutant: a reply is accepted without a row.
TaskFoundWithoutRow(q) == q.task \notin BroadcastTasks

\* GetTaskByID finds the row under the replying device, and its service and
\* tenant are those of the device's token: a ghost has neither.
TaskFound(q) ==
    /\ q.task \in taskBody
    /\ q.task \notin BroadcastTasks

\* The reply is taken off the broker (QoS 0, shared subscription) and passes
\* the checks up to the status switch.
TakeReply(r, q) ==
    /\ respPc[r] = "idle"
    /\ q \in replies
    /\ replies' = replies \ {q}
    /\ TaskFound(q)
    /\ q.outcome \in Outcomes
    /\ respPc' = [respPc EXCEPT ![r] = "task"]
    /\ respReply' = [respReply EXCEPT ![r] = q]
    /\ UNCHANGED <<tableVars, queueVars, sched, dispVars, published, removed,
                   deviceVars, events>>

\* The reply never arrives, or the handler returns early: the token is not
\* valid, the read fails, a check fails, the status is not known.
DropReply(q) ==
    /\ q \in replies
    /\ replies' = replies \ {q}
    /\ UNCHANGED <<tableVars, queueVars, sched, dispVars, respVars, published,
                   removed, deviceVars, events>>

\* Mutants: the second write follows a failed first one; a failed task is
\* queued again.
UpdateTaskIgnoringError(r) ==
    /\ respPc[r] = "task"
    /\ \/ SetTaskStatus(respReply[r].task, respReply[r].outcome)
       \/ UNCHANGED tableVars
    /\ respPc' = [respPc EXCEPT ![r] = "consignment"]
    /\ UNCHANGED <<queueVars, sched, dispVars, respReply, replies, published,
                   removed, deviceVars, events>>

UpdateTaskRequeues(r) ==
    /\ respPc[r] = "task"
    /\ SetTaskStatus(respReply[r].task,
            IF respReply[r].outcome = "failed" THEN "queued" ELSE "completed")
    /\ respPc' = [respPc EXCEPT ![r] = "consignment"]
    /\ UNCHANGED <<queueVars, sched, dispVars, respReply, replies, published,
                   removed, deviceVars, events>>

\* UpdateTaskStatus, first write. An error skips the second write and is
\* only logged by the handler.
UpdateTask(r) ==
    /\ respPc[r] = "task"
    /\ \/ /\ SetTaskStatus(respReply[r].task, respReply[r].outcome)
          /\ respPc' \in {[respPc EXCEPT ![r] = next] :
                             next \in {"consignment", "forward"}}
       \/ /\ UNCHANGED tableVars
          /\ respPc' = [respPc EXCEPT ![r] = "forward"]
    /\ UNCHANGED <<queueVars, sched, dispVars, respReply, replies, published,
                   removed, deviceVars, events>>

\* Mutant: the consignment is given the same outcome whatever the reply.
UpdateConsignmentCompleted(r) ==
    /\ respPc[r] = "consignment"
    /\ SetConsignmentStatus(respReply[r].task, "completed")
    /\ respPc' = [respPc EXCEPT ![r] = "forward"]
    /\ UNCHANGED <<queueVars, sched, dispVars, respReply, replies, published,
                   removed, deviceVars, events>>

\* UpdateTaskStatus, second write.
UpdateConsignment(r) ==
    /\ respPc[r] = "consignment"
    /\ \/ SetConsignmentStatus(respReply[r].task, respReply[r].outcome)
       \/ UNCHANGED tableVars
    /\ respPc' = [respPc EXCEPT ![r] = "forward"]
    /\ UNCHANGED <<queueVars, sched, dispVars, respReply, replies, published,
                   removed, deviceVars, events>>

\* SendMessage to the queue of the service; a failure loses the event.
ForwardReply(r) ==
    /\ respPc[r] = "forward"
    /\ events' \in {events, events \cup {respReply[r]}}
    /\ HandlerDone(r)
    /\ UNCHANGED <<tableVars, queueVars, sched, dispVars, replies, published,
                   removed, deviceVars>>

-----------------------------------------------------------------------------
\* REST RemoveTaskHandler: the ID is known to a client once Schedule stored
\* the task (or to one that lists the device's tasks).
RemoveTask(t) ==
    /\ taskStatus[t] # NoRow
    /\ DeleteTask(t)
    /\ removed' = removed \cup {t}
    /\ UNCHANGED <<queueVars, sched, dispVars, respVars, replies, published,
                   deviceVars, events>>

\* Replica r stops and is started again: what it was doing is forgotten.
Crash(r) ==
    /\ dispPc[r] # "idle" \/ respPc[r] # "idle"
    /\ DispatcherDone(r)
    /\ HandlerDone(r)
    /\ UNCHANGED <<tableVars, queueVars, sched, replies, published, removed,
                   deviceVars, events>>

QueueStep(t) ==
    /\ VisibilityTimeout(t) \/ Redrive(t)
    /\ UNCHANGED <<tableVars, sched, dispVars, respVars, replies, published,
                   removed, deviceVars, events>>

-----------------------------------------------------------------------------
ScheduleStep(t) ==
    \/ StoreTask(t)
    \/ StoreConsignment(t)
    \/ SendDispatchQueueMessage(t)
    \/ ScheduleFails(t)

\* One pass of processSchedulerDispatchRequest after a message was received.
DispatchStep(r) ==
    \/ SendTaskToBroker(r)
    \/ MarkTaskDispatched(r)
    \/ DeleteDispatch(r)

ResponseStep(r) ==
    \/ UpdateTask(r)
    \/ UpdateConsignment(r)
    \/ ForwardReply(r)

Next ==
    \/ \E t \in Tasks : \/ ScheduleStep(t)
                       \/ QueueStep(t)
                       \/ RemoveTask(t)
                       \/ \E o \in Outcomes \cup {"invalid"} : DeviceReplies(t, o)
                       \/ \E r \in Replicas : ReceiveDispatch(r, t)
    \/ \E r \in Replicas : \/ DispatchStep(r)
                          \/ ResponseStep(r)
                          \/ Crash(r)
                          \/ \E q \in replies : TakeReply(r, q)
    \/ \E q \in replies : DropReply(q)

Spec == Init /\ [][Next]_vars

\* The watcher loops for ever, its calls return (they have time limits), and
\* SQS keeps its visibility timeout and its redrive policy.  Calls may fail
\* and replicas may crash any number of times.
Fairness ==
    /\ \A t \in Tasks : /\ WF_vars(\E r \in Replicas : ReceiveDispatch(r, t))
                        /\ WF_vars(QueueStep(t))
    /\ \A r \in Replicas : WF_vars(DispatchStep(r))

FairSpec == Spec /\ Fairness

-----------------------------------------------------------------------------
(* Safety.                                                                 *)

\* A client that was told its task is scheduled never loses it before the
\* broker has it: until then its message is on the dispatch queue, in some
\* watcher's hands, or set aside on the dead-letter queue. The watcher's order
\* publish, mark, delete and its early returns are what this rests on.
NoLostDispatch ==
    \A t \in Tasks : sched[t] = "accepted" /\ t \notin published =>
        msg[t] \in Pending \cup {"dead"}

\* When a message has been deleted, its task was published and a reader no
\* longer finds the task queued, whatever failed or was redelivered before.
DispatchIsRecorded ==
    \A t \in Tasks : msg[t] = "deleted" =>
        t \in published /\ taskStatus[t] # "queued"

\* A message that a watcher can receive is about a task both of whose rows
\* were written before it was sent (the tasks row may have been removed since).
QueuedTaskIsStored ==
    \A t \in Tasks : msg[t] # "none" =>
        /\ consStatus[t] # NoRow
        /\ t \in taskBody \cup removed

\* Whatever outcome the database shows or the service is sent, the device of
\* that very task has reported it.
OutcomesAreTheDevices ==
    /\ \A t \in Tasks : {taskStatus[t], consStatus[t]} \cap Outcomes \subseteq said[t]
    /\ \A q \in events : q.outcome \in said[q.task] /\ q.task \notin BroadcastTasks

\* The consignment never shows an outcome for a task that still reads queued:
\* UpdateTaskStatus gives up after the first of its writes fails.
ConsignmentNotAheadOfTask ==
    \A t \in Tasks : consStatus[t] \in Outcomes => taskStatus[t] # "queued"

\* The strengthening under which the first three of these are inductive. It
\* ties each program counter to what has been done by then: a message is on
\* the queue only after both rows were written, and a watcher that has reached
\* "mark" or "delete" holds a task that was published and, for "delete", marked.
DispatchInv ==
    /\ \A t \in Tasks :
        /\ sched[t] = "stored" => t \in taskBody \cup removed
        /\ sched[t] = "mapped" =>
              consStatus[t] # NoRow /\ t \in taskBody \cup removed
        /\ msg[t] # "none" => sched[t] \in {"accepted", "rejected"}
        /\ sched[t] = "accepted" => msg[t] # "none"
        /\ t \in published => msg[t] # "none"
    /\ \A r \in Replicas :
        /\ dispPc[r] # "idle" => msg[dispTask[r]] # "none"
        /\ dispPc[r] \in {"mark", "delete"} => dispTask[r] \in published
        /\ dispPc[r] = "delete" => taskStatus[dispTask[r]] # "queued"
    /\ QueuedTaskIsStored
    /\ NoLostDispatch
    /\ DispatchIsRecorded

\* The strengthening for the reported outcomes: a reply stems from the device
\* of a published task all the way through the handler, and the handler writes
\* the consignment only after the task.
OutcomeInv ==
    /\ \A q \in replies : /\ q.task \in published
                          /\ {q.outcome} \cap Outcomes \subseteq said[q.task]
    /\ \A r \in Replicas : respPc[r] # "idle" =>
          /\ respReply[r].task \in published
          /\ respReply[r].outcome \in said[respReply[r].task]
          /\ respReply[r].task \notin BroadcastTasks
          /\ respPc[r] = "consignment" => taskStatus[respReply[r].task] # "queued"
    /\ \A t \in Tasks : consStatus[t] \in Outcomes => t \in published
    /\ OutcomesAreTheDevices
    /\ ConsignmentNotAheadOfTask

(* Action properties.                                                      *)

NoWatcherHas(t) == \A r \in Replicas : dispPc[r] # "idle" => dispTask[r] # t
NoHandlerHas(t) == \A r \in Replicas : respPc[r] # "idle" => respReply[r].task # t

\* Dispatch of t is over: its message is gone and nobody works on a copy.
DispatchOver(t) == msg[t] \in {"deleted", "dead"} /\ NoWatcherHas(t)

GoneForGood(t) == taskStatus[t] = NoRow /\ DispatchOver(t) /\ NoHandlerHas(t)

\* A task removed once its dispatch is over stays removed: late replies find
\* no row, so no unconditional UPDATE can bring a part of it back.
RemovedWhenQuietIsFinal ==
    [][\A t \in Tasks : GoneForGood(t) => GoneForGood(t)']_vars

\* Once its dispatch is over, a task that reads completed or failed is never
\* again shown as queued or dispatched.
OutcomeSettles ==
    [][\A t \in Tasks : DispatchOver(t) /\ taskStatus[t] \in Outcomes =>
            taskStatus'[t] \in Outcomes \cup {NoRow}]_vars

(* Refinement.                                                             *)

Answer(t) == IF sched[t] \in {"accepted", "rejected"} THEN sched[t] ELSE "pending"

Promise == INSTANCE TaskPromise WITH
    Broadcasts <- BroadcastTasks,
    answer <- [t \in Tasks |-> Answer(t)],
    shown <- taskStatus,
    delivered <- published,
    told <- {[task |-> q.task, outcome |-> q.outcome] : q \in events}

\* To a client and to the requesting service, all of this is TaskPromise: no
\* write, send, redelivery, crash or late reply shows them a task that was never
\* stored, dispatched without the broker, or finished without its device.
KeepsPromise == Promise!Spec

(* Liveness, under FairSpec.                                               *)

\* An accepted task reaches the broker or the dead-letter queue although any
\* publish may fail, any write may fail and any watcher may crash.
EventuallyPublished ==
    \A t \in Tasks :
        sched[t] = "accepted" ~> (t \in published \/ msg[t] = "dead")

\* No message circulates for ever.
QueueDrains ==
    \A t \in Tasks : msg[t] \in Pending ~> msg[t] \in {"deleted", "dead"}

(* A claim of the repository that the code does not keep.                  *)

\* rest/remove_task.go:14-15: a removed task is removed from the database.
RemovedStaysRemoved ==
    \A t \in Tasks : t \in removed => taskStatus[t] = NoRow

=============================================================================
