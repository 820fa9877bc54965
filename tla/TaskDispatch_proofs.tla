------------------------- MODULE TaskDispatch_proofs -------------------------
(***************************************************************************)
(* Theorems about TaskDispatch, for any sets of tasks and replicas and any *)
(* redrive policy.  TaskDispatch's TypeOK and the strengthenings below are *)
(* invariants; NoLostDispatch, DispatchIsRecorded and the others follow.   *)
(***************************************************************************)
EXTENDS TaskDispatch, TLAPS

-----------------------------------------------------------------------------
(* Type correctness.                                                       *)

\* Every step of Schedule, of the watchers, of the handlers, of the queue and
\* of the environment keeps the tables, the queue and the program counters
\* within their types.
LEMMA TypeStep == TypeOK /\ [Next]_vars => TypeOK'
<1> SUFFICES ASSUME TypeOK, [Next]_vars PROVE TypeOK'
  OBVIOUS
<1> USE DispatchAssumption, ReplyAssumption
<1> USE DEF TypeOK, TablesTypeOK, QueueTypeOK, queueVars, tableVars, dispVars,
            respVars, deviceVars, Status, NoRow, Outcomes, MessageStates,
            SchedStates, DispStates, RespStates, Replies
<1>1. ASSUME NEW t \in Tasks, ScheduleStep(t) PROVE TypeOK'
  BY <1>1 DEF ScheduleStep, StoreTask, StoreConsignment,
     SendDispatchQueueMessage, ScheduleFails, InsertTask, InsertConsignment, Send
<1>2. ASSUME NEW t \in Tasks, QueueStep(t) PROVE TypeOK'
  BY <1>2 DEF QueueStep, VisibilityTimeout, Redrive
<1>3. ASSUME NEW t \in Tasks, RemoveTask(t) PROVE TypeOK'
  BY <1>3 DEF RemoveTask, DeleteTask
<1>4. ASSUME NEW t \in Tasks, NEW o \in Outcomes \cup {"invalid"},
             DeviceReplies(t, o)
      PROVE TypeOK'
  BY <1>4 DEF DeviceReplies
<1>5. ASSUME NEW t \in Tasks, NEW r \in Replicas, ReceiveDispatch(r, t)
      PROVE TypeOK'
  BY <1>5 DEF ReceiveDispatch, Receive
<1>6. ASSUME NEW r \in Replicas, DispatchStep(r) PROVE TypeOK'
  <2>1. CASE SendTaskToBroker(r)
    BY <2>1 DEF SendTaskToBroker, DispatcherDone
  <2>2. CASE MarkTaskDispatched(r)
    BY <2>2 DEF MarkTaskDispatched, SetTaskStatus, DispatcherDone
  <2>3. CASE DeleteDispatch(r)
    BY <2>3 DEF DeleteDispatch, Delete, DispatcherDone
  <2> QED BY <1>6, <2>1, <2>2, <2>3 DEF DispatchStep
<1>7. ASSUME NEW r \in Replicas, ResponseStep(r) PROVE TypeOK'
  <2>1. CASE UpdateTask(r)
    BY <2>1 DEF UpdateTask, SetTaskStatus
  <2>2. CASE UpdateConsignment(r)
    BY <2>2 DEF UpdateConsignment, SetConsignmentStatus
  <2>3. CASE ForwardReply(r)
    BY <2>3 DEF ForwardReply, HandlerDone
  <2> QED BY <1>7, <2>1, <2>2, <2>3 DEF ResponseStep
<1>8. ASSUME NEW r \in Replicas, Crash(r) PROVE TypeOK'
  BY <1>8 DEF Crash, DispatcherDone, HandlerDone
<1>9. ASSUME NEW r \in Replicas, NEW q \in replies, TakeReply(r, q)
      PROVE TypeOK'
  BY <1>9 DEF TakeReply
<1>10. ASSUME NEW q \in replies, DropReply(q) PROVE TypeOK'
  BY <1>10 DEF DropReply
<1>11. CASE UNCHANGED vars
  BY <1>11 DEF vars
<1> QED
  BY <1>1, <1>2, <1>3, <1>4, <1>5, <1>6, <1>7, <1>8, <1>9, <1>10, <1>11 DEF Next

\* The state of the program always has its type.
THEOREM TypeCorrect == Spec => []TypeOK
<1>1. Init => TypeOK
  BY DispatchAssumption, ReplyAssumption
     DEF Init, TypeOK, TablesInit, QueueInit, TablesTypeOK, QueueTypeOK, Status,
         NoRow, MessageStates, SchedStates, DispStates, RespStates
<1> QED BY <1>1, TypeStep, PTL DEF Spec

-----------------------------------------------------------------------------
(* The dispatch of an accepted task.                                       *)

\* DispatchInv is preserved by every step: the order in which Schedule writes
\* and sends, and in which the watcher publishes, marks and deletes.
LEMMA DispatchStepInv == TypeOK /\ DispatchInv /\ [Next]_vars => DispatchInv'
<1> SUFFICES ASSUME TypeOK, DispatchInv, [Next]_vars PROVE DispatchInv'
  OBVIOUS
<1> USE DispatchAssumption
<1> USE DEF TypeOK, TablesTypeOK, QueueTypeOK, DispatchInv, QueuedTaskIsStored,
            NoLostDispatch, DispatchIsRecorded, Pending, queueVars, tableVars,
            dispVars, Outcomes, NoRow
<1>1. ASSUME NEW t \in Tasks, ScheduleStep(t) PROVE DispatchInv'
  <2>1. CASE StoreTask(t)
    BY <2>1 DEF StoreTask, InsertTask
  <2>2. CASE StoreConsignment(t)
    BY <2>2 DEF StoreConsignment, InsertConsignment
  <2>3. CASE SendDispatchQueueMessage(t)
    BY <2>3 DEF SendDispatchQueueMessage, Send
  <2>4. CASE ScheduleFails(t)
    BY <2>4 DEF ScheduleFails, InsertTask, InsertConsignment, Send
  <2> QED BY <1>1, <2>1, <2>2, <2>3, <2>4 DEF ScheduleStep
<1>2. ASSUME NEW t \in Tasks, QueueStep(t) PROVE DispatchInv'
  BY <1>2 DEF QueueStep, VisibilityTimeout, Redrive
<1>3. ASSUME NEW t \in Tasks, RemoveTask(t) PROVE DispatchInv'
  BY <1>3 DEF RemoveTask, DeleteTask
<1>4. ASSUME NEW t \in Tasks, NEW o \in Outcomes \cup {"invalid"},
             DeviceReplies(t, o)
      PROVE DispatchInv'
  BY <1>4 DEF DeviceReplies
<1>5. ASSUME NEW t \in Tasks, NEW r \in Replicas, ReceiveDispatch(r, t)
      PROVE DispatchInv'
  BY <1>5 DEF ReceiveDispatch, Receive
<1>6. ASSUME NEW r \in Replicas, DispatchStep(r) PROVE DispatchInv'
  <2>1. CASE SendTaskToBroker(r)
    BY <2>1 DEF SendTaskToBroker, DispatcherDone
  <2>2. CASE MarkTaskDispatched(r)
    BY <2>2 DEF MarkTaskDispatched, SetTaskStatus, DispatcherDone
  <2>3. CASE DeleteDispatch(r)
    BY <2>3 DEF DeleteDispatch, Delete, DispatcherDone
  <2> QED BY <1>6, <2>1, <2>2, <2>3 DEF DispatchStep
<1>7. ASSUME NEW r \in Replicas, ResponseStep(r) PROVE DispatchInv'
  <2>1. CASE UpdateTask(r)
    BY <2>1 DEF UpdateTask, SetTaskStatus
  <2>2. CASE UpdateConsignment(r)
    BY <2>2 DEF UpdateConsignment, SetConsignmentStatus
  <2>3. CASE ForwardReply(r)
    BY <2>3 DEF ForwardReply
  <2> QED BY <1>7, <2>1, <2>2, <2>3 DEF ResponseStep
<1>8. ASSUME NEW r \in Replicas, Crash(r) PROVE DispatchInv'
  BY <1>8 DEF Crash, DispatcherDone
<1>9. ASSUME NEW r \in Replicas, NEW q \in replies, TakeReply(r, q)
      PROVE DispatchInv'
  BY <1>9 DEF TakeReply
<1>10. ASSUME NEW q \in replies, DropReply(q) PROVE DispatchInv'
  BY <1>10 DEF DropReply
<1>11. CASE UNCHANGED vars
  BY <1>11 DEF vars
<1> QED
  BY <1>1, <1>2, <1>3, <1>4, <1>5, <1>6, <1>7, <1>8, <1>9, <1>10, <1>11 DEF Next

THEOREM DispatchInvariant == Spec => []DispatchInv
<1>1. Init => DispatchInv
  BY DEF Init, TablesInit, QueueInit, DispatchInv, QueuedTaskIsStored,
         NoLostDispatch, DispatchIsRecorded
<1> QED BY <1>1, TypeCorrect, DispatchStepInv, PTL DEF Spec

\* The task a client was told is scheduled is not lost before it is published.
THEOREM NoLostDispatchHolds == Spec => []NoLostDispatch
<1>1. DispatchInv => NoLostDispatch
  BY DEF DispatchInv
<1> QED BY <1>1, DispatchInvariant, PTL

\* A message is deleted only when its task was published and marked.
THEOREM DispatchIsRecordedHolds == Spec => []DispatchIsRecorded
<1>1. DispatchInv => DispatchIsRecorded
  BY DEF DispatchInv
<1> QED BY <1>1, DispatchInvariant, PTL

\* What is on the dispatch queue was stored in both tables.
THEOREM QueuedTaskIsStoredHolds == Spec => []QueuedTaskIsStored
<1>1. DispatchInv => QueuedTaskIsStored
  BY DEF DispatchInv
<1> QED BY <1>1, DispatchInvariant, PTL

-----------------------------------------------------------------------------
(* The outcomes the devices report.                                        *)

\* OutcomeInv is preserved by every step: replies come from the devices of
\* published tasks, and the handler writes the task before the consignment.
LEMMA OutcomeStepInv ==
    TypeOK /\ DispatchInv /\ OutcomeInv /\ [Next]_vars => OutcomeInv'
<1> SUFFICES ASSUME TypeOK, DispatchInv, OutcomeInv, [Next]_vars PROVE OutcomeInv'
  OBVIOUS
<1> USE DispatchAssumption, ReplyAssumption
<1> USE DEF TypeOK, TablesTypeOK, QueueTypeOK, OutcomeInv, OutcomesAreTheDevices,
            ConsignmentNotAheadOfTask, queueVars, tableVars, dispVars, respVars,
            deviceVars, Outcomes, NoRow, Status, Replies
<1>a. \A t \in Tasks : t \in published => sched[t] \notin {"new", "stored", "mapped"}
  BY DEF DispatchInv
<1>b. \A r \in Replicas : dispPc[r] = "delete" => taskStatus[dispTask[r]] # "queued"
  BY DEF DispatchInv
<1>1. ASSUME NEW t \in Tasks, ScheduleStep(t) PROVE OutcomeInv'
  <2>1. CASE StoreTask(t)
    BY <1>a, <2>1 DEF StoreTask, InsertTask
  <2>2. CASE StoreConsignment(t)
    BY <2>2 DEF StoreConsignment, InsertConsignment
  <2>3. CASE SendDispatchQueueMessage(t)
    BY <2>3 DEF SendDispatchQueueMessage
  <2>4. CASE ScheduleFails(t)
    BY <1>a, <2>4 DEF ScheduleFails, InsertTask, InsertConsignment
  <2> QED BY <1>1, <2>1, <2>2, <2>3, <2>4 DEF ScheduleStep
<1>2. ASSUME NEW t \in Tasks, QueueStep(t) PROVE OutcomeInv'
  BY <1>2 DEF QueueStep
<1>3. ASSUME NEW t \in Tasks, RemoveTask(t) PROVE OutcomeInv'
  BY <1>3 DEF RemoveTask, DeleteTask
<1>4. ASSUME NEW t \in Tasks, NEW o \in Outcomes \cup {"invalid"},
             DeviceReplies(t, o)
      PROVE OutcomeInv'
  BY <1>4 DEF DeviceReplies
<1>5. ASSUME NEW t \in Tasks, NEW r \in Replicas, ReceiveDispatch(r, t)
      PROVE OutcomeInv'
  BY <1>5 DEF ReceiveDispatch
<1>6. ASSUME NEW r \in Replicas, DispatchStep(r) PROVE OutcomeInv'
  <2>1. CASE SendTaskToBroker(r)
    BY <2>1 DEF SendTaskToBroker
  <2>2. CASE MarkTaskDispatched(r)
    BY <2>2 DEF MarkTaskDispatched, SetTaskStatus
  <2>3. CASE DeleteDispatch(r)
    BY <2>3 DEF DeleteDispatch
  <2> QED BY <1>6, <2>1, <2>2, <2>3 DEF DispatchStep
<1>7. ASSUME NEW r \in Replicas, ResponseStep(r) PROVE OutcomeInv'
  <2>1. CASE UpdateTask(r)
    BY <2>1 DEF UpdateTask, SetTaskStatus
  <2>2. CASE UpdateConsignment(r)
    BY <2>2 DEF UpdateConsignment, SetConsignmentStatus
  <2>3. CASE ForwardReply(r)
    BY <2>3 DEF ForwardReply, HandlerDone
  <2> QED BY <1>7, <2>1, <2>2, <2>3 DEF ResponseStep
<1>8. ASSUME NEW r \in Replicas, Crash(r) PROVE OutcomeInv'
  BY <1>8 DEF Crash, HandlerDone
<1>9. ASSUME NEW r \in Replicas, NEW q \in replies, TakeReply(r, q)
      PROVE OutcomeInv'
  <2>1. /\ q.task \in Tasks
        /\ q.task \in published
        /\ q.task \notin BroadcastTasks
        /\ q.outcome \in Outcomes
        /\ q.outcome \in said[q.task]
    BY <1>9 DEF TakeReply, TaskFound
  <2>2. \A u \in Replicas : respPc'[u] # "idle" =>
          \/ u = r /\ respPc'[u] = "task" /\ respReply'[u] = q
          \/ u # r /\ respPc'[u] = respPc[u] /\ respReply'[u] = respReply[u]
    BY <1>9 DEF TakeReply
  <2>3. /\ UNCHANGED <<tableVars, published, said, events>>
        /\ replies' \subseteq replies
    BY <1>9 DEF TakeReply, deviceVars
  <2> QED BY <2>1, <2>2, <2>3
<1>10. ASSUME NEW q \in replies, DropReply(q) PROVE OutcomeInv'
  BY <1>10 DEF DropReply
<1>11. CASE UNCHANGED vars
  BY <1>11 DEF vars
<1> QED
  BY <1>1, <1>2, <1>3, <1>4, <1>5, <1>6, <1>7, <1>8, <1>9, <1>10, <1>11 DEF Next

THEOREM OutcomeInvariant == Spec => []OutcomeInv
<1>1. Init => OutcomeInv
  BY DEF Init, TablesInit, OutcomeInv, OutcomesAreTheDevices,
         ConsignmentNotAheadOfTask, Outcomes, NoRow
<1> QED BY <1>1, TypeCorrect, DispatchInvariant, OutcomeStepInv, PTL DEF Spec

\* No outcome is recorded or forwarded that the device of the task has not
\* reported, and none at all for a broadcast.
THEOREM OutcomesAreTheDevicesHolds == Spec => []OutcomesAreTheDevices
<1>1. OutcomeInv => OutcomesAreTheDevices
  BY DEF OutcomeInv
<1> QED BY <1>1, OutcomeInvariant, PTL

\* The consignment never shows an outcome for a task that reads queued.
THEOREM ConsignmentNotAheadHolds == Spec => []ConsignmentNotAheadOfTask
<1>1. OutcomeInv => ConsignmentNotAheadOfTask
  BY DEF OutcomeInv
<1> QED BY <1>1, OutcomeInvariant, PTL

-----------------------------------------------------------------------------
(* What stays as it is once a dispatch is over.                            *)

\* A row with the columns of an INSERT is a row: what GetTaskByID finds has a
\* status (a statement about the tables needed below).
RowsHaveStatus == \A t \in taskBody : taskStatus[t] # NoRow

LEMMA RowsHaveStatusInvariant == Spec => []RowsHaveStatus
<1>1. Init => RowsHaveStatus
  BY DEF Init, TablesInit, RowsHaveStatus
<1>2. TypeOK /\ RowsHaveStatus /\ [Next]_vars => RowsHaveStatus'
  <2> SUFFICES ASSUME TypeOK, RowsHaveStatus, [Next]_vars PROVE RowsHaveStatus'
    OBVIOUS
  <2> USE DEF TypeOK, TablesTypeOK, RowsHaveStatus, tableVars, NoRow, Outcomes
  <2>1. ASSUME NEW t \in Tasks, ScheduleStep(t) PROVE RowsHaveStatus'
    BY <2>1 DEF ScheduleStep, StoreTask, StoreConsignment, ScheduleFails,
       SendDispatchQueueMessage, InsertTask, InsertConsignment
  <2>2. ASSUME NEW t \in Tasks, RemoveTask(t) PROVE RowsHaveStatus'
    BY <2>2 DEF RemoveTask, DeleteTask
  <2>3. ASSUME NEW r \in Replicas, DispatchStep(r) PROVE RowsHaveStatus'
    BY <2>3 DEF DispatchStep, SendTaskToBroker, MarkTaskDispatched,
       DeleteDispatch, SetTaskStatus
  <2>4. ASSUME NEW r \in Replicas, ResponseStep(r) PROVE RowsHaveStatus'
    BY <2>4 DEF ResponseStep, UpdateTask, UpdateConsignment, ForwardReply,
       SetTaskStatus, SetConsignmentStatus
  <2>5. ASSUME UNCHANGED tableVars PROVE RowsHaveStatus'
    BY <2>5
  <2> QED
    BY <2>1, <2>2, <2>3, <2>4, <2>5 DEF Next, QueueStep, DeviceReplies,
       ReceiveDispatch, Crash, TakeReply, DropReply, vars
<1> QED BY <1>1, <1>2, TypeCorrect, PTL DEF Spec

\* Nothing recreates the row of a task that was removed after its dispatch was
\* over: Schedule is past its writes, no watcher holds the message, and a
\* reply finds no row to update.
THEOREM RemovedWhenQuietIsFinalHolds == Spec => RemovedWhenQuietIsFinal
<1>1. TypeOK /\ DispatchInv /\ RowsHaveStatus /\ [Next]_vars =>
        \A t \in Tasks : GoneForGood(t) => GoneForGood(t)'
  <2> SUFFICES ASSUME TypeOK, DispatchInv, RowsHaveStatus, [Next]_vars,
                      NEW t \in Tasks, GoneForGood(t)
               PROVE  GoneForGood(t)'
    OBVIOUS
  <2> USE DEF TypeOK, TablesTypeOK, QueueTypeOK, GoneForGood, DispatchOver,
              NoWatcherHas, NoHandlerHas, tableVars, queueVars, dispVars,
              respVars, NoRow, Outcomes, Pending
  <2>a. sched[t] \notin {"new", "stored", "mapped"}
    BY DEF DispatchInv
  <2>1. ASSUME NEW u \in Tasks, ScheduleStep(u) PROVE GoneForGood(t)'
    BY <2>a, <2>1 DEF ScheduleStep, StoreTask, StoreConsignment, ScheduleFails,
       SendDispatchQueueMessage, InsertTask, InsertConsignment, Send
  <2>2. ASSUME NEW u \in Tasks, QueueStep(u) \/ RemoveTask(u)
        PROVE GoneForGood(t)'
    BY <2>2 DEF QueueStep, VisibilityTimeout, Redrive, RemoveTask, DeleteTask
  <2>3. ASSUME NEW u \in Tasks, NEW r \in Replicas, ReceiveDispatch(r, u)
        PROVE GoneForGood(t)'
    BY <2>3 DEF ReceiveDispatch, Receive
  <2>4. ASSUME NEW r \in Replicas, DispatchStep(r) PROVE GoneForGood(t)'
    BY <2>4 DEF DispatchStep, SendTaskToBroker, MarkTaskDispatched,
       DeleteDispatch, SetTaskStatus, DispatcherDone, Delete
  <2>5. ASSUME NEW r \in Replicas, ResponseStep(r) PROVE GoneForGood(t)'
    BY <2>5 DEF ResponseStep, UpdateTask, UpdateConsignment, ForwardReply,
       SetTaskStatus, SetConsignmentStatus, HandlerDone
  <2>6. ASSUME NEW r \in Replicas, NEW q \in replies, TakeReply(r, q)
        PROVE GoneForGood(t)'
    BY <2>6 DEF TakeReply, TaskFound, RowsHaveStatus
  <2>7. ASSUME NEW r \in Replicas, Crash(r) PROVE GoneForGood(t)'
    BY <2>7 DEF Crash, DispatcherDone, HandlerDone
  <2>8. ASSUME UNCHANGED <<tableVars, queueVars, dispVars, respVars>>
        PROVE GoneForGood(t)'
    BY <2>8
  <2> QED
    BY <2>1, <2>2, <2>3, <2>4, <2>5, <2>6, <2>7, <2>8
       DEF Next, DeviceReplies, DropReply, vars
<1>2. TypeOK /\ DispatchInv /\ RowsHaveStatus /\ [Next]_vars =>
        [\A t \in Tasks : GoneForGood(t) => GoneForGood(t)']_vars
  BY <1>1
<1> QED
  BY <1>2, TypeCorrect, DispatchInvariant, RowsHaveStatusInvariant, PTL
     DEF Spec, RemovedWhenQuietIsFinal

\* After its dispatch a completed or failed task never shows as queued or
\* dispatched again, whatever further replies the handlers work on.
THEOREM OutcomeSettlesHolds == Spec => OutcomeSettles
<1> DEFINE Settles == \A t \in Tasks :
              DispatchOver(t) /\ taskStatus[t] \in Outcomes =>
                  taskStatus'[t] \in Outcomes \cup {NoRow}
<1>1. TypeOK /\ DispatchInv /\ [Next]_vars => Settles
  <2> SUFFICES ASSUME TypeOK, DispatchInv, [Next]_vars, NEW t \in Tasks,
                      DispatchOver(t), taskStatus[t] \in Outcomes
               PROVE  taskStatus'[t] \in Outcomes \cup {NoRow}
    BY DEF Settles
  <2> DEFINE Kept == taskStatus'[t] \in Outcomes \cup {NoRow}
  <2> USE DEF TypeOK, TablesTypeOK, DispatchOver, NoWatcherHas, tableVars
  <2>a. sched[t] \notin {"new", "stored", "mapped"}
    BY DEF DispatchInv
  <2>1. ASSUME NEW u \in Tasks, ScheduleStep(u) \/ RemoveTask(u) PROVE Kept
    BY <2>a, <2>1 DEF ScheduleStep, StoreTask, StoreConsignment, ScheduleFails,
       SendDispatchQueueMessage, InsertTask, InsertConsignment, RemoveTask,
       DeleteTask
  <2>2. ASSUME NEW r \in Replicas, DispatchStep(r) PROVE Kept
    BY <2>2 DEF DispatchStep, SendTaskToBroker, MarkTaskDispatched,
       DeleteDispatch, SetTaskStatus
  <2>3. ASSUME NEW r \in Replicas, ResponseStep(r) PROVE Kept
    BY <2>3 DEF ResponseStep, UpdateTask, UpdateConsignment, ForwardReply,
       SetTaskStatus, SetConsignmentStatus
  <2>4. ASSUME UNCHANGED tableVars PROVE Kept
    BY <2>4
  <2> QED
    BY <2>1, <2>2, <2>3, <2>4 DEF Next, QueueStep, DeviceReplies,
       ReceiveDispatch, Crash, TakeReply, DropReply, vars
<1>2. TypeOK /\ DispatchInv /\ [Next]_vars => [Settles]_vars
  BY <1>1
<1> QED
  BY <1>2, TypeCorrect, DispatchInvariant, PTL DEF Spec, OutcomeSettles

-----------------------------------------------------------------------------
(* Refinement.                                                             *)

\* Before Schedule has written a task nobody else writes or removes its row: its
\* message does not exist, so no watcher and no reply is about it.
NewIsUnseen == \A t \in Tasks :
    sched[t] = "new" => taskStatus[t] = NoRow /\ t \notin removed

LEMMA NewIsUnseenInvariant == Spec => []NewIsUnseen
<1>1. Init => NewIsUnseen
  BY DEF Init, TablesInit, NewIsUnseen
<1>2. TypeOK /\ DispatchInv /\ OutcomeInv /\ NewIsUnseen /\ [Next]_vars => NewIsUnseen'
  <2> SUFFICES ASSUME TypeOK, DispatchInv, OutcomeInv, NewIsUnseen, [Next]_vars
               PROVE  NewIsUnseen'
    OBVIOUS
  <2> USE DEF TypeOK, TablesTypeOK, NewIsUnseen, tableVars
  <2>1. ASSUME NEW t \in Tasks, ScheduleStep(t) PROVE NewIsUnseen'
    BY <2>1 DEF ScheduleStep, StoreTask, StoreConsignment, ScheduleFails,
       SendDispatchQueueMessage, InsertTask, InsertConsignment
  <2>2. ASSUME NEW t \in Tasks, RemoveTask(t) PROVE NewIsUnseen'
    BY <2>2 DEF RemoveTask, DeleteTask
  <2>3. ASSUME NEW r \in Replicas, DispatchStep(r) PROVE NewIsUnseen'
    <3>1. dispPc[r] # "idle" => sched[dispTask[r]] # "new"
      BY DEF DispatchInv
    <3> QED BY <2>3, <3>1 DEF DispatchStep, SendTaskToBroker,
               MarkTaskDispatched, DeleteDispatch, SetTaskStatus
  <2>4. ASSUME NEW r \in Replicas, ResponseStep(r) PROVE NewIsUnseen'
    <3>1. respPc[r] # "idle" => /\ respReply[r].task \in Tasks
                                /\ sched[respReply[r].task] # "new"
      BY DEF DispatchInv, OutcomeInv
    <3> QED BY <2>4, <3>1 DEF ResponseStep, UpdateTask, UpdateConsignment,
               ForwardReply, SetTaskStatus, SetConsignmentStatus
  <2>5. ASSUME UNCHANGED <<tableVars, sched, removed>> PROVE NewIsUnseen'
    BY <2>5
  <2> QED
    BY <2>1, <2>2, <2>3, <2>4, <2>5 DEF Next, QueueStep, DeviceReplies,
       ReceiveDispatch, Crash, TakeReply, DropReply, vars
<1> QED BY <1>1, <1>2, TypeCorrect, DispatchInvariant, OutcomeInvariant, PTL DEF Spec

\* Each step of TaskDispatch is one step of TaskPromise or none: Schedule writes
\* the row once and before it sends, the watcher's mark follows its publish, and
\* the handler writes and forwards what the device reported.
LEMMA PromiseStep ==
    TypeOK /\ DispatchInv /\ OutcomeInv /\ RowsHaveStatus /\ NewIsUnseen /\ [Next]_vars
        => [Promise!Next]_(Promise!vars)
<1> SUFFICES ASSUME TypeOK, DispatchInv, OutcomeInv, RowsHaveStatus, NewIsUnseen,
                    [Next]_vars
             PROVE  [Promise!Next]_(Promise!vars)
  OBVIOUS
<1> USE DEF TypeOK, TablesTypeOK, tableVars, Answer, Promise!vars
<1>1. ASSUME NEW t \in Tasks, ScheduleStep(t) PROVE [Promise!Next]_(Promise!vars)
  <2>1. CASE StoreTask(t)
    <3>1. Promise!Appear(t)
      BY <2>1 DEF StoreTask, InsertTask, deviceVars, NewIsUnseen,
         Promise!Appear, Promise!Stored
    <3> QED BY <3>1 DEF Promise!Next
  <2>2. CASE StoreConsignment(t)
    BY <2>2 DEF StoreConsignment, InsertConsignment, deviceVars
  <2>3. CASE SendDispatchQueueMessage(t)
    <3>1. taskStatus[t] # NoRow \/ t \in removed
      BY <2>3 DEF SendDispatchQueueMessage, DispatchInv, RowsHaveStatus
    <3>2. Promise!Accept(t)
      BY <2>3, <3>1 DEF SendDispatchQueueMessage, deviceVars, Promise!Accept,
         Promise!Stored
    <3> QED BY <3>2 DEF Promise!Next
  <2>4. CASE ScheduleFails(t)
    <3>1. Promise!Refuse(t)
      BY <2>4 DEF ScheduleFails, InsertTask, InsertConsignment, deviceVars,
         NewIsUnseen, Promise!Refuse, Promise!Stored
    <3> QED BY <3>1 DEF Promise!Next
  <2> QED BY <1>1, <2>1, <2>2, <2>3, <2>4 DEF ScheduleStep
<1>2. ASSUME NEW r \in Replicas, DispatchStep(r) PROVE [Promise!Next]_(Promise!vars)
  <2>1. CASE SendTaskToBroker(r)
    <3>1. CASE published' = published
      BY <2>1, <3>1 DEF SendTaskToBroker, deviceVars
    <3>2. CASE published' = published \cup {dispTask[r]}
      <4>1. /\ dispTask[r] \in Tasks
            /\ taskStatus[dispTask[r]] # NoRow \/ dispTask[r] \in removed
        BY <2>1 DEF SendTaskToBroker, DispatchInv, QueuedTaskIsStored, RowsHaveStatus
      <4>2. Promise!Deliver(dispTask[r])
        BY <2>1, <3>2, <4>1 DEF SendTaskToBroker, deviceVars, Promise!Deliver,
           Promise!Stored
      <4> QED BY <4>1, <4>2 DEF Promise!Next
    <3> QED BY <2>1, <3>1, <3>2 DEF SendTaskToBroker
  <2>2. CASE MarkTaskDispatched(r)
    <3>1. CASE UNCHANGED tableVars
      BY <2>2, <3>1 DEF MarkTaskDispatched, deviceVars
    <3>2. CASE SetTaskStatus(dispTask[r], "dispatched")
      <4>1. dispTask[r] \in Tasks /\ dispTask[r] \in published
        BY <2>2 DEF MarkTaskDispatched, DispatchInv
      <4>2. Promise!ShowDispatched(dispTask[r])
        BY <2>2, <3>2, <4>1 DEF MarkTaskDispatched, SetTaskStatus, deviceVars,
           Promise!ShowDispatched
      <4> QED BY <4>1, <4>2 DEF Promise!Next
    <3> QED BY <2>2, <3>1, <3>2 DEF MarkTaskDispatched
  <2>3. CASE DeleteDispatch(r)
    BY <2>3 DEF DeleteDispatch, deviceVars
  <2> QED BY <1>2, <2>1, <2>2, <2>3 DEF DispatchStep
<1>3. ASSUME NEW r \in Replicas, ResponseStep(r) PROVE [Promise!Next]_(Promise!vars)
  <2> DEFINE q == respReply[r]
  <2>a. /\ q.task \in Tasks
        /\ q.outcome \in Outcomes
        /\ q.outcome \in said[q.task]
        /\ q.task \notin BroadcastTasks
    BY <1>3 DEF ResponseStep, UpdateTask, UpdateConsignment, ForwardReply, OutcomeInv
  <2>1. CASE UpdateTask(r)
    <3>1. CASE UNCHANGED tableVars
      BY <2>1, <3>1 DEF UpdateTask, deviceVars
    <3>2. CASE SetTaskStatus(q.task, q.outcome)
      <4>1. Promise!ShowOutcome(q.task, q.outcome)
        BY <2>1, <2>a, <3>2 DEF UpdateTask, SetTaskStatus, deviceVars,
           Promise!ShowOutcome
      <4> QED BY <2>a, <4>1 DEF Promise!Next
    <3> QED BY <2>1, <3>1, <3>2 DEF UpdateTask
  <2>2. CASE UpdateConsignment(r)
    BY <2>2 DEF UpdateConsignment, SetConsignmentStatus, deviceVars
  <2>3. CASE ForwardReply(r)
    <3>1. CASE events' = events
      BY <2>3, <3>1 DEF ForwardReply, deviceVars
    <3>2. CASE events' = events \cup {q}
      <4>1. {[task |-> e.task, outcome |-> e.outcome] : e \in events \cup {q}}
              = {[task |-> e.task, outcome |-> e.outcome] : e \in events}
                \cup {[task |-> q.task, outcome |-> q.outcome]}
        OBVIOUS
      <4>2. PICK t \in Tasks, o \in Outcomes : t = q.task /\ o = q.outcome
        BY <2>a
      <4>3. Promise!Tell(t, o)
        BY <2>3, <2>a, <3>2, <4>1, <4>2 DEF ForwardReply, deviceVars, Promise!Tell
      <4> QED BY <4>3 DEF Promise!Next
    <3> QED BY <2>3, <3>1, <3>2 DEF ForwardReply
  <2> QED BY <1>3, <2>1, <2>2, <2>3 DEF ResponseStep
<1>4. ASSUME NEW t \in Tasks, RemoveTask(t) PROVE [Promise!Next]_(Promise!vars)
  <2>1. Promise!Remove(t)
    BY <1>4 DEF RemoveTask, DeleteTask, deviceVars, Promise!Remove
  <2> QED BY <2>1 DEF Promise!Next
<1>5. ASSUME NEW t \in Tasks, NEW o \in Outcomes \cup {"invalid"}, DeviceReplies(t, o)
      PROVE [Promise!Next]_(Promise!vars)
  <2>1. CASE o \in Outcomes
    <3>1. Promise!Say(t, o)
      <4>1. {o} \cap Outcomes = {o}
        BY <2>1
      <4>2. /\ t \in published
            /\ said' = [said EXCEPT ![t] = @ \cup {o}]
        BY <1>5, <4>1 DEF DeviceReplies
      <4>3. UNCHANGED <<sched, taskStatus, removed, published, events>>
        BY <1>5 DEF DeviceReplies, tableVars
      <4> QED BY <4>2, <4>3 DEF Promise!Say, Answer
    <3> QED BY <2>1, <3>1 DEF Promise!Next
  <2>2. CASE o \notin Outcomes
    <3>1. said' = said
      BY <1>5, <2>2 DEF DeviceReplies
    <3> QED BY <1>5, <3>1 DEF DeviceReplies
  <2> QED BY <2>1, <2>2
<1>6. ASSUME UNCHANGED <<taskStatus, sched, published, removed, said, events>>
      PROVE [Promise!Next]_(Promise!vars)
  BY <1>6
<1> QED
  BY <1>1, <1>2, <1>3, <1>4, <1>5, <1>6
     DEF Next, QueueStep, ReceiveDispatch, Crash, TakeReply, DropReply, deviceVars, vars

\* What clients and services are shown of one-time tasks is a behaviour of
\* TaskPromise, whatever fails, is redelivered or crashes.
THEOREM KeepsPromiseHolds == Spec => KeepsPromise
<1>1. Init => Promise!Init
  BY DEF Init, TablesInit, Promise!Init, Answer
<1> QED
  BY <1>1, PromiseStep, TypeCorrect, DispatchInvariant, OutcomeInvariant,
     RowsHaveStatusInvariant, NewIsUnseenInvariant, PTL DEF Spec, KeepsPromise, Promise!Spec
=============================================================================
