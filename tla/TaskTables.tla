----------------------------- MODULE TaskTables -----------------------------
(***************************************************************************)
(* The tables tasks and consignments of the scheduler database             *)
(* (service/db) and the statements the scheduler runs against them.        *)
(*                                                                         *)
(* Every statement is one Cassandra write to one row and is atomic; the    *)
(* operations of package db that write two rows are two steps, taken by    *)
(* the modules that use this one.  An UPDATE is an upsert: on a row that   *)
(* does not exist it creates one that has the key and the updated column   *)
(* and nothing else (a "ghost").                                           *)
(***************************************************************************)
CONSTANTS
    Tasks          \* task IDs (time UUIDs, never reused)

VARIABLES
    taskStatus,    \* tasks.status of the row of t, NoRow if there is none
    taskBody,      \* tasks whose row has the columns an INSERT writes
    consStatus     \* consignments.status of the row of t, NoRow if none

tableVars == <<taskStatus, taskBody, consStatus>>

NoRow == "absent"
Outcomes == {"completed", "failed"}
Status == {"queued", "dispatched"} \cup Outcomes

TablesTypeOK ==
    /\ taskStatus \in [Tasks -> Status \cup {NoRow}]
    /\ taskBody \in SUBSET Tasks
    /\ consStatus \in [Tasks -> Status \cup {NoRow}]

TablesInit ==
    /\ taskStatus = [t \in Tasks |-> NoRow]
    /\ taskBody = {}
    /\ consStatus = [t \in Tasks |-> NoRow]

-----------------------------------------------------------------------------
\* First write of Task.CreateTask: the full row, status queued.
InsertTask(t) ==
    /\ taskStatus' = [taskStatus EXCEPT ![t] = "queued"]
    /\ taskBody' = taskBody \cup {t}
    /\ UNCHANGED consStatus

\* Second write of Task.CreateTask, made by Consignment.CreateConsignment.
InsertConsignment(t) ==
    /\ consStatus' = [consStatus EXCEPT ![t] = "queued"]
    /\ UNCHANGED <<taskStatus, taskBody>>

\* setTaskStatus: UPDATE tasks SET status, unconditional.
SetTaskStatus(t, s) ==
    /\ taskStatus' = [taskStatus EXCEPT ![t] = s]
    /\ UNCHANGED <<taskBody, consStatus>>

\* UpdateConsignmentTaskStatus: UPDATE consignments SET status.
SetConsignmentStatus(t, s) ==
    /\ consStatus' = [consStatus EXCEPT ![t] = s]
    /\ UNCHANGED <<taskStatus, taskBody>>

\* Task.RemoveTask: DELETE of the tasks row; the consignments row stays.
DeleteTask(t) ==
    /\ taskStatus' = [taskStatus EXCEPT ![t] = NoRow]
    /\ taskBody' = taskBody \ {t}
    /\ UNCHANGED consStatus
=============================================================================
