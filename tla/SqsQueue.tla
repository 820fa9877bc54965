------------------------------ MODULE SqsQueue ------------------------------
(***************************************************************************)
(* A standard SQS queue as the scheduler uses it                           *)
(* (service/queuemgr/sqs_provider): unordered, at-least-once, a received   *)
(* message is hidden for the visibility timeout and comes back unless it   *)
(* is deleted.  The queues of tools/compose/elasticmq.conf move a message  *)
(* to a dead-letter queue once it was received maxReceiveCount times.      *)
(*                                                                         *)
(* The queue itself is external; its life cycle is modelled from the calls *)
(* ReceiveMessage, SendMessage and DeleteMessage in msg_utils.go and       *)
(* dispatch_queue.go.                                                      *)
(***************************************************************************)
EXTENDS Naturals

CONSTANTS
    Messages,      \* identities of the messages that can be sent
    MaxReceives    \* maxReceiveCount of the queue's redrive policy

VARIABLES
    msg,           \* msg[m]: where message m is
    receives       \* receives[m]: how often m was handed to a consumer

MessageStates == {"none", "visible", "inflight", "deleted", "dead"}

\* States in which the queue still owes the message to a consumer.
Pending == {"visible", "inflight"}

QueueTypeOK ==
    /\ msg \in [Messages -> MessageStates]
    /\ receives \in [Messages -> 0..MaxReceives]

QueueInit ==
    /\ msg = [m \in Messages |-> "none"]
    /\ receives = [m \in Messages |-> 0]

-----------------------------------------------------------------------------
(* Calls of the scheduler.                                                 *)

\* SendMessage took effect.
Send(m) ==
    /\ msg[m] = "none"
    /\ msg' = [msg EXCEPT ![m] = "visible"]
    /\ UNCHANGED receives

\* ReceiveMessage with MaxNumberOfMessages 1 returned m (or returned it to a
\* caller whose context had expired: the message is hidden all the same).
Receive(m) ==
    /\ msg[m] = "visible"
    /\ receives[m] < MaxReceives
    /\ msg' = [msg EXCEPT ![m] = "inflight"]
    /\ receives' = [receives EXCEPT ![m] = @ + 1]

\* DeleteMessage took effect.  Deleting a message that is gone changes nothing.
Delete(m) ==
    /\ msg' = [msg EXCEPT ![m] = IF @ \in Pending THEN "deleted" ELSE @]
    /\ UNCHANGED receives

(* Steps of the queue itself.                                              *)

\* VisibilityTimeout seconds after a receive the message is visible again,
\* whether or not its consumer is still at work on it.
VisibilityTimeout(m) ==
    /\ msg[m] = "inflight"
    /\ msg' = [msg EXCEPT ![m] = "visible"]
    /\ UNCHANGED receives

\* The redrive policy: received maxReceiveCount times and never deleted.
Redrive(m) ==
    /\ msg[m] = "visible"
    /\ receives[m] = MaxReceives
    /\ msg' = [msg EXCEPT ![m] = "dead"]
    /\ UNCHANGED receives
=============================================================================
