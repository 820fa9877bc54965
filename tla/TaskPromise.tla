----------------------------- MODULE TaskPromise -----------------------------
(***************************************************************************)
(* What a client and a requesting service may rely on about one-time       *)
(* tasks, without the queue, the watchers, the handlers and their          *)
(* failures: what a task is shown as, whether the client was told it is    *)
(* scheduled, whether the broker has it, what its device said and what the *)
(* service was told.  TaskDispatch implements this module.                 *)
(***************************************************************************)
CONSTANTS
    Tasks,
    Broadcasts,    \* tasks no single device answers for
    Outcomes,
    NoRow          \* how a task is shown that is not there

VARIABLES
    answer,        \* answer[t]: what the client was told about scheduling t
    shown,         \* shown[t]: the status a reader of t finds
    removed,       \* tasks a client has removed
    delivered,     \* tasks the broker has accepted
    said,          \* said[t]: outcomes the device of t has reported
    told           \* outcomes the requesting service was sent

vars == <<answer, shown, removed, delivered, said, told>>

Init ==
    /\ answer = [t \in Tasks |-> "pending"]
    /\ shown = [t \in Tasks |-> NoRow]
    /\ removed = {}
    /\ delivered = {}
    /\ said = [t \in Tasks |-> {}]
    /\ told = {}

\* A reader finds the task, or would had a client not removed it.
Stored(t) == shown[t] # NoRow \/ t \in removed

\* The task becomes visible once, while its request is being served.
Appear(t) ==
    /\ answer[t] = "pending"
    /\ ~Stored(t)
    /\ shown' = [shown EXCEPT ![t] = "queued"]
    /\ UNCHANGED <<answer, removed, delivered, said, told>>

\* A client is told that a task is scheduled only when it is stored.
Accept(t) ==
    /\ answer[t] = "pending"
    /\ Stored(t)
    /\ answer' = [answer EXCEPT ![t] = "accepted"]
    /\ UNCHANGED <<shown, removed, delivered, said, told>>

\* A refused task may be there all the same, or turn up then.
Refuse(t) ==
    /\ answer[t] = "pending"
    /\ answer' = [answer EXCEPT ![t] = "rejected"]
    /\ \/ shown' = shown
       \/ ~Stored(t) /\ shown' = [shown EXCEPT ![t] = "queued"]
    /\ UNCHANGED <<removed, delivered, said, told>>

\* The broker gets only tasks that were stored, whatever their clients were told.
Deliver(t) ==
    /\ Stored(t)
    /\ delivered' = delivered \cup {t}
    /\ UNCHANGED <<answer, shown, removed, said, told>>

\* A delivered task is shown again even after it was removed; so is a finished
\* one below.
ShowDispatched(t) ==
    /\ t \in delivered
    /\ shown' = [shown EXCEPT ![t] = "dispatched"]
    /\ UNCHANGED <<answer, removed, delivered, said, told>>

Say(t, o) ==
    /\ t \in delivered
    /\ said' = [said EXCEPT ![t] = @ \cup {o}]
    /\ UNCHANGED <<answer, shown, removed, delivered, told>>

\* Outcomes that are shown or sent on are those the device has reported.
ShowOutcome(t, o) ==
    /\ o \in said[t]
    /\ t \notin Broadcasts
    /\ shown' = [shown EXCEPT ![t] = o]
    /\ UNCHANGED <<answer, removed, delivered, said, told>>

Tell(t, o) ==
    /\ o \in said[t]
    /\ t \notin Broadcasts
    /\ told' = told \cup {[task |-> t, outcome |-> o]}
    /\ UNCHANGED <<answer, shown, removed, delivered, said>>

Remove(t) ==
    /\ shown[t] # NoRow
    /\ shown' = [shown EXCEPT ![t] = NoRow]
    /\ removed' = removed \cup {t}
    /\ UNCHANGED <<answer, delivered, said, told>>

Next ==
    \E t \in Tasks :
        \/ Appear(t)
        \/ Accept(t)
        \/ Refuse(t)
        \/ Deliver(t)
        \/ ShowDispatched(t)
        \/ Remove(t)
        \/ \E o \in Outcomes : Say(t, o) \/ ShowOutcome(t, o) \/ Tell(t, o)

Spec == Init /\ [][Next]_vars
=============================================================================
