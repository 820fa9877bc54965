---------------------------- MODULE RequestPromise ----------------------------
(***************************************************************************)
(* What those who request tasks may rely on, without the queue, the        *)
(* workers, their crashes and the order of their steps: which tasks a      *)
(* request can lead to and how many, when it counts as handled, and what   *)
(* the answer to a REST request says.  RequestHandler implements this.     *)
(***************************************************************************)
EXTENDS Naturals, FiniteSets

CONSTANTS
    QueueRequests,   \* requests sent to the input queue
    RestRequests,    \* requests that are answered
    MaxReceives,     \* how often a queued request is delivered
    Refused          \* the answer that refuses a request

VARIABLES
    size,            \* size[q]: how many devices q lists
    wanted,          \* wanted[q]: those that get a task each; none if q is refused
    delivered,       \* delivered[q]: how often q was handed to a worker
    made, granted,   \* made[q][i], granted[q][i]: tasks stored, and calls that said so
    missed,          \* missed[q]: devices for which a call failed
    handled,         \* requests that were gone through
    gone,            \* requests that the queue does not deliver again as handled
    reply            \* reply[q]: the answer, if any

Requests == QueueRequests \cup RestRequests

asked == <<size, wanted>>
taskVars == <<made, granted, missed>>
vars == <<asked, delivered, taskVars, handled, gone, reply>>

Init ==
    /\ size \in [Requests -> Nat]
    /\ wanted \in [Requests -> SUBSET Nat]
    /\ \A q \in Requests : wanted[q] \subseteq 1..size[q]
    /\ delivered = [q \in Requests |-> 0]
    /\ made = [q \in Requests |-> [i \in 1..size[q] |-> 0]]
    /\ granted = made
    /\ missed = [q \in Requests |-> {}]
    /\ handled = {}
    /\ gone = {}
    /\ reply = [q \in RestRequests |-> {}]

\* A queued request may be delivered again until it is gone, a REST request comes once.
\* One that wants nothing may be settled at once.
Deliver(q) ==
    /\ q \notin gone
    /\ delivered[q] < (IF q \in RestRequests THEN 1 ELSE MaxReceives)
    /\ delivered' = [delivered EXCEPT ![q] = @ + 1]
    /\ \/ UNCHANGED <<handled, reply>>
       \/ /\ wanted[q] = {}
          /\ handled' = handled \cup {q}
          /\ reply' = [p \in RestRequests |-> IF p = q THEN {Refused} ELSE reply[p]]
    /\ UNCHANGED <<asked, taskVars, gone>>

\* A task is made only for a device that is to have one, once per delivery, and not
\* after the answer. The call that makes it may fail all the same.
Make(q, i) ==
    /\ i \in wanted[q]
    /\ made[q][i] < delivered[q]
    /\ q \in RestRequests => reply[q] = {}
    /\ made' = [made EXCEPT ![q][i] = @ + 1]
    /\ \/ granted' = [granted EXCEPT ![q][i] = @ + 1] /\ UNCHANGED missed
       \/ missed' = [missed EXCEPT ![q] = @ \cup {i}] /\ UNCHANGED granted
    /\ UNCHANGED <<asked, delivered, handled, gone, reply>>

Miss(q, i) ==
    /\ i \in wanted[q]
    /\ q \in RestRequests => reply[q] = {}
    /\ missed' = [missed EXCEPT ![q] = @ \cup {i}]
    /\ UNCHANGED <<asked, delivered, made, granted, handled, gone, reply>>

\* A request counts as handled when each device that was to have a task has one or
\* its call failed, however many workers crashed over it.
Tried(q, i) == granted[q][i] > 0 \/ i \in missed[q]

Finish(q) ==
    /\ delivered[q] > 0
    /\ \A i \in wanted[q] : Tried(q, i)
    /\ handled' = handled \cup {q}
    /\ UNCHANGED <<asked, delivered, taskVars, gone, reply>>

\* Only what was handled leaves the queue for good (or goes to the dead letters).
Leave(q) ==
    /\ q \in handled
    /\ gone' = gone \cup {q}
    /\ UNCHANGED <<asked, delivered, taskVars, handled, reply>>

\* A client is answered once: its request is refused, or the answer lists the devices
\* whose task was granted and counts the others as errors.
Granted(q) == {i \in 1..size[q] : granted[q][i] = 1}

Reply(q) ==
    IF wanted[q] = {}
    THEN Refused
    ELSE [tasks |-> Cardinality(Granted(q)),
          errors |-> size[q] - Cardinality(Granted(q)),
          listed |-> Granted(q)]

Answer(q) ==
    /\ q \in handled
    /\ reply[q] = {}
    /\ reply' = [reply EXCEPT ![q] = {Reply(q)}]
    /\ UNCHANGED <<asked, delivered, taskVars, handled, gone>>

Next ==
    \/ \E q \in Requests :
          \/ Deliver(q)
          \/ Finish(q)
          \/ \E i \in wanted[q] : Make(q, i) \/ Miss(q, i)
    \/ \E q \in QueueRequests : Leave(q)
    \/ \E q \in RestRequests : Answer(q)

Spec == Init /\ [][Next]_vars
=============================================================================
