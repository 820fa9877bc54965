------------------------- MODULE RequestHandler_proofs -------------------------
(***************************************************************************)
(* Theorems about RequestHandler, for any requests, workers, devices and   *)
(* number of redeliveries: what crashes, redeliveries and failed writes    *)
(* leave behind, and what the answer to a client says of it.               *)
(***************************************************************************)
EXTENDS RequestHandler, FiniteSetTheorems, TLAPS

\* The counts change together, in one of two ways.
USE DEF taskVars, Grant, Miss

\* A request says the same for ever, and lists a number of devices.
LEMMA FormsStay == [Next]_vars => form' = form
BY DEF Next, PostEvent, QueueStep, ReceiveInput, PostRest, HandlerStep, Reject, Accept,
   SkipBroadcast, ScheduleDevice, FinishLoop, DeleteInput, Respond, Crash, vars

LEMMA IndexType ==
  ASSUME TypeOK, NEW q \in Requests
  PROVE  Len(DevicesOf(q)) \in Nat /\ \A i \in Indices(q) : i \in Nat /\ i >= 1
<1>1. DevicesOf(q) \in Seq(Devices \cup {Broadcast})
  BY DEF TypeOK, Forms, DevicesOf
<1> QED BY <1>1 DEF Indices

\* What is at hand when a worker is at work.
LEMMA WorkType ==
  ASSUME TypeOK, WorkInOrder, NEW w \in Workers, pc[w] # "idle"
  PROVE  work[w] \in Requests
BY DEF TypeOK, WorkInOrder

\* A worker at a device is one of those that may still make a task for it.
LEMMA AtDeviceType ==
  ASSUME TypeOK, WorkInOrder, CopiesAndReady, NEW w \in Workers, AtDevice(w)
  PROVE  /\ work[w] \in Requests /\ next[w] \in Indices(work[w])
         /\ IsFiniteSet(Ready(work[w], next[w]))
         /\ w \in Ready(work[w], next[w])
         /\ made[work[w]][next[w]] \in 0..MaxReceives - 1
         /\ granted[work[w]][next[w]] \in 0..MaxReceives - 1
<1> DEFINE q == work[w]
           i == next[w]
           R == Ready(q, i)
<1>1. q \in Requests
  BY WorkType DEF AtDevice
<1>2. i \in Indices(q)
  BY <1>1, IndexType DEF AtDevice, Indices, TypeOK
<1>3. IsFiniteSet(R) /\ w \in R
  <2>1. R \subseteq Workers
    BY DEF Ready
  <2> QED BY <1>2, <2>1, FS_Subset, RequestAssumption, IndexType, <1>1 DEF Ready
<1>4. Cardinality(R) \in Nat /\ Cardinality(R) # 0
  BY <1>3, FS_CardinalityType, FS_EmptySet
<1>5. Deliveries(q) \in 0..MaxReceives
  BY <1>1, RequestAssumption DEF TypeOK, QueueTypeOK, Deliveries, Requests
<1>6. made[q][i] \in 0..MaxReceives /\ granted[q][i] \in 0..MaxReceives
  BY <1>1, <1>2 DEF TypeOK, Counts
<1>7. granted[q][i] <= made[q][i] /\ made[q][i] + Cardinality(R) <= Deliveries(q)
  BY <1>1, <1>2 DEF CopiesAndReady
<1>8. made[q][i] \in 0..MaxReceives - 1 /\ granted[q][i] \in 0..MaxReceives - 1
  <2> HIDE DEF q, i, R
  <2> QED BY <1>4, <1>5, <1>6, <1>7, RequestAssumption
<1> QED BY <1>1, <1>2, <1>3, <1>8

-----------------------------------------------------------------------------
(* Types.                                                                  *)

LEMMA AnswerTypes ==
  /\ EmptyAnswer \in Answers /\ Refused \in Answers
  /\ \A a \in Answers : Failed(a) \in Answers
  /\ \A a \in Answers, w \in Workers : next[w] \in Nat => Listing(w, a) \in Answers
<1>1. EmptyAnswer \in Answers
  BY DEF EmptyAnswer, Answers
<1>2. Refused \in Answers
  BY <1>1 DEF Refused, Answers
<1>3. ASSUME NEW a \in Answers PROVE Failed(a) \in Answers
  BY DEF Failed, Answers
<1>4. ASSUME NEW a \in Answers, NEW w \in Workers, next[w] \in Nat PROVE Listing(w, a) \in Answers
  <2>1. a.tasks + 1 \in Nat /\ a.listed \cup {next[w]} \in SUBSET Nat
    BY <1>4 DEF Answers
  <2> QED BY <2>1 DEF Listing, Answers
<1> QED BY <1>1, <1>2, <1>3, <1>4

\* Every step keeps the state within its types; that no count exceeds the number of
\* deliveries follows from the invariant.
LEMMA TypeStep == TypeOK /\ WorkInOrder /\ CopiesAndReady /\ [Next]_vars => TypeOK'
<1> SUFFICES ASSUME TypeOK, WorkInOrder, CopiesAndReady, [Next]_vars PROVE TypeOK'
  OBVIOUS
<1>1. form' = form /\ \A q \in Requests : Indices(q)' = Indices(q)
  BY FormsStay DEF Indices, DevicesOf
<1>2. \A q \in Requests : Counts(q)' = Counts(q)
  BY <1>1 DEF Counts
<1>0. /\ \A w \in Workers : pc[w] # "idle" => work[w] \in Requests
      /\ \A w \in Workers : AtDevice(w) =>
            /\ work[w] \in Requests /\ next[w] \in Indices(work[w])
            /\ made[work[w]][next[w]] + 1 \in 0..MaxReceives
            /\ granted[work[w]][next[w]] + 1 \in 0..MaxReceives
  BY WorkType, AtDeviceType, RequestAssumption
<1> USE DEF TypeOK, QueueTypeOK, workVars, queueVars
<1>3. ASSUME NEW q \in QueueRequests, PostEvent(q) \/ QueueStep(q) PROVE TypeOK'
  <2>1. msg' \in [QueueRequests -> MessageStates] /\ receives' = receives
    BY <1>3 DEF PostEvent, QueueStep, Send, VisibilityTimeout, Redrive, MessageStates
  <2> QED BY <1>2, <1>3, <2>1 DEF PostEvent, QueueStep
<1>4. ASSUME NEW w \in Workers, LetGo(w) \/ \E q \in Requests : TakeUp(w, q)
      PROVE  /\ pc' \in [Workers -> {"idle", "validate", "loop", "finish"}]
             /\ work' \in [Workers -> Requests \cup {NoRequest}]
             /\ next' \in [Workers -> Nat \ {0}]
             /\ answer' \in [Workers -> Answers]
  <2>1. CASE LetGo(w)
    BY <2>1, AnswerTypes DEF LetGo
  <2>2. ASSUME NEW q \in Requests, TakeUp(w, q)
        PROVE  /\ pc' \in [Workers -> {"idle", "validate", "loop", "finish"}]
               /\ work' \in [Workers -> Requests \cup {NoRequest}]
               /\ next' \in [Workers -> Nat \ {0}]
               /\ answer' \in [Workers -> Answers]
    BY <2>2, AnswerTypes DEF TakeUp
  <2> QED BY <1>4, <2>1, <2>2
<1>5. ASSUME NEW q \in QueueRequests, NEW w \in Watchers, ReceiveInput(w, q) PROVE TypeOK'
  <2>1. msg' \in [QueueRequests -> MessageStates] /\ receives' \in [QueueRequests -> 0..MaxReceives]
    BY <1>5, RequestAssumption DEF ReceiveInput, Receive, MessageStates
  <2>2. w \in Workers /\ q \in Requests
    BY DEF Workers, Requests
  <2>3. CASE TakeUp(w, q)
    BY <1>2, <1>4, <1>5, <2>1, <2>2, <2>3 DEF ReceiveInput
  <2>4. CASE ~TakeUp(w, q)
    BY <1>2, <1>5, <2>1, <2>2, <2>4 DEF ReceiveInput
  <2> QED BY <2>3, <2>4
<1>6. ASSUME NEW q \in RestRequests, NEW w \in RestHandlers, PostRest(w, q) PROVE TypeOK'
  <2>1. w \in Workers /\ q \in Requests
    BY DEF Workers, Requests
  <2>2. CASE TakeUp(w, q) /\ UNCHANGED <<replied, done>>
    BY <1>2, <1>4, <1>6, <2>1, <2>2 DEF PostRest
  <2>3. CASE replied' = [replied EXCEPT ![q] = {Refused}] /\ done' = done \cup {q} /\ UNCHANGED workVars
    <3>1. replied' \in [RestRequests -> SUBSET Answers]
      BY <2>3, AnswerTypes
    <3> QED BY <1>2, <1>6, <2>1, <2>3, <3>1 DEF PostRest
  <2> QED BY <1>6, <2>2, <2>3 DEF PostRest
<1>7. ASSUME NEW w \in Workers, HandlerStep(w) \/ Crash(w) PROVE TypeOK'
  <2>1. CASE Reject(w) \/ Accept(w) \/ FinishLoop(w)
    <3>1. work[w] \in Requests
      BY <1>0, <2>1 DEF Reject, Accept, FinishLoop
    <3> QED BY <1>2, <2>1, <3>1, AnswerTypes DEF Reject, Accept, FinishLoop
  <2>2. CASE SkipBroadcast(w)
    BY <1>2, <2>2, AnswerTypes DEF SkipBroadcast, Advance
  <2>3. CASE ScheduleDevice(w)
    <3>1. work[w] \in Requests /\ next[w] \in Indices(work[w])
          /\ made[work[w]][next[w]] + 1 \in 0..MaxReceives
          /\ granted[work[w]][next[w]] + 1 \in 0..MaxReceives
      BY <1>0, <2>3 DEF ScheduleDevice
    <3>2. \A q \in Requests : made[q] \in Counts(q) /\ granted[q] \in Counts(q)
      OBVIOUS
    <3>3. made' = made \/ Store(w)
      BY <2>3 DEF ScheduleDevice
    <3>4. /\ made' = [q \in Requests |-> made'[q]]
          /\ \A q \in Requests : made'[q] \in Counts(q)
      <4>1. CASE made' = made
        BY <3>2, <4>1
      <4>2. CASE Store(w)
        <5> DEFINE new(q) == IF q = work[w] THEN [made[q] EXCEPT ![next[w]] = made[q][next[w]] + 1]
                             ELSE made[q]
        <5>1. made' = [q \in Requests |-> new(q)]
          BY <4>2 DEF Store
        <5>2. \A q \in Requests : new(q) \in Counts(q)
          BY <3>1, <3>2 DEF Counts
        <5> QED BY <5>1, <5>2
      <4> QED BY <3>3, <4>1, <4>2
    <3>5. granted' = granted \/ granted' = [granted EXCEPT ![work[w]][next[w]] = @ + 1]
      BY <2>3 DEF ScheduleDevice
    <3>6. /\ granted' = [q \in Requests |-> granted'[q]]
          /\ \A q \in Requests : granted'[q] \in Counts(q)
      <4>1. CASE granted' = granted
        BY <3>2, <4>1
      <4>2. CASE granted' = [granted EXCEPT ![work[w]][next[w]] = @ + 1]
        <5> DEFINE new(q) == IF q = work[w] THEN [granted[q] EXCEPT ![next[w]] = granted[q][next[w]] + 1]
                             ELSE granted[q]
        <5>1. granted' = [q \in Requests |-> new(q)]
          BY <4>2
        <5>2. \A q \in Requests : new(q) \in Counts(q)
          BY <3>1, <3>2 DEF Counts
        <5> QED BY <5>1, <5>2
      <4> QED BY <3>5, <4>1, <4>2
    <3>7. next' \in [Workers -> Nat \ {0}] /\ answer' \in [Workers -> Answers]
      <4>1. Failed(answer[w]) \in Answers /\ Listing(w, answer[w]) \in Answers
        BY AnswerTypes
      <4>2. Advance(w, Failed(answer[w])) \/ Advance(w, Listing(w, answer[w]))
        BY <2>3 DEF ScheduleDevice
      <4> QED BY <4>1, <4>2 DEF Advance
    <3> QED BY <1>2, <2>3, <3>4, <3>6, <3>7 DEF ScheduleDevice
  <2>4. CASE DeleteInput(w)
    <3>1. msg' \in [QueueRequests -> MessageStates] /\ receives' = receives
      BY <2>4 DEF DeleteInput, Delete, MessageStates
    <3> QED BY <1>2, <1>4, <2>4, <3>1 DEF DeleteInput
  <2>5. CASE Respond(w)
    <3>1. replied' \in [RestRequests -> SUBSET Answers]
      <4>1. {answer[w]} \in SUBSET Answers /\ replied' = [replied EXCEPT ![work[w]] = {answer[w]}]
        BY <2>5 DEF Respond
      <4> QED BY <4>1
    <3> QED BY <1>2, <1>4, <2>5, <3>1 DEF Respond
  <2>6. CASE Crash(w)
    BY <1>2, <1>4, <2>6 DEF Crash
  <2> QED BY <1>7, <2>1, <2>2, <2>3, <2>4, <2>5, <2>6 DEF HandlerStep
<1>8. CASE UNCHANGED vars
  BY <1>2, <1>8 DEF vars
<1> QED BY <1>3, <1>5, <1>6, <1>7, <1>8 DEF Next
-----------------------------------------------------------------------------
(* Who works at what.                                                      *)

\* The requests that workers other than w have in hand stay as they are.
Others(w) == \A v \in Workers \ {w} : /\ pc'[v] = pc[v] /\ work'[v] = work[v]
                                     /\ next'[v] = next[v] /\ answer'[v] = answer[v]

LEMMA OthersStay ==
  ASSUME TypeOK, NEW w \in Workers,
         \/ HandlerStep(w) \/ Crash(w)
         \/ \E q \in QueueRequests : ReceiveInput(w, q)
         \/ \E q \in RestRequests : PostRest(w, q)
  PROVE  Others(w)
BY DEF TypeOK, Others, HandlerStep, Crash, ReceiveInput, PostRest, TakeUp, LetGo, Reject, Accept,
   SkipBroadcast, ScheduleDevice, Advance, FinishLoop, DeleteInput, Respond, workVars

\* Each worker goes through a request in order, and has handled it at the end.
InOrder(w) ==
    /\ pc[w] = "idle" <=> work[w] = NoRequest
    /\ work[w] \in QueueRequests => w \in Watchers
    /\ work[w] \in RestRequests => w \in RestHandlers /\ work[w] \in posted
    /\ pc[w] = "validate" => next[w] = 1 /\ answer[w] = EmptyAnswer
    /\ pc[w] = "loop" => ~Rejected(work[w]) /\ next[w] <= Len(DevicesOf(work[w])) + 1
    /\ pc[w] = "finish" => work[w] \in done

LEMMA WorkStep == TypeOK /\ WorkInOrder /\ [Next]_vars => WorkInOrder'
<1> SUFFICES ASSUME TypeOK, WorkInOrder, [Next]_vars PROVE WorkInOrder'
  OBVIOUS
<1>1. form' = form /\ posted \subseteq posted' /\ done \subseteq done'
  BY FormsStay DEF Next, PostEvent, QueueStep, ReceiveInput, PostRest, HandlerStep, Reject, Accept,
     SkipBroadcast, ScheduleDevice, FinishLoop, DeleteInput, Respond, Crash, vars
<1>2. \A q \in Requests : Rejected(q)' = Rejected(q) /\ DevicesOf(q)' = DevicesOf(q)
  BY <1>1 DEF Rejected, DevicesOf, BroadcastMixed, TenantMissing
<1>3. \A w \in Workers : InOrder(w) /\ (pc[w] # "idle" => work[w] \in Requests)
  BY WorkType DEF WorkInOrder, InOrder
<1>4. ASSUME NEW w \in Workers, pc'[w] = pc[w], work'[w] = work[w], next'[w] = next[w],
             answer'[w] = answer[w]
      PROVE  InOrder(w)'
  BY <1>1, <1>2, <1>3, <1>4 DEF InOrder
<1>5. (\A w \in Workers : InOrder(w)') => WorkInOrder'
  BY DEF WorkInOrder, InOrder
<1>6. ASSUME UNCHANGED workVars PROVE WorkInOrder'
  BY <1>4, <1>5, <1>6 DEF workVars
<1>7. ASSUME NEW w \in Workers, LetGo(w) PROVE InOrder(w)'
  <2>1. pc'[w] = "idle" /\ work'[w] = NoRequest
    BY <1>7 DEF LetGo, TypeOK
  <2> QED BY <2>1, RequestAssumption DEF InOrder, Requests
<1>8. ASSUME NEW w \in Workers, NEW q \in Requests, TakeUp(w, q),
             q \in QueueRequests => w \in Watchers,
             q \in RestRequests => w \in RestHandlers /\ q \in posted'
      PROVE  InOrder(w)'
  <2>1. pc'[w] = "validate" /\ work'[w] = q /\ next'[w] = 1 /\ answer'[w] = EmptyAnswer
    BY <1>8 DEF TakeUp, TypeOK
  <2>2. q # NoRequest
    BY RequestAssumption
  <2> QED BY <1>8, <2>1, <2>2 DEF InOrder
<1>9. ASSUME NEW q \in QueueRequests, NEW w \in Watchers, ReceiveInput(w, q) PROVE WorkInOrder'
  <2>1. w \in Workers /\ q \in Requests /\ Others(w) /\ q \notin RestRequests
    BY <1>9, OthersStay, RequestAssumption DEF Workers, Requests
  <2>2. InOrder(w)'
    <3>1. CASE TakeUp(w, q)
      BY <1>8, <2>1, <3>1
    <3>2. CASE pc' = [pc EXCEPT ![w] = "finish"] /\ work' = [work EXCEPT ![w] = q] /\ done' = done \cup {q}
      <4>1. pc'[w] = "finish" /\ work'[w] = q /\ q \in done' /\ q # NoRequest
        BY <2>1, <3>2, RequestAssumption DEF TypeOK
      <4> QED BY <2>1, <4>1 DEF InOrder
    <3>3. CASE UNCHANGED workVars
      BY <1>4, <2>1, <3>3 DEF workVars
    <3> QED BY <1>9, <3>1, <3>2, <3>3 DEF ReceiveInput
  <2> QED BY <1>4, <1>5, <2>1, <2>2 DEF Others
<1>10. ASSUME NEW q \in RestRequests, NEW w \in RestHandlers, PostRest(w, q) PROVE WorkInOrder'
  <2>1. w \in Workers /\ q \in Requests /\ Others(w) /\ q \notin QueueRequests /\ q \in posted'
    BY <1>10, OthersStay, RequestAssumption DEF Workers, Requests, PostRest
  <2>2. InOrder(w)'
    <3>1. CASE TakeUp(w, q)
      BY <1>8, <2>1, <3>1
    <3>2. CASE UNCHANGED workVars
      BY <1>4, <2>1, <3>2 DEF workVars
    <3> QED BY <1>10, <3>1, <3>2 DEF PostRest
  <2> QED BY <1>4, <1>5, <2>1, <2>2 DEF Others
<1>11. ASSUME NEW w \in Workers, HandlerStep(w) \/ Crash(w) PROVE WorkInOrder'
  <2>1. Others(w)
    BY <1>11, OthersStay
  <2>2. InOrder(w)'
    <3>1. CASE Reject(w) \/ FinishLoop(w)
      <4>1. pc[w] # "idle" /\ pc'[w] = "finish" /\ work'[w] = work[w] /\ work[w] \in done'
        BY <3>1 DEF Reject, FinishLoop, TypeOK
      <4> QED BY <1>1, <1>3, <4>1 DEF InOrder
    <3>2. CASE Accept(w)
      <4>1. /\ pc[w] = "validate" /\ pc'[w] = "loop" /\ work'[w] = work[w] /\ next'[w] = next[w]
            /\ ~Rejected(work[w])
        BY <3>2 DEF Accept, TypeOK
      <4>2. work[w] \in Requests /\ next[w] = 1 /\ 1 <= Len(DevicesOf(work[w])) + 1
        BY <1>3, <4>1, IndexType DEF InOrder
      <4> QED BY <1>1, <1>2, <1>3, <4>1, <4>2 DEF InOrder
    <3>3. CASE SkipBroadcast(w) \/ ScheduleDevice(w)
      <4>1. /\ pc[w] = "loop" /\ pc'[w] = pc[w] /\ work'[w] = work[w] /\ next'[w] = next[w] + 1
            /\ next[w] <= Len(DevicesOf(work[w]))
        BY <3>3 DEF SkipBroadcast, ScheduleDevice, Advance, AtDevice, TypeOK
      <4>2. work[w] \in Requests /\ next'[w] <= Len(DevicesOf(work[w])) + 1
        BY <1>3, <4>1, IndexType DEF TypeOK
      <4> QED BY <1>1, <1>2, <1>3, <4>1, <4>2 DEF InOrder
    <3>4. CASE LetGo(w)
      BY <1>7, <3>4
    <3> QED BY <1>11, <3>1, <3>2, <3>3, <3>4 DEF HandlerStep, DeleteInput, Respond, Crash
  <2> QED BY <1>4, <1>5, <2>1, <2>2 DEF Others
<1>12. CASE (\E q \in QueueRequests : PostEvent(q) \/ QueueStep(q)) \/ UNCHANGED vars
  BY <1>6, <1>12 DEF PostEvent, QueueStep, vars, workVars
<1> QED BY <1>9, <1>10, <1>11, <1>12 DEF Next

-----------------------------------------------------------------------------
(* The queue.                                                              *)

\* Only a watcher at its end deletes a message, and at its end it has handled it.
LEMMA DeletedStep == TypeOK /\ WorkInOrder /\ DeletedIsDone /\ [Next]_vars => DeletedIsDone'
<1> SUFFICES ASSUME TypeOK, WorkInOrder, DeletedIsDone, [Next]_vars,
                    NEW q \in QueueRequests, msg'[q] = "deleted"
             PROVE  q \in done'
  BY DEF DeletedIsDone
<1>1. done \subseteq done'
  BY DEF Next, PostEvent, QueueStep, ReceiveInput, PostRest, HandlerStep, Reject, Accept,
     SkipBroadcast, ScheduleDevice, FinishLoop, DeleteInput, Respond, Crash, vars
<1>2. CASE msg[q] = "deleted"
  BY <1>1, <1>2 DEF DeletedIsDone
<1>3. CASE msg[q] # "deleted"
  <2>1. ASSUME NEW p \in QueueRequests, PostEvent(p) \/ QueueStep(p) PROVE FALSE
    BY <1>3, <2>1 DEF PostEvent, QueueStep, Send, VisibilityTimeout, Redrive, TypeOK, QueueTypeOK
  <2>2. ASSUME NEW p \in QueueRequests, NEW w \in Watchers, ReceiveInput(w, p) PROVE FALSE
    BY <1>3, <2>2 DEF ReceiveInput, Receive, TypeOK, QueueTypeOK
  <2>3. ASSUME NEW w \in Workers, DeleteInput(w) PROVE q \in done'
    <3>1. work[w] = q
      BY <1>3, <2>3 DEF DeleteInput, Delete, queueVars, TypeOK, QueueTypeOK
    <3> QED BY <1>1, <2>3, <3>1 DEF DeleteInput, WorkInOrder
  <2>4. ASSUME msg' = msg PROVE FALSE
    BY <1>3, <2>4
  <2> QED BY <2>1, <2>2, <2>3, <2>4 DEF Next, PostRest, HandlerStep, Reject, Accept,
     SkipBroadcast, ScheduleDevice, FinishLoop, Respond, Crash, vars, queueVars
<1> QED BY <1>2, <1>3

\* A task for @all is made only at the first device of a request that was accepted.
LEMMA BroadcastStep ==
  TypeOK /\ WorkInOrder /\ CopiesAndReady /\ BroadcastStandsAlone /\ [Next]_vars => BroadcastStandsAlone'
<1> SUFFICES ASSUME TypeOK, WorkInOrder, CopiesAndReady, BroadcastStandsAlone, [Next]_vars
             PROVE  BroadcastStandsAlone'
  OBVIOUS
<1>1. \A q \in Requests : DevicesOf(q)' = DevicesOf(q) /\ Indices(q)' = Indices(q)
  BY FormsStay DEF DevicesOf, Indices
<1>2. ASSUME made' = made PROVE BroadcastStandsAlone'
  BY <1>1, <1>2 DEF BroadcastStandsAlone
<1>3. ASSUME NEW w \in Workers, ScheduleDevice(w) PROVE BroadcastStandsAlone'
  <2>1. CASE made' = made
    BY <1>2, <2>1
  <2>2. CASE Store(w)
    <3>1. work[w] \in Requests /\ next[w] \in Indices(work[w]) /\ next[w] \in Nat
      BY <1>3, AtDeviceType, IndexType DEF ScheduleDevice
    <3>2. \A q \in Requests : \A i \in Indices(q) :
            made'[q][i] # made[q][i] => q = work[w] /\ i = next[w]
      BY <2>2 DEF Store, TypeOK, Counts
    <3>3. DevicesOf(work[w])[next[w]] = Broadcast => Len(DevicesOf(work[w])) = 1
      <4>1. ~Rejected(work[w]) /\ ~Misplaced(w)
        BY <1>3 DEF ScheduleDevice, AtDevice, WorkInOrder
      <4> QED BY <4>1 DEF Rejected, BroadcastMixed, Misplaced
    <3> QED BY <1>1, <3>2, <3>3 DEF BroadcastStandsAlone
  <2> QED BY <1>3, <2>1, <2>2 DEF ScheduleDevice
<1> QED BY <1>2, <1>3 DEF Next, PostEvent, QueueStep, ReceiveInput, PostRest, HandlerStep, Reject,
   Accept, SkipBroadcast, FinishLoop, DeleteInput, Respond, Crash, vars
-----------------------------------------------------------------------------
(* Copies.                                                                 *)

\* Cardinalities of a finite set and of one that has at most one element more, or
\* at least one less.
LEMMA OneMoreOrLess ==
  ASSUME NEW S, IsFiniteSet(S), NEW T, NEW w
  PROVE  /\ Cardinality(S) \in Nat
         /\ T \subseteq S => Cardinality(T) \in Nat /\ Cardinality(T) <= Cardinality(S)
         /\ T \subseteq S \cup {w} => Cardinality(T) \in Nat /\ Cardinality(T) <= Cardinality(S) + 1
         /\ w \in S /\ T \subseteq S \ {w} => Cardinality(T) \in Nat /\ Cardinality(T) + 1 <= Cardinality(S)
<1>1. Cardinality(S) \in Nat
  BY FS_CardinalityType
<1>2. T \subseteq S => Cardinality(T) \in Nat /\ Cardinality(T) <= Cardinality(S)
  BY FS_Subset, FS_CardinalityType
<1>3. ASSUME T \subseteq S \cup {w}
      PROVE  Cardinality(T) \in Nat /\ Cardinality(T) <= Cardinality(S) + 1
  <2>1. /\ IsFiniteSet(S \cup {w})
        /\ Cardinality(S \cup {w}) = IF w \in S THEN Cardinality(S) ELSE Cardinality(S) + 1
    BY FS_AddElement
  <2>2. /\ IsFiniteSet(T) /\ Cardinality(T) <= Cardinality(S \cup {w})
    BY <1>3, <2>1, FS_Subset
  <2>3. Cardinality(T) \in Nat
    BY <2>2, FS_CardinalityType
  <2> QED BY <1>1, <2>1, <2>2, <2>3
<1>4. ASSUME w \in S, T \subseteq S \ {w}
      PROVE  Cardinality(T) \in Nat /\ Cardinality(T) + 1 <= Cardinality(S)
  <2>1. IsFiniteSet(S \ {w}) /\ Cardinality(S \ {w}) = Cardinality(S) - 1
    BY <1>4, FS_RemoveElement
  <2>2. IsFiniteSet(T) /\ Cardinality(T) <= Cardinality(S \ {w})
    BY <1>4, <2>1, FS_Subset
  <2>3. Cardinality(T) \in Nat
    BY <2>2, FS_CardinalityType
  <2> QED BY <1>1, <2>1, <2>2, <2>3
<1> QED BY <1>1, <1>2, <1>3, <1>4

\* A delivery brings in a worker who may make one more task for each device; when a
\* worker passes a device, it may not any more.
LEMMA CopiesStep == TypeOK /\ WorkInOrder /\ CopiesAndReady /\ [Next]_vars => CopiesAndReady'
<1> SUFFICES ASSUME TypeOK, WorkInOrder, CopiesAndReady, [Next]_vars PROVE CopiesAndReady'
  OBVIOUS
<1>0. \A q \in Requests : Indices(q)' = Indices(q)
  BY FormsStay DEF Indices, DevicesOf
<1> SUFFICES ASSUME NEW q \in Requests, NEW i \in Indices(q)
             PROVE  /\ granted'[q][i] <= made'[q][i]
                    /\ made'[q][i] + Cardinality(Ready(q, i)') <= Deliveries(q)'
  BY <1>0 DEF CopiesAndReady
<1> DEFINE R == Ready(q, i)
           S == Ready(q, i)'
           Goal == granted'[q][i] <= made'[q][i] /\ made'[q][i] + Cardinality(S) <= Deliveries(q)'
<1>1. IsFiniteSet(R) /\ Cardinality(R) \in Nat /\ i \in Nat
  BY FS_Subset, FS_CardinalityType, RequestAssumption, IndexType DEF Ready
<1>2. /\ made[q][i] \in Nat /\ granted[q][i] \in Nat /\ Deliveries(q) \in Nat
      /\ granted[q][i] <= made[q][i] /\ made[q][i] + Cardinality(R) <= Deliveries(q)
  <2>1. made[q][i] \in Nat /\ granted[q][i] \in Nat
    BY RequestAssumption DEF TypeOK, Counts
  <2>2. Deliveries(q) \in Nat
    BY DEF TypeOK, QueueTypeOK, Deliveries, Requests
  <2> QED BY <2>1, <2>2 DEF CopiesAndReady
<1>3. ASSUME UNCHANGED <<made, granted>>, S \subseteq R, Deliveries(q)' = Deliveries(q)
      PROVE  Goal
  <2>1. Cardinality(S) \in Nat /\ Cardinality(S) <= Cardinality(R)
    BY <1>1, <1>3, OneMoreOrLess
  <2> HIDE DEF R, S
  <2> QED BY <1>1, <1>2, <1>3, <2>1
<1>4. ASSUME UNCHANGED <<made, granted>>, NEW w, S \subseteq R \cup {w},
             Deliveries(q)' = Deliveries(q) + 1
      PROVE  Goal
  <2>1. Cardinality(S) \in Nat /\ Cardinality(S) <= Cardinality(R) + 1
    BY <1>1, <1>4, OneMoreOrLess
  <2> HIDE DEF R, S
  <2> QED BY <1>1, <1>2, <1>4, <2>1
<1>5. ASSUME NEW p \in QueueRequests, PostEvent(p) \/ QueueStep(p) PROVE Goal
  <2>1. S = R /\ Deliveries(q)' = Deliveries(q) /\ UNCHANGED <<made, granted>>
    BY <1>5 DEF PostEvent, QueueStep, Send, VisibilityTimeout, Redrive, Deliveries, Ready, workVars
  <2> QED BY <1>3, <2>1
<1>6. ASSUME NEW p \in QueueRequests, NEW w \in Watchers, ReceiveInput(w, p) PROVE Goal
  <2>1. w \in Workers /\ Others(w)
    BY <1>6, OthersStay DEF Workers
  <2>2. UNCHANGED <<made, granted, posted>> /\ receives' = [receives EXCEPT ![p] = @ + 1]
    BY <1>6 DEF ReceiveInput, Receive
  <2>3. (work'[w] = work[w] /\ next'[w] = next[w]) \/ work'[w] = p
    BY <1>6, <2>1 DEF ReceiveInput, TakeUp, workVars, TypeOK
  <2>4. CASE p = q
    <3>1. Deliveries(q)' = Deliveries(q) + 1
      BY <2>2, <2>4 DEF Deliveries, TypeOK, QueueTypeOK
    <3>2. S \subseteq R \cup {w}
      BY <2>1 DEF Ready, Others
    <3> QED BY <1>4, <2>2, <3>1, <3>2
  <2>5. CASE p # q
    <3>1. Deliveries(q)' = Deliveries(q)
      BY <2>2, <2>5 DEF Deliveries, TypeOK, QueueTypeOK
    <3>2. S \subseteq R
      BY <2>1, <2>3, <2>5 DEF Ready, Others
    <3> QED BY <1>3, <2>2, <3>1, <3>2
  <2> QED BY <2>4, <2>5
<1>7. ASSUME NEW p \in RestRequests, NEW w \in RestHandlers, PostRest(w, p) PROVE Goal
  <2>1. w \in Workers /\ Others(w)
    BY <1>7, OthersStay DEF Workers
  <2>2. UNCHANGED <<made, granted, receives>> /\ p \notin posted /\ posted' = posted \cup {p}
    BY <1>7 DEF PostRest, queueVars
  <2>3. (work'[w] = work[w] /\ next'[w] = next[w]) \/ work'[w] = p
    BY <1>7, <2>1 DEF PostRest, TakeUp, workVars, TypeOK
  <2>4. CASE p = q
    <3>1. Deliveries(q)' = Deliveries(q) + 1
      BY <2>2, <2>4, RequestAssumption DEF Deliveries
    <3>2. S \subseteq R \cup {w}
      BY <2>1 DEF Ready, Others
    <3> QED BY <1>4, <2>2, <3>1, <3>2
  <2>5. CASE p # q
    <3>1. Deliveries(q)' = Deliveries(q)
      BY <2>2, <2>5 DEF Deliveries
    <3>2. S \subseteq R
      BY <2>1, <2>3, <2>5 DEF Ready, Others
    <3> QED BY <1>3, <2>2, <3>1, <3>2
  <2> QED BY <2>4, <2>5
<1>8. ASSUME NEW w \in Workers, HandlerStep(w) \/ Crash(w) PROVE Goal
  <2>1. Others(w)
    BY <1>8, OthersStay
  <2>2. Deliveries(q)' = Deliveries(q)
    BY <1>8 DEF HandlerStep, Crash, Reject, Accept, SkipBroadcast, ScheduleDevice, FinishLoop,
       DeleteInput, Delete, Respond, queueVars, Deliveries
  <2>3. CASE Reject(w) \/ Accept(w) \/ FinishLoop(w)
    <3>1. S = R /\ UNCHANGED <<made, granted>>
      BY <2>3 DEF Reject, Accept, FinishLoop, Ready
    <3> QED BY <1>3, <2>2, <3>1
  <2>4. CASE SkipBroadcast(w)
    <3>1. UNCHANGED <<made, granted>> /\ work' = work /\ next'[w] = next[w] + 1
      BY <2>4 DEF SkipBroadcast, Advance, TypeOK
    <3>2. next[w] \in Nat
      BY DEF TypeOK
    <3>3. S \subseteq R
      BY <1>1, <2>1, <3>1, <3>2 DEF Ready, Others
    <3> QED BY <1>3, <2>2, <3>1, <3>3
  <2>5. CASE ScheduleDevice(w)
    <3>1. work' = work /\ next'[w] = next[w] + 1 /\ next[w] \in Nat
      BY <2>5 DEF ScheduleDevice, Advance, TypeOK
    <3>2. work[w] \in Requests /\ next[w] \in Indices(work[w])
      BY <2>5, AtDeviceType DEF ScheduleDevice
    <3>3. CASE q = work[w] /\ i = next[w]
      <4>1. w \in R /\ S \subseteq R \ {w}
        BY <1>1, <2>1, <3>1, <3>3 DEF Ready, Others
      <4>2. Cardinality(S) \in Nat /\ Cardinality(S) + 1 <= Cardinality(R)
        BY <1>1, <4>1, OneMoreOrLess
      <4>3. \/ made'[q][i] = made[q][i] + 1 /\ granted'[q][i] \in {granted[q][i], granted[q][i] + 1}
            \/ made'[q][i] = made[q][i] /\ granted'[q][i] = granted[q][i]
        BY <2>5, <3>3 DEF ScheduleDevice, Store, TypeOK, Counts
      <4> HIDE DEF R, S
      <4> QED BY <1>1, <1>2, <2>2, <4>2, <4>3
    <3>4. CASE ~(q = work[w] /\ i = next[w])
      <4>1. made'[q][i] = made[q][i] /\ granted'[q][i] = granted[q][i]
        BY <2>5, <3>2, <3>4 DEF ScheduleDevice, Store, TypeOK, Counts
      <4>2. S \subseteq R
        BY <1>1, <2>1, <3>1 DEF Ready, Others
      <4>3. Cardinality(S) \in Nat /\ Cardinality(S) <= Cardinality(R)
        BY <1>1, <4>2, OneMoreOrLess
      <4> HIDE DEF R, S
      <4> QED BY <1>1, <1>2, <2>2, <4>1, <4>3
    <3> QED BY <3>3, <3>4
  <2>6. CASE LetGo(w)
    <3>1. UNCHANGED <<made, granted>>
      BY <1>8, <2>6 DEF HandlerStep, Crash, Reject, Accept, SkipBroadcast, ScheduleDevice, Advance,
         FinishLoop, DeleteInput, Respond, LetGo, TypeOK
    <3>2. work'[w] = NoRequest
      BY <2>6 DEF LetGo, TypeOK
    <3>3. S \subseteq R
      BY <2>1, <3>2, RequestAssumption DEF Ready, Others
    <3> QED BY <1>3, <2>2, <3>1, <3>3
  <2> QED BY <1>8, <2>3, <2>4, <2>5, <2>6 DEF HandlerStep, Crash, DeleteInput, Respond
<1>9. CASE UNCHANGED vars
  <2>1. S = R /\ Deliveries(q)' = Deliveries(q) /\ UNCHANGED <<made, granted>>
    BY <1>9 DEF vars, workVars, queueVars, Deliveries, Ready
  <2> QED BY <1>3, <2>1
<1> QED BY <1>5, <1>6, <1>7, <1>8, <1>9 DEF Next
-----------------------------------------------------------------------------
(* Answers.                                                                *)

\* A REST request is taken up once, by one handler, and answered by it.
LEMMA AloneStep == TypeOK /\ WorkInOrder /\ HandledAlone /\ [Next]_vars => HandledAlone'
<1> SUFFICES ASSUME TypeOK, WorkInOrder, HandledAlone, [Next]_vars PROVE HandledAlone'
  OBVIOUS
<1>1. ASSUME UNCHANGED <<work, replied>>, posted \subseteq posted' PROVE HandledAlone'
  BY <1>1 DEF HandledAlone
<1>2. ASSUME NEW q \in QueueRequests, NEW w \in Watchers, ReceiveInput(w, q) PROVE HandledAlone'
  <2>1. w \in Workers /\ Others(w) /\ q \notin RestRequests
    BY <1>2, OthersStay, RequestAssumption DEF Workers
  <2>2. work'[w] = work[w] \/ work'[w] = q
    BY <1>2, <2>1 DEF ReceiveInput, TakeUp, workVars, TypeOK
  <2>3. UNCHANGED <<replied, posted>>
    BY <1>2 DEF ReceiveInput
  <2> QED BY <2>1, <2>2, <2>3 DEF HandledAlone, Others
<1>3. ASSUME NEW q \in RestRequests, NEW w \in RestHandlers, PostRest(w, q) PROVE HandledAlone'
  <2>1. w \in Workers /\ Others(w) /\ q \in Requests
    BY <1>3, OthersStay DEF Workers, Requests
  <2>2. q \notin posted /\ posted' = posted \cup {q} /\ \A v \in Workers : work[v] # q
    BY <1>3 DEF PostRest, WorkInOrder
  <2>3. CASE TakeUp(w, q) /\ UNCHANGED replied
    <3>1. work'[w] = q
      BY <2>1, <2>3 DEF TakeUp, TypeOK
    <3>2. replied[q] = {}
      BY <2>2 DEF HandledAlone
    <3> QED BY <2>1, <2>2, <2>3, <3>1, <3>2 DEF HandledAlone, Others
  <2>4. CASE replied' = [replied EXCEPT ![q] = {Refused}] /\ UNCHANGED workVars
    <3>1. \A p \in RestRequests \ {q} : replied'[p] = replied[p]
      BY <2>4 DEF TypeOK
    <3> QED BY <2>2, <2>4, <3>1 DEF HandledAlone, workVars
  <2> QED BY <1>3, <2>3, <2>4 DEF PostRest
<1> DEFINE Answering(w) == /\ pc[w] = "finish" /\ w \in RestHandlers
                           /\ replied' = [replied EXCEPT ![work[w]] = {answer[w]}]
<1>4. ASSUME NEW w \in Workers, LetGo(w), UNCHANGED posted, UNCHANGED replied \/ Answering(w)
      PROVE  HandledAlone'
  <2>1. work'[w] = NoRequest /\ \A v \in Workers \ {w} : work'[v] = work[v]
    BY <1>4 DEF LetGo, TypeOK
  <2>2. NoRequest \notin RestRequests
    BY RequestAssumption DEF Requests
  <2>3. \A p \in RestRequests : replied'[p] = replied[p] \/ p = work[w]
    BY <1>4 DEF TypeOK
  <2> QED BY <2>1, <2>2, <2>3, <1>4 DEF HandledAlone, WorkInOrder
<1>5. ASSUME NEW w \in Workers, HandlerStep(w) \/ Crash(w) PROVE HandledAlone'
  <2>1. CASE LetGo(w)
    <3>1. UNCHANGED posted /\ (UNCHANGED replied \/ Answering(w))
      BY <1>5 DEF HandlerStep, Crash, Reject, Accept, SkipBroadcast, ScheduleDevice,
         FinishLoop, DeleteInput, Respond
    <3> HIDE DEF Answering
    <3> QED BY <1>4, <2>1, <3>1
  <2>2. CASE ~LetGo(w)
    BY <1>1, <1>5, <2>2 DEF HandlerStep, Crash, Reject, Accept, SkipBroadcast, ScheduleDevice, Advance,
       FinishLoop, DeleteInput, Respond
  <2> QED BY <2>1, <2>2
<1>6. CASE (\E q \in QueueRequests : PostEvent(q) \/ QueueStep(q)) \/ UNCHANGED vars
  BY <1>1, <1>6 DEF PostEvent, QueueStep, vars, workVars
<1> QED BY <1>2, <1>3, <1>5, <1>6 DEF Next

\* The answer of a handler grows with the devices it has passed: it counts and lists
\* exactly those whose task was granted, since no other worker has the request.
AnswerInOrder(w) ==
    /\ pc[w] \in {"validate", "loop"} =>
          /\ Accounts(answer[w], work[w], next[w] - 1)
          /\ \A i \in Indices(work[w]) : i >= next[w] => granted[work[w]][i] = 0
    /\ pc[w] = "finish" => \/ answer[w] = Refused
                           \/ Accounts(answer[w], work[w], Len(DevicesOf(work[w])))

\* Nothing was granted of a REST request that is not posted, or just taken up.
LEMMA EmptyAccount ==
  ASSUME NEW q \in RestRequests, \A i \in Indices(q) : granted[q][i] = 0
  PROVE  Accounts(EmptyAnswer, q, 0)
<1>1. {i \in Indices(q) : i <= 0 /\ granted[q][i] = 1} = {}
  OBVIOUS
<1>2. EmptyAnswer.tasks = 0 /\ EmptyAnswer.errors = 0 /\ EmptyAnswer.listed = {}
  BY DEF EmptyAnswer
<1> QED BY <1>1, <1>2, FS_EmptySet DEF Accounts

\* One more device is accounted for, as an error or as a task.
LEMMA FailedAccount ==
  ASSUME NEW q \in Requests, NEW n \in Nat, NEW a \in Answers, Accounts(a, q, n),
         \A i \in Indices(q) : i \in Nat /\ (i > n => granted[q][i] = 0)
  PROVE  Accounts(Failed(a), q, n + 1)
<1>1. /\ Failed(a).tasks = a.tasks /\ Failed(a).errors = a.errors + 1
      /\ Failed(a).listed = a.listed /\ a.tasks \in Nat /\ a.errors \in Nat
  BY DEF Failed, Answers
<1>2. {i \in Indices(q) : i <= n + 1 /\ granted[q][i] = 1} = {i \in Indices(q) : i <= n /\ granted[q][i] = 1}
  OBVIOUS
<1> QED BY <1>1, <1>2 DEF Accounts

LEMMA ListedAccount ==
  ASSUME TypeOK, NEW w \in RestHandlers, NEW q \in Requests, NEW a \in Answers,
         next[w] \in Indices(q), Accounts(a, q, next[w] - 1),
         \A i \in Indices(q) : i >= next[w] => granted[q][i] = 0,
         NEW g, \A i \in Indices(q) : g[i] = IF i = next[w] THEN 1 ELSE granted[q][i]
  PROVE  /\ Listing(w, a).listed = {i \in Indices(q) : i <= next[w] /\ g[i] = 1}
         /\ Listing(w, a).tasks = Cardinality(Listing(w, a).listed)
         /\ Listing(w, a).tasks + Listing(w, a).errors = next[w]
<1>1. \A i \in Indices(q) : i \in Nat
  BY IndexType
<1>2. /\ Listing(w, a).tasks = a.tasks + 1 /\ Listing(w, a).errors = a.errors
      /\ Listing(w, a).listed = a.listed \cup {next[w]} /\ a.tasks \in Nat /\ a.errors \in Nat
  BY DEF Listing, Answers
<1>3. a.listed = {i \in Indices(q) : i <= next[w] - 1 /\ granted[q][i] = 1}
      /\ a.tasks = Cardinality(a.listed) /\ a.tasks + a.errors = next[w] - 1
  BY DEF Accounts
<1>4. a.listed \cup {next[w]} = {i \in Indices(q) : i <= next[w] /\ g[i] = 1}
  <2>1. ASSUME NEW i \in Indices(q)
        PROVE  i \in a.listed \cup {next[w]} <=> i <= next[w] /\ g[i] = 1
    BY <1>1, <1>3
  <2> QED BY <1>3, <2>1
<1>5. IsFiniteSet(a.listed) /\ next[w] \notin a.listed
  <2>1. a.listed \in SUBSET Nat /\ next[w] \in Nat
    BY <1>1, <1>3
  <2>2. \A i \in a.listed : i <= next[w]
    BY <1>1, <1>3
  <2>3. IsFiniteSet(a.listed)
    BY <2>1, <2>2, FS_BoundedSetOfNaturals
  <2>4. next[w] \notin a.listed
    BY <1>1, <1>3
  <2> QED BY <2>3, <2>4
<1>6. Cardinality(a.listed \cup {next[w]}) = a.tasks + 1
  <2>1. Cardinality(a.listed \cup {next[w]}) = Cardinality(a.listed) + 1
    BY <1>5, FS_AddElement
  <2>2. a.tasks = Cardinality(a.listed)
    BY <1>3
  <2> QED BY <2>1, <2>2
<1> QED BY <1>1, <1>2, <1>3, <1>4, <1>6

\* A device handler w fails to schedule is accounted for as an error.
LEMMA OneFailed ==
  ASSUME TypeOK, NEW w \in RestHandlers, w \in Workers, work[w] \in Requests, AnswerInOrder(w),
         pc[w] = "loop"
  PROVE  Accounts(Failed(answer[w]), work[w], next[w])
<1>1. /\ next[w] - 1 \in Nat /\ (next[w] - 1) + 1 = next[w] /\ answer[w] \in Answers
      /\ Accounts(answer[w], work[w], next[w] - 1)
      /\ \A i \in Indices(work[w]) : i >= next[w] => granted[work[w]][i] = 0
  BY DEF TypeOK, AnswerInOrder
<1>2. \A i \in Indices(work[w]) : i \in Nat /\ (i > next[w] - 1 => granted[work[w]][i] = 0)
  BY <1>1, IndexType
<1>3. Accounts(Failed(answer[w]), work[w], (next[w] - 1) + 1)
  BY <1>1, <1>2, FailedAccount
<1> QED BY <1>1, <1>3

LEMMA AnswersStep ==
  TypeOK /\ WorkInOrder /\ HandledAlone /\ CopiesAndReady /\ AnswersInOrder /\ AnswerAddsUp
    /\ [Next]_vars => AnswersInOrder' /\ AnswerAddsUp'
<1> SUFFICES ASSUME TypeOK, WorkInOrder, HandledAlone, CopiesAndReady, AnswersInOrder, AnswerAddsUp,
                    [Next]_vars
             PROVE  AnswersInOrder' /\ AnswerAddsUp'
  OBVIOUS
<1>1. form' = form /\ \A q \in Requests : DevicesOf(q)' = DevicesOf(q) /\ Indices(q)' = Indices(q)
  BY FormsStay DEF DevicesOf, Indices
<1>2. (\A w \in RestHandlers : AnswerInOrder(w)') => AnswersInOrder'
  BY DEF AnswersInOrder, AnswerInOrder
<1>3. \A w \in RestHandlers : AnswerInOrder(w)
  BY DEF AnswersInOrder, AnswerInOrder
<1>4. \A w \in RestHandlers : w \in Workers /\ (pc[w] # "idle" => work[w] \in RestRequests)
  BY WorkType, RequestAssumption DEF Workers, Requests, WorkInOrder
<1>5. ASSUME NEW w \in RestHandlers, pc'[w] = pc[w], work'[w] = work[w], next'[w] = next[w],
             answer'[w] = answer[w], pc[w] # "idle" => granted'[work[w]] = granted[work[w]]
      PROVE  AnswerInOrder(w)'
  BY <1>1, <1>3, <1>4, <1>5 DEF AnswerInOrder, Accounts, Requests
<1>6. ASSUME NEW w \in RestHandlers, pc'[w] = "idle" PROVE AnswerInOrder(w)'
  BY <1>6 DEF AnswerInOrder
<1>7. ASSUME \A q \in RestRequests : replied'[q] # {} =>
                 replied'[q] = replied[q] /\ granted'[q] = granted[q]
      PROVE  AnswerAddsUp'
  BY <1>1, <1>7 DEF AnswerAddsUp, Requests
<1>8. ASSUME UNCHANGED <<workVars, granted, replied>> PROVE AnswersInOrder' /\ AnswerAddsUp'
  BY <1>2, <1>5, <1>7, <1>8 DEF workVars
<1>9. ASSUME NEW q \in QueueRequests, NEW w \in Watchers, ReceiveInput(w, q)
      PROVE  AnswersInOrder' /\ AnswerAddsUp'
  <2>1. w \in Workers /\ Others(w) /\ w \notin RestHandlers /\ UNCHANGED <<granted, replied>>
    BY <1>9, OthersStay, RequestAssumption DEF Workers, ReceiveInput
  <2>2. \A v \in RestHandlers : AnswerInOrder(v)'
    BY <1>4, <1>5, <2>1 DEF Others
  <2> QED BY <1>2, <1>7, <2>1, <2>2
<1>10. ASSUME NEW q \in RestRequests, NEW w \in RestHandlers, PostRest(w, q)
       PROVE  AnswersInOrder' /\ AnswerAddsUp'
  <2>1. w \in Workers /\ Others(w) /\ UNCHANGED granted /\ q \in Requests
    BY <1>10, OthersStay DEF Workers, PostRest, Requests
  <2>2. CASE TakeUp(w, q) /\ UNCHANGED replied
    <3>1. pc'[w] = "validate" /\ work'[w] = q /\ next'[w] = 1 /\ answer'[w] = EmptyAnswer
      BY <2>1, <2>2 DEF TakeUp, TypeOK
    <3>2. \A i \in Indices(q) : granted[q][i] = 0
      <4> SUFFICES ASSUME NEW i \in Indices(q) PROVE granted[q][i] = 0
        OBVIOUS
      <4>1. Deliveries(q) = 0
        BY <1>10, RequestAssumption DEF PostRest, Deliveries
      <4>2. granted[q][i] \in Nat /\ made[q][i] \in Nat
        BY <2>1, RequestAssumption DEF TypeOK, Counts
      <4>3. IsFiniteSet(Ready(q, i))
        BY FS_Subset, RequestAssumption DEF Ready
      <4>4. Cardinality(Ready(q, i)) \in Nat
        BY <4>3, FS_CardinalityType
      <4> QED BY <2>1, <4>1, <4>2, <4>4 DEF CopiesAndReady
    <3>3. AnswerInOrder(w)'
      <4>1. Accounts(EmptyAnswer, q, 0)
        BY <3>2, EmptyAccount
      <4> QED BY <1>1, <2>1, <3>1, <3>2, <4>1 DEF AnswerInOrder, Accounts
    <3>4. \A v \in RestHandlers : AnswerInOrder(v)'
      BY <1>4, <1>5, <2>1, <3>3 DEF Others
    <3> QED BY <1>2, <1>7, <2>1, <2>2, <3>4
  <2>3. CASE replied' = [replied EXCEPT ![q] = {Refused}] /\ UNCHANGED workVars
    <3>1. AnswersInOrder'
      BY <1>2, <1>5, <2>1, <2>3 DEF workVars
    <3>2. AnswerAddsUp'
      BY <1>1, <2>1, <2>3 DEF AnswerAddsUp, TypeOK, Requests
    <3> QED BY <3>1, <3>2
  <2> QED BY <1>10, <2>2, <2>3 DEF PostRest
<1>11. ASSUME NEW w \in Workers, HandlerStep(w) \/ Crash(w) PROVE AnswersInOrder' /\ AnswerAddsUp'
  <2>1. Others(w)
    BY <1>11, OthersStay
  <2>2. granted' = granted \/ (AtDevice(w) /\ granted' = [granted EXCEPT ![work[w]][next[w]] = @ + 1])
    BY <1>11 DEF HandlerStep, Crash, Reject, Accept, SkipBroadcast, ScheduleDevice, FinishLoop,
       DeleteInput, Respond
  <2>3. \A q \in RestRequests : q # work[w] => granted'[q] = granted[q]
    BY <2>2 DEF TypeOK, Requests
  <2>4. ASSUME NEW v \in RestHandlers, v # w PROVE AnswerInOrder(v)'
    <3>1. v \in Workers /\ (pc[v] # "idle" => work[v] \in RestRequests /\ work[v] # work[w])
      BY <1>4, <2>4 DEF HandledAlone
    <3> QED BY <1>5, <2>1, <2>3, <2>4, <3>1 DEF Others
  <2>5. ASSUME UNCHANGED replied PROVE AnswerAddsUp'
    <3>1. \A q \in RestRequests : replied[q] # {} => granted'[q] = granted[q]
      BY <2>3 DEF HandledAlone
    <3> QED BY <1>7, <2>5, <3>1
  <2>6. CASE w \in Watchers
    <3>1. UNCHANGED replied /\ w \notin RestHandlers
      BY <1>11, <2>6, RequestAssumption DEF HandlerStep, Crash, Reject, Accept, SkipBroadcast,
         ScheduleDevice, FinishLoop, DeleteInput, Respond
    <3> QED BY <1>2, <2>4, <2>5, <3>1
  <2>7. CASE w \in RestHandlers
    <3>1. pc[w] # "idle" => work[w] \in RestRequests /\ work[w] \in Requests
      BY <1>4, <2>7 DEF Requests
    <3>2. CASE Reject(w)
      <4>1. pc'[w] = "finish" /\ answer'[w] = Refused /\ UNCHANGED replied
        BY <3>2 DEF Reject, TypeOK
      <4>2. AnswerInOrder(w)'
        BY <4>1 DEF AnswerInOrder, Refused
      <4> QED BY <1>2, <2>4, <2>5, <4>1, <4>2
    <3>3. CASE Accept(w)
      <4>1. /\ pc[w] = "validate" /\ pc'[w] = "loop" /\ work'[w] = work[w] /\ next'[w] = next[w]
            /\ answer'[w] = answer[w] /\ UNCHANGED <<replied, granted>>
        BY <3>3 DEF Accept, TypeOK
      <4>2. AnswerInOrder(w)'
        BY <1>1, <1>3, <2>7, <3>1, <4>1 DEF AnswerInOrder, Accounts
      <4> QED BY <1>2, <2>4, <2>5, <4>1, <4>2
    <3>9. ASSUME pc[w] = "loop", pc'[w] = "loop", work'[w] = work[w], next'[w] = next[w] + 1,
                 answer'[w] = Failed(answer[w]), UNCHANGED granted
          PROVE  AnswerInOrder(w)'
      <4>1. AnswerInOrder(w) /\ work[w] \in Requests /\ work'[w] \in Requests
        BY <1>3, <2>7, <3>1, <3>9
      <4>2. Accounts(Failed(answer[w]), work[w], next[w])
        BY <1>4, <2>7, <3>9, <4>1, OneFailed
      <4>3. next[w] \in Nat /\ next'[w] - 1 = next[w]
        BY <1>4, <2>7, <3>9 DEF TypeOK
      <4>4. \A i \in Indices(work[w]) : i >= next'[w] => granted'[work[w]][i] = 0
        BY <3>9, <4>1, <4>3, IndexType DEF AnswerInOrder
      <4> QED BY <1>1, <3>9, <4>1, <4>2, <4>3, <4>4 DEF AnswerInOrder, Accounts
    <3>4. CASE SkipBroadcast(w)
      <4>1. /\ pc[w] = "loop" /\ pc'[w] = "loop" /\ work'[w] = work[w] /\ next'[w] = next[w] + 1
            /\ answer'[w] = Failed(answer[w]) /\ UNCHANGED <<replied, granted>>
        BY <3>4 DEF SkipBroadcast, AtDevice, Advance, TypeOK
      <4>2. AnswerInOrder(w)'
        BY <3>9, <4>1
      <4> QED BY <1>2, <2>4, <2>5, <4>1, <4>2
    <3>5. CASE ScheduleDevice(w)
      <4>1. /\ pc[w] = "loop" /\ pc'[w] = "loop" /\ work'[w] = work[w] /\ next'[w] = next[w] + 1
            /\ UNCHANGED replied
        BY <3>5 DEF ScheduleDevice, AtDevice, Advance, TypeOK
      <4>2. AnswerInOrder(w) /\ work[w] \in Requests /\ work'[w] \in Requests
        BY <1>3, <2>7, <3>1, <4>1
      <4>3. ASSUME UNCHANGED granted, answer'[w] = Failed(answer[w]) PROVE AnswerInOrder(w)'
        BY <3>9, <4>1, <4>3
      <4>4. ASSUME granted' = [granted EXCEPT ![work[w]][next[w]] = @ + 1],
                   answer'[w] = Listing(w, answer[w])
            PROVE  AnswerInOrder(w)'
        <5>1. AtDevice(w) /\ next[w] \in Indices(work[w]) /\ answer[w] \in Answers
          BY <1>4, <2>7, <3>5, AtDeviceType DEF ScheduleDevice, TypeOK
        <5>2. next[w] \in Nat /\ next'[w] - 1 = next[w]
          BY <1>4, <2>7, <4>1 DEF TypeOK
        <5>3. \A i \in Indices(work[w]) : i \in Nat /\ (i >= next[w] => granted[work[w]][i] = 0)
          BY <4>1, <4>2, IndexType DEF AnswerInOrder
        <5>4. \A i \in Indices(work[w]) :
                 granted'[work[w]][i] = IF i = next[w] THEN 1 ELSE granted[work[w]][i]
          <6>1. granted \in [Requests -> {granted[p] : p \in Requests}]
                /\ granted[work[w]] \in [Indices(work[w]) -> 0..MaxReceives]
            BY <4>2 DEF TypeOK, Counts
          <6>2. granted'[work[w]] = [granted[work[w]] EXCEPT ![next[w]] = granted[work[w]][next[w]] + 1]
            BY <4>2, <4>4, <6>1
          <6>3. granted[work[w]][next[w]] = 0
            BY <5>1, <5>2, <5>3
          <6> QED BY <5>1, <6>1, <6>2, <6>3
        <5>5. Accounts(answer[w], work[w], next[w] - 1)
          BY <4>1, <4>2 DEF AnswerInOrder
        <5>6. /\ answer'[w].listed = {i \in Indices(work[w]) : i <= next[w] /\ granted'[work[w]][i] = 1}
              /\ answer'[w].tasks = Cardinality(answer'[w].listed)
              /\ answer'[w].tasks + answer'[w].errors = next[w]
          <6> DEFINE q == work[w]
                     a == answer[w]
                     g == granted'[q]
          <6>1. /\ \A i \in Indices(q) : g[i] = IF i = next[w] THEN 1 ELSE granted[q][i]
                /\ \A i \in Indices(q) : i >= next[w] => granted[q][i] = 0
                /\ q \in Requests /\ a \in Answers /\ next[w] \in Indices(q)
                /\ Accounts(a, q, next[w] - 1)
            BY <4>2, <5>1, <5>3, <5>4, <5>5
          <6>2. answer'[w] = Listing(w, a)
            BY <4>4
          <6> HIDE DEF q, a, g
          <6>3. /\ Listing(w, a).listed = {i \in Indices(q) : i <= next[w] /\ g[i] = 1}
                /\ Listing(w, a).tasks = Cardinality(Listing(w, a).listed)
                /\ Listing(w, a).tasks + Listing(w, a).errors = next[w]
            BY <2>7, <6>1, ListedAccount
          <6> QED BY <6>2, <6>3 DEF q, g
        <5>7. \A i \in Indices(work[w]) : i >= next'[w] => granted'[work[w]][i] = 0
          BY <4>1, <5>2, <5>3, <5>4
        <5> QED BY <1>1, <4>1, <4>2, <5>2, <5>6, <5>7 DEF AnswerInOrder, Accounts
      <4>5. AnswerInOrder(w)'
        <5>1. \/ UNCHANGED granted /\ answer'[w] = Failed(answer[w])
              \/ /\ granted' = [granted EXCEPT ![work[w]][next[w]] = @ + 1]
                 /\ answer'[w] = Listing(w, answer[w])
          BY <1>4, <2>7, <3>5 DEF ScheduleDevice, Advance, TypeOK
        <5> QED BY <4>3, <4>4, <5>1
      <4> QED BY <1>2, <2>4, <2>5, <4>1, <4>5
    <3>6. CASE FinishLoop(w)
      <4>1. /\ pc[w] = "loop" /\ pc'[w] = "finish" /\ work'[w] = work[w]
            /\ next[w] > Len(DevicesOf(work[w])) /\ answer'[w] = answer[w]
            /\ UNCHANGED <<replied, granted>>
        BY <3>6 DEF FinishLoop, TypeOK
      <4>2. next[w] - 1 = Len(DevicesOf(work[w]))
        BY <3>1, <4>1, <1>4, <2>7, IndexType DEF WorkInOrder, TypeOK
      <4>3. AnswerInOrder(w)'
        BY <1>1, <1>3, <2>7, <3>1, <4>1, <4>2 DEF AnswerInOrder, Accounts
      <4> QED BY <1>2, <2>4, <2>5, <4>1, <4>3
    <3>7. CASE LetGo(w) /\ UNCHANGED replied
      <4>1. pc'[w] = "idle"
        BY <3>7 DEF LetGo, TypeOK
      <4> QED BY <1>2, <1>6, <2>4, <2>5, <3>7, <4>1
    <3>8. CASE Respond(w)
      <4>1. /\ pc[w] = "finish" /\ pc'[w] = "idle" /\ granted' = granted
            /\ replied' = [replied EXCEPT ![work[w]] = {answer[w]}]
        BY <3>8 DEF Respond, LetGo, TypeOK
      <4>2. answer[w] = Refused \/ Accounts(answer[w], work[w], Len(DevicesOf(work[w])))
        BY <1>3, <2>7, <4>1 DEF AnswerInOrder
      <4>3. \A i \in Indices(work[w]) : i <= Len(DevicesOf(work[w]))
        BY <3>1, <4>1, IndexType DEF Indices
      <4>4. AnswerAddsUp'
        <5> SUFFICES ASSUME NEW q \in RestRequests, NEW a \in replied'[q]
                     PROVE  a = Refused \/ /\ a.tasks = Cardinality(a.listed)
                                           /\ a.tasks + a.errors = Len(DevicesOf(q))
                                           /\ a.listed = {i \in Indices(q) : granted[q][i] = 1}
          BY <1>1, <4>1 DEF AnswerAddsUp, Requests
        <5>1. CASE q = work[w]
          <6>1. a = answer[w]
            BY <4>1, <5>1 DEF TypeOK
          <6>2. {i \in Indices(q) : i <= Len(DevicesOf(q)) /\ granted[q][i] = 1}
                  = {i \in Indices(q) : granted[q][i] = 1}
            BY <4>3, <5>1
          <6> QED BY <4>2, <5>1, <6>1, <6>2 DEF Accounts
        <5>2. CASE q # work[w]
          BY <4>1, <5>2 DEF AnswerAddsUp, TypeOK
        <5> QED BY <5>1, <5>2
      <4> QED BY <1>2, <1>6, <2>4, <4>1, <4>4
    <3> QED BY <1>11, <2>7, <3>2, <3>3, <3>4, <3>5, <3>6, <3>7, <3>8, RequestAssumption
            DEF HandlerStep, Crash, DeleteInput
  <2> QED BY <2>6, <2>7 DEF Workers
<1>12. CASE (\E q \in QueueRequests : PostEvent(q) \/ QueueStep(q)) \/ UNCHANGED vars
  BY <1>8, <1>12 DEF PostEvent, QueueStep, vars, workVars
<1> QED BY <1>9, <1>10, <1>11, <1>12 DEF Next

-----------------------------------------------------------------------------
(* What a request wants, and what was tried for it.                        *)

\* A request wants the same for ever.
LEMMA WantedStays ==
  ASSUME [Next]_vars
  PROVE  /\ form' = form
         /\ \A q : Wanted(q)' = Wanted(q) /\ Indices(q)' = Indices(q)
                   /\ DevicesOf(q)' = DevicesOf(q)
BY FormsStay DEF Wanted, Indices, DevicesOf, Rejected, BroadcastMixed, TenantMissing

\* A request that is not refused wants a task for its first device.
LEMMA WantedType ==
  ASSUME TypeOK, NEW q \in Requests
  PROVE  /\ Wanted(q) \subseteq Indices(q)
         /\ Wanted(q) \subseteq Nat
         /\ Wanted(q) = {} <=> ~form[q].decodes \/ Rejected(q)
<1>1. DevicesOf(q) \in Seq(Devices \cup {Broadcast})
  BY DEF TypeOK, Forms, DevicesOf
<1>2. ~Rejected(q) => 1 \in Indices(q)
  BY <1>1 DEF Rejected, Indices
<1>3. Wanted(q) \subseteq Indices(q)
  BY DEF Wanted
<1> QED BY <1>2, <1>3, IndexType DEF Wanted

\* A request that was delivered stays delivered.
LEMMA DeliveriesGrow ==
  ASSUME TypeOK, [Next]_vars, NEW q \in Requests, Deliveries(q) > 0
  PROVE  Deliveries(q)' > 0
<1>1. posted \subseteq posted'
  BY DEF Next, PostEvent, QueueStep, ReceiveInput, PostRest, HandlerStep, Reject, Accept,
     SkipBroadcast, ScheduleDevice, FinishLoop, DeleteInput, Respond, Crash, vars
<1>2. \/ receives' = receives
      \/ \E p \in QueueRequests : receives' = [receives EXCEPT ![p] = receives[p] + 1]
  BY DEF Next, PostEvent, QueueStep, Send, VisibilityTimeout, Redrive, ReceiveInput, Receive,
     PostRest, HandlerStep, Reject, Accept, SkipBroadcast, ScheduleDevice, FinishLoop,
     DeleteInput, Delete, Respond, Crash, vars, queueVars
<1>3. receives \in [QueueRequests -> Nat]
  BY RequestAssumption DEF TypeOK, QueueTypeOK
<1>4. \A p \in QueueRequests : receives[p] > 0 => receives'[p] > 0
  BY <1>2, <1>3
<1> QED BY <1>1, <1>4 DEF Deliveries

\* A Schedule() call touches the counts of its own device only, and has tried it.
LEMMA DeviceTried ==
  ASSUME TypeOK, WorkInOrder, CopiesAndReady, NEW w \in Workers, ScheduleDevice(w)
  PROVE  /\ \A q \in Requests : \A i \in Indices(q) :
               /\ made'[q][i] # made[q][i] => q = work[w] /\ i = next[w]
               /\ Tried(q, i) => Tried(q, i)'
               /\ q = work[w] /\ i = next[w] => Tried(q, i)'
         /\ made[work[w]][next[w]] < Deliveries(work[w])
<1> DEFINE q == work[w]
           i == next[w]
<1>1. /\ q \in Requests /\ i \in Indices(q)
      /\ IsFiniteSet(Ready(q, i)) /\ w \in Ready(q, i)
      /\ made[q][i] \in Nat /\ granted[q][i] \in Nat
  BY AtDeviceType, RequestAssumption DEF ScheduleDevice
<1>2. \A p \in Requests : /\ made[p] \in [Indices(p) -> Nat]
                          /\ granted[p] \in [Indices(p) -> Nat]
  BY RequestAssumption DEF TypeOK, Counts
<1>3. /\ made \in [Requests -> {made[p] : p \in Requests}]
      /\ granted \in [Requests -> {granted[p] : p \in Requests}]
  BY DEF TypeOK
<1>4. made' = made \/ made' = [made EXCEPT ![q] = [made[q] EXCEPT ![i] = made[q][i] + 1]]
  BY DEF ScheduleDevice, Store
<1>5. \/ granted' = [granted EXCEPT ![q] = [granted[q] EXCEPT ![i] = granted[q][i] + 1]] /\ missed' = missed
      \/ granted' = granted /\ missed' = [missed EXCEPT ![q] = missed[q] \cup {i}]
  BY DEF ScheduleDevice
<1>6. missed \in [Requests -> SUBSET Nat]
  BY DEF TypeOK
<1>7. Deliveries(q) \in Nat
  BY <1>1, RequestAssumption DEF TypeOK, QueueTypeOK, Deliveries, Requests
<1>8. Cardinality(Ready(q, i)) \in Nat \ {0}
  BY <1>1, FS_CardinalityType, FS_EmptySet
<1>9. made[q][i] + Cardinality(Ready(q, i)) <= Deliveries(q)
  BY <1>1 DEF CopiesAndReady
<1> HIDE DEF q, i
<1>10. made[q][i] < Deliveries(q)
  BY <1>1, <1>7, <1>8, <1>9
<1>11. \A p \in Requests : \A j \in Indices(p) :
          made'[p][j] # made[p][j] => p = q /\ j = i
  <2>1. CASE made' = made
    BY <2>1
  <2>2. CASE made' = [made EXCEPT ![q] = [made[q] EXCEPT ![i] = made[q][i] + 1]]
    <3>1. made'[q] = [made[q] EXCEPT ![i] = made[q][i] + 1]
      BY <1>1, <1>3, <2>2
    <3>2. \A j \in Indices(q) : j # i => made'[q][j] = made[q][j]
      BY <1>1, <1>2, <3>1
    <3>3. \A p \in Requests : p # q => made'[p] = made[p]
      BY <1>3, <2>2
    <3> QED BY <3>2, <3>3
  <2> QED BY <1>4, <2>1, <2>2
<1>12. CASE granted' = [granted EXCEPT ![q] = [granted[q] EXCEPT ![i] = granted[q][i] + 1]] /\ missed' = missed
  <2>1. \A p \in Requests : \A j \in Indices(p) :
           granted'[p][j] = IF p = q /\ j = i THEN granted[p][j] + 1 ELSE granted[p][j]
    BY <1>1, <1>2, <1>3, <1>12
  <2>2. \A p \in Requests : \A j \in Indices(p) : granted[p][j] > 0 => granted'[p][j] > 0
    BY <1>2, <2>1
  <2>3. granted'[q][i] > 0
    BY <1>1, <2>1
  <2>4. \A p \in Requests : \A j \in Indices(p) :
           /\ Tried(p, j) => Tried(p, j)'
           /\ p = q /\ j = i => Tried(p, j)'
    BY <1>12, <2>2, <2>3 DEF Tried
  <2> QED BY <1>10, <1>11, <2>4 DEF q, i
<1>13. CASE granted' = granted /\ missed' = [missed EXCEPT ![q] = missed[q] \cup {i}]
  <2>1. i \in missed'[q] /\ \A p \in Requests : missed[p] \subseteq missed'[p]
    BY <1>1, <1>6, <1>13
  <2>2. \A p \in Requests : \A j \in Indices(p) :
           /\ Tried(p, j) => Tried(p, j)'
           /\ p = q /\ j = i => Tried(p, j)'
    BY <1>13, <2>1 DEF Tried
  <2> QED BY <1>10, <1>11, <2>2 DEF q, i
<1> QED BY <1>5, <1>12, <1>13

\* Whatever a step does, what was tried stays tried.
LEMMA TriedStays ==
  ASSUME TypeOK, WorkInOrder, CopiesAndReady, [Next]_vars
  PROVE  \A q \in Requests : \A i \in Indices(q) : Tried(q, i) => Tried(q, i)'
<1>1. UNCHANGED taskVars \/ \E w \in Workers : ScheduleDevice(w)
  BY DEF Next, PostEvent, QueueStep, ReceiveInput, PostRest, HandlerStep, Reject, Accept,
     SkipBroadcast, FinishLoop, DeleteInput, Respond, Crash, vars
<1>2. CASE UNCHANGED taskVars
  BY <1>2 DEF Tried
<1>3. ASSUME NEW w \in Workers, ScheduleDevice(w)
      PROVE  \A q \in Requests : \A i \in Indices(q) : Tried(q, i) => Tried(q, i)'
  BY <1>3, DeviceTried
<1> QED BY <1>1, <1>2, <1>3

\* A device at which Schedule() is called is one that is to have a task.
LEMMA ScheduledIsWanted ==
  ASSUME TypeOK, WorkInOrder, CopiesAndReady, TriedInOrder, NEW w \in Workers, ScheduleDevice(w)
  PROVE  next[w] \in Wanted(work[w])
<1>1. pc[w] = "loop" /\ AtDevice(w) /\ ~Misplaced(w)
  BY DEF ScheduleDevice, AtDevice
<1>2. next[w] \in Indices(work[w])
  BY <1>1, AtDeviceType
<1>3. form[work[w]].decodes /\ ~Rejected(work[w])
  BY <1>1 DEF TriedInOrder, WorkInOrder
<1> QED BY <1>1, <1>2, <1>3 DEF Wanted, Misplaced

LEMMA MadeStep ==
  TypeOK /\ HandlerInv /\ PromiseInv /\ [Next]_vars => MadeIsWanted'
<1> SUFFICES ASSUME TypeOK, HandlerInv, PromiseInv, [Next]_vars,
                    NEW q \in Requests, NEW i \in Indices(q), made'[q][i] > 0
             PROVE  i \in Wanted(q)
  BY WantedStays DEF MadeIsWanted
<1>1. UNCHANGED taskVars \/ \E w \in Workers : ScheduleDevice(w)
  BY DEF Next, PostEvent, QueueStep, ReceiveInput, PostRest, HandlerStep, Reject, Accept,
     SkipBroadcast, FinishLoop, DeleteInput, Respond, Crash, vars
<1>2. CASE UNCHANGED taskVars
  BY <1>2 DEF PromiseInv, MadeIsWanted
<1>3. ASSUME NEW w \in Workers, ScheduleDevice(w) PROVE i \in Wanted(q)
  <2>1. made'[q][i] # made[q][i] => q = work[w] /\ i = next[w]
    BY <1>3, DeviceTried DEF HandlerInv
  <2>2. next[w] \in Wanted(work[w])
    BY <1>3, ScheduledIsWanted DEF HandlerInv, PromiseInv
  <2> QED BY <2>1, <2>2 DEF PromiseInv, MadeIsWanted
<1> QED BY <1>1, <1>2, <1>3

\* A request is done when it is refused, or when a worker has passed all its devices.
LEMMA DoneStep ==
  TypeOK /\ HandlerInv /\ PromiseInv /\ [Next]_vars => DoneIsTried'
<1> SUFFICES ASSUME TypeOK, HandlerInv, PromiseInv, [Next]_vars,
                    NEW q \in done', NEW i \in Wanted(q)
             PROVE  Tried(q, i)'
  BY WantedStays DEF DoneIsTried
<1>1. \/ q \in done
      \/ q \in QueueRequests /\ ~form[q].decodes
      \/ q \in RestRequests /\ ~(form[q].decodes /\ form[q].payload)
      \/ \E w \in Workers : q = work[w] /\ (Reject(w) \/ FinishLoop(w))
  <2>1. CASE done' = done
    BY <2>1
  <2>2. ASSUME NEW p \in QueueRequests, NEW w \in Watchers, ReceiveInput(w, p)
        PROVE  q \in done \/ (q \in QueueRequests /\ ~form[q].decodes)
    BY <2>2 DEF ReceiveInput
  <2>3. ASSUME NEW p \in RestRequests, NEW w \in RestHandlers, PostRest(w, p)
        PROVE  q \in done \/ (q \in RestRequests /\ ~(form[q].decodes /\ form[q].payload))
    BY <2>3 DEF PostRest
  <2>4. ASSUME NEW w \in Workers, HandlerStep(w) \/ Crash(w)
        PROVE  \/ done' = done
               \/ done' = done \cup {work[w]} /\ (Reject(w) \/ FinishLoop(w))
    BY <2>4 DEF HandlerStep, Crash, Reject, Accept, SkipBroadcast, ScheduleDevice, FinishLoop,
       DeleteInput, Respond
  <2>5. \/ done' = done
        \/ \E p \in QueueRequests, w \in Watchers : ReceiveInput(w, p)
        \/ \E p \in RestRequests, w \in RestHandlers : PostRest(w, p)
        \/ \E w \in Workers : HandlerStep(w) \/ Crash(w)
    BY DEF Next, PostEvent, QueueStep, vars
  <2> QED BY <2>1, <2>2, <2>3, <2>4, <2>5
<1>2. form[q].decodes /\ ~Rejected(q)
  BY DEF Wanted
<1>3. q \in done \/ \E w \in Workers : q = work[w] /\ FinishLoop(w)
  BY <1>1, <1>2 DEF Rejected, Reject
<1>4. q \in Requests /\ Tried(q, i)
  <2>1. CASE q \in done
    BY <2>1 DEF PromiseInv, DoneIsTried, TypeOK
  <2>2. ASSUME NEW w \in Workers, q = work[w], FinishLoop(w) PROVE q \in Requests /\ Tried(q, i)
    <3>1. q \in Requests /\ pc[w] = "loop" /\ next[w] > Len(DevicesOf(q)) /\ next[w] \in Nat
      BY <2>2, WorkType DEF FinishLoop, HandlerInv, TypeOK
    <3>2. DevicesOf(q) \in Seq(Devices \cup {Broadcast})
      BY <3>1 DEF TypeOK, Forms, DevicesOf
    <3>3. i \in 1..Len(DevicesOf(q))
      BY <3>1, WantedType DEF Indices
    <3>4. i < next[w]
      BY <3>1, <3>2, <3>3
    <3> QED BY <2>2, <3>1, <3>4 DEF PromiseInv, TriedInOrder
  <2> QED BY <1>3, <2>1, <2>2
<1> QED BY <1>4, WantedType, TriedStays DEF HandlerInv

\* A worker's part of TriedInOrder and of RefusedIsUnwanted.
HasTried(w) ==
    /\ pc[w] # "idle" => Deliveries(work[w]) > 0
    /\ pc[w] \in {"validate", "loop"} => form[work[w]].decodes
    /\ pc[w] = "loop" => \A i \in Wanted(work[w]) : i < next[w] => Tried(work[w], i)

LEMMA HasTriedStep ==
  TypeOK /\ HandlerInv /\ PromiseInv /\ [Next]_vars => TriedInOrder'
<1> SUFFICES ASSUME TypeOK, HandlerInv, PromiseInv, [Next]_vars PROVE TriedInOrder'
  OBVIOUS
<1>1. (\A w \in Workers : HasTried(w)') => TriedInOrder'
  BY DEF TriedInOrder, HasTried
<1>2. \A w \in Workers : HasTried(w) /\ (pc[w] # "idle" => work[w] \in Requests)
  BY WorkType DEF PromiseInv, TriedInOrder, HasTried, HandlerInv
<1>3. /\ form' = form
      /\ \A q \in Requests : Wanted(q)' = Wanted(q) /\ Wanted(q) \subseteq Indices(q)
      /\ \A q \in Requests : Deliveries(q) > 0 => Deliveries(q)' > 0
      /\ \A q \in Requests : \A i \in Indices(q) : Tried(q, i) => Tried(q, i)'
  BY WantedStays, WantedType, DeliveriesGrow, TriedStays DEF HandlerInv
<1>4. ASSUME NEW w \in Workers, pc'[w] = pc[w], work'[w] = work[w], next'[w] = next[w]
      PROVE  HasTried(w)'
  <2>1. CASE pc[w] = "idle"
    BY <1>4, <2>1 DEF HasTried
  <2>2. CASE pc[w] # "idle"
    <3> DEFINE q == work[w]
    <3>1. q \in Requests /\ HasTried(w)
      BY <1>2, <2>2
    <3>2. Deliveries(q) > 0 => Deliveries(work[w])' > 0
      BY <1>3, <1>4, <3>1 DEF Deliveries
    <3>3. ASSUME pc[w] = "loop", NEW i \in Wanted(work[w])', i < next'[w] PROVE Tried(work[w], i)'
      <4>1. i \in Wanted(q) /\ i < next[w] /\ i \in Indices(q)
        BY <1>3, <1>4, <3>1, <3>3 DEF Wanted, Indices, DevicesOf, Rejected, BroadcastMixed,
           TenantMissing
      <4>2. Tried(q, i)
        BY <3>1, <3>3, <4>1 DEF HasTried
      <4> QED BY <1>3, <1>4, <3>1, <4>1, <4>2 DEF Tried
    <3> QED BY <1>3, <1>4, <3>1, <3>2, <3>3 DEF HasTried
  <2> QED BY <2>1, <2>2
<1>5. ASSUME UNCHANGED workVars PROVE TriedInOrder'
  BY <1>1, <1>4, <1>5 DEF workVars
<1>6. ASSUME NEW w \in Workers, Others(w), HasTried(w)' PROVE TriedInOrder'
  BY <1>1, <1>4, <1>6 DEF Others
<1>7. ASSUME NEW w \in Workers, pc'[w] = "idle" PROVE HasTried(w)'
  BY <1>7 DEF HasTried
<1>8. ASSUME NEW w \in Workers, NEW q \in Requests, TakeUp(w, q), form[q].decodes, Deliveries(q)' > 0
      PROVE  HasTried(w)'
  <2>1. pc'[w] = "validate" /\ work'[w] = q
    BY <1>8 DEF TakeUp, TypeOK
  <2>2. Deliveries(work[w])' > 0
    BY <1>8, <2>1 DEF Deliveries
  <2> QED BY <1>3, <1>8, <2>1, <2>2 DEF HasTried
<1>9. ASSUME NEW q \in QueueRequests, NEW w \in Watchers, ReceiveInput(w, q) PROVE TriedInOrder'
  <2>1. w \in Workers /\ q \in Requests /\ Others(w)
    BY <1>9, OthersStay DEF Workers, Requests
  <2>2. Deliveries(q)' > 0
    BY <1>9, RequestAssumption DEF ReceiveInput, Receive, Deliveries, TypeOK, QueueTypeOK
  <2>3. CASE form[q].decodes /\ TakeUp(w, q)
    BY <1>6, <1>8, <2>1, <2>2, <2>3
  <2>4. CASE pc' = [pc EXCEPT ![w] = "finish"] /\ work' = [work EXCEPT ![w] = q]
    <3>1. pc'[w] = "finish" /\ work'[w] = q
      BY <2>1, <2>4 DEF TypeOK
    <3>2. Deliveries(work[w])' > 0
      BY <2>2, <3>1 DEF Deliveries
    <3> QED BY <1>6, <2>1, <3>1, <3>2 DEF HasTried
  <2> QED BY <1>5, <1>9, <2>3, <2>4 DEF ReceiveInput
<1>10. ASSUME NEW q \in RestRequests, NEW w \in RestHandlers, PostRest(w, q) PROVE TriedInOrder'
  <2>1. w \in Workers /\ q \in Requests /\ Others(w)
    BY <1>10, OthersStay DEF Workers, Requests
  <2>2. Deliveries(q)' > 0
    BY <1>10, RequestAssumption DEF PostRest, Deliveries
  <2> QED BY <1>5, <1>6, <1>8, <1>10, <2>1, <2>2 DEF PostRest
<1>11. ASSUME NEW w \in Workers, HandlerStep(w) \/ Crash(w) PROVE TriedInOrder'
  <2>1. Others(w)
    BY <1>11, OthersStay
  <2>2. CASE LetGo(w)
    BY <1>6, <1>7, <2>1, <2>2 DEF LetGo, TypeOK
  <2>3. ASSUME pc[w] # "idle", work'[w] = work[w],
               pc'[w] \in {"validate", "loop"} => form[work[w]].decodes,
               pc'[w] = "loop" => \A i \in Wanted(work[w]) : i < next'[w] => Tried(work[w], i)'
        PROVE  HasTried(w)'
    <3> DEFINE q == work[w]
    <3>1. q \in Requests /\ Deliveries(q) > 0
      BY <1>2, <2>3 DEF HasTried
    <3>2. Deliveries(work[w])' > 0
      BY <1>3, <2>3, <3>1 DEF Deliveries
    <3> QED BY <1>3, <2>3, <3>1, <3>2 DEF HasTried, Tried
  <2>4. CASE Reject(w) \/ FinishLoop(w)
    <3>1. pc[w] # "idle" /\ pc'[w] = "finish" /\ work'[w] = work[w]
      BY <2>4 DEF Reject, FinishLoop, TypeOK
    <3> QED BY <1>6, <2>1, <2>3, <3>1
  <2>5. CASE Accept(w)
    <3>1. pc[w] = "validate" /\ pc'[w] = "loop" /\ work'[w] = work[w] /\ next'[w] = next[w]
      BY <2>5 DEF Accept, TypeOK
    <3>2. next[w] = 1 /\ work[w] \in Requests /\ form[work[w]].decodes
      BY <1>2, <3>1 DEF HandlerInv, WorkInOrder, HasTried
    <3>3. \A i \in Wanted(work[w]) : ~(i < next'[w])
      BY <1>3, <3>1, <3>2, IndexType
    <3> QED BY <1>6, <2>1, <2>3, <3>1, <3>2, <3>3
  <2>6. ASSUME AtDevice(w), pc'[w] = pc[w], work'[w] = work[w], next'[w] = next[w] + 1,
               next[w] \in Wanted(work[w]) => Tried(work[w], next[w]) \/ ScheduleDevice(w)
        PROVE  TriedInOrder'
    <3>1. /\ pc[w] = "loop" /\ work[w] \in Requests /\ HasTried(w) /\ next[w] \in Nat
          /\ form[work[w]].decodes
      BY <1>2, <2>6 DEF AtDevice, TypeOK, HasTried
    <3>2. ASSUME NEW i \in Wanted(work[w]), i < next'[w] PROVE Tried(work[w], i)'
      <4>1. i \in Nat /\ i \in Indices(work[w])
        BY <1>3, <3>1, IndexType
      <4>2. i < next[w] \/ i = next[w]
        BY <2>6, <3>1, <3>2, <4>1
      <4>3. Tried(work[w], i) \/ (i = next[w] /\ ScheduleDevice(w))
        BY <2>6, <3>1, <3>2, <4>2 DEF HasTried
      <4> DEFINE q == work[w]
      <4>4. granted'[q][i] > 0 \/ i \in missed'[q]
        BY <1>3, <3>1, <4>1, <4>3, DeviceTried DEF HandlerInv, Tried
      <4> QED BY <2>6, <4>4 DEF Tried
    <3> QED BY <1>6, <2>1, <2>3, <2>6, <3>1, <3>2
  <2>7. CASE SkipBroadcast(w)
    <3>1. /\ AtDevice(w) /\ pc'[w] = pc[w] /\ work'[w] = work[w] /\ next'[w] = next[w] + 1
          /\ next[w] \notin Wanted(work[w])
      BY <2>7 DEF SkipBroadcast, Advance, Misplaced, Wanted, TypeOK
    <3> QED BY <2>6, <3>1
  <2>8. CASE ScheduleDevice(w)
    <3>1. AtDevice(w) /\ pc'[w] = pc[w] /\ work'[w] = work[w] /\ next'[w] = next[w] + 1
      BY <2>8 DEF ScheduleDevice, Advance, TypeOK
    <3> QED BY <2>6, <2>8, <3>1
  <2> QED BY <1>11, <2>2, <2>4, <2>5, <2>7, <2>8 DEF HandlerStep, DeleteInput, Respond, Crash
<1>12. CASE (\E q \in QueueRequests : PostEvent(q) \/ QueueStep(q)) \/ UNCHANGED vars
  BY <1>5, <1>12 DEF PostEvent, QueueStep, vars
<1> QED BY <1>9, <1>10, <1>11, <1>12 DEF Next

\* An answer that accounts for devices is not the refusal, which lists the index 0.
LEMMA AccountIsNoRefusal ==
  ASSUME TypeOK, NEW q \in Requests, NEW a, NEW n, Accounts(a, q, n)
  PROVE  a # Refused
<1>1. 0 \notin a.listed
  BY IndexType DEF Accounts
<1>2. Refused.listed = {0}
  BY DEF Refused, EmptyAnswer
<1> QED BY <1>1, <1>2

\* A handler that comes to its end has refused the request or gone through it.
LEMMA RefusedStep ==
  TypeOK /\ HandlerInv /\ PromiseInv /\ [Next]_vars => RefusedIsUnwanted'
<1> SUFFICES ASSUME TypeOK, HandlerInv, PromiseInv, [Next]_vars,
                    NEW w \in RestHandlers, pc'[w] = "finish"
             PROVE  answer'[w] = Refused <=> Wanted(work'[w]) = {}
  BY WantedStays DEF RefusedIsUnwanted
<1>1. w \in Workers /\ w \notin Watchers
  BY RequestAssumption DEF Workers
<1>2. CASE pc'[w] = pc[w] /\ work'[w] = work[w] /\ answer'[w] = answer[w]
  BY <1>2 DEF PromiseInv, RefusedIsUnwanted
<1>3. CASE Reject(w)
  <2>1. /\ pc[w] = "validate" /\ Rejected(work[w])
        /\ work'[w] = work[w] /\ answer'[w] = Refused
    BY <1>1, <1>3 DEF Reject, TypeOK
  <2> QED BY <2>1 DEF Wanted
<1>4. CASE FinishLoop(w)
  <2>1. pc[w] = "loop" /\ work'[w] = work[w] /\ answer'[w] = answer[w]
    BY <1>1, <1>4 DEF FinishLoop, TypeOK
  <2>2. work[w] \in Requests
    BY <1>1, <2>1, WorkType DEF HandlerInv
  <2>3. answer[w] # Refused
    BY <2>1, <2>2, AccountIsNoRefusal DEF HandlerInv, AnswersInOrder
  <2>4. form[work[w]].decodes /\ ~Rejected(work[w])
    BY <1>1, <2>1 DEF HandlerInv, WorkInOrder, PromiseInv, TriedInOrder
  <2>5. Wanted(work[w]) # {}
    BY <2>2, <2>4, WantedType
  <2> QED BY <2>1, <2>3, <2>5
<1>5. \/ pc'[w] = pc[w] /\ work'[w] = work[w] /\ answer'[w] = answer[w]
      \/ Reject(w) \/ FinishLoop(w)
  <2>1. ASSUME NEW v \in Workers, v # w, Others(v)
        PROVE  pc'[w] = pc[w] /\ work'[w] = work[w] /\ answer'[w] = answer[w]
    BY <1>1, <2>1 DEF Others
  <2>2. ASSUME NEW q \in QueueRequests, NEW v \in Watchers, ReceiveInput(v, q)
        PROVE  pc'[w] = pc[w] /\ work'[w] = work[w] /\ answer'[w] = answer[w]
    <3>1. v \in Workers /\ v # w
      BY <1>1 DEF Workers
    <3> QED BY <2>1, <2>2, <3>1, OthersStay
  <2>3. ASSUME NEW q \in RestRequests, NEW v \in RestHandlers, PostRest(v, q)
        PROVE  pc'[w] = pc[w] /\ work'[w] = work[w] /\ answer'[w] = answer[w]
    <3>1. v \in Workers /\ Others(v)
      BY <2>3, OthersStay DEF Workers
    <3>2. CASE v = w
      <4>1. ~TakeUp(v, q)
        BY <1>1, <3>2 DEF TakeUp, TypeOK
      <4> QED BY <2>3, <4>1 DEF PostRest, workVars
    <3> QED BY <2>1, <3>1, <3>2
  <2>4. ASSUME NEW v \in Workers, HandlerStep(v) \/ Crash(v), v # w
        PROVE  pc'[w] = pc[w] /\ work'[w] = work[w] /\ answer'[w] = answer[w]
    BY <2>1, <2>4, OthersStay
  <2>5. ASSUME HandlerStep(w) \/ Crash(w) PROVE Reject(w) \/ FinishLoop(w)
    <3>1. ~LetGo(w)
      BY <1>1 DEF LetGo, TypeOK
    <3>2. ~(pc[w] \in {"validate", "loop"} /\ (pc' = pc \/ pc' = [pc EXCEPT ![w] = "loop"]))
      BY <1>1 DEF TypeOK
    <3> QED BY <2>5, <3>1, <3>2 DEF HandlerStep, Crash, DeleteInput, Respond, Accept,
            SkipBroadcast, ScheduleDevice, AtDevice
  <2>6. CASE (\E q \in QueueRequests : PostEvent(q) \/ QueueStep(q)) \/ UNCHANGED vars
    BY <2>6 DEF PostEvent, QueueStep, vars, workVars
  <2> QED BY <2>2, <2>3, <2>4, <2>5, <2>6 DEF Next
<1> QED BY <1>2, <1>3, <1>4, <1>5

-----------------------------------------------------------------------------
(* RequestHandler implements RequestPromise.                               *)

LEMMA AskedStays == ASSUME [Next]_vars PROVE UNCHANGED Promise!asked
BY WantedStays DEF Promise!asked

\* The steps that only a worker sees.
LEMMA UnseenStep ==
  ASSUME [Next]_vars, UNCHANGED <<receives, posted, taskVars, replied, done>>,
         \A q \in QueueRequests : msg'[q] = "deleted" <=> msg[q] = "deleted"
  PROVE  UNCHANGED Promise!vars
<1>1. [q \in Requests |-> Deliveries(q)]' = [q \in Requests |-> Deliveries(q)]
  BY DEF Deliveries
<1>2. {q \in QueueRequests : msg[q] = "deleted"}' = {q \in QueueRequests : msg[q] = "deleted"}
  OBVIOUS
<1> QED BY <1>1, <1>2, AskedStays DEF Promise!vars, Promise!taskVars

\* A message reaches a watcher: one delivery more. One that cannot be read is settled.
LEMMA ReceiveStep ==
  ASSUME TypeOK, [Next]_vars, NEW q \in QueueRequests, NEW w \in Watchers, ReceiveInput(w, q)
  PROVE  Promise!Deliver(q)
<1>1. q \in Requests /\ q \notin RestRequests
  BY RequestAssumption DEF Requests
<1>2. /\ msg[q] = "visible" /\ receives[q] < MaxReceives
      /\ msg' = [msg EXCEPT ![q] = "inflight"]
      /\ receives' = [receives EXCEPT ![q] = receives[q] + 1]
      /\ UNCHANGED <<posted, taskVars, replied>>
  BY DEF ReceiveInput, Receive
<1>3. UNCHANGED done \/ (~form[q].decodes /\ done' = done \cup {q})
  BY DEF ReceiveInput
<1>4. {p \in QueueRequests : msg[p] = "deleted"}' = {p \in QueueRequests : msg[p] = "deleted"}
  BY <1>2 DEF TypeOK, QueueTypeOK
<1>5. [p \in Requests |-> Deliveries(p)]'
        = [[p \in Requests |-> Deliveries(p)] EXCEPT ![q] = Deliveries(q) + 1]
  BY <1>1, <1>2 DEF Deliveries, TypeOK, QueueTypeOK
<1>6. Deliveries(q) < MaxReceives
  BY <1>2 DEF Deliveries
<1>7. replied' = [p \in RestRequests |-> IF p = q THEN {Refused} ELSE replied[p]]
  BY <1>1, <1>2 DEF TypeOK
<1>8. UNCHANGED done \/ (Wanted(q) = {} /\ done' = done \cup {q})
  BY <1>3 DEF Wanted
<1> QED BY <1>1, <1>2, <1>4, <1>5, <1>6, <1>7, <1>8, AskedStays
        DEF Promise!Deliver, Promise!taskVars, Requests

\* A REST request comes once; one that cannot be read is refused at once.
LEMMA PostStep ==
  ASSUME TypeOK, [Next]_vars, NEW q \in RestRequests, NEW w \in RestHandlers, PostRest(w, q)
  PROVE  Promise!Deliver(q)
<1>1. q \in Requests /\ q \notin QueueRequests
  BY RequestAssumption DEF Requests
<1>2. /\ q \notin posted /\ posted' = posted \cup {q}
      /\ UNCHANGED <<msg, receives, taskVars>>
  BY DEF PostRest, queueVars
<1>3. \/ UNCHANGED <<replied, done>>
      \/ /\ ~(form[q].decodes /\ form[q].payload)
         /\ done' = done \cup {q}
         /\ replied' = [replied EXCEPT ![q] = {Refused}]
  BY DEF PostRest
<1>4. Deliveries(q) = 0
  BY <1>1, <1>2 DEF Deliveries
<1>5. [p \in Requests |-> Deliveries(p)]'
        = [[p \in Requests |-> Deliveries(p)] EXCEPT ![q] = Deliveries(q) + 1]
  <2>1. Deliveries(q)' = Deliveries(q) + 1
    BY <1>1, <1>2, <1>4 DEF Deliveries
  <2>2. \A p \in Requests \ {q} : Deliveries(p)' = Deliveries(p)
    BY <1>2 DEF Deliveries
  <2> QED BY <1>1, <2>1, <2>2
<1>6. \/ UNCHANGED <<replied, done>>
      \/ /\ Wanted(q) = {}
         /\ done' = done \cup {q}
         /\ replied' = [p \in RestRequests |-> IF p = q THEN {Refused} ELSE replied[p]]
  BY <1>3 DEF Wanted, Rejected, TypeOK
<1> QED BY <1>1, <1>2, <1>4, <1>5, <1>6, AskedStays
        DEF Promise!Deliver, Promise!taskVars, Requests

\* A call of Schedule() makes a task or none for a device that is to have one.
LEMMA ScheduleStep ==
  ASSUME TypeOK, HandlerInv, PromiseInv, [Next]_vars, NEW w \in Workers, ScheduleDevice(w)
  PROVE  \E i \in Wanted(work[w]) : Promise!Make(work[w], i) \/ Promise!Miss(work[w], i)
<1> DEFINE q == work[w]
           i == next[w]
<1>1. i \in Wanted(q) /\ q \in Requests /\ made[q][i] < Deliveries(q)
  BY ScheduledIsWanted, DeviceTried, AtDeviceType DEF HandlerInv, PromiseInv, ScheduleDevice
<1>2. q \in RestRequests => replied[q] = {}
  BY DEF HandlerInv, HandledAlone
<1>3. /\ UNCHANGED <<receives, posted, msg, replied, done>>
      /\ \/ Grant(w)
         \/ Miss(w)
  BY DEF ScheduleDevice, queueVars
<1>4. /\ [p \in Requests |-> Deliveries(p)]' = [p \in Requests |-> Deliveries(p)]
      /\ {p \in QueueRequests : msg[p] = "deleted"}' = {p \in QueueRequests : msg[p] = "deleted"}
  BY <1>3 DEF Deliveries
<1>5. \/ /\ made' = [made EXCEPT ![q][i] = @ + 1]
         /\ \/ granted' = [granted EXCEPT ![q][i] = @ + 1] /\ UNCHANGED missed
            \/ missed' = [missed EXCEPT ![q] = @ \cup {i}] /\ UNCHANGED granted
      \/ UNCHANGED made /\ missed' = [missed EXCEPT ![q] = @ \cup {i}] /\ UNCHANGED granted
  BY <1>3 DEF Store
<1> HIDE DEF q, i
<1>6. Promise!Make(q, i) \/ Promise!Miss(q, i)
  BY <1>1, <1>2, <1>3, <1>4, <1>5, AskedStays DEF Promise!Make, Promise!Miss, Promise!taskVars
<1> QED BY <1>1, <1>6 DEF q, i

\* A worker comes to the end of a request.
LEMMA FinishStep ==
  ASSUME TypeOK, HandlerInv, PromiseInv, [Next]_vars, NEW w \in Workers,
         Reject(w) \/ FinishLoop(w)
  PROVE  work[w] \in Requests /\ Promise!Finish(work[w])
<1> DEFINE q == work[w]
<1>1. pc[w] # "idle" /\ done' = done \cup {q}
      /\ UNCHANGED <<receives, posted, msg, taskVars, replied>>
  BY DEF Reject, FinishLoop, queueVars
<1>2. q \in Requests /\ Deliveries(q) > 0
  BY <1>1, WorkType DEF HandlerInv, PromiseInv, TriedInOrder
<1>3. \A p \in done' : \A i \in Wanted(p) : granted'[p][i] > 0 \/ i \in missed'[p]
  BY DoneStep, WantedStays DEF DoneIsTried, Tried
<1>4. \A i \in Wanted(q) : granted[q][i] > 0 \/ i \in missed[q]
  BY <1>1, <1>3
<1>5. /\ [p \in Requests |-> Deliveries(p)]' = [p \in Requests |-> Deliveries(p)]
      /\ {p \in QueueRequests : msg[p] = "deleted"}' = {p \in QueueRequests : msg[p] = "deleted"}
  BY <1>1 DEF Deliveries
<1> HIDE DEF q
<1>6. Promise!Finish(q)
  BY <1>1, <1>2, <1>4, <1>5, AskedStays DEF Promise!Finish, Promise!Tried, Promise!taskVars
<1> QED BY <1>2, <1>6 DEF q

\* A watcher deletes what it has handled, or its call fails.
LEMMA LeaveStep ==
  ASSUME TypeOK, HandlerInv, [Next]_vars, NEW w \in Workers, DeleteInput(w)
  PROVE  UNCHANGED Promise!vars \/ \E q \in QueueRequests : Promise!Leave(q)
<1>1. /\ pc[w] = "finish" /\ w \in Watchers
      /\ UNCHANGED <<receives, posted, taskVars, replied, done>>
      /\ Delete(work[w]) \/ UNCHANGED msg
  BY DEF DeleteInput, Delete, queueVars
<1>2. PICK q \in QueueRequests : q = work[w] /\ q \in done
  BY <1>1, WorkType, RequestAssumption DEF HandlerInv, WorkInOrder, Requests
<1>3. /\ UNCHANGED <<receives, posted, taskVars, replied, done>>
      /\ \/ msg' = [msg EXCEPT ![q] = IF @ \in Pending THEN "deleted" ELSE @]
         \/ UNCHANGED msg
  BY <1>1, <1>2 DEF Delete
<1>4. [p \in Requests |-> Deliveries(p)]' = [p \in Requests |-> Deliveries(p)]
  BY <1>3 DEF Deliveries
<1>5. CASE \A p \in QueueRequests : msg'[p] = "deleted" <=> msg[p] = "deleted"
  BY <1>3, <1>5, UnseenStep
<1>6. CASE msg' = [msg EXCEPT ![q] = "deleted"]
  <2>1. {p \in QueueRequests : msg[p] = "deleted"}'
          = {p \in QueueRequests : msg[p] = "deleted"} \cup {q}
    BY <1>2, <1>6 DEF TypeOK, QueueTypeOK
  <2>2. Promise!Leave(q)
    BY <1>3, <1>2, <1>4, <2>1, AskedStays DEF Promise!Leave, Promise!taskVars
  <2> QED BY <1>2, <2>2
<1>7. \/ \A p \in QueueRequests : msg'[p] = "deleted" <=> msg[p] = "deleted"
      \/ msg' = [msg EXCEPT ![q] = "deleted"]
  BY <1>3, <1>2 DEF TypeOK, QueueTypeOK
<1> QED BY <1>5, <1>6, <1>7

\* RequestPromise counts with the Cardinality of its own FiniteSets.
LEMMA SameCardinality == ASSUME NEW S PROVE Promise!Cardinality(S) = Cardinality(S)
BY DEF Promise!Cardinality, Cardinality

\* The answer to a client is the one that RequestPromise gives.
LEMMA AnswerStep ==
  ASSUME TypeOK, HandlerInv, PromiseInv, [Next]_vars, NEW w \in Workers, Respond(w)
  PROVE  work[w] \in RestRequests /\ Promise!Answer(work[w])
<1> DEFINE q == work[w]
           a == answer[w]
<1>1. /\ pc[w] = "finish" /\ w \in RestHandlers
      /\ UNCHANGED <<receives, posted, msg, taskVars, done>>
      /\ replied' = [replied EXCEPT ![q] = {a}]
  BY DEF Respond, queueVars
<1>2. q \in RestRequests /\ q \in Requests /\ q \in done
  BY <1>1, WorkType, RequestAssumption DEF HandlerInv, WorkInOrder, Requests
<1>3. replied[q] = {}
  BY <1>2 DEF HandlerInv, HandledAlone
<1>4. /\ [p \in Requests |-> Deliveries(p)]' = [p \in Requests |-> Deliveries(p)]
      /\ {p \in QueueRequests : msg[p] = "deleted"}' = {p \in QueueRequests : msg[p] = "deleted"}
  BY <1>1 DEF Deliveries
<1>5. /\ a = Refused <=> Wanted(q) = {}
      /\ a = Refused \/ Accounts(a, q, Len(DevicesOf(q)))
      /\ a \in Answers
  BY <1>1 DEF PromiseInv, RefusedIsUnwanted, HandlerInv, AnswersInOrder, TypeOK
<1> HIDE DEF q, a
<1>6. Promise!Granted(q) = {i \in Indices(q) : granted[q][i] = 1}
  BY <1>2 DEF Promise!Granted, Indices
<1>7. a = Promise!Reply(q)
  <2>1. CASE Wanted(q) = {}
    BY <1>2, <1>5, <2>1 DEF Promise!Reply
  <2>2. CASE Wanted(q) # {}
    <3>1. Accounts(a, q, Len(DevicesOf(q))) /\ Len(DevicesOf(q)) \in Nat
      BY <1>2, <1>5, <2>2, IndexType
    <3>2. \A i \in Indices(q) : i <= Len(DevicesOf(q))
      BY <3>1 DEF Indices
    <3>3. a.listed = Promise!Granted(q)
      BY <1>6, <3>1, <3>2 DEF Accounts
    <3>4. a.tasks = Cardinality(Promise!Granted(q))
      BY <3>1, <3>3 DEF Accounts
    <3>5. a.errors = Len(DevicesOf(q)) - a.tasks
      BY <1>5, <3>1 DEF Accounts, Answers
    <3>6. a = [tasks |-> a.tasks, errors |-> a.errors, listed |-> a.listed]
      BY <1>5 DEF Answers
    <3> QED BY <1>2, <2>2, <3>3, <3>4, <3>5, <3>6, SameCardinality DEF Promise!Reply
  <2> QED BY <2>1, <2>2
<1>8. Promise!Answer(q)
  BY <1>1, <1>2, <1>3, <1>4, <1>7, AskedStays DEF Promise!Answer, Promise!taskVars
<1> QED BY <1>2, <1>8 DEF q

\* Each step of RequestHandler is one step of RequestPromise or none.
LEMMA PromiseStep ==
  TypeOK /\ HandlerInv /\ PromiseInv /\ [Next]_vars => [Promise!Next]_(Promise!vars)
<1> SUFFICES ASSUME TypeOK, HandlerInv, PromiseInv, [Next]_vars
             PROVE  [Promise!Next]_(Promise!vars)
  OBVIOUS
<1> USE DEF Promise!Next, Promise!Requests
<1>1. ASSUME NEW q \in QueueRequests, NEW w \in Watchers, ReceiveInput(w, q)
      PROVE  Promise!Next
  BY <1>1, ReceiveStep
<1>2. ASSUME NEW q \in RestRequests, NEW w \in RestHandlers, PostRest(w, q)
      PROVE  Promise!Next
  BY <1>2, PostStep
<1>3. ASSUME NEW q \in QueueRequests, PostEvent(q) \/ QueueStep(q)
      PROVE  UNCHANGED Promise!vars
  <2>1. UNCHANGED <<receives, posted, taskVars, replied, done>>
    BY <1>3 DEF PostEvent, QueueStep, Send, VisibilityTimeout, Redrive
  <2>2. \A p \in QueueRequests : msg'[p] = "deleted" <=> msg[p] = "deleted"
    BY <1>3 DEF PostEvent, QueueStep, Send, VisibilityTimeout, Redrive, TypeOK, QueueTypeOK
  <2> QED BY <2>1, <2>2, UnseenStep
<1>4. ASSUME NEW w \in Workers, Reject(w) \/ FinishLoop(w) PROVE Promise!Next
  BY <1>4, FinishStep DEF Requests
<1>5. ASSUME NEW w \in Workers, ScheduleDevice(w) PROVE Promise!Next
  <2>1. /\ work[w] \in Requests
        /\ \E i \in Wanted(work[w]) : Promise!Make(work[w], i) \/ Promise!Miss(work[w], i)
    BY <1>5, ScheduleStep, AtDeviceType DEF ScheduleDevice, HandlerInv
  <2> QED BY <2>1 DEF Requests
<1>6. ASSUME NEW w \in Workers, DeleteInput(w) PROVE [Promise!Next]_(Promise!vars)
  BY <1>6, LeaveStep
<1>7. ASSUME NEW w \in Workers, Respond(w) PROVE Promise!Next
  BY <1>7, AnswerStep
<1>8. CASE \/ \E w \in Workers : Accept(w) \/ SkipBroadcast(w) \/ Crash(w)
           \/ UNCHANGED vars
  <2>1. UNCHANGED <<receives, posted, taskVars, replied, done, msg>>
    BY <1>8 DEF Accept, SkipBroadcast, Crash, vars, queueVars
  <2> QED BY <2>1, UnseenStep
<1> QED BY <1>1, <1>2, <1>3, <1>4, <1>5, <1>6, <1>7, <1>8 DEF Next, HandlerStep

-----------------------------------------------------------------------------
(* The theorems.                                                           *)

\* In every behaviour the parts of the invariant hold together.
THEOREM HandlerInvariant == Spec => [](TypeOK /\ HandlerInv)
<1>1. Init => TypeOK /\ HandlerInv
  <2> SUFFICES ASSUME Init PROVE TypeOK /\ HandlerInv
    OBVIOUS
  <2>1. TypeOK
    BY AnswerTypes, RequestAssumption DEF Init, QueueInit, TypeOK, QueueTypeOK, MessageStates, Counts
  <2>2. CopiesAndReady
    <3> SUFFICES ASSUME NEW q \in Requests, NEW i \in Indices(q)
                 PROVE  /\ granted[q][i] <= made[q][i]
                        /\ made[q][i] + Cardinality(Ready(q, i)) <= Deliveries(q)
      BY DEF CopiesAndReady
    <3>1. Ready(q, i) = {}
      BY RequestAssumption DEF Init, Ready
    <3>2. made[q][i] = 0 /\ granted[q][i] = 0 /\ Deliveries(q) = 0
      BY DEF Init, QueueInit, Deliveries
    <3> QED BY <3>1, <3>2, FS_EmptySet
  <2>3. DeletedIsDone /\ BroadcastStandsAlone /\ AnswerAddsUp
    BY DEF Init, QueueInit, DeletedIsDone, BroadcastStandsAlone, AnswerAddsUp
  <2>4. WorkInOrder /\ HandledAlone /\ AnswersInOrder
    BY RequestAssumption DEF Init, WorkInOrder, HandledAlone, AnswersInOrder, Requests, Workers
  <2> QED BY <2>1, <2>2, <2>3, <2>4 DEF HandlerInv
<1>2. TypeOK /\ HandlerInv /\ [Next]_vars => TypeOK' /\ HandlerInv'
  BY TypeStep, WorkStep, DeletedStep, BroadcastStep, CopiesStep, AloneStep, AnswersStep DEF HandlerInv
<1> QED BY <1>1, <1>2, PTL DEF Spec

\* The state has the values of its types; in particular no device of a request has
\* more tasks than the queue makes deliveries.
THEOREM TypeCorrect == Spec => []TypeOK
BY HandlerInvariant, PTL

\* What the queue does not deliver again has been handled to its end.
THEOREM DeletedIsDoneHolds == Spec => []DeletedIsDone
<1>1. HandlerInv => DeletedIsDone
  BY DEF HandlerInv
<1> QED BY <1>1, HandlerInvariant, PTL

\* One delivery makes at most one task for a device.
THEOREM CopiesPerDeliveryHolds == Spec => []CopiesPerDelivery
<1>1. TypeOK /\ HandlerInv => CopiesPerDelivery
  <2> SUFFICES ASSUME TypeOK, HandlerInv, NEW q \in Requests, NEW i \in Indices(q)
               PROVE  made[q][i] <= Deliveries(q) /\ (q \in RestRequests => made[q][i] <= 1)
    BY DEF CopiesPerDelivery, Deliveries, Requests
  <2>1. IsFiniteSet(Ready(q, i))
    BY FS_Subset, RequestAssumption DEF Ready
  <2>2. Cardinality(Ready(q, i)) \in Nat
    BY <2>1, FS_CardinalityType
  <2>3. made[q][i] \in Nat
    BY RequestAssumption DEF TypeOK, Counts
  <2>4. Deliveries(q) \in Nat /\ (q \in RestRequests => Deliveries(q) <= 1)
    BY RequestAssumption DEF TypeOK, QueueTypeOK, Deliveries, Requests
  <2>5. made[q][i] + Cardinality(Ready(q, i)) <= Deliveries(q)
    BY DEF HandlerInv, CopiesAndReady
  <2> QED BY <2>2, <2>3, <2>4, <2>5
<1> QED BY <1>1, HandlerInvariant, PTL

\* A task for all devices comes from a request that lists nothing else.
THEOREM BroadcastStandsAloneHolds == Spec => []BroadcastStandsAlone
<1>1. HandlerInv => BroadcastStandsAlone
  BY DEF HandlerInv
<1> QED BY <1>1, HandlerInvariant, PTL

\* The answer to a REST client accounts for every device of its request.
THEOREM AnswerAddsUpHolds == Spec => []AnswerAddsUp
<1>1. HandlerInv => AnswerAddsUp
  BY DEF HandlerInv
<1> QED BY <1>1, HandlerInvariant, PTL

\* No device of a refused request has a task, a worker has tried the devices it has
\* passed, and a request that is done had all its devices tried.
THEOREM PromiseInvariant == Spec => []PromiseInv
<1>1. Init => PromiseInv
  BY RequestAssumption DEF Init, PromiseInv, MadeIsWanted, DoneIsTried, TriedInOrder,
     RefusedIsUnwanted, Workers, Requests
<1>2. TypeOK /\ HandlerInv /\ PromiseInv /\ [Next]_vars => PromiseInv'
  BY MadeStep, DoneStep, HasTriedStep, RefusedStep DEF PromiseInv
<1> QED BY <1>1, <1>2, HandlerInvariant, PTL DEF Spec

\* To those who request tasks the queue, the workers, their crashes and redeliveries
\* are RequestPromise.
THEOREM KeepsPromiseHolds == Spec => KeepsPromise
<1>1. Init => Promise!Init
  <2> SUFFICES ASSUME Init PROVE Promise!Init
    OBVIOUS
  <2>1. TypeOK
    BY AnswerTypes, RequestAssumption DEF Init, QueueInit, TypeOK, QueueTypeOK, MessageStates, Counts
  <2>2. \A q \in Requests : /\ Len(DevicesOf(q)) \in Nat
                            /\ Wanted(q) \subseteq Nat /\ Wanted(q) \subseteq Indices(q)
    BY <2>1, IndexType, WantedType
  <2>3. \A q \in Requests : Deliveries(q) = 0
    BY DEF Init, QueueInit, Deliveries
  <2>4. {q \in QueueRequests : msg[q] = "deleted"} = {}
    BY DEF Init, QueueInit
  <2>5. /\ made = [q \in Requests |-> [i \in 1..Len(DevicesOf(q)) |-> 0]]
        /\ granted = made
        /\ missed = [q \in Requests |-> {}]
        /\ done = {}
        /\ replied = [q \in RestRequests |-> {}]
    BY DEF Init, Indices
  <2> QED BY <2>2, <2>3, <2>4, <2>5 DEF Promise!Init, Promise!Requests, Requests, Indices
<1> QED BY <1>1, PromiseStep, HandlerInvariant, PromiseInvariant, PTL
        DEF Spec, KeepsPromise, Promise!Spec
=============================================================================
