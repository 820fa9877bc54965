---------------------------- MODULE FrontDoor_proofs ----------------------------
(***************************************************************************)
(* Theorems about FrontDoor, for any goroutines, keys, services, routes    *)
(* and messages: what the signing key table without a lock can and cannot  *)
(* spoil, where a device's message ends up, who changes the database, and  *)
(* what the counters say of it all.                                        *)
(***************************************************************************)
EXTENDS FrontDoor, FiniteSetTheorems, TLAPS

\* What a step may do to the keys and to the validations: nothing but perhaps end
\* the process, begin a validation, take one further, or rotate the keys.
KeyEffect ==
    \/ UNCHANGED KeyStateButAlive /\ alive' \in BOOLEAN
    \/ \E u \in Users, token \in Tokens : StartValidation(u, token)
    \/ \E u \in Users : KeyStep(u)
    \/ Rotate

\* Every step is one of these to the keys.
LEMMA KeyEffects == TypeOK /\ [Next]_vars => KeyEffect
<1> SUFFICES ASSUME TypeOK, [Next]_vars PROVE KeyEffect
  OBVIOUS
<1> USE DEF keyVars, KeyStateButAlive, TypeOK
<1>1. ASSUME NEW d \in Deliveries, MessageStep(d) PROVE KeyEffect
  <2>1. CASE ReceiveMessage(d)
    <3>1. message[d].token \in Tokens /\ d \in Users
      BY RouteAssumption DEF MessagesTypeOK, Messages
    <3> QED BY <2>1, <3>1 DEF ReceiveMessage, KeyEffect, KeysTypeOK
  <2>2. CASE LookUpUrl(d) \/ StoreUrl(d)
    BY <2>2 DEF LookUpUrl, StoreUrl, Fatal, KeyEffect, KeysTypeOK
  <2>3. CASE ValidateDeviceToken(d) \/ HandleResponse(d) \/ Route(d) \/ GetUrl(d)
             \/ SendMessage(d) \/ SendToDcm(d)
    BY <2>3 DEF ValidateDeviceToken, HandleResponse, Route, GetUrl, SendMessage, SendToDcm,
       KeyEffect, KeysTypeOK
  <2> QED BY <1>1, <2>1, <2>2, <2>3 DEF MessageStep
<1>2. ASSUME NEW h \in RestRequests, RestStep(h) PROVE KeyEffect
  <2>1. CASE StartRequest(h)
    <3>1. request[h].token \in Tokens \cup {NoToken} /\ h \in Users
      BY RequestAssumption DEF RestTypeOK, Requests
    <3> QED BY <2>1, <3>1 DEF StartRequest, KeyEffect, KeysTypeOK
  <2>2. CASE ValidateAppToken(h) \/ CheckParams(h) \/ CreateTask(h) \/ GetTask(h) \/ ListTasks(h)
             \/ RemoveTask(h)
    BY <2>2 DEF ValidateAppToken, CheckParams, CreateTask, GetTask, ListTasks, RemoveTask,
       KeyEffect, KeysTypeOK
  <2> QED BY <1>2, <2>1, <2>2 DEF RestStep
<1>3. CASE Finished \/ UNCHANGED vars
  BY <1>3 DEF Finished, vars, KeyEffect, KeysTypeOK
<1>4. CASE (\E u \in Users : KeyStep(u)) \/ Rotate
  BY <1>4 DEF KeyEffect
<1> QED BY <1>1, <1>2, <1>3, <1>4 DEF Next

-----------------------------------------------------------------------------
(* Types.                                                                  *)

\* The keys keep their types.
LEMMA KeysType == KeysTypeOK /\ KeyEffect => KeysTypeOK'
<1> SUFFICES ASSUME KeysTypeOK, KeyEffect PROVE KeysTypeOK'
  OBVIOUS
<1> USE DEF KeysTypeOK, CheckSteps, Step
<1>1. CASE UNCHANGED KeyStateButAlive /\ alive' \in BOOLEAN
  BY <1>1 DEF KeyStateButAlive
<1>2. ASSUME NEW u \in Users, NEW token \in Tokens, StartValidation(u, token) PROVE KeysTypeOK'
  BY <1>2 DEF StartValidation, Tokens
<1>3. ASSUME NEW u \in Users, KeyStep(u) PROVE KeysTypeOK'
  <2>1. CASE LookUp(u) \/ FillEnds(u) \/ LookUpAgain(u)
    BY <2>1 DEF LookUp, FillEnds, LookUpAgain, Fatal, KeyStateButAlive
  <2>2. CASE FetchFails(u)
    BY <2>2 DEF FetchFails
  <2>3. CASE Fetch(u)
    BY <2>3, KeyAssumption DEF Fetch
  <2>4. CASE Fill(u)
    <3>1. PICK k \in fetched[u] :
            \/ /\ table' = IF IsRSA(k) /\ Parses(k) THEN table \cup {k} ELSE table
               /\ fetched' = [fetched EXCEPT ![u] = IF Parses(k) THEN @ \ {k} ELSE {}]
               /\ Step(u, IF Parses(k) THEN "fill" ELSE "refused")
               /\ excused' = IF Parses(k) THEN excused ELSE excused \cup {u}
               /\ UNCHANGED <<alive, published, rotations, kid>>
            \/ Fatal(KeyStateButAlive)
      BY <2>4 DEF Fill
    <3>2. k \in Keys
      OBVIOUS
    <3> QED BY <3>1, <3>2 DEF IsRSA, Parses, Fatal, KeyStateButAlive
  <2> QED BY <1>3, <2>1, <2>2, <2>3, <2>4 DEF KeyStep
<1>4. CASE Rotate
  BY <1>4, KeyAssumption DEF Rotate
<1> QED BY <1>1, <1>2, <1>3, <1>4 DEF KeyEffect

\* The topic of a message, when there is one, is one of a registered service.
LEMMA TopicType ==
  ASSUME TypeOK, NEW d \in Deliveries
  PROVE  /\ Topic(d) \in Topics \cup {NoTopic}
         /\ Topic(d) # NoTopic => /\ Service(d) \in Services
                                  /\ Topic(d) = Routes[Service(d)][message[d].kind]
                                  /\ Owner[Service(d)] \in Accounts
BY RouteAssumption DEF TypeOK, MessagesTypeOK, Messages, Topic, Service, Accounts

\* The counters of messages stay numbers.
LEMMA CountType ==
  ASSUME TypeOK, NEW d \in Deliveries, NEW c \in Counters
  PROVE  Counted(d, c) \in [Kinds -> [Counters -> Nat]]
BY DEF TypeOK, MessagesTypeOK, Messages, Counted

\* The messages keep their types; a URL is stored for a topic of a service.
LEMMA MessagesType ==
  ASSUME TypeOK, UrlsAreRouted, NEW d \in Deliveries, MessageStep(d)
  PROVE  MessagesTypeOK'
<1> USE DEF TypeOK, MessagesTypeOK, HandlerSteps, To, Goes
<1>1. \A c \in {"received", "errors", "processed"} : Counted(d, c) \in [Kinds -> [Counters -> Nat]]
  BY CountType DEF Counters
<1>2. CASE ReceiveMessage(d)
  <2>1. message[d].kind \in Kinds
    BY DEF Messages
  <2>2. [count EXCEPT ![message[d].kind]["received"] = @ + 1, ![message[d].kind]["invalid"] = @ + 1]
          \in [Kinds -> [Counters -> Nat]]
    BY <2>1 DEF Counters
  <2> QED BY <1>1, <1>2, <2>2 DEF ReceiveMessage
<1>3. CASE ValidateDeviceToken(d) \/ HandleResponse(d) \/ Route(d)
  BY <1>1, <1>3 DEF ValidateDeviceToken, HandleResponse, Route, Ends
<1>4. CASE LookUpUrl(d)
  BY <1>4 DEF LookUpUrl, Fatal
<1>5. CASE GetUrl(d)
  <2>1. Owner[Service(d)] \in Accounts
    BY <1>5, TopicType DEF GetUrl, UrlsAreRouted
  <2> QED BY <1>1, <1>5, <2>1 DEF GetUrl, Ends
<1>6. CASE StoreUrl(d)
  <2>1. Topic(d) \in Topics /\ url[d] \in Accounts
    BY <1>6, TopicType DEF StoreUrl, UrlsAreRouted
  <2>2. urls' \in SUBSET (Topics \X Accounts)
    <3>1. urls' = urls \/ urls' = urls \cup {<<Topic(d), url[d]>>}
      BY <1>6 DEF StoreUrl, Fatal
    <3>2. <<Topic(d), url[d]>> \in Topics \X Accounts
      BY <2>1
    <3> QED BY <3>1, <3>2
  <2>3. at' \in [Deliveries -> HandlerSteps] /\ UNCHANGED <<message, url, queues, dcm, count>>
    BY <1>6 DEF StoreUrl, Fatal
  <2> QED BY <2>2, <2>3
<1>7. CASE SendMessage(d)
  <2>1. Topic(d) \in Topics /\ url[d] \in Accounts
    BY <1>7, TopicType DEF SendMessage, UrlsAreRouted
  <2>2. queues' \in SUBSET (Deliveries \X Accounts \X Topics)
    BY <1>7, <2>1 DEF SendMessage, Put
  <2>3. at' \in [Deliveries -> HandlerSteps] /\ count' \in [Kinds -> [Counters -> Nat]]
    BY <1>1, <1>7 DEF SendMessage, Delivered, Ends
  <2> QED BY <1>7, <2>2, <2>3 DEF SendMessage
<1>8. CASE SendToDcm(d)
  BY <1>1, <1>8 DEF SendToDcm, Ends
<1> QED BY <1>2, <1>3, <1>4, <1>5, <1>6, <1>7, <1>8 DEF MessageStep

\* A request that is counted for its operation leaves the counters numbers.
LEMMA MetricType ==
  ASSUME RestTypeOK, NEW h \in RestRequests, NEW c \in Classes, Counts(h, c)
  PROVE  metric' \in [Ops -> [Classes -> Nat]]
BY DEF RestTypeOK, Requests, Counts

\* The REST side keeps its types.
LEMMA RestType ==
  ASSUME RestTypeOK, NEW h \in RestRequests, RestStep(h)
  PROVE  RestTypeOK'
<1> DEFINE Answers1(a) == /\ answer' = [answer EXCEPT ![h] = a]
                          /\ stage' = [stage EXCEPT ![h] = "done"]
                          /\ requests' \in {requests, requests + 1}
                          /\ metric' = metric \/ \E c \in Classes : Counts(h, c)
<1>1. ASSUME NEW a \in Answers, Answers1(a), UNCHANGED <<authenticates, request>>,
             row' \in {row, FALSE}, changed' \in {changed, changed \cup {h}}
      PROVE  RestTypeOK'
  <2>1. metric' \in [Ops -> [Classes -> Nat]]
    <3>1. CASE metric' = metric
      BY <3>1 DEF RestTypeOK
    <3>2. ASSUME NEW c \in Classes, Counts(h, c) PROVE metric' \in [Ops -> [Classes -> Nat]]
      BY <3>2, MetricType
    <3> QED BY <1>1, <3>1, <3>2
  <2>2. requests' \in Nat /\ answer' \in [RestRequests -> Answers]
    BY <1>1 DEF RestTypeOK
  <2> QED BY <1>1, <2>1, <2>2 DEF RestTypeOK
<1>2. ASSUME NEW s \in {"auth", "params", "db"}, Proceed(h, s),
             UNCHANGED <<authenticates, request, row, changed>>
      PROVE  RestTypeOK'
  BY <1>2 DEF Proceed, RestTypeOK
<1> USE DEF Answer, Answers, Classes, Unauthorized, InternalError, Answered, Panics
<1>3. CASE StartRequest(h) \/ ValidateAppToken(h) \/ CheckParams(h)
  <2>1. UNCHANGED <<authenticates, request, row, changed>>
    BY <1>3 DEF StartRequest, ValidateAppToken, CheckParams
  <2>2. (\E s \in {"auth", "params", "db"} : Proceed(h, s)) \/ \E a \in Answers : Answers1(a)
    BY <1>3 DEF StartRequest, ValidateAppToken, CheckParams
  <2> QED BY <1>1, <1>2, <2>1, <2>2
<1>4. CASE CreateTask(h)
  <2>1. \E a \in Answers : Answers1(a)
    BY <1>4 DEF CreateTask
  <2> QED BY <1>1, <1>4, <2>1 DEF CreateTask
<1>5. CASE GetTask(h) \/ ListTasks(h)
  <2>1. \E a \in Answers : Answers1(a)
    BY <1>5 DEF GetTask, ListTasks
  <2> QED BY <1>1, <1>5, <2>1 DEF GetTask, ListTasks
<1>6. CASE RemoveTask(h)
  <2>1. \E a \in Answers : Answers1(a)
    BY <1>6 DEF RemoveTask
  <2>2. row' \in {row, FALSE} /\ changed' \in {changed, changed \cup {h}}
    BY <1>6 DEF RemoveTask
  <2> QED BY <1>1, <1>6, <2>1, <2>2 DEF RemoveTask
<1> QED BY <1>3, <1>4, <1>5, <1>6 DEF RestStep

\* Every step keeps the state within its types.
LEMMA TypeStep == TypeOK /\ UrlsAreRouted /\ [Next]_vars => TypeOK'
<1> SUFFICES ASSUME TypeOK, UrlsAreRouted, [Next]_vars PROVE TypeOK'
  OBVIOUS
<1>1. KeysTypeOK'
  BY KeyEffects, KeysType DEF TypeOK
<1>2. MessagesTypeOK'
  <2>1. CASE UNCHANGED messageVars
    BY <2>1 DEF messageVars, TypeOK, MessagesTypeOK
  <2> QED BY <2>1, MessagesType DEF Next, Finished, vars
<1>3. RestTypeOK'
  <2>1. CASE UNCHANGED restVars
    BY <2>1 DEF restVars, TypeOK, RestTypeOK
  <2> QED BY <2>1, RestType DEF Next, Finished, vars, TypeOK
<1> QED BY <1>1, <1>2, <1>3 DEF TypeOK
-----------------------------------------------------------------------------
(* The signing keys.                                                       *)

\* A refresh that another goroutine, the token service or a bad key does not
\* disturb finds the key; everything that disturbs it is on record.
LEMMA KeysStep ==
  TypeOK /\ RefusalHasACause /\ RefreshIsWhole /\ KeyEffect => RefusalHasACause' /\ RefreshIsWhole'
<1> SUFFICES ASSUME KeysTypeOK, RefusalHasACause, RefreshIsWhole, KeyEffect,
                    NEW v \in Users, v \notin excused'
             PROVE  /\ (check[v] = "refused" /\ kid[v] \in published \ (BadKeys \cup OtherKeys))' => FALSE
                    /\ Usable(kid[v])' => /\ (check[v] = "fill" => kid[v] \in table \cup fetched[v])'
                                          /\ (check[v] = "again" => kid[v] \in table)'
  BY DEF RefusalHasACause, RefreshIsWhole, TypeOK
<1> DEFINE Goal == /\ (check[v] = "refused" /\ kid[v] \in published \ (BadKeys \cup OtherKeys))' => FALSE
                   /\ Usable(kid[v])' => /\ (check[v] = "fill" => kid[v] \in table \cup fetched[v])'
                                         /\ (check[v] = "again" => kid[v] \in table)'
<1>1. v \notin excused => /\ ~(check[v] = "refused" /\ kid[v] \in published \ (BadKeys \cup OtherKeys))
                          /\ Usable(kid[v]) => /\ check[v] = "fill" => kid[v] \in table \cup fetched[v]
                                               /\ check[v] = "again" => kid[v] \in table
  BY DEF RefusalHasACause, RefreshIsWhole
<1> USE DEF Usable, IsRSA, Parses, Step
<1>2. CASE UNCHANGED KeyStateButAlive
  BY <1>1, <1>2 DEF KeyStateButAlive
<1>3. ASSUME NEW u \in Users, NEW token \in Tokens, StartValidation(u, token) PROVE Goal
  <2>1. UNCHANGED <<published, table, fetched, excused>>
    BY <1>3 DEF StartValidation
  <2>2. CASE v = u
    <3>1. kid'[v] = token.key /\ check'[v] = (IF token.key = NoKey THEN "refused" ELSE "lookup")
      BY <1>3, <2>2 DEF StartValidation, KeysTypeOK
    <3>2. NoKey \notin published'
      BY <2>1, KeyAssumption DEF KeysTypeOK
    <3> QED BY <3>1, <3>2
  <2>3. CASE v # u
    <3>1. kid'[v] = kid[v] /\ check'[v] = check[v]
      BY <1>3, <2>3 DEF StartValidation, KeysTypeOK
    <3> QED BY <1>1, <2>1, <3>1
  <2> QED BY <2>2, <2>3
<1>4. ASSUME NEW u \in Users, KeyStep(u) PROVE Goal
  <2> USE DEF KeysTypeOK
  <2>1. CASE LookUp(u) \/ FetchFails(u)
    <3>1. UNCHANGED <<published, table, kid, fetched>> /\ excused \subseteq excused'
      BY <2>1 DEF LookUp, FetchFails, Fatal, KeyStateButAlive
    <3>2. \/ check'[v] = check[v]
          \/ check'[v] \in {"found", "fetch"}
          \/ v \in excused'
      BY <2>1 DEF LookUp, FetchFails, Fatal, KeyStateButAlive
    <3> QED BY <1>1, <3>1, <3>2
  <2>2. CASE Fetch(u)
    <3>1. UNCHANGED <<published, kid>> /\ excused \subseteq excused'
      BY <2>2 DEF Fetch
    <3>2. CASE v = u
      <4>1. check'[v] = "fill" /\ fetched'[v] = published
        BY <2>2, <3>2 DEF Fetch
      <4> QED BY <3>1, <4>1
    <3>3. CASE v # u
      <4>1. check'[v] = check[v] /\ check[v] \notin {"fill", "again"}
        BY <2>2, <3>3 DEF Fetch
      <4> QED BY <1>1, <3>1, <4>1
    <3> QED BY <3>2, <3>3
  <2>3. CASE Fill(u)
    <3>1. UNCHANGED <<published, kid>> /\ check[u] = "fill"
      BY <2>3 DEF Fill, Fatal, KeyStateButAlive
    <3>2. PICK k \in fetched[u] :
            \/ /\ table' = IF IsRSA(k) /\ Parses(k) THEN table \cup {k} ELSE table
               /\ fetched' = [fetched EXCEPT ![u] = IF Parses(k) THEN @ \ {k} ELSE {}]
               /\ Step(u, IF Parses(k) THEN "fill" ELSE "refused")
               /\ excused' = IF Parses(k) THEN excused ELSE excused \cup {u}
            \/ UNCHANGED <<table, fetched, check, excused>>
      BY <2>3 DEF Fill, Fatal, KeyStateButAlive
    <3>3. table \subseteq table' /\ excused \subseteq excused'
      BY <3>2
    <3>4. CASE v # u
      <4>1. check'[v] = check[v] /\ fetched'[v] = fetched[v]
        BY <3>2, <3>4
      <4> QED BY <1>1, <3>1, <3>3, <4>1
    <3>5. CASE v = u
      <4>1. \/ check'[v] = "fill" /\ k \notin BadKeys /\ fetched'[v] = fetched[v] \ {k}
               /\ (k \notin OtherKeys => k \in table')
            \/ UNCHANGED <<table, fetched, check, excused>>
        BY <3>1, <3>2, <3>5
      <4> QED BY <1>1, <3>1, <3>3, <3>5, <4>1
    <3> QED BY <3>4, <3>5
  <2>4. CASE FillEnds(u)
    <3>1. UNCHANGED <<published, kid, table, fetched, excused>> /\ fetched[u] = {} /\ check[u] = "fill"
      BY <2>4 DEF FillEnds
    <3>2. check'[v] = (IF v = u THEN "again" ELSE check[v])
      BY <2>4 DEF FillEnds
    <3> QED BY <1>1, <3>1, <3>2
  <2>5. CASE LookUpAgain(u)
    <3>1. UNCHANGED <<published, kid, table, fetched, excused>> /\ check[u] = "again"
      BY <2>5 DEF LookUpAgain, Fatal, KeyStateButAlive
    <3>2. \/ check'[v] = check[v]
          \/ v = u /\ check'[v] = (IF kid[v] \in table THEN "found" ELSE "refused")
      BY <2>5 DEF LookUpAgain, Fatal, KeyStateButAlive
    <3> QED BY <1>1, <3>1, <3>2
  <2> QED BY <1>4, <2>1, <2>2, <2>3, <2>4, <2>5 DEF KeyStep
<1>5. CASE Rotate
  <2>1. check'[v] = "idle"
    BY <1>5 DEF Rotate
  <2> QED BY <2>1
<1> QED BY <1>2, <1>3, <1>4, <1>5 DEF KeyEffect

-----------------------------------------------------------------------------
(* Messages of devices.                                                    *)

\* Two services that share a topic share the account, so the URL that a handler
\* finds under its topic is the one it would have been given.
LEMMA UrlIsTheOwners ==
  ASSUME TypeOK, UrlsAreRouted, NEW d \in Deliveries, Topic(d) # NoTopic,
         NEW a \in Accounts, <<Topic(d), a>> \in urls
  PROVE  a = Owner[Service(d)]
<1>1. /\ Service(d) \in Services /\ Topic(d) \in Topics
      /\ Topic(d) = Routes[Service(d)][message[d].kind]
  BY TopicType
<1>2. PICK s \in Services, k \in Kinds : Routes[s][k] = Topic(d) /\ Owner[s] = a
  BY <1>1 DEF UrlsAreRouted
<1>3. message[d].kind \in Kinds
  BY DEF TypeOK, MessagesTypeOK, Messages
<1> QED BY <1>1, <1>2, <1>3, RouteAssumption

\* Every handler keeps to the queue of its service, and comes to the second queue
\* by the first.
LEMMA MessagesStep ==
  ASSUME TypeOK, UrlsAreRouted, EventReachesItsService, ConfigEventIsDoubled, DoubledInOrder,
         NEW d \in Deliveries, MessageStep(d)
  PROVE  UrlsAreRouted' /\ EventReachesItsService' /\ ConfigEventIsDoubled' /\ DoubledInOrder'
<1> USE DEF To, Goes, Ends
<1>1. /\ message' = message
      /\ \A e \in Deliveries : Topic(e)' = Topic(e) /\ Service(e)' = Service(e)
      /\ \A e \in Deliveries \ {d} : at'[e] = at[e] /\ url'[e] = url[e]
  BY DEF TypeOK, MessagesTypeOK, Topic, Service, MessageStep, ReceiveMessage, ValidateDeviceToken,
     HandleResponse, Route, LookUpUrl, GetUrl, StoreUrl, SendMessage, SendToDcm, Delivered, Fatal
<1>2. UrlsAreRouted'
  <2>1. ASSUME NEW x \in Topics, NEW a \in Accounts, <<x, a>> \in urls'
        PROVE  \E s \in Services, k \in Kinds : Routes[s][k] = x /\ Owner[s] = a
    <3>1. CASE <<x, a>> \in urls
      BY <3>1 DEF UrlsAreRouted
    <3>2. CASE <<x, a>> \notin urls
      <4>1. at[d] = "store" /\ x = Topic(d) /\ a = url[d]
        BY <2>1, <3>2 DEF MessageStep, ReceiveMessage, ValidateDeviceToken, HandleResponse, Route,
           LookUpUrl, GetUrl, StoreUrl, SendMessage, SendToDcm, Delivered, Fatal
      <4>2. a = Owner[Service(d)] /\ Topic(d) # NoTopic
        BY <4>1 DEF UrlsAreRouted
      <4>3. message[d].kind \in Kinds
        BY DEF TypeOK, MessagesTypeOK, Messages
      <4> QED BY <4>1, <4>2, <4>3, TopicType
    <3> QED BY <3>1, <3>2
  <2>2. at'[d] \in {"lookup", "get", "store", "send"} => Topic(d) # NoTopic
    BY DEF TypeOK, MessagesTypeOK, UrlsAreRouted, MessageStep, ReceiveMessage, ValidateDeviceToken,
       HandleResponse, Route, LookUpUrl, GetUrl, StoreUrl, SendMessage, SendToDcm, Delivered, Fatal
  <2>3. at'[d] \in {"store", "send"} => url'[d] = Owner[Service(d)]
    <3>1. CASE LookUpUrl(d)
      <4>1. Topic(d) # NoTopic
        BY <3>1 DEF LookUpUrl, UrlsAreRouted
      <4>2. \/ at'[d] = "get" \/ at'[d] = "lookup"
            \/ \E a \in Accounts : <<Topic(d), a>> \in urls /\ url' = [url EXCEPT ![d] = a]
        BY <3>1 DEF LookUpUrl, Fatal, TypeOK, MessagesTypeOK
      <4> QED BY <4>1, <4>2, UrlIsTheOwners DEF TypeOK, MessagesTypeOK
    <3>2. CASE GetUrl(d)
      BY <3>2 DEF GetUrl, TypeOK, MessagesTypeOK
    <3>3. CASE StoreUrl(d)
      BY <3>3 DEF StoreUrl, Fatal, UrlsAreRouted
    <3>4. CASE \/ ReceiveMessage(d) \/ ValidateDeviceToken(d) \/ HandleResponse(d)
               \/ Route(d) \/ SendMessage(d) \/ SendToDcm(d)
      BY <3>4 DEF ReceiveMessage, ValidateDeviceToken, HandleResponse, Route, SendMessage, SendToDcm,
         Delivered, TypeOK, MessagesTypeOK
    <3> QED BY <3>1, <3>2, <3>3, <3>4 DEF MessageStep
  <2> QED BY <1>1, <2>1, <2>2, <2>3 DEF UrlsAreRouted
<1>3. EventReachesItsService'
  <2>1. CASE SendMessage(d)
    <3>1. queues' \in {queues, queues \cup {<<d, url[d], Topic(d)>>}} /\ url[d] = Owner[Service(d)]
      BY <2>1 DEF SendMessage, Put, UrlsAreRouted
    <3>2. \A e \in queues : e[1] \in Deliveries
      BY DEF TypeOK, MessagesTypeOK
    <3> QED BY <1>1, <3>1, <3>2 DEF EventReachesItsService
  <2>2. CASE ~SendMessage(d)
    <3>1. queues' = queues
      BY <2>2 DEF MessageStep, ReceiveMessage, ValidateDeviceToken, HandleResponse, Route,
         LookUpUrl, GetUrl, StoreUrl, SendToDcm, Fatal
    <3>2. \A e \in queues : e[1] \in Deliveries
      BY DEF TypeOK, MessagesTypeOK
    <3> QED BY <1>1, <3>1, <3>2 DEF EventReachesItsService
  <2> QED BY <2>1, <2>2
<1>4. queues \subseteq queues'
  BY DEF MessageStep, ReceiveMessage, ValidateDeviceToken, HandleResponse, Route, LookUpUrl, GetUrl,
     StoreUrl, SendMessage, Put, SendToDcm, Fatal
<1>5. at'[d] = "dcm" => InQueue(d)' /\ message[d].config
  <2>1. CASE SendMessage(d)
    <3>1. at'[d] = "dcm" => <<d, url[d], Topic(d)>> \in queues' /\ message[d].config
      BY <2>1 DEF SendMessage, Put, Delivered, TypeOK, MessagesTypeOK
    <3> QED BY <3>1 DEF InQueue
  <2>2. CASE ~SendMessage(d)
    BY <2>2 DEF MessageStep, ReceiveMessage, ValidateDeviceToken, HandleResponse, Route,
       LookUpUrl, GetUrl, StoreUrl, SendToDcm, Fatal, TypeOK, MessagesTypeOK, DoubledInOrder, InQueue
  <2> QED BY <2>1, <2>2
<1>6. DoubledInOrder'
  BY <1>1, <1>4, <1>5 DEF DoubledInOrder, InQueue
<1>7. dcm' \subseteq dcm \cup {d} /\ (d \in dcm' /\ d \notin dcm => at[d] = "dcm")
  BY DEF MessageStep, ReceiveMessage, ValidateDeviceToken, HandleResponse, Route, LookUpUrl, GetUrl,
     StoreUrl, SendMessage, SendToDcm
<1>8. ConfigEventIsDoubled'
  BY <1>1, <1>4, <1>7 DEF ConfigEventIsDoubled, DoubledInOrder, InQueue
<1> QED BY <1>2, <1>3, <1>6, <1>8

-----------------------------------------------------------------------------
(* Requests of services.                                                   *)

\* With authentication on, the database is behind the check of the token.
LEMMA RequestStep ==
  ASSUME TypeOK, ChangeNeedsAppToken, TokenIsChecked, NEW h \in RestRequests, RestStep(h)
  PROVE  ChangeNeedsAppToken' /\ TokenIsChecked'
<1> USE DEF TypeOK, RestTypeOK
<1>1. UNCHANGED <<authenticates, request>> /\ \A g \in RestRequests \ {h} : stage'[g] = stage[g]
  BY DEF RestStep, StartRequest, ValidateAppToken, CheckParams, CreateTask, GetTask, ListTasks,
     RemoveTask, Answer, Proceed, Unauthorized, InternalError, Answered, Panics, At
<1>2. changed' \subseteq changed \cup {h} /\ (h \in changed' /\ h \notin changed => stage[h] = "db")
  BY DEF RestStep, StartRequest, ValidateAppToken, CheckParams, CreateTask, GetTask, ListTasks,
     RemoveTask, At
<1>3. authenticates /\ stage'[h] \in {"params", "db"} => HasAppToken(h)
  <2>1. CASE StartRequest(h)
    BY <2>1 DEF StartRequest, Answer, Proceed, Unauthorized
  <2>2. CASE ValidateAppToken(h)
    BY <2>2 DEF ValidateAppToken, Accepts, Proceed, Unauthorized, Answer, TokenIsChecked, HasAppToken
  <2>3. CASE CheckParams(h)
    BY <2>3 DEF CheckParams, Proceed, Answer, TokenIsChecked
  <2>4. CASE CreateTask(h) \/ GetTask(h) \/ ListTasks(h) \/ RemoveTask(h)
    BY <2>4 DEF CreateTask, GetTask, ListTasks, RemoveTask, Answer, InternalError, Answered, Panics
  <2> QED BY <2>1, <2>2, <2>3, <2>4 DEF RestStep
<1>4. authenticates /\ stage'[h] = "auth" => request[h].token # NoToken
  BY DEF RestStep, StartRequest, ValidateAppToken, CheckParams, CreateTask, GetTask, ListTasks,
     RemoveTask, Answer, Proceed, Unauthorized, InternalError, Answered, Panics, At, TokenIsChecked
<1>5. ChangeNeedsAppToken'
  BY <1>1, <1>2 DEF ChangeNeedsAppToken, TokenIsChecked, HasAppToken
<1>6. TokenIsChecked'
  BY <1>1, <1>3, <1>4 DEF TokenIsChecked, HasAppToken
<1> QED BY <1>5, <1>6

-----------------------------------------------------------------------------
(* The counters.                                                           *)

\* What a step of a handler does to its message and the counters: it goes on, takes
\* the message up, finds it invalid, or is done with it.
LEMMA MessageOutcomes ==
  ASSUME TypeOK, NEW d \in Deliveries, MessageStep(d)
  PROVE  /\ UNCHANGED message
         /\ \/ UNCHANGED <<at, count>>
            \/ /\ UNCHANGED count /\ at[d] \notin {"new", "done"}
               /\ \E s \in HandlerSteps \ {"new", "done"} : at' = [at EXCEPT ![d] = s]
            \/ /\ at[d] = "new" /\ at' = [at EXCEPT ![d] = "validate"]
               /\ count' = Counted(d, "received")
            \/ /\ at[d] = "new" /\ at' = [at EXCEPT ![d] = "done"]
               /\ count' = [count EXCEPT ![message[d].kind]["received"] = @ + 1,
                                         ![message[d].kind]["invalid"] = @ + 1]
            \/ /\ at[d] \notin {"new", "done"} /\ at' = [at EXCEPT ![d] = "done"]
               /\ \E c \in {"errors", "processed"} : count' = Counted(d, c)
<1> USE DEF To, Goes, Ends, HandlerSteps
<1>1. CASE ReceiveMessage(d)
  BY <1>1 DEF ReceiveMessage
<1>2. CASE ValidateDeviceToken(d) \/ HandleResponse(d) \/ Route(d) \/ GetUrl(d)
  BY <1>2 DEF ValidateDeviceToken, HandleResponse, Route, GetUrl
<1>3. CASE LookUpUrl(d) \/ StoreUrl(d)
  BY <1>3 DEF LookUpUrl, StoreUrl, Fatal
<1>4. CASE SendMessage(d) \/ SendToDcm(d)
  BY <1>4 DEF SendMessage, SendToDcm, Delivered
<1> QED BY <1>1, <1>2, <1>3, <1>4 DEF MessageStep

\* A message received is in hand until it is counted once more.
LEMMA MessagesCount ==
  ASSUME TypeOK, MessagesAddUp, NEW d \in Deliveries, MessageStep(d)
  PROVE  MessagesAddUp'
<1> DEFINE k == message[d].kind
<1>1. k \in Kinds /\ message' = message
  BY MessageOutcomes DEF TypeOK, MessagesTypeOK, Messages
<1>2. \A j \in Kinds : /\ IsFiniteSet(InHand(j)) /\ Cardinality(InHand(j)) \in Nat
                       /\ \A c \in Counters : count[j][c] \in Nat
  <2> TAKE j \in Kinds
  <2>1. InHand(j) \subseteq Users /\ IsFiniteSet(Users)
    BY RouteAssumption, KeyAssumption DEF InHand
  <2>2. IsFiniteSet(InHand(j))
    BY <2>1, FS_Subset
  <2> QED BY <2>2, FS_CardinalityType DEF TypeOK, MessagesTypeOK
<1>3. ASSUME NEW j \in Kinds
      PROVE  count'[j]["received"] = count'[j]["invalid"] + count'[j]["errors"]
                 + count'[j]["processed"] + Cardinality(InHand(j)')
  <2> DEFINE Sum == count'[j]["received"] = count'[j]["invalid"] + count'[j]["errors"]
                        + count'[j]["processed"] + Cardinality(InHand(j)')
  <2>1. count[j]["received"] = count[j]["invalid"] + count[j]["errors"]
            + count[j]["processed"] + Cardinality(InHand(j))
    BY <1>3 DEF MessagesAddUp
  <2>2. /\ Cardinality(InHand(j)) \in Nat /\ count[j]["received"] \in Nat
        /\ count[j]["invalid"] \in Nat /\ count[j]["errors"] \in Nat
        /\ count[j]["processed"] \in Nat
    BY <1>2, <1>3 DEF Counters
  <2>3. \A e \in Deliveries \ {d} : at'[e] = at[e]
    BY MessageOutcomes DEF TypeOK, MessagesTypeOK
  <2>4. ASSUME k # j PROVE Sum
    <3>1. count'[j] = count[j]
      BY <2>4, MessageOutcomes, <1>1 DEF TypeOK, MessagesTypeOK, Counted
    <3>2. InHand(j)' = InHand(j)
      BY <1>1, <2>3, <2>4 DEF InHand
    <3> QED BY <2>1, <3>1, <3>2
  <2>5. ASSUME k = j, InHand(j)' = InHand(j),
               \/ UNCHANGED count
               \/ count' = [count EXCEPT ![message[d].kind]["received"] = @ + 1,
                                         ![message[d].kind]["invalid"] = @ + 1]
        PROVE  Sum
    <3>1. CASE UNCHANGED count
      BY <2>1, <2>5, <3>1
    <3>2. CASE count' = [count EXCEPT ![message[d].kind]["received"] = @ + 1,
                                      ![message[d].kind]["invalid"] = @ + 1]
      <4>1. /\ count'[j]["received"] = count[j]["received"] + 1
            /\ count'[j]["invalid"] = count[j]["invalid"] + 1
            /\ count'[j]["errors"] = count[j]["errors"]
            /\ count'[j]["processed"] = count[j]["processed"]
        BY <1>3, <2>5, <3>2 DEF TypeOK, MessagesTypeOK, Counters
      <4> HIDE <3>2
      <4> QED BY <2>1, <2>2, <2>5, <4>1
    <3> QED BY <2>5, <3>1, <3>2
  <2>6. ASSUME k = j, at[d] = "new", at' = [at EXCEPT ![d] = "validate"],
               count' = Counted(d, "received")
        PROVE  Sum
    <3>1. InHand(j)' = InHand(j) \cup {d} /\ d \notin InHand(j)
      BY <1>1, <2>3, <2>6 DEF InHand, TypeOK, MessagesTypeOK
    <3>2. Cardinality(InHand(j)') = Cardinality(InHand(j)) + 1
      BY <1>2, <1>3, <3>1, FS_AddElement
    <3>3. /\ count'[j]["received"] = count[j]["received"] + 1
          /\ count'[j]["invalid"] = count[j]["invalid"]
          /\ count'[j]["errors"] = count[j]["errors"]
          /\ count'[j]["processed"] = count[j]["processed"]
      BY <1>3, <2>6 DEF Counted, TypeOK, MessagesTypeOK, Counters
    <3> QED BY <2>1, <2>2, <3>2, <3>3
  <2>7. ASSUME k = j, at[d] \notin {"new", "done"}, at' = [at EXCEPT ![d] = "done"],
               NEW c \in {"errors", "processed"}, count' = Counted(d, c)
        PROVE  Sum
    <3>1. InHand(j)' = InHand(j) \ {d} /\ d \in InHand(j)
      BY <1>1, <2>3, <2>7 DEF InHand, TypeOK, MessagesTypeOK
    <3>2. Cardinality(InHand(j)') = Cardinality(InHand(j)) - 1
      BY <1>2, <1>3, <3>1, FS_RemoveElement
    <3>3. /\ count'[j]["received"] = count[j]["received"]
          /\ count'[j]["invalid"] = count[j]["invalid"]
          /\ \/ /\ count'[j]["errors"] = count[j]["errors"] + 1
                /\ count'[j]["processed"] = count[j]["processed"]
             \/ /\ count'[j]["errors"] = count[j]["errors"]
                /\ count'[j]["processed"] = count[j]["processed"] + 1
      BY <1>3, <2>7 DEF Counted, TypeOK, MessagesTypeOK, Counters
    <3> DEFINE e == count[j]["errors"]  p == count[j]["processed"]
               e1 == count'[j]["errors"]  p1 == count'[j]["processed"]
               n == Cardinality(InHand(j))  n1 == Cardinality(InHand(j)')
               i == count[j]["invalid"]  r == count[j]["received"]
    <3>4. e \in Nat /\ p \in Nat /\ n \in Nat /\ i \in Nat /\ r \in Nat
      BY <2>2
    <3>5. e1 + p1 = e + p + 1 /\ e1 \in Nat /\ p1 \in Nat
      <4> HIDE DEF e, p, e1, p1, n, n1, i, r
      <4>1. (e1 = e + 1 /\ p1 = p) \/ (e1 = e /\ p1 = p + 1)
        BY <3>3 DEF e, p, e1, p1
      <4> QED BY <3>4, <4>1
    <3>6. r = i + e + p + n /\ n1 = n - 1
      BY <2>1, <3>2
    <3>7. ASSUME r = i + e1 + p1 + n1 PROVE Sum
      BY <3>3, <3>7
    <3> HIDE DEF e, p, e1, p1, n, n1, i, r
    <3>8. r = i + e1 + p1 + n1
      BY <3>4, <3>5, <3>6
    <3> QED BY <3>7, <3>8
  <2>8. ASSUME k = j PROVE Sum
    <3>1. ASSUME at' = at PROVE InHand(j)' = InHand(j)
      BY <1>1, <3>1 DEF InHand
    <3>2. ASSUME at[d] \notin {"new", "done"}, NEW s \in HandlerSteps \ {"new", "done"},
                 at' = [at EXCEPT ![d] = s]
          PROVE  InHand(j)' = InHand(j)
      BY <1>1, <2>3, <3>2 DEF InHand, TypeOK, MessagesTypeOK
    <3>3. ASSUME at[d] = "new", at' = [at EXCEPT ![d] = "done"] PROVE InHand(j)' = InHand(j)
      BY <1>1, <2>3, <3>3 DEF InHand, TypeOK, MessagesTypeOK
    <3> HIDE DEF Sum
    <3>4. CASE UNCHANGED <<at, count>>
      BY <2>5, <2>8, <3>1, <3>4
    <3>5. CASE /\ UNCHANGED count /\ at[d] \notin {"new", "done"}
               /\ \E s \in HandlerSteps \ {"new", "done"} : at' = [at EXCEPT ![d] = s]
      BY <2>5, <2>8, <3>2, <3>5
    <3>6. CASE at[d] = "new" /\ at' = [at EXCEPT ![d] = "done"]
               /\ count' = [count EXCEPT ![message[d].kind]["received"] = @ + 1,
                                         ![message[d].kind]["invalid"] = @ + 1]
      BY <2>5, <2>8, <3>3, <3>6
    <3>7. CASE at[d] = "new" /\ at' = [at EXCEPT ![d] = "validate"] /\ count' = Counted(d, "received")
      BY <2>6, <2>8, <3>7
    <3>8. CASE at[d] \notin {"new", "done"} /\ at' = [at EXCEPT ![d] = "done"]
               /\ \E c \in {"errors", "processed"} : count' = Counted(d, c)
      BY <2>7, <2>8, <3>8
    <3> QED BY <3>4, <3>5, <3>6, <3>7, <3>8, MessageOutcomes
  <2> QED BY <2>4, <2>8
<1> QED BY <1>3 DEF MessagesAddUp

\* What a step of a handler does to its request and the counters: it goes on,
\* answers, or panics.
LEMMA RequestOutcomes ==
  ASSUME TypeOK, NEW h \in RestRequests, RestStep(h)
  PROVE  /\ UNCHANGED request /\ stage[h] # "done"
         /\ \/ UNCHANGED <<answer, metric, requests>> /\ \A g \in RestRequests \ {h} : stage'[g] = stage[g]
            \/ Panics(h)
            \/ \E a \in Answers \ {"none", "dropped"} :
                  /\ Answer(h, a)
                  /\ IF a = "401" THEN UNCHANGED metric ELSE \E c \in Classes : Counts(h, c)
<1> USE DEF Answers, Classes, Unauthorized, InternalError, Answered
<1>1. CASE StartRequest(h)
  BY <1>1 DEF StartRequest, Proceed, TypeOK, RestTypeOK
<1>2. CASE ValidateAppToken(h) \/ CheckParams(h)
  BY <1>2 DEF ValidateAppToken, CheckParams, Proceed, TypeOK, RestTypeOK
<1>3. CASE CreateTask(h)
  BY <1>3 DEF CreateTask, At
<1>4. CASE GetTask(h) \/ ListTasks(h)
  BY <1>4 DEF GetTask, ListTasks, At
<1>5. CASE RemoveTask(h)
  <2>1. UNCHANGED request /\ stage[h] # "done"
    BY <1>5 DEF RemoveTask, At
  <2>2. (Answer(h, "200") /\ Counts(h, "responses")) \/ InternalError(h) \/ Panics(h)
    BY <1>5 DEF RemoveTask
  <2> QED BY <2>1, <2>2
<1> QED BY <1>1, <1>2, <1>3, <1>4, <1>5 DEF RestStep

\* A request is counted with its answer, once, and for its operation unless its token
\* was refused.
LEMMA RequestsCount ==
  ASSUME TypeOK, RequestsAddUp, NoAnswerYet, NEW h \in RestRequests, RestStep(h)
  PROVE  RequestsAddUp' /\ NoAnswerYet'
<1> DEFINE Total(o) == metric[o]["responses"] + metric[o]["bad"]
                       + metric[o]["missing"] + metric[o]["internal"]
<1>1. /\ request' = request /\ answer[h] = "none" /\ request[h].op \in Ops
      /\ h \notin WithAnswer /\ \A o \in Ops : h \notin OfOp(o)
  BY RequestOutcomes DEF NoAnswerYet, WithAnswer, OfOp, TypeOK, RestTypeOK, Requests
<1>2. /\ IsFiniteSet(WithAnswer)
      /\ \A o \in Ops : IsFiniteSet(OfOp(o)) /\ Cardinality(OfOp(o)) \in Nat
  <2>1. WithAnswer \subseteq Users /\ IsFiniteSet(Users)
    BY RequestAssumption, KeyAssumption DEF WithAnswer
  <2>2. \A o \in Ops : OfOp(o) \subseteq Users
    BY <2>1 DEF OfOp
  <2> QED BY <2>1, <2>2, FS_Subset, FS_CardinalityType
<1>3. requests \in Nat /\ \A o \in Ops : \A c \in Classes : metric[o][c] \in Nat
  BY DEF TypeOK, RestTypeOK
<1>4. /\ requests = Cardinality(WithAnswer)
      /\ \A o \in Ops : Cardinality(OfOp(o)) = Total(o)
  BY DEF RequestsAddUp
<1>5. ASSUME UNCHANGED <<answer, metric, requests>>, \A g \in RestRequests \ {h} : stage'[g] = stage[g]
      PROVE  RequestsAddUp' /\ NoAnswerYet'
  BY <1>1, <1>5 DEF RequestsAddUp, WithAnswer, OfOp, NoAnswerYet
<1>6. ASSUME stage' = [stage EXCEPT ![h] = "done"], NEW a \in Answers, answer' = [answer EXCEPT ![h] = a]
      PROVE  NoAnswerYet'
  BY <1>6 DEF NoAnswerYet, TypeOK, RestTypeOK
<1>7. CASE Panics(h)
  <2>1. WithAnswer' = WithAnswer /\ \A o \in Ops : OfOp(o)' = OfOp(o)
    BY <1>1, <1>7 DEF Panics, WithAnswer, OfOp, TypeOK, RestTypeOK
  <2>2. RequestsAddUp'
    BY <1>7, <2>1 DEF Panics, RequestsAddUp
  <2> QED BY <1>6, <1>7, <2>2 DEF Panics, Answers
<1>8. ASSUME NEW a \in Answers \ {"none", "dropped"}, Answer(h, a),
             IF a = "401" THEN UNCHANGED metric ELSE \E c \in Classes : Counts(h, c)
      PROVE  RequestsAddUp' /\ NoAnswerYet'
  <2>1. WithAnswer' = WithAnswer \cup {h}
    BY <1>1, <1>8 DEF Answer, WithAnswer, TypeOK, RestTypeOK
  <2>2. requests' = Cardinality(WithAnswer')
    BY <1>1, <1>2, <1>4, <1>8, <2>1, FS_AddElement DEF Answer
  <2>3. ASSUME NEW o \in Ops PROVE Cardinality(OfOp(o)') = Total(o)'
    <3>1. CASE a = "401" \/ request[h].op # o
      <4>1. OfOp(o)' = OfOp(o)
        BY <1>1, <1>8, <3>1 DEF Answer, WithAnswer, OfOp, TypeOK, RestTypeOK
      <4>2. metric'[o] = metric[o]
        BY <1>8, <3>1, <2>3, <1>1 DEF Counts, TypeOK, RestTypeOK
      <4> QED BY <1>4, <2>3, <4>1, <4>2
    <3>2. CASE a # "401" /\ request[h].op = o
      <4>1. OfOp(o)' = OfOp(o) \cup {h}
        BY <1>1, <1>8, <3>2 DEF Answer, WithAnswer, OfOp, TypeOK, RestTypeOK
      <4>2. Cardinality(OfOp(o)') = Cardinality(OfOp(o)) + 1
        BY <1>1, <1>2, <2>3, <4>1, FS_AddElement
      <4>3. PICK c \in Classes : Counts(h, c)
        BY <1>8, <3>2
      <4>4. metric'[o][c] = metric[o][c] + 1 /\ \A e \in Classes \ {c} : metric'[o][e] = metric[o][e]
        BY <2>3, <3>2, <4>3 DEF Counts, TypeOK, RestTypeOK
      <4>5. Total(o)' = Total(o) + 1
        BY <1>3, <2>3, <4>4 DEF Classes
      <4>6. Cardinality(OfOp(o)) = Total(o)
        BY <1>4, <2>3
      <4> QED BY <4>2, <4>5, <4>6
    <3> QED BY <3>1, <3>2
  <2> QED BY <1>6, <1>8, <2>2, <2>3 DEF Answer, RequestsAddUp
<1> QED BY <1>5, <1>7, <1>8, RequestOutcomes

-----------------------------------------------------------------------------
(* The theorems.                                                           *)

\* In every behaviour the parts of the invariant hold on both sides.
THEOREM FrontDoorInvariant == Spec => [](TypeOK /\ FrontDoorInv)
<1>1. Init => TypeOK /\ FrontDoorInv
  <2> SUFFICES ASSUME Init PROVE TypeOK /\ FrontDoorInv
    OBVIOUS
  <2> USE DEF Init
  <2>1. KeysTypeOK /\ RefusalHasACause /\ RefreshIsWhole
    BY KeyAssumption DEF KeysInit, KeysTypeOK, CheckSteps, RefusalHasACause, RefreshIsWhole
  <2>2. MessagesTypeOK
    BY RouteAssumption DEF MessagesInit, MessagesTypeOK, HandlerSteps
  <2>3. EventReachesItsService /\ UrlsAreRouted /\ ConfigEventIsDoubled /\ DoubledInOrder
    BY DEF MessagesInit, EventReachesItsService, UrlsAreRouted, ConfigEventIsDoubled, DoubledInOrder
  <2>4. RestTypeOK /\ ChangeNeedsAppToken /\ TokenIsChecked
    BY RequestAssumption DEF RestInit, RestTypeOK, Answers, ChangeNeedsAppToken, TokenIsChecked
  <2>5. MessagesAddUp
    <3>1. \A k \in Kinds : InHand(k) = {}
      BY DEF MessagesInit, InHand
    <3>2. \A k \in Kinds : \A c \in Counters : count[k][c] = 0
      BY DEF MessagesInit
    <3> QED BY <3>1, <3>2, FS_EmptySet DEF MessagesAddUp, Counters
  <2>6. RequestsAddUp /\ NoAnswerYet
    <3>1. WithAnswer = {} /\ \A o \in Ops : OfOp(o) = {}
      BY DEF RestInit, WithAnswer, OfOp
    <3> QED BY <3>1, FS_EmptySet DEF RestInit, RequestsAddUp, NoAnswerYet, Classes
  <2> QED BY <2>1, <2>2, <2>3, <2>4, <2>5, <2>6 DEF TypeOK, FrontDoorInv, CountersAddUp
<1>2. TypeOK /\ FrontDoorInv /\ [Next]_vars => TypeOK' /\ FrontDoorInv'
  <2> SUFFICES ASSUME TypeOK, FrontDoorInv, [Next]_vars PROVE TypeOK' /\ FrontDoorInv'
    OBVIOUS
  <2>1. TypeOK'
    BY TypeStep DEF FrontDoorInv
  <2>2. RefusalHasACause' /\ RefreshIsWhole'
    BY KeyEffects, KeysStep DEF FrontDoorInv
  <2>3. UrlsAreRouted' /\ EventReachesItsService' /\ ConfigEventIsDoubled' /\ DoubledInOrder'
    <3>1. CASE UNCHANGED messageVars
      BY <3>1 DEF messageVars, FrontDoorInv, UrlsAreRouted, EventReachesItsService,
         ConfigEventIsDoubled, DoubledInOrder, InQueue, Topic, Service
    <3> QED BY <3>1, MessagesStep DEF FrontDoorInv, Next, Finished, vars
  <2>4. ChangeNeedsAppToken' /\ TokenIsChecked'
    <3>1. CASE UNCHANGED restVars
      BY <3>1 DEF restVars, FrontDoorInv, ChangeNeedsAppToken, TokenIsChecked, HasAppToken
    <3> QED BY <3>1, RequestStep DEF FrontDoorInv, Next, Finished, vars
  <2>5. MessagesAddUp'
    <3>1. CASE UNCHANGED messageVars
      BY <3>1 DEF messageVars, FrontDoorInv, CountersAddUp, MessagesAddUp, InHand
    <3> QED BY <3>1, MessagesCount DEF FrontDoorInv, CountersAddUp, Next, Finished, vars
  <2>6. RequestsAddUp' /\ NoAnswerYet'
    <3>1. CASE UNCHANGED restVars
      BY <3>1 DEF restVars, FrontDoorInv, CountersAddUp, RequestsAddUp, WithAnswer, OfOp, NoAnswerYet
    <3> QED BY <3>1, RequestsCount DEF FrontDoorInv, CountersAddUp, Next, Finished, vars
  <2> QED BY <2>1, <2>2, <2>3, <2>4, <2>5, <2>6 DEF FrontDoorInv, CountersAddUp
<1> QED BY <1>1, <1>2, PTL DEF Spec

\* What comes in is counted once, whatever interleaves, fails or panics.
THEOREM CountersAddUpHolds == Spec => []CountersAddUp
<1>1. FrontDoorInv => CountersAddUp
  BY DEF FrontDoorInv
<1> QED BY <1>1, FrontDoorInvariant, PTL

\* The state has the values of its types.
THEOREM TypeCorrect == Spec => []TypeOK
BY FrontDoorInvariant, PTL

\* A published key is missed only if something came in between.
THEOREM RefusalHasACauseHolds == Spec => []RefusalHasACause
<1>1. FrontDoorInv => RefusalHasACause
  BY DEF FrontDoorInv
<1> QED BY <1>1, FrontDoorInvariant, PTL

\* A message is only put in the queue and the account of its service.
THEOREM EventReachesItsServiceHolds == Spec => []EventReachesItsService
<1>1. FrontDoorInv => EventReachesItsService
  BY DEF FrontDoorInv
<1> QED BY <1>1, FrontDoorInvariant, PTL

\* What the configuration service gets, the service of the device has got.
THEOREM ConfigEventIsDoubledHolds == Spec => []ConfigEventIsDoubled
<1>1. FrontDoorInv => ConfigEventIsDoubled
  BY DEF FrontDoorInv
<1> QED BY <1>1, FrontDoorInvariant, PTL

\* With authentication on, only a sound app access token changes the database.
THEOREM ChangeNeedsAppTokenHolds == Spec => []ChangeNeedsAppToken
<1>1. FrontDoorInv => ChangeNeedsAppToken
  BY DEF FrontDoorInv
<1> QED BY <1>1, FrontDoorInvariant, PTL
=============================================================================
