---------------------------- MODULE DeviceMessages ----------------------------
(***************************************************************************)
(* Messages of devices on their way from the broker to the queue of a      *)
(* registered service: the handlers of package mqtt, the routing tables of *)
(* package db, SendMessage with its cache of queue URLs, and for           *)
(* configuration events the queue of the device configuration service.     *)
(* A client of the MQTT library hands messages over one at a time; after a *)
(* reconnect the last one of the old client may still be at work.          *)
(***************************************************************************)
EXTENDS SigningKeys

CONSTANTS
    Deliveries,    \* messages delivered, each with the goroutine it is handled in
    Services,      \* registered services
    Stranger,      \* the service of a token, when it is not a registered one
    Topics,        \* queue topics
    NoTopic,
    Routes,        \* Routes[s][kind]: serviceDispatchTable
    Owner,         \* Owner[s]: the AWS account of the queues of s
    MessagesSent   \* what a delivered message may be

Kinds == {"response", "service"}

Messages == [kind: Kinds, valid: BOOLEAN, token: Tokens,
             service: Services \cup {Stranger}, config: BOOLEAN]

\* Queue URLs are cached by topic alone: services that share a topic name share
\* the account.
ASSUME RouteAssumption ==
    /\ Deliveries \subseteq Users
    /\ Stranger \notin Services
    /\ NoTopic \notin Topics
    /\ Routes \in [Services -> [Kinds -> Topics \cup {NoTopic}]]
    /\ MessagesSent \subseteq Messages
    /\ \A s, v \in Services : \A k, j \in Kinds :
          (Routes[s][k] = Routes[v][j] /\ Routes[s][k] # NoTopic) => Owner[s] = Owner[v]

VARIABLES
    message,       \* message[d]: what is delivered to d
    at,            \* at[d]: next step of the handler
    urls,          \* queueUrlLookupTable: the URL names the account of the queue
    url,           \* url[d]: the URL that the handler of d has
    queues,        \* messages in the queues of services: <<d, account, topic>>
    dcm,           \* messages in the queue of the device configuration service
    count          \* count[kind][c]: the counters of package metrics

messageVars == <<message, at, urls, url, queues, dcm, count>>

Accounts == {Owner[s] : s \in Services}
Counters == {"received", "invalid", "errors", "processed"}
HandlerSteps == {"new", "validate", "task", "route", "lookup", "get", "store", "send",
                 "dcm", "done"}

MessagesTypeOK ==
    /\ message \in [Deliveries -> Messages]
    /\ at \in [Deliveries -> HandlerSteps]
    /\ urls \in SUBSET (Topics \X Accounts)
    /\ url \in [Deliveries -> Accounts \cup {NoTopic}]
    /\ queues \in SUBSET (Deliveries \X Accounts \X Topics)
    /\ dcm \in SUBSET Deliveries
    /\ count \in [Kinds -> [Counters -> Nat]]

MessagesInit ==
    /\ message \in [Deliveries -> MessagesSent]
    /\ at = [d \in Deliveries |-> "new"]
    /\ urls = {}
    /\ url = [d \in Deliveries |-> NoTopic]
    /\ queues = {}
    /\ dcm = {}
    /\ count = [k \in Kinds |-> [c \in Counters |-> 0]]

Service(d) == message[d].service

\* GetServiceQueueTopic, on the topic the message came in.
Topic(d) == IF Service(d) \in Services THEN Routes[Service(d)][message[d].kind] ELSE NoTopic

To(d, s) == at' = [at EXCEPT ![d] = s]
Counted(d, c) == [count EXCEPT ![message[d].kind][c] = @ + 1]

Ends(d, c) == To(d, "done") /\ count' = Counted(d, c)
Goes(d, s) == To(d, s) /\ UNCHANGED count

-----------------------------------------------------------------------------
\* The message is decoded, and its envelope is checked.
ReceiveMessage(d) ==
    /\ alive
    /\ at[d] = "new"
    /\ IF message[d].valid
       THEN /\ To(d, "validate")
            /\ count' = Counted(d, "received")
            /\ StartValidation(d, message[d].token)
       ELSE /\ To(d, "done")
            /\ count' = [count EXCEPT ![message[d].kind]["received"] = @ + 1,
                                     ![message[d].kind]["invalid"] = @ + 1]
            /\ UNCHANGED keyVars
    /\ UNCHANGED <<message, urls, url, queues, dcm>>

ValidateDeviceToken(d) ==
    /\ alive
    /\ at[d] = "validate"
    /\ \/ /\ Accepts(d, message[d].token, "device")
          /\ Goes(d, IF message[d].kind = "response" THEN "task" ELSE "route")
       \/ Refuses(d, message[d].token, "device") /\ Ends(d, "errors")
    /\ UNCHANGED <<keyVars, message, urls, url, queues, dcm>>

\* A response is about a task of the service, whose tables are updated (see
\* TaskDispatch); or it is none of it.
HandleResponse(d) ==
    /\ alive
    /\ at[d] = "task"
    /\ Goes(d, "route") \/ Ends(d, "errors")
    /\ UNCHANGED <<keyVars, message, urls, url, queues, dcm>>

Route(d) ==
    /\ alive
    /\ at[d] = "route"
    /\ IF Topic(d) = NoTopic THEN Ends(d, "errors") ELSE Goes(d, "lookup")
    /\ UNCHANGED <<keyVars, message, urls, url, queues, dcm>>

-----------------------------------------------------------------------------
(* SendMessage.                                                            *)

\* Does another handler write the table of URLs now?
UrlsAreWritten(d) == \E e \in Deliveries \ {d} : at[e] = "store"

LookUpUrl(d) ==
    /\ alive
    /\ at[d] = "lookup"
    /\ \/ /\ \E a \in Accounts :
              /\ <<Topic(d), a>> \in urls
              /\ url' = [url EXCEPT ![d] = a]
              /\ Goes(d, "send")
          /\ UNCHANGED alive
       \/ /\ \A a \in Accounts : <<Topic(d), a>> \notin urls
          /\ Goes(d, "get")
          /\ UNCHANGED <<alive, url>>
       \/ UrlsAreWritten(d) /\ Fatal(<<at, count, url>>)
    /\ UNCHANGED <<KeyStateButAlive, message, urls, queues, dcm>>

\* GetQueueUrl.
GetUrl(d) ==
    /\ alive
    /\ at[d] = "get"
    /\ \/ Goes(d, "store") /\ url' = [url EXCEPT ![d] = Owner[Service(d)]]
       \/ Ends(d, "errors") /\ UNCHANGED url
    /\ UNCHANGED <<keyVars, message, urls, queues, dcm>>

\* Mutant: the URL is kept for every topic.
StoreUrlForAll(d) ==
    /\ alive
    /\ at[d] = "store"
    /\ \/ urls' = urls \cup (Topics \X {url[d]}) /\ Goes(d, "send") /\ UNCHANGED alive
       \/ UrlsAreWritten(d) /\ Fatal(<<at, count, urls>>)
    /\ UNCHANGED <<KeyStateButAlive, message, url, queues, dcm>>

StoreUrl(d) ==
    /\ alive
    /\ at[d] = "store"
    /\ \/ urls' = urls \cup {<<Topic(d), url[d]>>} /\ Goes(d, "send") /\ UNCHANGED alive
       \/ UrlsAreWritten(d) /\ Fatal(<<at, count, urls>>)
    /\ UNCHANGED <<KeyStateButAlive, message, url, queues, dcm>>

Put(d) == queues' = queues \cup {<<d, url[d], Topic(d)>>}

Delivered(d) ==
    IF message[d].kind = "service" /\ message[d].config
    THEN Goes(d, "dcm")
    ELSE Ends(d, "processed")

\* Mutant: the error of a configuration event is only logged.
SendLoggingError(d) ==
    /\ alive
    /\ at[d] = "send"
    /\ \/ Put(d) /\ Delivered(d)
       \/ (Put(d) \/ UNCHANGED queues) /\ (IF message[d].config THEN Delivered(d) ELSE Ends(d, "errors"))
    /\ UNCHANGED <<keyVars, message, urls, url, dcm>>

\* A send that reported an error may have put the message there.
SendMessage(d) ==
    /\ alive
    /\ at[d] = "send"
    /\ \/ Put(d) /\ Delivered(d)
       \/ (Put(d) \/ UNCHANGED queues) /\ Ends(d, "errors")
    /\ UNCHANGED <<keyVars, message, urls, url, dcm>>

\* sendConfigEventMessageToDcm, on a queue whose URL is known from the start.
SendToDcm(d) ==
    /\ alive
    /\ at[d] = "dcm"
    /\ \/ dcm' = dcm \cup {d} /\ Ends(d, "processed")
       \/ dcm' \in {dcm, dcm \cup {d}} /\ Ends(d, "errors")
    /\ UNCHANGED <<keyVars, message, urls, url, queues>>

MessageStep(d) ==
    \/ ReceiveMessage(d) \/ ValidateDeviceToken(d) \/ HandleResponse(d)
    \/ Route(d) \/ LookUpUrl(d) \/ GetUrl(d) \/ StoreUrl(d)
    \/ SendMessage(d) \/ SendToDcm(d)

-----------------------------------------------------------------------------
(* Properties.                                                             *)

\* A message is only ever put in the queue, and in the account, of the service that
\* manages its device, although URLs are cached by topic and by whoever came first.
EventReachesItsService ==
    \A e \in queues : e[2] = Owner[Service(e[1])] /\ e[3] = Topic(e[1])

InQueue(d) == \E e \in queues : e[1] = d

\* A configuration event that the device configuration service gets is in the queue
\* of its own service as well, also when one of the sends fails.
ConfigEventIsDoubled == \A d \in dcm : InQueue(d) /\ message[d].config

InHand(k) == {d \in Deliveries : message[d].kind = k /\ at[d] \notin {"new", "done"}}

\* Each message received is in hand, or counted once as what became of it.
MessagesAddUp ==
    \A k \in Kinds :
        count[k]["received"] =
            count[k]["invalid"] + count[k]["errors"] + count[k]["processed"]
            + Cardinality(InHand(k))

\* A URL in the table is that of a service with the topic, hence of every service
\* with it; a handler has the one of its own service.
UrlsAreRouted ==
    /\ \A x \in Topics, a \in Accounts : <<x, a>> \in urls =>
          \E s \in Services, k \in Kinds : Routes[s][k] = x /\ Owner[s] = a
    /\ \A d \in Deliveries :
          /\ at[d] \in {"lookup", "get", "store", "send"} => Topic(d) # NoTopic
          /\ at[d] \in {"store", "send"} => url[d] = Owner[Service(d)]

DoubledInOrder == \A d \in Deliveries : at[d] = "dcm" => InQueue(d) /\ message[d].config
=============================================================================
