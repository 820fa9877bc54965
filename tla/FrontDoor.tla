------------------------------ MODULE FrontDoor ------------------------------
(***************************************************************************)
(* What comes into one replica from outside: messages of devices by MQTT   *)
(* and requests of services by REST.  Both sides validate access tokens    *)
(* with the one table of signing keys.                                     *)
(***************************************************************************)
EXTENDS DeviceMessages, RestApi

ASSUME FrontDoorAssumption ==
    /\ Users = Deliveries \cup RestRequests
    /\ Deliveries \cap RestRequests = {}

vars == <<keyVars, messageVars, restVars>>

TypeOK == KeysTypeOK /\ MessagesTypeOK /\ RestTypeOK

Init == KeysInit /\ MessagesInit /\ RestInit

\* Nothing is left to do: all that came in has been dealt with, or the runtime has
\* ended the process. It is only here that the model may stop.
Finished ==
    /\ \/ ~alive
       \/ /\ \A d \in Deliveries : at[d] = "done"
          /\ \A h \in RestRequests : stage[h] = "done"
    /\ UNCHANGED vars

Next ==
    \/ \E d \in Deliveries : MessageStep(d) /\ UNCHANGED restVars
    \/ \E h \in RestRequests : RestStep(h) /\ UNCHANGED messageVars
    \/ \E u \in Users : KeyStep(u) /\ UNCHANGED <<messageVars, restVars>>
    \/ Rotate /\ UNCHANGED <<messageVars, restVars>>
    \/ Finished

Spec == Init /\ [][Next]_vars

-----------------------------------------------------------------------------
\* The counters of both sides account for what came in: however the handlers, the
\* refreshes of the keys and the failures interleave, what is received, answered or
\* refused is counted once.
CountersAddUp == MessagesAddUp /\ RequestsAddUp

\* What carries the properties of the two sides, step by step.
FrontDoorInv ==
    /\ RefusalHasACause /\ RefreshIsWhole
    /\ EventReachesItsService /\ UrlsAreRouted
    /\ ConfigEventIsDoubled /\ DoubledInOrder
    /\ ChangeNeedsAppToken /\ TokenIsChecked
    /\ CountersAddUp /\ NoAnswerYet
=============================================================================
