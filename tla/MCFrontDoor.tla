----------------------------- MODULE MCFrontDoor -----------------------------
(* Instances of FrontDoor for TLC. *)
EXTENDS FrontDoor, TLC

CONSTANTS d1, d2, h1, k1, k2, k3, nokey, s1, s2, stranger, x1, x2, notopic, notoken, x3, a1, a2

TwoDeliveries == {d1, d2}
SwappedDeliveries == Permutations(TwoDeliveries)
OneRequest == {h1}
ThreeUsers == {d1, d2, h1}

MCKeys == {k1, k2, k3}
MCKeySets == {{k1, k2}, {k3}}
MCBad == {k3}
MCOther == {k2}

\* The second service has no topic for service messages.
MCServices == {s1, s2}
MCTopics == {x1, x2, x3}
MCRoutes == s1 :> [response |-> x1, service |-> x2] @@ s2 :> [response |-> x3, service |-> notopic]
MCOwner == s1 :> a1 @@ s2 :> a2

Token(k, t) == [key |-> k, sound |-> TRUE, typ |-> t]
MCMessages == {
    [kind |-> "service", valid |-> TRUE, token |-> Token(k1, "device"), service |-> s1, config |-> TRUE],
    [kind |-> "response", valid |-> TRUE, token |-> Token(k1, "device"), service |-> s2, config |-> FALSE],
    [kind |-> "service", valid |-> FALSE, token |-> Token(nokey, "app"), service |-> s2, config |-> FALSE],
    [kind |-> "service", valid |-> TRUE, token |-> Token(k1, "device"), service |-> stranger, config |-> FALSE]}

MCRequests == {
    [op |-> "create", protobuf |-> TRUE, token |-> Token(k1, "app"), params |-> TRUE],
    [op |-> "remove", protobuf |-> FALSE, token |-> Token(k1, "device"), params |-> TRUE],
    [op |-> "get", protobuf |-> FALSE, token |-> notoken, params |-> TRUE],
    [op |-> "list", protobuf |-> FALSE, token |-> notoken, params |-> FALSE],
    [op |-> "list", protobuf |-> FALSE, token |-> notoken, params |-> TRUE]}
=============================================================================
