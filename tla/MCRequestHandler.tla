-------------------------- MODULE MCRequestHandler --------------------------
(* Instances of RequestHandler for TLC. *)
EXTENDS RequestHandler, TLC

CONSTANTS q1, p1, w1, w2, h1, d1, d2, all

Sound(devices) ==
    [decodes |-> TRUE, service |-> TRUE, consignment |-> TRUE, payload |-> TRUE,
     tenant |-> TRUE, devices |-> devices]

\* Two devices; one and a broadcast; a broadcast and one; a broadcast alone,
\* without a tenant; a device without a tenant; a body that does not decode.
MCForms ==
    {Sound(<<d1, d2>>), Sound(<<d1, all>>), Sound(<<all, d2>>),
     [Sound(<<all>>) EXCEPT !.tenant = FALSE],
     [Sound(<<d1>>) EXCEPT !.tenant = FALSE],
     [Sound(<<d1>>) EXCEPT !.decodes = FALSE]}

OneQueued == {q1}
OnePosted == {p1}
MCDevices == {d1, d2}
TwoWatchers == {w1, w2}
OneHandler == {h1}
=============================================================================
