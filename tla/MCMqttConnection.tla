--------------------------- MODULE MCMqttConnection ---------------------------
(* Instances of MqttConnection for TLC. *)
EXTENDS MqttConnection

CONSTANTS p1, c1, c2

OnePublisher == {p1}
TwoCallbacks == {c1, c2}
=============================================================================
