-------------------------- MODULE MCServiceLifecycle --------------------------
(* Instances of ServiceLifecycle for TLC. *)
EXTENDS ServiceLifecycle

CONSTANTS l1, l2, h1, s1, s2, noservice

TwoLoops == {l1, l2}
OneWatcher == {l2}
OneHandler == {h1}
TwoServices == {s1, s2}
=============================================================================
