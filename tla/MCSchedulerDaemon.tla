-------------------------- MODULE MCSchedulerDaemon --------------------------
(* Instances of SchedulerDaemon for TLC. *)
EXTENDS SchedulerDaemon, TLC

CONSTANTS t1, t2, r1

OneTask == {t1}
TwoTasks == {t1, t2}
OneReplica == {r1}
NoReplica == {}

TaskSymmetry == Permutations({t1, t2})
=============================================================================
