--------------------------- MODULE MCTaskDispatch ---------------------------
(* Instances of TaskDispatch for TLC. *)
EXTENDS TaskDispatch, TLC

CONSTANTS t1, t2, r1, r2, none

OneTask == {t1}
TwoTasks == {t1, t2}
TwoReplicas == {r1, r2}
OneBroadcast == {t2}
NoBroadcast == {}

ReplicaSymmetry == Permutations({r1, r2})
=============================================================================
