\* Expected to fail: RemovedStaysRemoved.
CONSTANTS
    t1 = t1  t2 = t2  r1 = r1  r2 = r2  none = none
    Tasks <- OneTask
    Replicas <- TwoReplicas
    BroadcastTasks <- NoBroadcast
    MaxReceives = 2
    MaxReplies = 1
    NoTask = none
    NoReply = none
SPECIFICATION Spec
SYMMETRY ReplicaSymmetry
INVARIANTS
    RemovedStaysRemoved
CHECK_DEADLOCK FALSE
