\* One task, two replicas: redelivery, conflicting replies, removal.
CONSTANTS
    t1 = t1  t2 = t2  r1 = r1  r2 = r2  none = none
    Tasks <- OneTask
    Replicas <- TwoReplicas
    BroadcastTasks <- NoBroadcast
    MaxReceives = 2
    MaxReplies = 2
    NoTask = none
    NoReply = none
SPECIFICATION Spec
SYMMETRY ReplicaSymmetry
INVARIANTS
    TypeOK
    NoLostDispatch
    DispatchIsRecorded
    OutcomesAreTheDevices
    ConsignmentNotAheadOfTask
PROPERTIES
    RemovedWhenQuietIsFinal
    OutcomeSettles
    KeepsPromise
CHECK_DEADLOCK FALSE
