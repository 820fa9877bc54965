\* Two tasks compete for the watchers of two replicas, which may crash;
\* no replies. Liveness (no symmetry).
CONSTANTS
    t1 = t1  t2 = t2  r1 = r1  r2 = r2  none = none
    Tasks <- TwoTasks
    Replicas <- TwoReplicas
    BroadcastTasks <- OneBroadcast
    MaxReceives = 2
    MaxReplies = 0
    NoTask = none
    NoReply = none
SPECIFICATION FairSpec
PROPERTIES
    EventuallyPublished
    QueueDrains
CHECK_DEADLOCK FALSE
