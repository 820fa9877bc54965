SPECIFICATION Spec
CONSTANTS
    None = none
    t1 = t1
    t2 = t2
    r1 = r1
    Tasks <- TwoTasks
    Replicas <- OneReplica
    MayCrash <- NoReplica
    DayLength = 3
    Quantum = 1
    PageSize = 2
    MaxClock = 2
INVARIANT AcceptedTaskHasRun
