SPECIFICATION Spec
CONSTANTS
    None = none
    t1 = t1
    t2 = t2
    r1 = r1
    Tasks <- OneTask
    Replicas <- OneReplica
    MayCrash <- NoReplica
    DayLength = 2
    Quantum = 1
    PageSize = 2
    MaxClock = 5
INVARIANT DailyTaskIsPeriodic
