SPECIFICATION FairSpec
CONSTANTS
    None = none
    t1 = t1
    t2 = t2
    r1 = r1
    Tasks <- OneTask
    Replicas <- OneReplica
    MayCrash <- NoReplica
    DayLength = 2
    Quantum = 1
    PageSize = 1
    MaxClock = 3
PROPERTY RunOfTheDayIsDispatched
