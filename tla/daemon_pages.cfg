SPECIFICATION Spec
CONSTANTS
    None = none
    t1 = t1
    t2 = t2
    r1 = r1
    Tasks <- TwoTasks
    Replicas <- OneReplica
    MayCrash <- OneReplica
    DayLength = 2
    Quantum = 1
    PageSize = 1
    MaxClock = 2
INVARIANTS
    PassCoversDueRuns
    PassNeverRepeats

    
SYMMETRY TaskSymmetry
