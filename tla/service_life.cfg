\* A goroutine of the engine, one that watches a queue, a REST handler; two services.
CONSTANTS
    l1 = l1  l2 = l2  h1 = h1  s1 = s1  s2 = s2  noservice = noservice
    Loops <- TwoLoops
    Watchers <- OneWatcher
    Handlers <- OneHandler
    Configured <- TwoServices
    NoService = noservice
SPECIFICATION FairLife
INVARIANTS
    SessionIsSound
    NoDeadlock
    ReadyWhenServing
    
PROPERTIES
    QueriesAreServed
    ShutdownEnds
CHECK_DEADLOCK FALSE
