\* Two callbacks at a time, one publisher, two attempts per call, one expiry.
CONSTANTS
    p1 = p1  c1 = c1  c2 = c2
    Publishers <- OnePublisher
    Callbacks <- TwoCallbacks
    RetryCount = 2
    MaxExpiries = 1
SPECIFICATION FairSpec
INVARIANTS
    NoDeadlock
    OneManagerRuns
    AnonymousIsReplaced
PROPERTIES
    PublishReturns
    ConnectionReturns
CHECK_DEADLOCK FALSE
