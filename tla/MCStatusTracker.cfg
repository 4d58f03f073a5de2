SPECIFICATION FairSpec
CONSTANTS
    s1 = s1
    s2 = s2
    w1 = w1
    w2 = w2
    Setters <- MCSetters
    Waiters <- MCWaiters
    NoThread = NoThread
    MaxSets = 4
    MayTimeOut = TRUE
INVARIANTS
    ReadyIsInitialized
    NoLostWakeup
PROPERTIES
    WaitersReturn
CHECK_DEADLOCK FALSE
