SPECIFICATION FairSpec
CONSTANTS
    c1 = c1
    c2 = c2
    c3 = c3
    Waiters <- MCWaiters
    Patient <- MCPatient
    Worker = Worker
    NoThread = NoThread
INVARIANTS
    EndIsPublished
    PanicIsTold
PROPERTIES
    KeepsPromise
    WaitsEnd
CHECK_DEADLOCK FALSE
