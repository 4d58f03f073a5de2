SPECIFICATION Spec
CONSTANTS
    e1 = e1
    e2 = e2
    e3 = e3
    w1 = w1
    w2 = w2
    n1 = n1
    c1 = c1
    c2 = c2
    Producers <- MCThreeEvents
    Flushers <- MCOneWaiter
    Pokers <- MCNone
    Closers <- MCOneCloser
    BytesOf <- MCBytesOf
    MaxEvents = 2
    MaxBytes = 3
    MaxPerRequest = 2
    MaxAttempts = 2
    MayTimeOut = TRUE
    MayReject = TRUE
    MayPanic = TRUE
INVARIANTS
    CapacityExact
    FullOnlyByFlushes
    AckedIsNotResent
    GracefulDrains
    FlushTruth
CHECK_DEADLOCK FALSE
