SPECIFICATION Spec
CONSTANTS
    e1 = e1
    e2 = e2
    e3 = e3
    w1 = w1
    w2 = w2
    n1 = n1
    c1 = c1
    c2 = c2
    Producers <- MCTwoEvents
    Flushers <- MCOneWaiter
    Pokers <- MCOnePoker
    Closers <- MCNone
    BytesOf <- MCBytesOf
    MaxEvents = 2
    MaxBytes = 3
    MaxPerRequest = 1
    MaxAttempts = 1
    MayTimeOut = FALSE
    MayReject = FALSE
    MayPanic = FALSE
INVARIANTS
    FlushTruth
