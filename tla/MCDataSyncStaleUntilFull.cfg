SPECIFICATION Spec
CONSTANTS
    c1 = c1
    c2 = c2
    f1 = f1
    f2 = f2
    a = a
    b = b
    FlagKeys <- MCOneFlag
    SegmentIds <- MCNone
    EmptyId = EmptyId
    MinStamp = 0
    MaxStamp = 2
    Bodies <- MCTwoBodies
    Absent = Absent
    Closers <- MCNone
    Delays <- MCDelays
    MaxFailures = 2
    MaxInbox = 2
    MayTimeOut = FALSE
    MayRefuse = FALSE
    MayPanic = FALSE
    MayCollide = TRUE
INVARIANTS
    StaleUntilFull
