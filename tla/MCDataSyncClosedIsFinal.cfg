SPECIFICATION Spec
CONSTANTS
    c1 = c1
    c2 = c2
    f1 = f1
    f2 = f2
    a = a
    b = b
    FlagKeys <- MCOneFlag
    SegmentIds <- MCNone
    EmptyId = EmptyId
    MinStamp = 0
    MaxStamp = 1
    Bodies <- MCOneBody
    Absent = Absent
    Closers <- MCOneCloser
    Delays <- MCDelays
    MaxFailures = 2
    MaxInbox = 2
    MayTimeOut = TRUE
    MayRefuse = FALSE
    MayPanic = FALSE
    MayCollide = FALSE
INVARIANTS
    ClosedIsFinal
CHECK_DEADLOCK FALSE
