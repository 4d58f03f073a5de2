SPECIFICATION FairSpec
CONSTANTS
    c1 = c1
    c2 = c2
    f1 = f1
    f2 = f2
    a = a
    b = b
    FlagKeys <- MCTwoFlags
    SegmentIds <- MCNone
    EmptyId = EmptyId
    MinStamp = 0
    MaxStamp = 3
    Bodies <- MCOneBody
    Absent = Absent
    Closers <- MCNone
    Delays <- MCLongDelays
    MaxFailures = 5
    MaxInbox = 2
    MayTimeOut = FALSE
    MayRefuse = FALSE
    MayPanic = FALSE
    MayCollide = FALSE
INVARIANTS
    ZeroDelaysAreBounded
PROPERTIES
    Converges
