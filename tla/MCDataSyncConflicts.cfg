SPECIFICATION FairSpec
CONSTANTS
    c1 = c1
    c2 = c2
    f1 = f1
    f2 = f2
    a = a
    b = b
    FlagKeys <- MCOneFlag
    SegmentIds <- MCNone
    EmptyId = EmptyId
    MinStamp = 0
    MaxStamp = 2
    Bodies <- MCTwoBodies
    Absent = Absent
    Closers <- MCTwoClosers
    Delays <- MCDelays
    MaxFailures = 2
    MaxInbox = 1
    MayTimeOut = TRUE
    MayRefuse = TRUE
    MayPanic = TRUE
    MayCollide = TRUE
INVARIANTS
    TypeOK
    DisconnectedIsNotReady
    ConflictIsNotReady
    FullIsOwed
    CloseWaitsForWorker
PROPERTIES
    ConflictsHeal
    ImplementsSynchronizer
    StopsForGood
CHECK_DEADLOCK FALSE
