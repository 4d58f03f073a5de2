SPECIFICATION FairSpec
CONSTANTS
    u = u
    c1 = c1
    c2 = c2
    d = d
    MaxConfigDuration = 315360000
    Second = 10
    Snapshots <- MCSnapshots
    NoSnapshot <- MCNoSnapshot
    Candidates <- MCCandidates
    Callers <- MCCallers
    Closers <- MCClosers
    Dropper = d
    MaxCalls = 1
    MaxUses = 1
    MayTimeOut = TRUE
INVARIANTS
    ClosedFallsBack
    EvaluatesPublishedData
    EventIsOfValue
    ObservedOnce
    CloseIsComplete
PROPERTIES
    BuiltIsRunnable
    ClosedSettles
CHECK_DEADLOCK FALSE
