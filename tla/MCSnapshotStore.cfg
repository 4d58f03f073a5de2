SPECIFICATION Spec
CONSTANTS
    w1 = w1
    w2 = w2
    flag = flag
    segment = segment
    a = a
    b = b
    Writers <- MCWriters
    FlagKeys <- MCFlagKeys
    SegmentIds <- MCSegmentIds
    EmptyId = EmptyId
    MinStamp <- MCMinStamp
    MaxStamp = 1
    Bodies <- MCBodies
    Absent = Absent
    DataSets <- MCDataSets
    NoWriter = NoWriter
    NoCall = NoCall
INVARIANTS
    PreparedIsCurrent
    VersionCoversItems
PROPERTIES
    PatchNeverRegresses
    ImplementsAtomicStore
SYMMETRY MCSymmetry
