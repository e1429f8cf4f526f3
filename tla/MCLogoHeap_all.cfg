CONSTANTS
    n1 = n1
    n2 = n2
    NIL = NIL
    CONS = "CONS"
    Node = {n1, n2}
    NumGens = 3
    AgeThreshold = 2
    FreedThreshold = 1
    MinFreed = 1
    TankSize = 1
    Kind = {"CONS", "INTT"}
    Field <- Field1
    PtrFields <- MixedFields
    Segment <- SmallSegments
SPECIFICATION FairSpec
INVARIANTS TypeOK HeapPartition NoDangling FullGcExact OldYoungComplete
PROPERTIES CollectorInvisible AllocAnswered
CHECK_DEADLOCK FALSE
