SPECIFICATION Spec
CONSTANTS
    Pools = {1, 2}
    Threads = {t1, t2}
    MaxPageNum = 3
    InitCount <- Count
    InitBits <- Bits
    FrameNum = 4
    MaxLog = 2
    MaxStops = 2
SYMMETRY Symmetry
CHECK_DEADLOCK FALSE
INVARIANTS
    PinsExact
    HolderSeesNewest
    RecoveredExactly
    FrameFound
