SPECIFICATION Spec
CONSTANTS
    Threads = {t1, t2}
    MaxPages = 9
    LeafMax = 4
    InternalMax = 4
    Unique = FALSE
    InitTree <- FullRoot
    Scripts <- ScriptsLatch
    MaxCrashes = 0
INVARIANTS TreeConsistent LogRepeatsTree NoLatchCycle
PROPERTIES ChangesLatched
SYMMETRY Symmetry
CHECK_DEADLOCK FALSE
