SPECIFICATION Spec
CONSTANTS
    Threads = {t1, t2}
    MaxPages = 9
    LeafMax = 4
    InternalMax = 4
    Unique = FALSE
    InitTree <- FullRoot
    Scripts <- ScriptsHop
    MaxCrashes = 0
INVARIANTS NoLatchCycle
CHECK_DEADLOCK FALSE
