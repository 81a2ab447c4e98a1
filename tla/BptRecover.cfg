SPECIFICATION Spec
CONSTANTS
    Threads = {t1}
    MaxPages = 4
    LeafMax = 4
    InternalMax = 4
    Unique = TRUE
    InitTree <- TwoLeaves
    Scripts <- ScriptsRecover
    MaxCrashes = 2
INVARIANTS TreeConsistent LogRepeatsTree ScanExact
CHECK_DEADLOCK FALSE
