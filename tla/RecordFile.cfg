SPECIFICATION Spec
CONSTANTS
    Threads = {t1, t2}
    Capacity = 2
    MaxPages = 2
    MaxLog = 7
    MaxScans = 1
    MaxCrashes = 1
SYMMETRY Symmetry
CHECK_DEADLOCK FALSE
INVARIANTS
    RecordsAsLogged
    FreePagesKnown
    ScanComplete
    NoWaitCycle
