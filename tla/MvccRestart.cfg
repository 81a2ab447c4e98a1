SPECIFICATION SpecCrash
CONSTANTS
    Sessions = {s1, s2}
    MaxRid = 1
    MaxId = 6
    MaxOps = 1
    MaxCrashes = 1
INVARIANTS SeesCommitted
SYMMETRY Symmetry
