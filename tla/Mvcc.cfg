SPECIFICATION Spec
CONSTANTS
    Sessions = {s1, s2}
    MaxRid = 2
    MaxId = 6
    MaxOps = 2
    MaxCrashes = 0
INVARIANTS OwnedMarks  SeesCommitted NoPhantoms
SYMMETRY Symmetry
