SPECIFICATION Spec
CONSTANTS
    Appenders = {a1, a2}
    MaxEntries = 2
    MaxBytes = 2
    HeaderSize = 1
    PayloadSizes = {1}
    Faults = {"open", "write"}
    MaxLsn = 4
    MaxFaults = 1
    MaxCrashes = 1
SYMMETRY Symmetry
INVARIANTS AckedRecoverable IterateComplete NeverInvalidArgument
PROPERTIES FreshLsns ImplementsWal
