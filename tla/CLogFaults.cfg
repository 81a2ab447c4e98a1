SPECIFICATION FairSpec
CONSTANTS
    Appenders = {a1, a2}
    MaxEntries = 2
    MaxBytes = 2
    HeaderSize = 1
    PayloadSizes = {1}
    Faults = {"open", "write", "tear", "payload"}
    MaxLsn = 2
    MaxFaults = 1
    MaxCrashes = 1
INVARIANTS LogContiguous StopDrains
PROPERTIES EventuallyFlushed WaitReturns StopTerminates
