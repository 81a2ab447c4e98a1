SPECIFICATION Spec
CONSTANTS
    Pools = {p1}
    PageNums <- Numbers
    MaxPages = 2
    CloseShared = FALSE
    Faults = {"tear", "data"}
    MaxAdds = 4
    MaxFaults = 1
    MaxCrashes = 2
INVARIANTS RecoveredIntact FileHoldsNewest NewestSurvives
PROPERTIES NeverRegress ImplementsStore
