\* Two runners and the pods of each, in any order; every row is listed; one failure.
SPECIFICATION FairSpec
CONSTANTS
    Names = {n1, n2}
    MaxPods = 1
    PageSize = 2
    MaxFaults = 1
INVARIANTS SweepInv PassClearsOrphans
PROPERTIES KnownRowKept OrphanSwept
CHECK_DEADLOCK FALSE
