\* A pod replaced under a running runner.
SPECIFICATION Spec
CONSTANTS
    Managers = {m1}
    MaxPods = 2
    PageSize = 2
    OtherRows = 0
    PendingTimeout = 1
    StallWindow = 1
    MaxStarts = 2
    MaxCompletions = 0
    MaxFaults = 0
    MaxFailovers = 0
INVARIANTS StartedOnce
CHECK_DEADLOCK FALSE
