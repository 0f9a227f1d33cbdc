\* A runner whose pod is replaced once and a restart, caches and conflicts included.
SPECIFICATION Spec
CONSTANTS
    Managers = {m1}
    MaxPods = 2
    PageSize = 2
    OtherRows = 1
    PendingTimeout = 0
    StallWindow = 0
    MaxStarts = 3
    MaxCompletions = 0
    MaxFaults = 0
    MaxFailovers = 1
INVARIANTS LifecycleInv StartedOncePerPod
PROPERTIES OnlyLateRegistration
CHECK_DEADLOCK FALSE
