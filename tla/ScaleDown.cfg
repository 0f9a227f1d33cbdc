\* Two runners whose pods start at once or never do, and caches one tick behind.
SPECIFICATION FairSpec
CONSTANTS
    Runners = {r1, r2}
    MinReplicas = 1
    MaxReplicas = 2
    Grace = 2
    Lag = 1
    MinClaim = 0
    MaxWait = 1
    MaxPull = 1
    Horizon = 2
PROPERTIES BusyNeverKilled PullingSpared StuckTrimmed
CHECK_DEADLOCK FALSE
