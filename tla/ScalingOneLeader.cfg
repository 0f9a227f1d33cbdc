\* One manager that may crash and restart, every cache lagging.
SPECIFICATION Spec
CONSTANTS
    Runners = {r1, r2, r3}
    Managers = {m1}
    MinRunners = 0
    MaxRunners = 2
    MaxQueue = 2
    MaxPolls = 2
    MaxFailovers = 1
    RunnerLag = TRUE
    Turnover = TRUE
SYMMETRY RunnerSymmetry
INVARIANTS ScalingInv
PROPERTIES CeilingOfListed ClaimedOnce ImplementsOncePerPatch
CHECK_DEADLOCK FALSE
