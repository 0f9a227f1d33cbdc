\* A runner claims a job just before the jobs are listed, with two idle siblings.
SPECIFICATION Spec
CONSTANTS
    Runners = {r1, r2, r3}
    Workers = 1
    MinRunners = 1
    Jobs = TRUE
PROPERTY ListedBusyKept
CHECK_DEADLOCK FALSE
