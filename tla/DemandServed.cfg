\* Two jobs, one runner at a time, one mishap anywhere.
SPECIFICATION FairSpec
CONSTANTS
    MinRunners = 0
    MaxRunners = 1
    Jobs = 2
    Runners = {r1, r2}
    MaxMishaps = 1
INVARIANTS TypeOK RestsWhenServed
PROPERTIES SettledWhenMet JobsServed
CHECK_DEADLOCK FALSE
