\* Two runners over time, one worker, one runner kept: none is kept forever, or deleted
\* with a job on record.
SPECIFICATION FairSpec
CONSTANTS
    Runners = {r1, r2}
    Workers = 1
    MinRunners = 1
    Jobs = TRUE
INVARIANT TypeOK
PROPERTIES NoneIdlesForever RecordedClaimKept
CHECK_DEADLOCK FALSE
