\* Two sets, any labels, ceilings, runners and queue.
SPECIFICATION Spec
CONSTANTS
    Labels = {a, b}
    Size = 2
    Limits = {1, 2}
    Runners = {r1, r2}
    MaxJobs = 2
INVARIANTS CountedTowardOne PassedOverOnlyFull SizedForItsJobs
CHECK_DEADLOCK FALSE
