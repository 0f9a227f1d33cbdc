\* One pod that starts, ends, hangs or never runs, and one failed call.
SPECIFICATION FairSpec
CONSTANTS
    Managers = {m1}
    MaxPods = 1
    PageSize = 1
    OtherRows = 0
    PendingTimeout = 1
    StallWindow = 1
    MaxStarts = 0
    MaxCompletions = 0
    MaxFaults = 1
    MaxFailovers = 0
PROPERTIES PhaseForward PendingResolves FinishedTornDown HungTornDown
CHECK_DEADLOCK FALSE
