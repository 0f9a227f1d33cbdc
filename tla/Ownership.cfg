\* A GiteaRunnerSet that is deleted and created again, and a set that may predate references.
SPECIFICATION FairSpec
CONSTANTS
    Runners = {r1, r2}
    MaxParents = 2
    SetUIDs = {1, 2, 3}
    MaxFaults = 1
PROPERTIES OrphansGone ParentServed LiveParentKept
CHECK_DEADLOCK FALSE
