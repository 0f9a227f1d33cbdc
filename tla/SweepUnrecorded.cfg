\* One runner, no failure: its pod registers before its name is recorded.
SPECIFICATION Spec
CONSTANTS
    Names = {n1}
    MaxPods = 1
    PageSize = 1
    MaxFaults = 0
PROPERTY LiveRowKept
CHECK_DEADLOCK FALSE
