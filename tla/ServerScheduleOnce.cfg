CONSTANTS
    Period = 2
    MaxWalk = 3
    Limit = 1
    MaxTime = 4
    MaxRuns = 2
    MaxFaults = 1
    MaxTriggers = 0
    Outcomes = {"completed", "failed", "mal"}
SPECIFICATION Spec
CHECK_DEADLOCK FALSE
INVARIANTS
    FiresOnce
