CONSTANTS
    Period = 2
    MaxWalk = 2
    Limit = 1
    MaxTime = 4
    MaxRuns = 2
    MaxFaults = 1
    MaxTriggers = 1
    Outcomes = {"failed", "mal"}
SPECIFICATION FairSpec
CHECK_DEADLOCK FALSE
INVARIANTS
    TypeOK
PROPERTIES
    NoOverlap
    FiresNeverForgotten
    VerdictOutlivesRun
    FireServed
    TriggerServed
    VerdictMirrored
    HistoryBounded
