CONSTANTS
    NAgents = 2
    MaxFaults = 1
SPECIFICATION FairSpec
CHECK_DEADLOCK FALSE
INVARIANTS
    TypeOK
    GatedTextCleared
    OneAfterSignal
    CompletedIsUsable
    ExitTellsStatus
PROPERTIES
    MaliciousSticks
    ProcessEnds
