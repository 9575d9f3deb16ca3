CONSTANTS
    MaxRetries = 1
    MaxJobs = 2
    NAgents = 1
    RunLag = 1
    KubeLag = 1
    MaxFaults = 1
SPECIFICATION Spec
CHECK_DEADLOCK FALSE
INVARIANTS
    TypeOK
    CompletedIsEarned
    CoveredUntilTeardown
PROPERTIES
    RetriesNeverForgotten
    JobDeletedBeforeRun
