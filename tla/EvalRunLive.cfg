CONSTANTS
    MaxRetries = 0
    MaxJobs = 2
    NAgents = 1
    RunLag = 1
    KubeLag = 1
    MaxFaults = 1
SPECIFICATION FairSpec
CHECK_DEADLOCK FALSE
PROPERTIES
    RunSettles
    DeletedRunLeavesNothing
