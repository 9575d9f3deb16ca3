CONSTANTS
    MaxRetries = 1
    MaxJobs = 2
    NAgents = 1
    RunLag = 1
    KubeLag = 1
    MaxFaults = 0
SPECIFICATION FairSpec
CHECK_DEADLOCK FALSE
PROPERTIES
    PolicyGoneOnceTerminal
