CONSTANTS
    Kinds = {"stdio", "sse", "http"}
    MaxRestarts = 2
    NTools = 2
    NFuzz = 2
    NActive = 2
    NProtocol = 3
    RawCases = {1, 3}
    MaxPages = 2
    MaxTries = 2
    MaxNoise = 1
    MaxLate = 1
SPECIFICATION FairSpec
CHECK_DEADLOCK FALSE
INVARIANTS
    TypeOK
    CrashCountedOnce
    FuzzedAfterHandshake
PROPERTIES
    RequestsKept
    DriverEnds
