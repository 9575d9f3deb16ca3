SPECIFICATION Spec
CONSTANTS
    Runs = {"r"}
    Servers = {"s"}
    ReportAttempts = 2
    MaxUiServers = 1
    MaxChanges = 2
    MaxBreaks = 1
    MaxLines = 2
    MaxFollows = 2
    MaxQueue = 1
    Panels = {"ask", "how"}
    PlainPanels = {"how"}
    Topics = {"a", "b"}
    MaxQuestions = 2
    MaxSessions = 1
    JournalSize = 2
    MaxInflight = 1
    MaxCalls = 2
    MaxOutages = 1
INVARIANTS TypeOK StoreMirrored LogExact SessionOfRun SlotsBalanced HopsComplete
PROPERTIES CatchesUp AskSettles
CHECK_DEADLOCK FALSE
