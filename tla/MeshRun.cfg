CONSTANTS
    Schemes = {"socks5", "http", "direct"}
    Conns = {"c1", "c2"}
    Lens = {0, 10}
    MaxOdd = 1
    MaxChars = 6
    Overlap = 2
    GpuRetries = 1
    CpuRetries = 2
    MaxPolls = 1
SPECIFICATION Spec
CHECK_DEADLOCK FALSE
INVARIANTS
    TypeOK
    ScannedWhole
    FaultsTolerated
PROPERTIES
    SocketsReleased
    LayerEnds
