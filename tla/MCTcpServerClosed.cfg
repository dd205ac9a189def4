\* The process may have exited: no deadlock check.
SPECIFICATION Spec
CONSTANTS
    Conns = {c1, c2, c3}
    NoConn = NoConn
    MaxServerConnections = 1
    HasReadDeadline = FALSE
    TimeoutExpires = TRUE
PROPERTY ClosedChannelStopsProcessing
CHECK_DEADLOCK FALSE
