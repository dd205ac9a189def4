\* The process may have exited: no deadlock check.
SPECIFICATION FairSpec
CONSTANTS
    Conns = {c1, c2, c3}
    NoConn = NoConn
    MaxServerConnections = 2
    HasReadDeadline = FALSE
    TimeoutExpires = TRUE
INVARIANTS
    TypeOK
    ConnectionsAccounted
    FinishedMeansStopped
PROPERTIES
    ImplementsQueue
    QueuedIsServed
    ShutdownReturns
CHECK_DEADLOCK FALSE
