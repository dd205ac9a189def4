SPECIFICATION Spec
CONSTANTS
    Bytes = {0, 1, 2, 3}
    ByteBits = 2
    EncLength <- CodeLengths
    EncPattern <- CodePatterns
    Dec <- JumpTable
    Path <- Paths
    Sources <- Payloads
    Rooms = {1, 2, 3, 4, 5, 7}
    Counts = {0, 1, 2, 3, 5, 8, 11, 16}
    Capacities = {0, 1, 2, 3, 4, 6}
CHECK_DEADLOCK FALSE
INVARIANTS
    TypeOK
    RoundTrip
    OverrunRejected
    RouterBufferSuffices
