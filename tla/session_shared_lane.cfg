SPECIFICATION Spec
CONSTANTS
    a = a
    b = b
    Threads = {a, b}
    Sizes = {1, 2}
    SendLimit = 2
    ReceiveLimit = 2
    ReceiveBufferSize = 1
    SharedLane = TRUE
    MaxSends = 2
    MaxDisconnects = 1
    MaxReceives = 1
    MaxBytesReceived = 3
SYMMETRY ThreadSymmetry
INVARIANTS
    TypeOK
    StreamIntegrity
    Accounting
    BuffersBounded
    ConnectFirst
    DisconnectLast
PROPERTIES
    NoOverlappingWrites
\* A session that is idle or gone waits for its peer.
CHECK_DEADLOCK FALSE
