SPECIFICATION FairSpec
CONSTANTS
    a = a
    b = b
    Threads = {a, b}
    Sizes = {1}
    SendLimit = 0
    ReceiveLimit = 2
    ReceiveBufferSize = 1
    SharedLane = FALSE
    MaxSends = 3
    MaxDisconnects = 1
    MaxReceives = 0
    MaxBytesReceived = 1
INVARIANTS
    SendInv
    NoLostWakeup
    LaneSilent
    ReadPinned
PROPERTIES
    FlushPinned
    StreamSpec
    Delivery
    Teardown
\* A session that is idle or gone waits for its peer.
CHECK_DEADLOCK FALSE
