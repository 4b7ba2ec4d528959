SPECIFICATION FairSpec
CONSTANTS
    a = a
    b = b
    Threads = {a, b}
    Modes = {"async", "sync"}
    MaxConnects = 2
    MaxCalls = 3
INVARIANTS
    ReadsWhenReady
    OffMeansClosed
PROPERTIES
    DisconnectEnds
    NoHalfOpen
\* Ends that are disconnected, or wait for the application, take no step.
CHECK_DEADLOCK FALSE
