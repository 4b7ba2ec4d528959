SPECIFICATION FairSpec
CONSTANTS
    t1 = t1
    t2 = t2
    s1 = s1
    s2 = s2
    s3 = s3
    s4 = s4
    Threads = {t1}
    Sessions = {s1, s2, s3, s4}
    NoSession = NoSession
    Strand = FALSE
    SharedLane = TRUE
    BindMayFail = TRUE
    MaxCalls = 3
    MaxClients = 2
    MaxFailures = 1
INVARIANTS
    OneAccept
PROPERTIES
    StopDrains
    Serves
\* A server that is idle, stopped or crashed takes no step.
CHECK_DEADLOCK FALSE
