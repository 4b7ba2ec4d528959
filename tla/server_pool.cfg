SPECIFICATION Spec
CONSTANTS
    t1 = t1
    t2 = t2
    s1 = s1
    s2 = s2
    s3 = s3
    s4 = s4
    Threads = {t1, t2}
    Sessions = {s1, s2, s3, s4}
    NoSession = NoSession
    Strand = TRUE
    SharedLane = FALSE
    BindMayFail = TRUE
    MaxCalls = 4
    MaxClients = 2
    MaxFailures = 1
SYMMETRY SessionSymmetry
INVARIANTS
    RegistryExact
    KeepsAccepting
\* A server that is idle, stopped or crashed takes no step.
CHECK_DEADLOCK FALSE
