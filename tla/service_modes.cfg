SPECIFICATION FairSpec
CONSTANTS
    c1 = c1
    c2 = c2
    NumThreads = 2
    Controllers = {c1, c2}
    Modes <- AllModes
    MaxCalls = 4
    MaxPosts = 2
INVARIANTS
    WorkersStay
    StopQuiesces
    NoTerminate
PROPERTIES
    StartReturns
    StopReturns
    HandlersRun
\* A stopped service, or one whose threads are gone, takes no step.
CHECK_DEADLOCK FALSE
