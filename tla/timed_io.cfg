SPECIFICATION FairSpec
CONSTANTS
    Modes <- AllModes
INVARIANTS
    FrameOutlivesHandlers
    ResultExact
PROPERTIES
    TimedReturns
\* A call that has returned, or one that waits for itself, takes no step.
CHECK_DEADLOCK FALSE
