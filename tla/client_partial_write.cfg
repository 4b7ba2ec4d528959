SPECIFICATION Spec
CONSTANTS
    a = a
    b = b
    Threads = {a}
    Modes <- Partial
    Sizes = {2}
    SendLimit = 0
    Width = 16
    MaxCalls = 2
    MaxReads = 0
    MaxBytes = 6
INVARIANTS
    CarriedOnce
\* A client that nobody calls and whose peer is silent takes no step.
CHECK_DEADLOCK FALSE
