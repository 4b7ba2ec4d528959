SPECIFICATION FairSpec
CONSTANTS
    a = a
    b = b
    Threads = {a, b}
    Modes <- AllModes
    Sizes = {1, 2}
    SendLimit = 3
    Width = 16
    MaxCalls = 4
    MaxReads = 1
    MaxBytes = 4
INVARIANTS
    WholeCarriedOnce
    NoMistakenCompletion
    FlagsAgree
    SendingCounted
PROPERTIES
    ConnectResolves
\* A client that nobody calls and whose peer is silent takes no step.
CHECK_DEADLOCK FALSE
