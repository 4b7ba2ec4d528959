SPECIFICATION FairSpec
CONSTANTS
    Modes = {"tcp", "tls"}
    Clients = 2
    Messages = 1
    Size = 2
    PartialWrites = TRUE
    MaxBytes = 5
INVARIANT
    Circulates
PROPERTY
    BenchmarkEnds
\* The programs end, or wait for ever as BenchmarkEnds says.
CHECK_DEADLOCK FALSE
