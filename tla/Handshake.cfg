SPECIFICATION FairSpec
CONSTANTS
    Configs <- MCHandshakes
    MaxEarly = 2
    MaxData = 2
    MaxSkip = 1
CHECK_DEADLOCK FALSE
INVARIANTS
    InStep
    NobodyWaits
    Authenticated
    DeliveredIsSent
    TicketsMatchWithoutAuth
    FailureReaches
PROPERTIES
    Completes
