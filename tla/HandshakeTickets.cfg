SPECIFICATION Spec
CONSTANTS
    Configs <- MCAuth
    MaxEarly = 0
    MaxData = 0
    MaxSkip = 0
CHECK_DEADLOCK FALSE
INVARIANTS
    TicketsMatch
