SPECIFICATION Spec
CONSTANTS
    Client = Client
    Server = Server
    SeqLimit = 2
    MaxRequests = 1
    MaxSkip = 1
    NumTickets = 1
    MaxChunks = 2
    Faults <- MCFaults
    AnyOrder = TRUE
    WithExport = TRUE
    Active <- MCServerOnly
    MaxRecords = 4
    MaxUpdates = 1
CHECK_DEADLOCK FALSE
INVARIANT NonceUnique
INVARIANT KeyNotWornOut
INVARIANT RequestRemembered
INVARIANT NothingInTheClear
PROPERTY ImplementsChannel
