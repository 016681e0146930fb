SPECIFICATION FairSpec
CONSTANTS
    Client = Client
    Server = Server
    SeqLimit = 2
    MaxRequests = 1
    MaxSkip = 1
    NumTickets = 0
    MaxChunks = 1
    Faults <- MCNoFaults
    AnyOrder = FALSE
    WithExport = FALSE
    Active <- MCBoth
    MaxRecords = 1
    MaxUpdates = 2
CHECK_DEADLOCK FALSE
INVARIANTS
    InSync
PROPERTIES
    RequestAnswered
