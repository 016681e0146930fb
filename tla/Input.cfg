SPECIFICATION InputSpec
CONSTANTS
    Modes <- MCModes
    Cells <- MCCells
    MaxPlain = 3
    MaxEncrypted = 4
    MaxBuffer = 2
    MaxSkip = 3
    Refused <- MCRefused
    MaxCells <- MCMaxCells
    ClientContexts <- MCClientContexts
    ServerContexts <- MCServerContexts
    OtherExtensions <- MCOtherExtensions
    MaxExtensions = 3
    ListCapacity = 2
    Nil = Nil
    MaxRetries = 2
    EchScenarios <- MCEchScenarios
    None = None
    AgeMod = 8
    Week = 4
    Window = 1
    AgeAdds = {6}
    Skews <- MCSkews
    Contexts <- MCContexts
    Requests <- MCRequests
    MaxTime = 5
    MaxSessions = 1
CHECK_DEADLOCK FALSE
INVARIANT CutsDoNotMatter
INVARIANT MessagesWhole
INVARIANT EndFlagIsTrue
INVARIANT MemoryBounded
INVARIANT RebuildExact
INVARIANT AcceptedIsWellFormed
INVARIANT EchSucceeds
INVARIANT TicketHonoured
 
INVARIANT EchSound
INVARIANT ResumptionSound
