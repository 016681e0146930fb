SPECIFICATION InterfacesSpec
CONSTANTS
    RawSetups <- MCRawSetups
    SignConns = {1, 2}
    SignSetups <- MCSignSetups
    NoJob = NoJob
    MaxPauses = 1
    MaxTrailing = 1
    CliScenarios <- MCCliScenarios
    CliInput = 2
    SockRoom = 3
CHECK_DEADLOCK FALSE
INVARIANT RawCompletes
PROPERTY FlightEnds
INVARIANT EpochsSound
INVARIANT SigningSound
INVARIANT LoopSound
