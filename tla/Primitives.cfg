SPECIFICATION PrimitivesSpec
CONSTANTS
    InLens = {0, 1, 16, 17, 64, 80, 81, 95, 96, 97, 200}
    AadLens = {0, 5, 16, 80, 97, 192}
    SampleOffs = {0, 4, 40, 96}
    SegLens = {0, 3, 16, 20}
    Places <- MCPlaces
    OutPlace = 2
    FirstCapacity = 40
    Digest = 2
    CounterMod = 4
    OutLens = {0, 1, 2, 3, 4, 5, 7}
    HmacPieces <- MCHmacPieces
    MaxUse = 5
    Datas <- MCDatas
    Widths = {1, 3, 4, 5}
    ListMaxes = {1, 16}
    MaxObjects = 2
    Radix = 4
    SizeMax = 31
    MinCapacity = 4
    SmallSizes = {0, 6}
    PushLens = {1, 4}
    QuicInts = {3, 4}
    Capacities = {1, 2}
    Deltas = {20, 31}
    MaxOff = 7
    MaxDepth = 2
    NULL = NULL
    Backends <- MCBackends
CHECK_DEADLOCK FALSE
INVARIANT FusionSound
INVARIANT KdfSound
INVARIANT PemSound
INVARIANT BufferSound
INVARIANT ReferencesSound
INVARIANT FailureIsClean
