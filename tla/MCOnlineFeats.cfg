SPECIFICATION Spec
CONSTANTS
    FrameLen = 5
    FrameShift = 2
    VadM = 5
    VadN = 1
    AsrM = 7
    AsrN = 6
    Pre = 5
    Body = 10
    Suf = 5
    Short = 12
    Blocks <- MCBlocks
    LastBlocks <- MCLastBlocks
    Pieces <- MCPieces
    Rests <- MCRests
    MaxVad = 70
    MaxAsr = 430
    MaxStreams = 2
CHECK_DEADLOCK FALSE
INVARIANTS
    TypeOK
    LfrAsOffline
    WavesEnough
    BodiesTile
    UtteranceFresh
