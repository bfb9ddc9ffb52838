SPECIFICATION Spec
CONSTANTS
    FrameMs = 2
    FrameLenMs = 5
    Win = 3
    SilToSpeech = 2
    SpeechToSil = 2
    Lookback = 1
    Lookahead = 1
    EndSils <- MCEndSils
    MaxSegs <- MCMaxSegs
    Overlaps <- MCOverlaps
    MaxBlock = 2
    MaxFrames = 9
    MaxStreams = 2
INVARIANTS
    TypeOK
    SegmentsBounded
    NoFault
PROPERTIES
    FinalCloses
    SegmentsInOrder
CHECK_DEADLOCK FALSE
