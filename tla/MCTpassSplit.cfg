SPECIFICATION Spec
CONSTANTS
    SegSample = 2
    Step = 6
    VectorCache = 4
    Lag = 2
    Delay = 2
    Blocks <- MCBlocks
    MaxSamples = 11
    MaxStreams = 2
INVARIANTS
    InBounds
    StartsAgree
    KeepsUp
    OnlineTextWhole
PROPERTY BothPassesHear
CHECK_DEADLOCK FALSE
