SPECIFICATION Spec
CONSTANTS
    c1 = c1
    c2 = c2
    d1 = d1
    d2 = d2
    Conns <- MCOneConn
    Decoders <- MCDecoders
    Setp = 2
    MsgSizes <- MCMsgSizes
    Chunks <- MCChunks
    MaxMsgs = 5
SYMMETRY MCDecoderSymmetry
INVARIANTS
    TypeOK
    AccessCounts
    NoJobWhileLoading
    NothingSkipped
    RepliesOwed
PROPERTIES
    FedInOrder
