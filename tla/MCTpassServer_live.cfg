SPECIFICATION FairSpec
CONSTANTS
    c1 = c1
    c2 = c2
    d1 = d1
    d2 = d2
    Conns <- MCOneConn
    Decoders <- MCDecoders
    Setp = 2
    MsgSizes <- MCOneSize
    Chunks <- MCChunks
    MaxMsgs = 3
PROPERTIES
    ClosedIsRemoved
    HandlersEnd
    EndIsAnswered
