SPECIFICATION FairSpec
CONSTANTS
    c1 = c1
    c2 = c2
    d1 = d1
    d2 = d2
    Conns <- MCOneConn
    Decoders <- MCDecoders
    Options <- MCOneOption
    Default = "default"
    MaxMsgs = 4
INVARIANTS
    RepliesOwed
PROPERTIES
    ClosedIsRemoved
    LeaseSafety
