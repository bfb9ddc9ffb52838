\* The cleaner walks data_map without m_lock.
SPECIFICATION Spec
CONSTANTS
    c1 = c1
    c2 = c2
    d1 = d1
    d2 = d2
    Conns <- MCConns
    Decoders <- MCOneDecoder
    Setp = 2
    MsgSizes <- MCOneSize
    Chunks <- MCValidChunk
    MaxMsgs = 1
PROPERTIES
    SweepUndisturbed
