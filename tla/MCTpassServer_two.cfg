\* Two connections share a decoder thread, m_lock and the cleaner.
SPECIFICATION Spec
CONSTANTS
    c1 = c1
    c2 = c2
    d1 = d1
    d2 = d2
    Conns <- MCConns
    Decoders <- MCOneDecoder
    Setp = 2
    MsgSizes <- MCOneSize
    Chunks <- MCValidChunk
    MaxMsgs = 2
SYMMETRY MCConnSymmetry
INVARIANTS
    JobsKeepEntry
PROPERTIES
    RemovedWhenUnused
    LeaseSafety
