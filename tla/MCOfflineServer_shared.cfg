SPECIFICATION Spec
CONSTANTS
    c1 = c1
    c2 = c2
    d1 = d1
    d2 = d2
    Conns <- MCConns
    Decoders <- MCDecoders
    Options <- MCOptions
    Default = "default"
    MaxMsgs = 2
SYMMETRY MCSymmetry
INVARIANT OptionsOwn
