SPECIFICATION Spec
CONSTANTS
    SegSample = 2
    Second = 6
    Lag = 4
    Delay = 2
    MaxSent = 6
    MaxAcc = 9
    Lengths <- MCLengths
    BatchSizes <- MCBatchSizes
CHECK_DEADLOCK FALSE
INVARIANTS
    TypeOK
    VadHearsAll
    TextInOrder
