SPECIFICATION ProgramSpec
CONSTANTS
    NULL = NULL
    MaxProcs = 2
    K = K
    One = One
    lo = lo
    hi = hi
    own1 = own1
    own2 = own2
    Order <- SixKeys
    the1000 <- TwoKeys
    w1000 <- OwnKeys
    OnlyHm = 0
    MaxFailures = 1
    MAX = 3
    RANDOM = 4
    QUERIES = 1
    HALF = 4
    ws16 = {0, 1, 3, 4, 5, 7}
    MaxLost = 2
INVARIANTS NoFalseAlarm NobodyInside VerdictComplete CorrPasses LossNoticed
PROPERTY ProgramEnds
CHECK_DEADLOCK FALSE
