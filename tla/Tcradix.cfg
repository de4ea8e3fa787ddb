SPECIFICATION OwnSpec
CONSTANTS
    NULL = NULL
    Root = Root
    Writers = {w1}
    Readers = {r1}
    Blocks = {b1, b2, b3, b4, b5}
    LEVELS = 3
    NIB = 1
    Keys <- FourKeys
    Values <- MCValues
    MaxInserts = 4
    MaxRemoves = 3
    Budgets = {0, 1, 2, 5}
INVARIANTS Reports PoolClean DeleteFreesOnce GetStable CheckedCurrent
PROPERTY OwnKeyOnly
CHECK_DEADLOCK FALSE
