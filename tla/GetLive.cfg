SPECIFICATION LiveSpec
CONSTANTS
    NULL = NULL
    Writers = {w1, w2}
    Readers = {r1}
    Nodes = {n1, n2}
    Leaves = {l1, l2, l3}
    LEVELS = 2
    NIB = 2
    DELETED_LIFE = 1
    Keys <- LiveKeys
    ReadKeys <- TwoKeys
    Values = {v1}
    MaxInserts = 4
    MaxRemoves = 2
    MallocMayFail = TRUE
PROPERTIES GetReturnsInGrace WritersFinish
CHECK_DEADLOCK FALSE
