SPECIFICATION FairFillSpec
CONSTANTS
    NULL = NULL
    Writers = {w1}
    Readers = {r1}
    Nodes = {n1, n2}
    Leaves = {l1, l2, l3}
    LEVELS = 2
    NIB = 1
    DELETED_LIFE = 1
    Keys <- ThreeKeys
    ReadKeys <- ThreeKeys
    Values = {v1}
    MaxInserts = 3
    MaxRemoves = 3
    MallocMayFail = FALSE
PROPERTY GetReturns
