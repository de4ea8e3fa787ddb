SPECIFICATION LifeSpec
CONSTANTS
    NULL = NULL
    Writers = {w1}
    Nodes = {n1, n2, n3}
    Leaves = {l1, l2, l3, l4}
    LEVELS = 2
    NIB = 1
    DELETED_LIFE = 2
    Keys <- FourKeys
    Values = {v1}
    MaxInserts = 4
    MaxRemoves = 3
    MallocMayFail = TRUE
INVARIANTS LifeShape DeleteFreesOnce NoLeak
