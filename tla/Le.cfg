SPECIFICATION FillSpec
CONSTANTS
    NULL = NULL
    Writers = {w1}
    Readers = {r1}
    Nodes = {n1, n2}
    Leaves = {l1, l2, l3, l4}
    LEVELS = 2
    NIB = 2
    DELETED_LIFE = 1
    Keys <- FourKeys
    ReadKeys <- UpperKeys
    Values <- MCValues
    MaxInserts = 4
    MaxRemoves = 2
    MallocMayFail = FALSE
    MaxDepth = 3
INVARIANTS LeInv LeGraceSafe LeSound LeExact
