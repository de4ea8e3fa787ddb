SPECIFICATION OwnSpec
CONSTANTS
    NULL = NULL
    Writers = {w1}
    Readers = {r1}
    Nodes = {n1}
    Leaves = {l1, l2, l3, l4}
    LEVELS = 1
    NIB = 3
    DELETED_LIFE = 2
    Keys <- SlotKeys
    ReadKeys <- ThirdSlot
    Values <- MCValues
    MaxInserts = 4
    MaxRemoves = 0
    MallocMayFail = FALSE
    MaxDepth = 3
INVARIANT LeCurrent
