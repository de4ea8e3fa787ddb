SPECIFICATION FillSpec
CONSTANTS
    NULL = NULL
    Writers = {w1}
    Readers = {r1}
    Nodes = {n1, n2}
    Leaves = {l1, l2, l3, l4}
    LEVELS = 2
    NIB = 1
    DELETED_LIFE = 2
    Keys <- ThreeKeys
    ReadKeys <- ThreeKeys
    Values = {v1, v2}
    MaxInserts = 4
    MaxRemoves = 3
    MallocMayFail = FALSE
SYMMETRY ValueSymmetry
INVARIANTS ShapeInv StaleContained GraceSafe GetCurrent
