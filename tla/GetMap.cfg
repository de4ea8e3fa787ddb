SPECIFICATION Spec
CONSTANTS
    NULL = NULL
    Writers = {w1, w2}
    Readers = {r1}
    Nodes = {n1, n2}
    Leaves = {l1, l2, l3}
    LEVELS = 2
    NIB = 1
    DELETED_LIFE = 1
    Keys <- TwoKeys
    ReadKeys <- OneKey
    Values = {v1}
    MaxInserts = 3
    MaxRemoves = 2
    MallocMayFail = TRUE
SYMMETRY WriterSymmetry
INVARIANTS GetTypeOK
PROPERTY ImplementsMap
