SPECIFICATION FillSpec
CONSTANTS
    NULL = NULL
    Writers = {w1}
    Readers = {r1}
    Nodes = {n1, n2}
    Leaves = {l1, l2, l3}
    LEVELS = 2
    NIB = 2
    DELETED_LIFE = 1
    Keys <- ThreeKeys
    ReadKeys <- OneKey
    Values <- MCValues
    MaxInserts = 3
    MaxRemoves = 2
    MallocMayFail = FALSE
    MaxDepth = 3
INVARIANTS RemoveFinds ParanoiaIdle ResultsSound
CHECK_DEADLOCK FALSE
