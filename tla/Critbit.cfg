SPECIFICATION OwnSpec
CONSTANTS
    NULL = NULL
    Writers = {w1}
    Readers = {r1}
    Blocks = {b1, b2, b3}
    WIDTH = 2
    Keys <- ThreeKeys
    Values <- MCValues
    MaxInserts = 3
    MaxRemoves = 2
INVARIANTS GetStable DeleteFreesOnce
PROPERTIES WritersImplementMap GetEnds
