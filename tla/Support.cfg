SPECIFICATION SupportSpec
CONSTANTS
    SLICE = 2
    LEVELS = 4
    NIB = 3
    WORD = 4
    Words = 4
    MaxText = 5
    Maxes = {2, 3, 4}
    Loggers = {1, 2}
    TLOG_SIZE = 3
    MaxCalls = 3
    MaxInits = 1
INVARIANTS BitsAgree ChecksumDetects ChecksumPieces FgetsKeeps SaveExact ThreadOrder
CHECK_DEADLOCK FALSE
