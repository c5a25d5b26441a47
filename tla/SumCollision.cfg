CONSTANTS
    Digits = 32
    CRCWidth = 32
    CHAR_BIT = 8
    table <- MCTable
    Bytes <- MCBytes
    Garbage <- MCGarbage
    DFS_BUFFERSIZE = 8
    MaxSize = 6
    Absent = Absent
SPECIFICATION Spec
INVARIANT EqualSumsEqualFiles
CHECK_DEADLOCK FALSE
