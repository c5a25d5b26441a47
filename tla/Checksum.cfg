CONSTANTS
    Digits = 32
    CRCWidth = 32
    CHAR_BIT = 8
    table <- MCTable
    Bytes <- MCBytes
    Garbage <- MCGarbage
    DFS_BUFFERSIZE = 4
    MaxSize = 6
    Absent = Absent
SPECIFICATION FairSpec
INVARIANTS TypeOK NoGarbageFed CrcOfFed SumOfWholeFile
PROPERTY ChecksumEnds
CHECK_DEADLOCK FALSE
