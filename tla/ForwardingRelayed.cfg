SPECIFICATION FairPathSpec
CONSTANTS
    Rows <- MCRows
    Bytes <- OneAndThree
    Cap = 2
    BufCap = 1
    Chunk = 2
    MaxWritten = 5
PROPERTIES
    TwoWay
    EndsTogether
CHECK_DEADLOCK FALSE
