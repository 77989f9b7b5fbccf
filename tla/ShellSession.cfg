SPECIFICATION FairSessionSpec
CONSTANTS
    Events <- MCEvents
    MaxSaid = 3
    Cap = 1
    ChanCap = 1
    PtyCap = 1
    Breakable = {FALSE}
INVARIANTS
    SessionInv
PROPERTIES
    ShellEndsSession
    BytesArrive
    LeftBehind
CHECK_DEADLOCK FALSE
