SPECIFICATION FairNarrowSpec
CONSTANTS
    Tasks = {t1, t2}
    t1 = t1
    t2 = t2
    MaxCalls <- OneAndTwo
    MaxErrors = 1
    MaxFormer = 1
    FormerIds = {0, 1, 2}
INVARIANTS
    NarrowInv
PROPERTIES
    RequestsReturn
    ErrorsArrive
CHECK_DEADLOCK FALSE
