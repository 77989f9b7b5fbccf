SPECIFICATION FairClientSpec
CONSTANTS
    Task = {t1, t2}
    Attempt = {a1}
    Main = Main
    Commands <- AllCommands
    MaxFaults = 2
INVARIANTS
    ClientTypeOK
PROPERTIES
    EventLossNoticed
    ConnectionsSettle
    RefusalNoticed
    StuckForGood
    DirectOnlyEnds
CHECK_DEADLOCK FALSE
