SPECIFICATION FairPunchSpec
CONSTANTS
    Word = 16
    Meetings <- MCMeetings
    MaxFaults = 1
INVARIANTS
    PunchInv
PROPERTIES
    EndsSettle
    PunchesThrough
CHECK_DEADLOCK FALSE
