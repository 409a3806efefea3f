SPECIFICATION CalSpec
CONSTANTS
    DayLength = 4
    WeekLength = 3
    OffsetBefore <- MCBefore
    OffsetAfter <- MCAfter
    Change = 14
    MaxWindows = 2
    Horizon = 15
INVARIANTS
    NextOpenSkipsNothing
CHECK_DEADLOCK FALSE
