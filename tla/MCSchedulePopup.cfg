CONSTANTS
    c1 = c1
    c2 = c2
    s1 = s1
    Calls <- MCCalls
    Schedules <- MCSchedules
    MaxItems = 2
    MaxCommands = 2
    MaxFaults = 0
    ScheduleOf <- MCScheduleOf
    RequestedAt <- MCRequestedAt
    ReloadOnOpen = TRUE
SPECIFICATION PopupFairSpec
CHECK_DEADLOCK FALSE
INVARIANT
    PopupIsCurrent
PROPERTY
    DueReachesPopup
