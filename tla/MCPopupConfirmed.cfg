CONSTANTS
    c1 = c1
    c2 = c2
    s1 = s1
    Calls <- MCCalls
    Schedules <- MCSchedules
    MaxItems = 2
    MaxCommands = 2
    MaxFaults = 0
    ScheduleOf <- MCScheduleOf
    RequestedAt <- MCRequestedAt
    ReloadOnOpen = FALSE
SPECIFICATION PopupSpec
INVARIANT
    ConfirmedAreExecuted
CHECK_DEADLOCK FALSE
