CONSTANTS
    c1 = c1
    c2 = c2
    c3 = c3
    s1 = s1
    Calls <- MCCalls
    Schedules <- MCSchedules
    MaxCommands = 2
    MaxFires = 2
    MaxFaults = 1
SPECIFICATION FairSpec
CHECK_DEADLOCK FALSE
INVARIANTS
    OneTimer
    TimerIsEnabled
    NextIsArmed
    WindowAgrees
PROPERTY
    ReenabledOnRequest
    FiredIsRearmed
