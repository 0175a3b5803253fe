CONSTANTS
    c1 = c1
    c2 = c2
    s1 = s1
    s2 = s2
    Calls <- MCCalls
    Schedules <- MCSchedules
    MaxItems = 2
    MaxCommands = 2
    MaxFaults = 1
    ScheduleOf <- MCScheduleOf
    RequestedAt <- MCRequestedAt
SPECIFICATION FairSpec
INVARIANTS
    OneExecutor
    RunningIsExecuted
    OverviewIsOwed
    RecordIsOwed
CHECK_DEADLOCK FALSE
PROPERTIES
    SnapshotIsExecuted
