CONSTANTS
    s1 = s1
    s2 = s2
    Schedules <- MCSchedules
    MaxCommands = 2
    MaxFires = 3
    MaxStarts = 2
SPECIFICATION FairSpec
INVARIANTS
    StateIsTrue
    RecordedIsOver
PROPERTY
    RunIsFollowedUp
CHECK_DEADLOCK FALSE
