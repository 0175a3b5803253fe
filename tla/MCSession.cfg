CONSTANTS
    Sessions = {s1}
    MaxRuns = 2
    Chunks = 1
    MaxFaults = 1
SPECIFICATION Spec
INVARIANTS
    EndIsLast
    RunningIsActive
    ListIsOwed
    EndsAgree
PROPERTY
    MessagesAreKept
CHECK_DEADLOCK FALSE
