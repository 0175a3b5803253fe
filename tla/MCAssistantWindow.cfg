CONSTANTS
    MaxRuns = 2
    MaxSteps = 2
    CallIds = {c1, c2}
SPECIFICATION WindowSpec
INVARIANTS
    OneEnd
    RunningCanBeAborted
    StepsAreOwn
    StoresAgree
    TurnsAreShown
CHECK_DEADLOCK FALSE
PROPERTIES
    RunsEnd
