SPECIFICATION FairSpec
CONSTANTS
    Calls = {c1, c2}
    MaxSessions = 3
    MaxFaults = 2
INVARIANTS
    AnswersMatch
    SessionIsShared
PROPERTIES
    RetriedElsewhere
    CallsEnd
CHECK_DEADLOCK FALSE
