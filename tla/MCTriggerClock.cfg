CONSTANTS
    Period = 3
    MaxTimeout = 100
    Latency = 2
    Horizon = 16
    MaxRequests = 3
SPECIFICATION ClockSpec
INVARIANTS
    DriftIsBounded
    NoneIsSkipped
CHECK_DEADLOCK FALSE
