CONSTANTS
    c1 = c1
    c2 = c2
    c3 = c3
    c4 = c4
    Calls <- MCCalls
    Stored <- MCStored
    MaxReadFaults = 1
    MaxWriteFaults = 2
    MaxCrashes = 1
SPECIFICATION FairSpec
INVARIANT
    DoneIsStored
PROPERTIES
    ImplementsAtomicStore
    CallsAreAnswered
CHECK_DEADLOCK FALSE
