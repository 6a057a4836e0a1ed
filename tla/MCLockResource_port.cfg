CONSTANTS
    Timeout = 3
    Wrap = 10
    MaxPreempt = 2
    Early = 2
    Late = 2
    MaxCalls = 2
SPECIFICATION FairSpec
INVARIANTS NeverEarly DecidedInTime
PROPERTIES LockedWritesKeep Decided
CHECK_DEADLOCK FALSE
