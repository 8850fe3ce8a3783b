CONSTANTS
    Callers = {c1, c2}
    MaxItems = 3
    MaxCalls = 3
SPECIFICATION FairSpec
CHECK_DEADLOCK FALSE
INVARIANT ItemsInOrder
PROPERTY NobodyWaits
