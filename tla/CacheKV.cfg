CONSTANTS
    Keys <- SomeKeys
    Values = {"a", "b"}
    Written = {"b"}
    Nil = Nil
    MaxByte = 1
    Ranges <- SomeRanges
    MaxOps <- SomeOps
    Stored <- SomeStored
SPECIFICATION IterSpec
CHECK_DEADLOCK FALSE
INVARIANT IterationExact
PROPERTY BranchesSpec
