CONSTANTS
    One = 100
    Validators = {1, 2, 3}
    MaxValidators = 2
    UnbondingTime = 2
    PowerReduction = 2
    Genesis <- TwoOfThree
    Supply = 4
    Amounts = {2}
    ShareInputs = {100}
    MinSelfs = {1, 2}
    TimeSteps = {1}
    MaxHeight = 5
    MaxOps = 3
SPECIFICATION Spec
CHECK_DEADLOCK FALSE
INVARIANTS IndicesExact ElectionSound NobodyAbandoned EndBlockSafe
PROPERTY StaysSlashable
