CONSTANTS
    One = 100
    Validators = {1, 2, 3}
    MaxValidators = 2
    UnbondingTime = 4
    PowerReduction = 1
    Delegators = {1, 2, 3}
    MaxEntries = 2
    Genesis <- SomeStake
    Coins <- SomeCoins
    Senders = {3}
    Amounts = {2}
    ShareInputs = {100}
    Factors = {33, 100}
    TimeSteps = {1}
    MaxHeight = 6
    MaxOps = 3
SPECIFICATION Spec
CHECK_DEADLOCK FALSE
INVARIANTS RecordsSound ExportComplete
PROPERTIES ValueKept SlashReach
