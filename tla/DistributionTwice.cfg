CONSTANTS
    One = 100
    Validators = {1, 2}
    MaxValidators = 2
    UnbondingTime = 2
    PowerReduction = 1
    Delegators = {1, 2}
    MaxEntries = 2
    CommunityTax = 2
    BaseProposerReward = 1
    BonusProposerReward = 4
    Commission <- SomeRates
    InflationRateChange = 20
    InflationMax = 60
    InflationMin = 40
    GoalBonded = 67
    BlocksPerYear = 1
    Genesis <- EvenStake
    Coins <- NoCoins
    SignerSets = {{1}}
    Proposers <- Turns
    Senders = {2}
    Amounts = {6}
    ShareInputs = {400}
    Factors <- Halves
    SlashAgain = TRUE
    MaxHeight = 3
    MaxOps = 4
SPECIFICATION Spec
CHECK_DEADLOCK FALSE
INVARIANT CanWithdraw
