CONSTANTS
    One = 100
    Validators = {1, 2}
    MaxValidators = 2
    UnbondingTime = 2
    PowerReduction = 1
    Delegators = {1, 2}
    MaxEntries = 2
    CommunityTax = 2
    BaseProposerReward = 1
    BonusProposerReward = 4
    Commission <- SomeRates
    InflationRateChange = 20
    InflationMax = 60
    InflationMin = 40
    GoalBonded = 67
    BlocksPerYear = 1
    Genesis <- SomeStake
    Coins <- SomeCoins
    SignerSets = {{1}}
    Proposers <- Turns
    Senders = {2}
    Amounts = {6}
    ShareInputs = {300}
    Factors <- SomeFactors
    SlashAgain = FALSE
    MaxHeight = 5
    MaxOps = 3
SPECIFICATION Spec
CHECK_DEADLOCK FALSE
INVARIANTS FundsSound ReferencesExact CanWithdraw FairShares ZeroHeightSound
