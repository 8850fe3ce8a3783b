SPECIFICATION FairSpec
CONSTANTS
    One = 100
    Accounts = {"v", "w", "d"}
    Senders = {"v", "d"}
    InitialCoins = 2
    Amounts = {1, 2}
    Ballots = {"Yes", "No", "NoWithVeto"}
    MinDeposit = 2
    MaxDepositPeriod = 1
    VotingPeriod = 2
    Quorum = 33
    Threshold = 50
    Veto = 33
    Stakes <- AllStakes
    BlockTimes = {1, 2}
    MaxTime = 5
    LastSubmit = 1
    MaxProposals = 2
INVARIANTS
    RecordsAgree
    DepositsSound
    CountedOnce
    YesNeverHurts
PROPERTIES
    EventuallyClosed
