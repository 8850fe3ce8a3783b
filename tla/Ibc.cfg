CONSTANTS
    Chains = {"A", "B"}
    ChainIDs = {"A", "B", "C"}
    Accounts = {u}
    Relayers = {r1, r2}
    Async = {r2}
    Link <- SameLink
    Amounts = {1}
    Claims <- SomeClaims
    MaxPackets <- FewPackets
    MaxSequence = 3
    MaxFaults = 2
    Genesis <- SomeCoins
SPECIFICATION FairSpec
CHECK_DEADLOCK FALSE
INVARIANT TransfersSound
PROPERTIES TransfersSpec AllArrive
