CONSTANTS
    One = 100
    cont = cont
    delay = delay
    plain = plain
    fresh = fresh
    Addresses = {cont, delay, plain, fresh}
    Denoms = {1, 2, 3}
    BondDenom = 3
    Genesis <- SomeGenesis
    Sends <- SomeSends
    Fees <- SomeFees
    Stakes = {6}
    Refunds = {3, 7}
    Slashes = {3}
    Rewards <- SomeRewards
    MaxTime = 4
    MaxOps = 4
SPECIFICATION Spec
CHECK_DEADLOCK FALSE
INVARIANTS
    CoinsExact
    SpendableExact
PROPERTY NeverFrozen
