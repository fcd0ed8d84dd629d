SPECIFICATION Spec
CONSTANTS
    Accounts = {"a", "b"}
    Span = 2
    MaxPeriod = 4
    MaxHeight = 6
    DIV = 10
    ONE = 100
    LockAmounts = {4, 9}
    InitialSupply = 50
    UserFunds = 13
    Inflations = {5}
    InflationPeriod = 4
    EmissionPeriod = 3
    EscrowShare = 3
    VaultShare = 4
    RewardsPerWrapped = {1}
    WrappedSupplies = {2}
    LimitRanges <- LimitRangesValue
    StartHeights = {3}
    MaxCalls = 3
INVARIANTS SupplyAtMostVotes RewardsFunded
CHECK_DEADLOCK FALSE
