SPECIFICATION MCSpec
CONSTANTS
    DIV = 10
    ONE = 100
    Users = {"alice", "bob"}
    Assets = {"A", "B", "C", "R"}
    Pairs = {"AB", "BC"}
    PairAssets <- PairAssetsValue
    OtherAccounts = {"farm", "treasury"}
    FEE_ADJUSTMENT = 10
    DEFAULT_FEE_RATE = 1
    Endowment = 9
    PoolToken = "AB"
    RewardCurrency = "R"
    RewardPeriod = 1
    TreasuryFunds = 7
    PeriodCounts = {2}
    RewardAmounts = {3}
    LiquidityAmounts = {2, 3}
    SwapAmounts = {4}
    Paths <- PathsValue
    FeeRates = {1}
    FeePoints = {1}
    BootstrapParams <- BootstrapParamsValue
    ContributionAmounts = {0, 2}
    ChargeAmounts = {2}
    MaxHeight = 2
    MaxCalls = 4
INVARIANTS PairsConsistent BootstrapCovered FarmFunded
PROPERTY SharesKeepWorth
CHECK_DEADLOCK FALSE
