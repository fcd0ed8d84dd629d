SPECIFICATION MCSpec
CONSTANTS
    DIV = 1000
    Assets = {"ibtc", "dot"}
    Reference = "ibtc"
    Users = {"alice", "bob"}
    Pallet = "pallet"
    Incentive = "incentive"
    Configs <- ConfigsValue
    RateModels <- RateModelsValue
    LoanAmounts = {2, 20}
    Funds = 24
    LoanPrices = {0, 1000, 1700}
    RewardSpeeds = {0, 40}
    RewardScale = 1000
    MinExchangeRate = 500
    MaxExchangeRate = 1000
    SECONDS_PER_YEAR = 1
    MaxBlock = 3
    MaxLoanOperations = 2
INVARIANTS LendTokensConsistent IncentivesPromised
PROPERTIES SuppliersKeepWorth SolventAfterOwnStep
CHECK_DEADLOCK FALSE
