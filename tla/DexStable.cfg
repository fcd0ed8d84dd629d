SPECIFICATION MCSpec
CONSTANTS
    Users = {"alice", "bob"}
    Currencies = {"A", "B", "C"}
    LpCurrencies <- LpCurrenciesValue
    Multipliers <- MultipliersValue
    A_PRECISION = 10
    FEE_DENOMINATOR = 100
    MAX_SWAP_FEE = 10
    MAX_ADMIN_FEE = 100
    MAX_A = 100
    MAX_A_CHANGE = 10
    VIRTUAL_PRICE_PRECISION = 1000
    MAX_ITERATION = 20
    DAY = 4
    BASE_CACHE_EXPIRE_TIME = 1
    FeeReceiver = "treasury"
    Endowment = 1000
    PoolCurrencies <- PoolCurrenciesValue
    As = {2, 10}
    SwapFees = {0, 4}
    AdminFees = {50}
    RampTimes = {8}
    TimeSteps = {2}
    Deposits <- DepositsValue
    LpAmounts = {50}
    SwapAmounts = {40}
    ProbeAmounts = {1, 5, 40}
    StartTime = 4
    MaxTime = 6
    MaxCalls = 2
INVARIANTS PoolsBacked RoundTripNeverPays
PROPERTY WorthKept
CHECK_DEADLOCK FALSE
