SPECIFICATION Spec
CONSTANTS
    Vaults = {"v1"}
    Nominators = {"n1"}
    DIV = 2
    ONE = 1000
    CollateralAmounts = {3, 10}
    TokenAmounts = {0, 2}
    FeeAmounts = {7}
    Rates = {2, 8}
    Limits = {3}
    Commissions = {1}
    SecureThreshold = 4
    LiquidationThreshold = 3
    MinimumCollateral = 2
    Ceiling = 30
    MaxNonce = 1
    MaxOperations = 4
INVARIANTS PoolsConsistent SlashesConserveStake RewardsCovered
PROPERTY SlashKeepsRewards
CHECK_DEADLOCK FALSE
