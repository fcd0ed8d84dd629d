SPECIFICATION Spec
CONSTANTS
    Vaults = {"v1"}
    Nominators = {"n1"}
    DIV = 2
    ONE = 1000
    CollateralAmounts = {8}
    TokenAmounts = {0, 3}
    FeeAmounts = {7}
    Rates = {2, 8}
    Limits = {8}
    Commissions = {1}
    SecureThreshold = 4
    LiquidationThreshold = 3
    MinimumCollateral = 2
    Ceiling = 30
    MaxNonce = 1
    MaxOperations = 4
INVARIANT RewardsMayFlow
CHECK_DEADLOCK FALSE
