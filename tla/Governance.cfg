SPECIFICATION Spec
CONSTANTS
  DIV = 100
  Vaults = {v1, v2}
  Users = {u1}
  FeePool = fees
  Requesters = {u1}
  Rates = {100, 300}
  CollateralAmounts = {6}
  TokenAmounts = {2}
  SecureThresholds = {150, 200}
  PremiumThresholds = {130}
  LiquidationThresholds = {110}
  Minimums = {2, 7}
  Ceilings = {6, 12}
  CustomThresholds = {0, 250}
  IssueFee = 40
  RedeemFee = 20
  PunishmentFee = 20
  PremiumRedeemFee = 20
  IssueGriefing = 50
  ReplaceGriefing = 50
  GriefingRate = 100
  IssueBtcDustValue = 1
  RedeemBtcDustValue = 1
  ReplaceBtcDustValue = 1
  InclusionFees = {0}
  MaxIssues = 2
  MaxRedeems = 1
  MaxReplaces = 0
INVARIANTS TotalCollateral RedeemSettlable
SYMMETRY VaultSymmetry
