SPECIFICATION Spec
CONSTANTS
  DIV = 100
  Vaults = {v1}
  Users = {u1}
  FeePool = fees
  Requesters = {u1}
  Rates = {100, 300}
  CollateralAmounts = {6}
  TokenAmounts = {0, 1, 2, 3}
  SecureThresholds = {150}
  PremiumThresholds = {130}
  LiquidationThresholds = {110}
  Minimums = {2}
  Ceilings = {6}
  CustomThresholds = {0}
  IssueFee = 40
  RedeemFee = 40
  PunishmentFee = 20
  PremiumRedeemFee = 20
  IssueGriefing = 50
  ReplaceGriefing = 50
  GriefingRate = 100
  IssueBtcDustValue = 1
  RedeemBtcDustValue = 1
  ReplaceBtcDustValue = 1
  InclusionFees = {0}
  MaxIssues = 2
  MaxRedeems = 2
  MaxReplaces = 0
INVARIANTS SupplyBacked ToBeIssuedConserved RedeemTokensLocked NoStrandedCollateral
PROPERTIES ObligationsCollateralised MintsMatchRequests
