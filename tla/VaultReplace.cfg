SPECIFICATION FairSpec
CONSTANTS
  DIV = 100
  Vaults = {v1, v2}
  Users = {u1}
  FeePool = fees
  Requesters = {u1}
  Rates = {100, 200}
  CollateralAmounts = {0, 4}
  TokenAmounts = {1, 2}
  SecureThresholds = {150}
  PremiumThresholds = {130}
  LiquidationThresholds = {110}
  Minimums = {2}
  Ceilings = {8}
  CustomThresholds = {0}
  IssueFee = 40
  RedeemFee = 40
  PunishmentFee = 20
  PremiumRedeemFee = 20
  IssueGriefing = 50
  ReplaceGriefing = 50
  GriefingRate = 100
  IssueBtcDustValue = 1
  RedeemBtcDustValue = 1
  ReplaceBtcDustValue = 1
  InclusionFees = {0}
  MaxIssues = 1
  MaxRedeems = 1
  MaxReplaces = 1
INVARIANTS TypeOK RedeemsCovered CollateralLocked GriefingLocked TokensOrdered
PROPERTIES ImplementsCustody RedeemsEnd
