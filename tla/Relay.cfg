SPECIFICATION MCSpec
CONSTANTS
  Confirmations = 2
  ParachainConfirmations = 1
  BlocksPerBitcoinBlock = 2
  Interval = 2
  TargetTimespan = 4
  MaxTarget = 16
  CompactBase = 4
  CompactLimit = 8
  StartHeights = {0, 1}
  Timestamps = {0, 3, 9}
  Targets = {1, 3, 4, 8, 9}
  Periods = {1, 2}
  MaxActiveBlocks = 2
  MaxHeaders = 8
  AnyTimestamp = 0
  AnyTarget = 4
  MaxCheckedHeaders = 6
INVARIANTS HeaderTree VerifiedIsBuried TargetsFollowConsensus
PROPERTIES ReorgDepth ExpiryIsFinal
