SPECIFICATION Spec
CONSTANTS
  Confirmations = 2
  ParachainConfirmations = 1
  BlocksPerBitcoinBlock = 2
  Interval = 2
  TargetTimespan = 4
  MaxTarget = 16
  CompactBase = 4
  CompactLimit = 8
  StartHeights = {1}
  Timestamps = {0}
  Targets = {4}
  Periods = {1, 2}
  MaxActiveBlocks = 0
  MaxHeaders = 9
INVARIANT OngoingForkDetected
