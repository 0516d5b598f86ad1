SPECIFICATION FairSpec
CONSTANTS
  Paths = {p1, p2}
  MaxRisks = 1
  MaxBytes = 1
  Failures <- MCFailures
  MaxCrashes = 1
  None = None
INVARIANTS
  WinnerIsBest
  PromotionAgrees
PROPERTIES
  RecoveryEnds
