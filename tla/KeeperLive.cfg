SPECIFICATION KeepersSpec
CONSTANTS
  Deals <- TwoDeals
  Volatile = {1}
  MaxDealId = 2
  Lifetimes = {1}
  MaxNow = 1
  MaxPending = 2
  MaxAhead = 1
INVARIANTS
  KeepersTypeOK
  ReclaimedMeansEnded
  OutcomeTold
PROPERTY ExpiredDealsEnd
CHECK_DEADLOCK FALSE
