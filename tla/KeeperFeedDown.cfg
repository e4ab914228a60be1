SPECIFICATION FeedDownSpec
CONSTANTS
  Deals = {1, 2}
  Volatile = {1}
  MaxDealId = 2
  Lifetimes = {1}
  MaxNow = 2
  MaxPending = 2
PROPERTY StableDealsEnd
CHECK_DEADLOCK FALSE
