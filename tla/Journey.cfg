SPECIFICATION FairSpec
CONSTANTS
  Deals <- OneDeal
  deal = 1
  FreeWindow = 1
  Ttl = 2
  MaxNow = 2
  MaxSkew = 1
  MaxJobs = 1
  Prices <- TwoPrices
  ListedPrice = 3
  MaxMessages = 3
  Given <- LocAndContact
  MaxShares = 2
INVARIANTS
  TypeOK
  AgreedWasOffered
  ReleaseAfterCheckIn
  FlashMeansDone
PROPERTIES
  PromiseKept
  CodeUnlocks
  SharedStaysShared
CHECK_DEADLOCK FALSE
