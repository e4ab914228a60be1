SPECIFICATION FairSpec
CONSTANTS
  Listings <- OneListing
  Deals <- OneDeal
  Throwing <- CheckInThrows
  Backfills <- One
  MAX_RANGE = 2
  FromBlock = 0
  MaxBlocks = 3
  MaxPerBlock = 2
  MaxCrashes = 2
INVARIANTS
  TypeOK
  MirrorFollowsChain
PROPERTY EventuallyMirrors
CHECK_DEADLOCK FALSE
