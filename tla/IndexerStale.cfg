SPECIFICATION Spec
CONSTANTS
  Listings <- OneListing
  Deals <- OneDeal
  Throwing = {}
  Backfills <- Two
  MAX_RANGE = 2
  FromBlock = 1
  MaxBlocks = 3
  MaxPerBlock = 2
  MaxCrashes = 0
INVARIANT
  DealStateIsLatest
CHECK_DEADLOCK FALSE
