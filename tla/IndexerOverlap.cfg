SPECIFICATION ReceiptSpec
CONSTANTS
  deal = 1
  Listings <- OneListing
  Deals <- OneDeal
  Throwing = {}
  Backfills <- Two
  MAX_RANGE = 2
  FromBlock = 1
  MaxBlocks = 3
  MaxPerBlock = 2
  MaxCrashes = 1
INVARIANTS
  TimelineComplete
PROPERTY ReceiptIsTrue
CHECK_DEADLOCK FALSE
