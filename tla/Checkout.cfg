SPECIFICATION FairSpec
CONSTANTS
  Wallets = {1, 2, 3, 4, 5, 6}
  Tabs = {1, 2}
  Owners <- Couples
  Served = {1}
  MaxRequests = 2
  GRANT = 3
  TARGET = 1
  Terms <- TwoTerms
  NoTerms <- Nothing
  Purses <- Arrivals
  MaxListings = 2
  Sellers = {1}
  Stock <- Shelf
  Impatient = {3, 4}
  MaxOrphans = 1
INVARIANTS
  TypeOK
  ShownIsOwn
  ErrorIsHonest
  FaucetBounded
  PaysWhatItTakes
  RevertsOnlyForRaces
PROPERTY ButtonComesBack
CHECK_DEADLOCK FALSE
