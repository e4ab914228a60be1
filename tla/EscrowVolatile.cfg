SPECIFICATION FairSpec
CONSTANTS
  alice = alice
  bob = bob
  usdc = usdc
  weth = weth
  nobody = nobody
  escrowAddress = escrowAddress
  oldEscrow = oldEscrow
  verifier = verifier
  reputationContract = reputationContract
  Users <- MCUsers
  NoAddress = nobody
  EscrowAddress = escrowAddress
  EscrowCandidates = {escrowAddress, oldEscrow, nobody}
  StableToken = usdc
  VolatileTokens <- WethOnly
  Terms <- VolatileTerms
  FundAmounts <- VolatileAmounts
  OraclePrices <- Prices
  Scale <- UnitScale
  FeeBps <- BothBurn
  InitialBalance = 8
  VerifierAddress = verifier
  ReputationAddress = reputationContract
  VerifierChoices = {nobody, verifier}
  ReputationChoices = {nobody, reputationContract}
  MaxListings = 2
  MaxUint64 = 1
INVARIANTS
  TypeOK
  DepositShareBounded
  Solvent
  StatsFollowDeals
PROPERTIES
  ImplementsHandoff
  EveryDealSettles
CHECK_DEADLOCK FALSE
