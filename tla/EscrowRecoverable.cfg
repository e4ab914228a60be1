SPECIFICATION Spec
CONSTANTS
  alice = alice
  bob = bob
  usdc = usdc
  weth = weth
  nobody = nobody
  escrowAddress = escrowAddress
  oldEscrow = oldEscrow
  verifier = verifier
  reputationContract = reputationContract
  Users <- MCUsers
  NoAddress = nobody
  EscrowAddress = escrowAddress
  EscrowCandidates = {escrowAddress}
  StableToken = usdc
  VolatileTokens <- WethOnly
  Terms <- LiveTerms
  FundAmounts <- LiveAmounts
  OraclePrices <- LivePrices
  Scale <- UnitScale
  FeeBps <- NoFees
  InitialBalance = 8
  VerifierAddress = verifier
  ReputationAddress = reputationContract
  VerifierChoices = {nobody, verifier}
  ReputationChoices = {nobody}
  MaxListings = 1
  MaxUint64 = 3
INVARIANT ItemPriceRecoverable
CHECK_DEADLOCK FALSE
