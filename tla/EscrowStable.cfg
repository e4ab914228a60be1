SPECIFICATION Spec
CONSTANTS
  alice = alice
  bob = bob
  usdc = usdc
  weth = weth
  nobody = nobody
  escrowAddress = escrowAddress
  oldEscrow = oldEscrow
  verifier = verifier
  reputationContract = reputationContract
  Users <- MCUsers
  NoAddress = nobody
  EscrowAddress = escrowAddress
  EscrowCandidates = {escrowAddress}
  StableToken = usdc
  VolatileTokens <- NoTokens
  Terms <- StableTerms
  FundAmounts <- StableAmounts
  OraclePrices <- OnePrice
  Scale <- NoScale
  FeeBps <- NoFee
  InitialBalance = 6
  VerifierAddress = verifier
  ReputationAddress = reputationContract
  VerifierChoices = {nobody}
  ReputationChoices = {reputationContract}
  MaxListings = 2
  MaxUint64 = 3
SYMMETRY Symmetry
INVARIANTS
  BondBacksOneDeal
  DepositAtRisk
  BondFollowsPresence
  SettledInFull
  StableDealsPayExactly
  WalletsExplained
PROPERTY DealIsBinding
CHECK_DEADLOCK FALSE
