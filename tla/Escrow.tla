------------------------------ MODULE Escrow ------------------------------
(***************************************************************************)
(* contracts/src/Escrow.sol: listings with a seller bond, deals with a     *)
(* locked price and deposit, and the seven ways a deal can end.            *)
(*                                                                         *)
(* One action is one transaction.  The EVM runs transactions one at a time *)
(* and undoes every effect of one that reverts, so each require or revert  *)
(* is a guard and the storage writes, token transfers and reputation hook  *)
(* of a function happen together.  Between two transactions anything may   *)
(* happen: another party's call, the owner's reconfiguration, a new block  *)
(* timestamp.                                                              *)
(*                                                                         *)
(* X_Fault, defined before X, is X with a plausible mistake that the runs  *)
(* are known to notice.  No other definition refers to it.                 *)
(***************************************************************************)
EXTENDS Reputation

CONSTANTS
  StableToken,         \* the immutable stableToken (USDC)
  VolatileTokens,      \* other ERC-20 tokens, priced by the verifier
  Terms,               \* argument tuples sellers pass to list
  FundAmounts,         \* tokenAmount arguments buyers pass to fund
  OraclePrices,        \* prices (USD, 8 decimals) a verified report may carry
  Scale,               \* 10 ** decimals() of each volatile token
  FeeBps,              \* fee a token burns on every transfer, in basis points
  InitialBalance,      \* tokens each user starts with
  VerifierAddress,     \* the Data Streams verifier proxy
  ReputationAddress,   \* the Reputation contract
  VerifierChoices,     \* values the owner gives verifierProxy
  ReputationChoices,   \* values the owner gives reputation
  MaxListings,         \* bound: listing and deal ids are 1 .. MaxListings
  MaxUint64            \* largest uint64; also the horizon of block.timestamp

Tokens == {StableToken} \cup VolatileTokens
Accounts == Users \cup {EscrowAddress}
Ids == 1 .. MaxListings
BPS_DENOMINATOR == 10000

ASSUME EscrowAssumption ==
  /\ StableToken \notin VolatileTokens
  /\ NoAddress \notin Tokens
  /\ VerifierAddress # NoAddress
  /\ ReputationAddress # NoAddress
  /\ VerifierChoices \subseteq {NoAddress, VerifierAddress}
  /\ ReputationChoices \subseteq {NoAddress, ReputationAddress}
  /\ Terms \subseteq [priceUsd1e8 : Nat, depositBps : Nat, payToken : Tokens \cup {NoAddress},
                      freeCancelWindow : Nat, dealTtl : Nat, bondAmount : Nat]
  /\ FundAmounts \subseteq Nat
  /\ OraclePrices \subseteq Int
  /\ Scale \in [VolatileTokens -> Nat \ {0}]
  /\ FeeBps \in [Tokens -> 0 .. BPS_DENOMINATOR]
  /\ InitialBalance \in Nat
  /\ MaxListings \in Nat
  /\ MaxUint64 \in Nat

VARIABLES
  listings,            \* mapping listingId => Listing
  deals,               \* mapping dealId => Deal
  nextListingId,
  nextDealId,
  balance,             \* ERC-20 balances: token -> account -> units
  verifierProxy,
  reputation,
  now,                 \* block.timestamp
  receipts             \* what the events of a deal say; written, never read, by actions

configVars == <<verifierProxy, reputation>>
vars == <<listings, deals, nextListingId, nextDealId, balance, configVars, now, receipts,
          reputationVars>>

----------------------------------------------------------------------------
(* Types and the zero values of Solidity's mappings. *)

States == {"None", "Funded", "SellerCheckedIn", "Completed", "Refunded", "Forfeited"}
LiveStates == {"Funded", "SellerCheckedIn"}
FinalStates == {"Completed", "Refunded", "Forfeited"}

Listing == [seller : Users \cup {NoAddress}, priceUsd1e8 : Nat, depositBps : Nat,
            payToken : Tokens \cup {NoAddress}, active : BOOLEAN, freeCancelWindow : Nat,
            dealTtl : Nat, bond : Nat]

NoListing == [seller |-> NoAddress, priceUsd1e8 |-> 0, depositBps |-> 0, payToken |-> NoAddress,
              active |-> FALSE, freeCancelWindow |-> 0, dealTtl |-> 0, bond |-> 0]

Deal == [state : States, buyer : Users \cup {NoAddress}, seller : Users \cup {NoAddress},
         payToken : Tokens \cup {NoAddress}, priceUsd1e8 : Nat, tokenAmount : Nat,
         depositBps : Nat, freeCancelUntil : Nat, expiry : Nat, sellerCheckedIn : BOOLEAN,
         bond : Nat]

NoDeal == [state |-> "None", buyer |-> NoAddress, seller |-> NoAddress, payToken |-> NoAddress,
           priceUsd1e8 |-> 0, tokenAmount |-> 0, depositBps |-> 0, freeCancelUntil |-> 0,
           expiry |-> 0, sellerCheckedIn |-> FALSE, bond |-> 0]

\* Funded names the listing and the bond it moved into the deal; Completed, Refunded and
\* Forfeited give the split; BondSettled names who got the bond.
Receipt == [listingId : Nat, bond : Nat, closedAt : Nat, toSeller : Nat, toBuyer : Nat,
            bondTo : Users \cup {NoAddress}]

NoReceipt == [listingId |-> 0, bond |-> 0, closedAt |-> 0, toSeller |-> 0, toBuyer |-> 0,
              bondTo |-> NoAddress]

Live_AnyDeal(d) == deals[d].state # "None"

Live(d) == deals[d].state \in LiveStates
Final(d) == deals[d].state \in FinalStates

TypeOK ==
  /\ ReputationTypeOK
  /\ listings \in [Ids -> Listing]
  /\ deals \in [Ids -> Deal]
  /\ nextListingId \in 1 .. MaxListings + 1
  /\ nextDealId \in 1 .. MaxListings + 1
  /\ balance \in [Tokens -> [Accounts -> Nat]]
  /\ verifierProxy \in VerifierChoices
  /\ reputation \in ReputationChoices
  /\ now \in 0 .. MaxUint64
  /\ receipts \in [Ids -> Receipt]

Init ==
  /\ ReputationInit
  /\ listings = [i \in Ids |-> NoListing]
  /\ deals = [d \in Ids |-> NoDeal]
  /\ nextListingId = 1
  /\ nextDealId = 1
  /\ balance = [t \in Tokens |-> [a \in Accounts |-> IF a \in Users THEN InitialBalance ELSE 0]]
  /\ verifierProxy \in VerifierChoices
  /\ reputation \in ReputationChoices
  /\ now = 0
  /\ receipts = [d \in Ids |-> NoReceipt]

----------------------------------------------------------------------------
(* ERC-20 transfers.  A fee-on-transfer token burns part of every transfer *)
(* between two accounts, on the way in and on the way out.                 *)

Received(token, amount) == amount - ((amount * FeeBps[token]) \div BPS_DENOMINATOR)

Move(bal, token, from, to, amount) ==
  [bal EXCEPT ![token] = [@ EXCEPT ![from] = bal[token][from] - amount,
                                   ![to] = bal[token][to] + Received(token, amount)]]

\* safeTransferFrom(user, address(this), amount): reverts without the funds.
Pull(token, user, amount) ==
  /\ amount <= balance[token][user]
  /\ balance' = Move(balance, token, user, EscrowAddress, amount)

\* What the contract records for a pull is the difference of its own balance, not the amount.
Delta_Requested(token, amount) == amount

Delta(token, amount) == Received(token, amount)

\* _payout skips amounts of zero, which changes no balance.
Payout_SkipsOne(bal, token, to, amount) ==
  IF amount <= 1 THEN bal ELSE Move(bal, token, EscrowAddress, to, amount)

Payout(bal, token, to, amount) == Move(bal, token, EscrowAddress, to, amount)

----------------------------------------------------------------------------
(* Owner configuration. *)

setVerifierProxy(address) ==
  /\ verifierProxy' = address
  /\ UNCHANGED <<listings, deals, nextListingId, nextDealId, balance, reputation, now, receipts,
                 reputationVars>>

setReputation(address) ==
  /\ reputation' = address
  /\ UNCHANGED <<listings, deals, nextListingId, nextDealId, balance, verifierProxy, now,
                 receipts, reputationVars>>

wireReputation(address) ==
  /\ setEscrow(address)
  /\ UNCHANGED <<listings, deals, nextListingId, nextDealId, balance, configVars, now, receipts>>

----------------------------------------------------------------------------
(* Listings. *)

ValidTerms(t) ==
  /\ t.priceUsd1e8 # 0
  /\ t.depositBps <= BPS_DENOMINATOR
  /\ t.payToken # NoAddress
  /\ t.payToken # StableToken => verifierProxy # NoAddress
  /\ t.dealTtl # 0
  /\ t.freeCancelWindow <= t.dealTtl

list(seller, t) ==
  /\ nextListingId <= MaxListings
  /\ ValidTerms(t)
  /\ Pull(t.payToken, seller, t.bondAmount)
  /\ listings' = [listings EXCEPT ![nextListingId] =
       [seller |-> seller, priceUsd1e8 |-> t.priceUsd1e8, depositBps |-> t.depositBps,
        payToken |-> t.payToken, active |-> TRUE, freeCancelWindow |-> t.freeCancelWindow,
        dealTtl |-> t.dealTtl, bond |-> Delta(t.payToken, t.bondAmount)]]
  /\ nextListingId' = nextListingId + 1
  /\ UNCHANGED <<deals, nextDealId, configVars, now, receipts, reputationVars>>

\* A listing that exists, and was neither funded nor cancelled.
Open_Listed(l) == l.seller # NoAddress

Open(l) == l.seller # NoAddress /\ l.active

cancelListing(sender, i) ==
  LET l == listings[i] IN
  /\ Open(l)
  /\ sender = l.seller
  /\ l.bond <= balance[l.payToken][EscrowAddress]
  /\ listings' = [listings EXCEPT ![i] = [@ EXCEPT !.active = FALSE, !.bond = 0]]
  /\ balance' = Payout(balance, l.payToken, l.seller, l.bond)
  /\ UNCHANGED <<deals, nextListingId, nextDealId, configVars, now, receipts, reputationVars>>

----------------------------------------------------------------------------
(* Funding. *)

stablePriceUnits(priceUsd1e8) == priceUsd1e8 \div 100

stableDepositUnits(priceUsd1e8, depositBps) ==
  (stablePriceUnits(priceUsd1e8) * depositBps) \div BPS_DENOMINATOR

\* Only the stable token is checked against price plus deposit.
Covers_PriceOnly(l, received) ==
  l.payToken = StableToken => received >= stablePriceUnits(l.priceUsd1e8)

Covers(l, received) ==
  l.payToken = StableToken =>
    received >= stablePriceUnits(l.priceUsd1e8) + stableDepositUnits(l.priceUsd1e8, l.depositBps)

\* Funding consumes the listing, whose bond field keeps its value although the bond now belongs
\* to the deal.
fund(buyer, i, tokenAmount) ==
  LET l == listings[i]
      received == Delta(l.payToken, tokenAmount)
  IN
  /\ nextDealId <= MaxListings
  /\ Open(l)
  /\ tokenAmount # 0
  /\ now + l.freeCancelWindow <= MaxUint64
  /\ now + l.dealTtl <= MaxUint64
  /\ Pull(l.payToken, buyer, tokenAmount)
  /\ received # 0
  /\ Covers(l, received)
  /\ listings' = [listings EXCEPT ![i] = [@ EXCEPT !.active = FALSE]]
  /\ deals' = [deals EXCEPT ![nextDealId] =
       [state |-> "Funded", buyer |-> buyer, seller |-> l.seller, payToken |-> l.payToken,
        priceUsd1e8 |-> l.priceUsd1e8, tokenAmount |-> received, depositBps |-> l.depositBps,
        freeCancelUntil |-> IF l.freeCancelWindow = 0 THEN 0 ELSE now + l.freeCancelWindow,
        expiry |-> now + l.dealTtl, sellerCheckedIn |-> FALSE, bond |-> l.bond]]
  /\ nextDealId' = nextDealId + 1
  /\ receipts' = [receipts EXCEPT ![nextDealId] = [@ EXCEPT !.listingId = i, !.bond = l.bond]]
  /\ UNCHANGED <<nextListingId, configVars, now, reputationVars>>

----------------------------------------------------------------------------
(* Settlement helpers. *)

Lesser(a, b) == IF a <= b THEN a ELSE b

\* Token units the item price and the deposit are worth, before any cap.
PriceWorth(deal, price1e8) ==
  IF deal.payToken = StableToken
  THEN stablePriceUnits(deal.priceUsd1e8)
  ELSE (deal.priceUsd1e8 * Scale[deal.payToken]) \div price1e8

DepositWorth(deal, price1e8) ==
  IF deal.payToken = StableToken
  THEN stableDepositUnits(deal.priceUsd1e8, deal.depositBps)
  ELSE (((deal.priceUsd1e8 * deal.depositBps) \div BPS_DENOMINATOR) * Scale[deal.payToken])
         \div price1e8

\* The caps of _settlementUnits: never more than is held, the buyer's price first.
PriceUnits(deal, price1e8) == Lesser(PriceWorth(deal, price1e8), deal.tokenAmount)

DepositUnits_First(deal, price1e8) == Lesser(DepositWorth(deal, price1e8), deal.tokenAmount)

DepositUnits_Uncapped(deal, price1e8) == DepositWorth(deal, price1e8)

DepositUnits(deal, price1e8) ==
  Lesser(DepositWorth(deal, price1e8), deal.tokenAmount - PriceUnits(deal, price1e8))

\* A volatile token needs a verifier, and a verified price above zero.
Priceable(deal, price1e8) ==
  deal.payToken # StableToken => verifierProxy # NoAddress /\ price1e8 > 0

\* The hooks fire only when a reputation contract is configured.
Hook_Always(hook) == hook

Hook(hook) == IF reputation = NoAddress THEN UNCHANGED stats ELSE hook

\* The common end of a deal: the new state, both payouts, and _settleBond.
Settle(d, finalState, toSeller, toBuyer, bondToBuyer) ==
  LET deal == deals[d]
      token == deal.payToken
      bondTo == IF bondToBuyer THEN deal.buyer ELSE deal.seller
  IN
  /\ toSeller + toBuyer + deal.bond <= balance[token][EscrowAddress]
  /\ deals' = [deals EXCEPT ![d] = [@ EXCEPT !.state = finalState, !.bond = 0]]
  /\ balance' = Payout(Payout(Payout(balance, token, deal.seller, toSeller),
                              token, deal.buyer, toBuyer),
                       token, bondTo, deal.bond)
  /\ receipts' = [receipts EXCEPT ![d] =
       [@ EXCEPT !.closedAt = now, !.toSeller = toSeller, !.toBuyer = toBuyer,
                 !.bondTo = IF deal.bond = 0 THEN NoAddress ELSE bondTo]]
  /\ UNCHANGED <<listings, nextListingId, nextDealId, configVars, now, escrow>>

Forfeit_SlashesBond(d, price1e8) ==
  LET deal == deals[d]
      deposit == DepositUnits(deal, price1e8)
  IN
  /\ Priceable(deal, price1e8)
  /\ Hook(onBuyerFlake(EscrowAddress, deal.buyer, deal.seller))
  /\ Settle(d, "Forfeited", deposit, deal.tokenAmount - deposit, TRUE)

Forfeit(d, price1e8) ==
  LET deal == deals[d]
      deposit == DepositUnits(deal, price1e8)
  IN
  /\ Priceable(deal, price1e8)
  /\ Hook(onBuyerFlake(EscrowAddress, deal.buyer, deal.seller))
  /\ Settle(d, "Forfeited", deposit, deal.tokenAmount - deposit, FALSE)

NoShow_RefundsPrice(d) ==
  LET deal == deals[d] IN
  /\ Hook(onSellerNoShow(EscrowAddress, deal.buyer, deal.seller))
  /\ Settle(d, "Refunded", 0, Lesser(PriceWorth(deal, 1), deal.tokenAmount), TRUE)

NoShow(d) ==
  LET deal == deals[d] IN
  /\ Hook(onSellerNoShow(EscrowAddress, deal.buyer, deal.seller))
  /\ Settle(d, "Refunded", 0, deal.tokenAmount, TRUE)

----------------------------------------------------------------------------
(* The lifecycle of a deal. *)

checkIn_AnyState(sender, d) ==
  /\ sender = deals[d].seller
  /\ deals' = [deals EXCEPT ![d] = [@ EXCEPT !.sellerCheckedIn = TRUE, !.state = "SellerCheckedIn"]]
  /\ UNCHANGED <<listings, nextListingId, nextDealId, balance, configVars, now, receipts,
                 reputationVars>>

\* No time check: a seller may check in after expiry, until somebody settles the deal.
checkIn(sender, d) ==
  /\ deals[d].state = "Funded"
  /\ sender = deals[d].seller
  /\ deals' = [deals EXCEPT ![d] = [@ EXCEPT !.sellerCheckedIn = TRUE, !.state = "SellerCheckedIn"]]
  /\ UNCHANGED <<listings, nextListingId, nextDealId, balance, configVars, now, receipts,
                 reputationVars>>

confirmReceipt(sender, d, price1e8) ==
  LET deal == deals[d]
      price == PriceUnits(deal, price1e8)
  IN
  /\ Live(d)
  /\ sender = deal.buyer
  /\ Priceable(deal, price1e8)
  /\ Hook(onCompleted(EscrowAddress, deal.buyer, deal.seller))
  /\ Settle(d, "Completed", price, deal.tokenAmount - price, FALSE)

agreeCancel(sender, d) ==
  LET deal == deals[d] IN
  /\ Live(d)
  /\ sender = deal.seller
  /\ Hook(onMutualCancel(EscrowAddress, deal.buyer, deal.seller))
  /\ Settle(d, "Refunded", 0, deal.tokenAmount, FALSE)

InFreeWindow_UntilCheckIn(deal) == now < deal.freeCancelUntil /\ ~deal.sellerCheckedIn

InFreeWindow(deal) == now < deal.freeCancelUntil

\* In the free window the bond goes back and no hook fires.
buyerCancel(sender, d, price1e8) ==
  LET deal == deals[d] IN
  /\ Live(d)
  /\ sender = deal.buyer
  /\ \/ /\ InFreeWindow(deal)
        /\ Settle(d, "Refunded", 0, deal.tokenAmount, FALSE)
        /\ UNCHANGED stats
     \/ /\ ~InFreeWindow(deal)
        /\ ~deal.sellerCheckedIn
        /\ NoShow(d)
     \/ /\ ~InFreeWindow(deal)
        /\ deal.sellerCheckedIn
        /\ Forfeit(d, price1e8)

\* Anyone may call it, so the caller is not a parameter.
reclaimExpired(d, price1e8) ==
  LET deal == deals[d] IN
  /\ Live(d)
  /\ now >= deal.expiry
  /\ \/ deal.sellerCheckedIn /\ Forfeit(d, price1e8)
     \/ ~deal.sellerCheckedIn /\ NoShow(d)

----------------------------------------------------------------------------
(* The next block timestamp. *)
Tick ==
  /\ now < MaxUint64
  /\ now' = now + 1
  /\ UNCHANGED <<listings, deals, nextListingId, nextDealId, balance, configVars, receipts,
                 reputationVars>>

OwnerNext ==
  \/ \E v \in VerifierChoices : setVerifierProxy(v)
  \/ \E r \in ReputationChoices : setReputation(r)
  \/ \E e \in EscrowCandidates : wireReputation(e)

ListingNext ==
  \E u \in Users :
    \/ \E t \in Terms : list(u, t)
    \/ \E i \in Ids : cancelListing(u, i)
    \/ \E i \in Ids, amount \in FundAmounts : fund(u, i, amount)

DealNext ==
  \E d \in Ids :
    \/ \E u \in Users : checkIn(u, d)
    \/ \E u \in Users : agreeCancel(u, d)
    \/ \E u \in Users, p \in OraclePrices : confirmReceipt(u, d, p)
    \/ \E u \in Users, p \in OraclePrices : buyerCancel(u, d, p)
    \/ \E p \in OraclePrices : reclaimExpired(d, p)

Next == OwnerNext \/ ListingNext \/ DealNext \/ Tick

Spec == Init /\ [][Next]_vars

----------------------------------------------------------------------------
(* Fairness.  Blocks keep coming, and somebody (the keeper's cron sweep,   *)
(* or either party) keeps trying to reclaim an expired deal.               *)

Reclaim(d) == \E p \in OraclePrices : reclaimExpired(d, p)

Fairness == WF_vars(Tick) /\ \A d \in Ids : WF_vars(Reclaim(d))

FairSpec == Spec /\ Fairness

----------------------------------------------------------------------------
(* Invariants. *)

\* A listing backs at most one deal, and once it does it can be neither funded again nor
\* cancelled: the seller's bond is never promised twice.  fund consumes the listing but leaves
\* its bond field as it was, so this rests on the active flag alone.
BondBacksOneDeal ==
  \A d \in Ids : deals[d].state # "None" =>
    /\ receipts[d].listingId \in Ids
    /\ ~listings[receipts[d].listingId].active
    /\ receipts[d].bond = listings[receipts[d].listingId].bond
    /\ \A e \in Ids : deals[e].state # "None" /\ e # d =>
         receipts[e].listingId # receipts[d].listingId

\* SPEC section 4: the deposit is at risk only once the seller has checked in and the free
\* window is over.  Neither a late check-in nor the order in which buyerCancel, checkIn and
\* reclaimExpired arrive can forfeit it otherwise.
DepositAtRisk ==
  \A d \in Ids : deals[d].state = "Forfeited" =>
    /\ deals[d].sellerCheckedIn
    /\ receipts[d].closedAt >= deals[d].freeCancelUntil

\* SPEC section 4: the bond goes to the buyer only when the seller never showed up: a deal
\* refunded after its free window with no check-in.  A seller who checked in always gets the
\* bond back, whoever ends the deal and whenever.
BondFollowsPresence ==
  \A d \in Ids :
    Final(d) /\ receipts[d].bond > 0 /\ receipts[d].bondTo # deals[d].seller =>
      /\ receipts[d].bondTo = deals[d].buyer
      /\ deals[d].state = "Refunded"
      /\ ~deals[d].sellerCheckedIn
      /\ receipts[d].closedAt >= deals[d].freeCancelUntil

\* A deal that ended paid out everything it held, no more and no less, and holds no bond.
SettledInFull ==
  \A d \in Ids : Final(d) =>
    /\ receipts[d].toSeller + receipts[d].toBuyer = deals[d].tokenAmount
    /\ deals[d].bond = 0
    /\ receipts[d].bond > 0 => receipts[d].bondTo \in {deals[d].buyer, deals[d].seller}

\* For the stable token the caps of the settlement never bite, because fund checked the amount
\* actually received: the seller of a completed deal gets the whole price, and a buyer whose
\* deposit is forfeited loses exactly the deposit.
StableDealsPayExactly ==
  \A d \in Ids :
    LET deal == deals[d]
        price == stablePriceUnits(deal.priceUsd1e8)
        deposit == stableDepositUnits(deal.priceUsd1e8, deal.depositBps)
    IN  deal.payToken = StableToken =>
          /\ deal.tokenAmount >= price + deposit
          /\ deal.state = "Completed" => receipts[d].toSeller = price
          /\ deal.state = "Forfeited" => receipts[d].toSeller = deposit
          /\ deal.state = "Refunded" => receipts[d].toSeller = 0

\* Whatever price a caller's report carries, a forfeited deal gives the seller at most depositBps
\* of what the buyer gets back (the 1 is the unit the price is rounded down by): in a shortfall
\* the buyer's price comes first and the deposit absorbs the loss (Escrow.sol 28-34).
DepositShareBounded ==
  \A d \in Ids : deals[d].state = "Forfeited" =>
    receipts[d].toSeller * BPS_DENOMINATOR <= deals[d].depositBps * (receipts[d].toBuyer + 1)

\* Action property: a deal that ended stays as it ended, and nothing a deal was funded with
\* (parties, token, amount, terms, timing) ever changes, so that neither party can move the
\* free window or the expiry under the other.  A checked-in deal never forgets the check-in.
DealIsBinding ==
  [][\A d \in Ids : deals[d].state # "None" =>
       /\ Final(d) => deals'[d] = deals[d] /\ receipts'[d] = receipts[d]
       /\ deals'[d] = [deals[d] EXCEPT !.state = deals'[d].state, !.bond = deals'[d].bond,
                                       !.sellerCheckedIn = deals'[d].sellerCheckedIn]
       /\ deals[d].sellerCheckedIn => deals'[d].sellerCheckedIn]_vars

===========================================================================
