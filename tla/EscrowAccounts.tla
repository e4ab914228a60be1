-------------------------- MODULE EscrowAccounts --------------------------
(***************************************************************************)
(* What the money and the reputation tally of Escrow add up to: the books  *)
(* that the contract's storage and events imply, against the balances and  *)
(* the tally themselves.                                                   *)
(***************************************************************************)
EXTENDS Escrow, Totals, FiniteSets

\* The bond each listing in the token still holds: cancelling returns it, funding moves it on.
ListingBonds(token) ==
  [i \in Ids |-> IF listings[i].payToken = token /\ listings[i].active THEN listings[i].bond ELSE 0]

\* What each live deal in the token holds: the buyer's tokens and the bond it took over.
DealFunds(token) ==
  [d \in Ids |-> IF deals[d].payToken = token /\ Live(d) THEN deals[d].tokenAmount + deals[d].bond
                 ELSE 0]

Obligations(token) == Total(ListingBonds(token), MaxListings) + Total(DealFunds(token), MaxListings)

\* Escrow.sol 295-300: the escrow's balance is at every moment exactly what its open listings
\* and live deals have recorded, with fee-on-transfer tokens too.  Were it less, the last deal
\* to settle would revert; were it more, tokens would be stranded.
Solvent == \A token \in Tokens : balance[token][EscrowAddress] = Obligations(token)

\* What each listing cost a user: the bond leaves the seller's wallet at list and comes back at
\* cancelListing, which zeroes it.
Stakes(u, token) ==
  [i \in Ids |-> IF listings[i].payToken = token /\ listings[i].seller = u THEN listings[i].bond
                 ELSE 0]

\* What a user paid into a deal, and what its end gave back, as its events tell it.
PaidIn(u, d) == IF deals[d].buyer = u THEN deals[d].tokenAmount ELSE 0

PaidOut(u, d) ==
  LET r == receipts[d] IN
  IF Final(d) THEN (IF u = deals[d].seller THEN r.toSeller ELSE 0)
                     + (IF u = deals[d].buyer THEN r.toBuyer ELSE 0)
                     + (IF u = r.bondTo THEN r.bond ELSE 0)
  ELSE 0

Outcomes(u, token) ==
  [d \in Ids |-> IF deals[d].payToken = token THEN PaidOut(u, d) - PaidIn(u, d) ELSE 0]

\* Without transfer fees every wallet is explained by the events: what the user started with,
\* less bonds staked, plus the outcome of each deal the user was in.  No call ever takes from or
\* pays to an account that is not a party, whatever the interleaving of listings and deals.
WalletsExplained ==
  \A token \in Tokens : FeeBps[token] = 0 =>
    \A u \in Users :
      balance[token][u] = InitialBalance - Total(Stakes(u, token), MaxListings)
                                         + Total(Outcomes(u, token), MaxListings)

AsBuyer(u, final) == {d \in Ids : deals[d].state = final /\ deals[d].buyer = u}
AsSeller(u, final) == {d \in Ids : deals[d].state = final /\ deals[d].seller = u}
Unkept(u) == {d \in AsSeller(u, "Refunded") : ~deals[d].sellerCheckedIn}
Late(u) == {d \in AsSeller(u, "Refunded") : receipts[d].closedAt >= deals[d].freeCancelUntil}

\* What the tally of one user says, and must say while the owner keeps the reputation contract.
TallyOf(u) ==
  LET completed == Cardinality(AsBuyer(u, "Completed")) + Cardinality(AsSeller(u, "Completed"))
      refunded == Cardinality(AsBuyer(u, "Refunded")) + Cardinality(AsSeller(u, "Refunded"))
      flakes == Cardinality(AsBuyer(u, "Forfeited"))
  IN  /\ stats[u].completed <= completed
      /\ stats[u].buyerFlakes <= flakes
      /\ stats[u].sellerNoShows <= Cardinality(Unkept(u))
      /\ stats[u].mutualCancels + stats[u].sellerNoShows <= refunded
      /\ NoAddress \notin ReputationChoices =>
           /\ stats[u].completed = completed
           /\ stats[u].buyerFlakes = flakes
           /\ stats[u].mutualCancels + stats[u].sellerNoShows >= Cardinality(Late(u))

\* The tally follows the deals: a user is credited at most once per role for each completed
\* deal, blamed for a flake at most once per deal forfeited as buyer, and so on; and while the
\* owner keeps the reputation contract in place, nothing that ended past its free window goes
\* unrecorded: which hook it was may differ, that there was exactly one may not.
StatsFollowDeals == \A u \in Users : TallyOf(u)

----------------------------------------------------------------------------
(* Liveness under an owner who reconfigures the contract. *)

\* Every settlement path can run: the hooks do not revert, and volatile deals have a verifier.
Operational ==
  /\ reputation # NoAddress => escrow = EscrowAddress
  /\ verifierProxy # NoAddress

\* Escrow.sol 495-498: no deal stays open for ever.  However often the owner takes the verifier
\* or the reputation contract away, once both stay usable every deal, stable or volatile, ends.
EveryDealSettles == <>[]Operational => \A d \in Ids : Live(d) ~> Final(d)

----------------------------------------------------------------------------
(* Two sentences of the documents that the contract does not keep. *)

\* Escrow.sol 18: "the item price is always recoverable by the buyer".  Some call of the buyer's
\* own can end every live deal.
ItemPriceRecoverable ==
  \A d \in Ids : Live(d) =>
    ENABLED \E p \in OraclePrices : \/ buyerCancel(deals[d].buyer, d, p)
                                   \/ reclaimExpired(d, p)

==========================================================================
