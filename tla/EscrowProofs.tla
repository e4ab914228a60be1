--------------------------- MODULE EscrowProofs ---------------------------
(***************************************************************************)
(* Proofs about Escrow for every set of users, tokens, terms, amounts,     *)
(* prices and fees, any number of listings and any horizon.                *)
(***************************************************************************)
EXTENDS EscrowHandoff, TLAPS

----------------------------------------------------------------------------
(* Lemmas about the arithmetic and the token transfers. *)

\* Dividing a natural number rounds to a natural number (every conversion of the contract).
LEMMA DivNat ==
  ASSUME NEW a \in Nat, NEW b \in Nat \ {0}
  PROVE  a \div b \in Nat
  BY SMT

\* Products of natural numbers stay natural numbers.
LEMMA MulNat ==
  ASSUME NEW a \in Nat, NEW b \in Nat
  PROVE  a * b \in Nat
  BY SMT

\* Dividing rounds down, by less than one divisor.
LEMMA DivBounds ==
  ASSUME NEW a \in Nat, NEW p \in Nat \ {0}
  PROVE  /\ a \div p \in Nat
         /\ (a \div p) * p <= a
         /\ a <= (a \div p + 1) * p
  BY SMT

\* Multiplying by a natural number keeps the order.
LEMMA MulMono ==
  ASSUME NEW a \in Nat, NEW b \in Nat, NEW c \in Nat, a <= b
  PROVE  a * c <= b * c
  BY SMT

\* A common factor above zero can be cancelled.
LEMMA MulCancel ==
  ASSUME NEW a \in Int, NEW b \in Int, NEW c \in Nat \ {0}, a * c <= b * c
  PROVE  a <= b
  BY SMT

\* The two roundings of a volatile deposit, first to dollars and then to tokens, only ever lower
\* it; the one rounding of the price lowers that by less than one token unit.
LEMMA ShareRounds ==
  ASSUME NEW price \in Nat, NEW bps \in Nat, NEW scale \in Nat, NEW p \in Nat \ {0},
         NEW denom \in Nat \ {0},
         NEW deposit, deposit = (((price * bps) \div denom) * scale) \div p,
         NEW worth, worth = (price * scale) \div p
  PROVE  deposit * denom <= bps * (worth + 1)
  <1> DEFINE usd == (price * bps) \div denom
  <1>1. usd \in Nat /\ usd * denom <= price * bps
    BY DivBounds, price * bps \in Nat
  <1>2. deposit \in Nat /\ deposit * p <= usd * scale
    <2>1. usd * scale \in Nat
      BY <1>1
    <2>2. deposit = (usd * scale) \div p
      OBVIOUS
    <2> HIDE DEF usd
    <2> QED
      BY <2>1, <2>2, DivBounds
  <1>3. worth \in Nat /\ price * scale <= (worth + 1) * p
    BY DivBounds, price * scale \in Nat
  <1> HIDE DEF usd
  <1>4. (deposit * p) * denom <= (usd * scale) * denom
    BY <1>1, <1>2, MulMono
  <1>5. (usd * denom) * scale <= (price * bps) * scale
    BY <1>1, MulMono
  <1>6. (price * scale) * bps <= ((worth + 1) * p) * bps
    BY <1>3, MulMono
  <1>7. (deposit * denom) * p <= (bps * (worth + 1)) * p
    <2>1. (deposit * p) * denom = (deposit * denom) * p
      BY <1>2
    <2>2. (usd * scale) * denom = (usd * denom) * scale
      BY <1>1
    <2>3. (price * bps) * scale = (price * scale) * bps
      OBVIOUS
    <2>4. ((worth + 1) * p) * bps = (bps * (worth + 1)) * p
      BY <1>3
    <2> QED
      BY <1>1, <1>2, <1>3, <1>4, <1>5, <1>6, <2>1, <2>2, <2>3, <2>4
  <1> QED
    BY <1>2, <1>3, <1>7, MulCancel

\* A token never delivers more than was sent, nor less than nothing.
LEMMA ReceivedBounds ==
  ASSUME NEW token \in Tokens, NEW amount \in Nat
  PROVE  Received(token, amount) \in 0 .. amount
  <1> DEFINE fee == FeeBps[token]
             product == amount * fee
  <1>1. fee \in 0 .. BPS_DENOMINATOR
    BY EscrowAssumption
  <1>2. fee \in Int /\ 0 <= fee /\ fee <= 10000
    <2> HIDE DEF fee
    <2> QED BY <1>1 DEF BPS_DENOMINATOR
  <1> HIDE DEF fee
  <1>3. product \in Int /\ 0 <= product /\ product <= 10000 * amount
    <2>1. amount * (10000 - fee) >= 0 /\ product >= 0 /\ product \in Int
      BY <1>2, MulNat
    <2> QED
      BY <1>2, <2>1
  <1> HIDE DEF product
  <1>4. product \div 10000 \in 0 .. amount
    BY <1>3
  <1> QED
    BY <1>4 DEF Received, BPS_DENOMINATOR, product, fee

\* A transfer moves the amount out of one account and what is received into the other.
LEMMA MoveEffect ==
  ASSUME NEW bal \in [Tokens -> [Accounts -> Nat]], NEW token \in Tokens,
         NEW from \in Accounts, NEW to \in Accounts, from # to,
         NEW amount \in Nat, amount <= bal[token][from]
  PROVE  /\ Move(bal, token, from, to, amount) \in [Tokens -> [Accounts -> Nat]]
         /\ Move(bal, token, from, to, amount)[token][from] = bal[token][from] - amount
  <1> DEFINE row == [bal[token] EXCEPT ![from] = bal[token][from] - amount,
                                       ![to] = bal[token][to] + Received(token, amount)]
  <1>1. Received(token, amount) \in Nat
    BY ReceivedBounds
  <1>2. bal[token] \in [Accounts -> Nat] /\ bal[token][from] - amount \in Nat
    OBVIOUS
  <1>3. row \in [Accounts -> Nat] /\ row[from] = bal[token][from] - amount
    BY <1>1, <1>2
  <1>4. Move(bal, token, from, to, amount) = [bal EXCEPT ![token] = row]
    BY DEF Move
  <1> HIDE DEF row
  <1> QED
    BY <1>3, <1>4

----------------------------------------------------------------------------
(* The inductive invariant. *)

\* Listings are numbered in order, and an accepted one kept the terms list checked.
ListingsWellFormed ==
  \A i \in Ids :
    /\ listings[i].seller # NoAddress <=> i < nextListingId
    /\ listings[i].active => listings[i].seller # NoAddress
    /\ listings[i].seller # NoAddress =>
         /\ listings[i].payToken \in Tokens
         /\ listings[i].dealTtl > 0
         /\ listings[i].freeCancelWindow <= listings[i].dealTtl

\* Deals are numbered in order; a deal is funded, has parties and a token, and its state and its
\* check-in flag agree; until it ends its receipt says only where it came from.
DealsWellFormed ==
  \A d \in Ids :
    LET deal == deals[d]
        r == receipts[d]
    IN  /\ deal.state # "None" <=> d < nextDealId
        /\ deal.state = "None" => deal = NoDeal /\ r = NoReceipt
        /\ deal.state # "None" =>
             /\ deal.buyer \in Users
             /\ deal.seller \in Users
             /\ deal.payToken \in Tokens
             /\ listings[r.listingId].seller # NoAddress
             /\ deal.tokenAmount > 0
             /\ deal.freeCancelUntil <= deal.expiry
        /\ deal.state = "Funded" => ~deal.sellerCheckedIn
        /\ deal.state = "SellerCheckedIn" => deal.sellerCheckedIn
        /\ deal.state \in LiveStates =>
             /\ deal.bond = r.bond
             /\ r.closedAt = 0
             /\ r.toSeller = 0
             /\ r.toBuyer = 0
             /\ r.bondTo = NoAddress

Inv ==
  /\ TypeOK
  /\ ListingsWellFormed
  /\ DealsWellFormed
  /\ BondBacksOneDeal
  /\ DepositAtRisk
  /\ BondFollowsPresence
  /\ SettledInFull
  /\ StableDealsPayExactly
  /\ DepositShareBounded

\* The contract starts in a state that satisfies the invariant.
LEMMA InitInv == Init => Inv
  <1> SUFFICES ASSUME Init PROVE Inv
    OBVIOUS
  <1> USE DEF Init, ReputationInit
  <1>1. TypeOK
    <2>1. ReputationTypeOK
      BY DEF ReputationTypeOK, Stats, NoStats
    <2>2. NoListing \in Listing /\ NoDeal \in Deal /\ NoReceipt \in Receipt
      BY DEF NoListing, Listing, NoDeal, Deal, NoReceipt, Receipt, States
    <2>3. balance \in [Tokens -> [Accounts -> Nat]]
      BY EscrowAssumption
    <2> QED
      BY <2>1, <2>2, <2>3, EscrowAssumption DEF TypeOK
  <1>2. ListingsWellFormed
    BY EscrowAssumption DEF ListingsWellFormed, NoListing, Ids
  <1>3. DealsWellFormed
    BY EscrowAssumption DEF DealsWellFormed, NoDeal, NoReceipt, Ids, LiveStates
  <1>4. BondBacksOneDeal
    BY DEF BondBacksOneDeal, NoDeal
  <1>5. DepositAtRisk /\ BondFollowsPresence /\ SettledInFull
    BY DEF DepositAtRisk, BondFollowsPresence, SettledInFull, NoDeal, Final, FinalStates
  <1>6. StableDealsPayExactly
    BY EscrowAssumption DEF StableDealsPayExactly, NoDeal, Tokens
  <1>7. DepositShareBounded
    BY DEF DepositShareBounded, NoDeal
  <1> QED
    BY <1>1, <1>2, <1>3, <1>4, <1>5, <1>6, <1>7 DEF Inv

----------------------------------------------------------------------------
(* Ending a deal.  All five ways to end one go through Settle, so what it  *)
(* does to the state and why it preserves the invariant is proved once.    *)

\* _payout takes exactly the amount out of the escrow, whatever the token burns on the way.
LEMMA PayoutEffect ==
  ASSUME NEW bal \in [Tokens -> [Accounts -> Nat]], NEW token \in Tokens, NEW u \in Users,
         NEW amount \in Nat, amount <= bal[token][EscrowAddress]
  PROVE  /\ Payout(bal, token, u, amount) \in [Tokens -> [Accounts -> Nat]]
         /\ Payout(bal, token, u, amount)[token][EscrowAddress]
              = bal[token][EscrowAddress] - amount
  <1>1. EscrowAddress \in Accounts /\ u \in Accounts /\ EscrowAddress # u
    BY UsersAssumption DEF Accounts
  <1> QED
    BY <1>1, MoveEffect, Zenon DEF Payout

\* The escrow pays at most what it was found to hold, so every balance stays a natural number.
LEMMA PayoutsType ==
  ASSUME NEW bal \in [Tokens -> [Accounts -> Nat]], NEW token \in Tokens,
         NEW a \in Users, NEW b \in Users, NEW c \in Users,
         NEW x \in Nat, NEW y \in Nat, NEW z \in Nat,
         x + y + z <= bal[token][EscrowAddress]
  PROVE  Payout(Payout(Payout(bal, token, a, x), token, b, y), token, c, z)
           \in [Tokens -> [Accounts -> Nat]]
  <1> DEFINE bal1 == Payout(bal, token, a, x)
             bal2 == Payout(bal1, token, b, y)
             bal3 == Payout(bal2, token, c, z)
  <1>1. bal[token][EscrowAddress] \in Nat
    BY DEF Accounts
  <1>2. x <= bal[token][EscrowAddress]
    BY <1>1
  <1>3. /\ bal1 \in [Tokens -> [Accounts -> Nat]]
        /\ bal1[token][EscrowAddress] = bal[token][EscrowAddress] - x
    BY <1>2, PayoutEffect
  <1> HIDE DEF bal1
  <1>4. y <= bal1[token][EscrowAddress]
    BY <1>1, <1>3
  <1>5. /\ bal2 \in [Tokens -> [Accounts -> Nat]]
        /\ bal2[token][EscrowAddress] = bal1[token][EscrowAddress] - y
    BY <1>3, <1>4, PayoutEffect
  <1> HIDE DEF bal2
  <1>6. z <= bal2[token][EscrowAddress]
    BY <1>1, <1>3, <1>5
  <1>7. bal3 \in [Tokens -> [Accounts -> Nat]]
    BY <1>5, <1>6, PayoutEffect
  <1> QED
    BY <1>7 DEF bal1, bal2

\* Ending a deal touches that deal and its receipt only, and keeps the types.
Ended(d, final, toSeller, toBuyer, bondToBuyer) ==
  /\ deals' \in [Ids -> Deal]
  /\ receipts' \in [Ids -> Receipt]
  /\ balance' \in [Tokens -> [Accounts -> Nat]]
  /\ deals'[d] = [deals[d] EXCEPT !.state = final, !.bond = 0]
  /\ receipts'[d] =
       [receipts[d] EXCEPT !.closedAt = now, !.toSeller = toSeller, !.toBuyer = toBuyer,
          !.bondTo = IF deals[d].bond = 0 THEN NoAddress
                     ELSE IF bondToBuyer THEN deals[d].buyer ELSE deals[d].seller]
  /\ \A e \in Ids : e # d => deals'[e] = deals[e] /\ receipts'[e] = receipts[e]
  /\ UNCHANGED <<listings, nextListingId, nextDealId, configVars, now, escrow>>

\* The storage writes and transfers shared by the five ways to end a deal do no more than that.
LEMMA SettleEffect ==
  ASSUME Inv, NEW d \in Ids, Live(d),
         NEW final \in FinalStates, NEW toSeller \in Nat, NEW toBuyer \in Nat,
         NEW bondToBuyer \in BOOLEAN,
         Settle(d, final, toSeller, toBuyer, bondToBuyer)
  PROVE  Ended(d, final, toSeller, toBuyer, bondToBuyer)
  <1> DEFINE bondTo == IF bondToBuyer THEN deals[d].buyer ELSE deals[d].seller
  <1>1. /\ deals \in [Ids -> Deal]
        /\ receipts \in [Ids -> Receipt]
        /\ balance \in [Tokens -> [Accounts -> Nat]]
        /\ now \in Nat
    BY DEF Inv, TypeOK
  <1>2. /\ deals[d].buyer \in Users
        /\ deals[d].seller \in Users
        /\ deals[d].payToken \in Tokens
        /\ deals[d].bond \in Nat
    BY <1>1 DEF Inv, DealsWellFormed, Live, LiveStates, Deal
  <1>3. bondTo \in Users
    BY <1>2
  <1>4. balance' \in [Tokens -> [Accounts -> Nat]]
    BY <1>1, <1>2, <1>3, PayoutsType DEF Settle
  <1>5. /\ deals' \in [Ids -> Deal]
        /\ deals'[d] = [deals[d] EXCEPT !.state = final, !.bond = 0]
        /\ \A e \in Ids : e # d => deals'[e] = deals[e]
    <2> DEFINE new == [deals[d] EXCEPT !.state = final, !.bond = 0]
    <2>1. deals' = [deals EXCEPT ![d] = new]
      BY DEF Settle
    <2>2. new \in Deal
      BY <1>1 DEF Deal, FinalStates, States
    <2> HIDE DEF new
    <2>3. deals' \in [Ids -> Deal] /\ deals'[d] = new /\ \A e \in Ids : e # d => deals'[e] = deals[e]
      BY <1>1, <2>1, <2>2
    <2> QED
      BY <2>3 DEF new
  <1>6. /\ receipts' \in [Ids -> Receipt]
        /\ receipts'[d] =
             [receipts[d] EXCEPT !.closedAt = now, !.toSeller = toSeller, !.toBuyer = toBuyer,
                !.bondTo = IF deals[d].bond = 0 THEN NoAddress ELSE bondTo]
        /\ \A e \in Ids : e # d => receipts'[e] = receipts[e]
    BY <1>1, <1>3 DEF Settle, Receipt
  <1> QED
    BY <1>4, <1>5, <1>6 DEF Settle, Ended

\* What the five callers of Settle owe it: the split covers the deal, a forfeit and a slashed
\* bond only in the cases SPEC section 4 names, and for the stable token the exact amounts.
SettlesFairly(d, final, toSeller, toBuyer, bondToBuyer) ==
  LET deal == deals[d] IN
  /\ toSeller + toBuyer = deal.tokenAmount
  /\ final = "Forfeited" => deal.sellerCheckedIn /\ now >= deal.freeCancelUntil
  /\ bondToBuyer =>
       final = "Refunded" /\ ~deal.sellerCheckedIn /\ now >= deal.freeCancelUntil
  /\ final = "Refunded" => toSeller = 0
  /\ deal.payToken = StableToken =>
       /\ final = "Completed" => toSeller = stablePriceUnits(deal.priceUsd1e8)
       /\ final = "Forfeited" =>
            toSeller = stableDepositUnits(deal.priceUsd1e8, deal.depositBps)
  /\ final = "Forfeited" => toSeller * BPS_DENOMINATOR <= deal.depositBps * (toBuyer + 1)

\* Which hook goes with which ending; a refund in the free window alone has none.
Recorded(d, final, bondToBuyer) ==
  LET buyer == deals[d].buyer
      seller == deals[d].seller
  IN
  \/ final = "Completed" /\ Hook(onCompleted(EscrowAddress, buyer, seller))
  \/ final = "Forfeited" /\ Hook(onBuyerFlake(EscrowAddress, buyer, seller))
  \/ final = "Refunded" /\ bondToBuyer /\ Hook(onSellerNoShow(EscrowAddress, buyer, seller))
  \/ final = "Refunded" /\ ~bondToBuyer /\ Hook(onMutualCancel(EscrowAddress, buyer, seller))
  \/ final = "Refunded" /\ ~bondToBuyer /\ now < deals[d].freeCancelUntil /\ UNCHANGED stats

\* A transaction that ends deal d does so once, fairly, pays, records and touches nothing else.
Closes(d) ==
  /\ Live(d)
  /\ stats' \in [Users -> Stats]
  /\ \E final \in FinalStates, toSeller \in Nat, toBuyer \in Nat, bondToBuyer \in BOOLEAN :
       /\ SettlesFairly(d, final, toSeller, toBuyer, bondToBuyer)
       /\ Ended(d, final, toSeller, toBuyer, bondToBuyer)
       /\ Settle(d, final, toSeller, toBuyer, bondToBuyer)
       /\ Recorded(d, final, bondToBuyer)

\* A fair settlement closes its deal.
LEMMA SettleCloses ==
  ASSUME Inv, NEW d \in Ids, Live(d),
         NEW final \in FinalStates, NEW toSeller \in Nat, NEW toBuyer \in Nat,
         NEW bondToBuyer \in BOOLEAN,
         SettlesFairly(d, final, toSeller, toBuyer, bondToBuyer),
         Settle(d, final, toSeller, toBuyer, bondToBuyer),
         Recorded(d, final, bondToBuyer),
         stats' \in [Users -> Stats]
  PROVE  Closes(d)
  <1>1. Ended(d, final, toSeller, toBuyer, bondToBuyer)
    BY SettleEffect
  <1>2. \E f \in FinalStates, s \in Nat, b \in Nat, c \in BOOLEAN :
          /\ SettlesFairly(d, f, s, b, c)
          /\ Ended(d, f, s, b, c)
          /\ Settle(d, f, s, b, c)
          /\ Recorded(d, f, c)
    BY <1>1, Zenon
  <1> QED
    BY <1>2, Zenon DEF Closes

\* A closed deal satisfies the invariant, and the others are as they were.
LEMMA ClosingInv ==
  ASSUME Inv, NEW d \in Ids, Closes(d)
  PROVE  Inv'
  <1> PICK final \in FinalStates, toSeller \in Nat, toBuyer \in Nat, bondToBuyer \in BOOLEAN :
        /\ SettlesFairly(d, final, toSeller, toBuyer, bondToBuyer)
        /\ Ended(d, final, toSeller, toBuyer, bondToBuyer)
    BY Zenon DEF Closes
  <1>0. /\ Ended(d, final, toSeller, toBuyer, bondToBuyer)
        /\ Live(d)
        /\ stats' \in [Users -> Stats]
    BY DEF Closes
  <1>1. /\ deals' \in [Ids -> Deal]
        /\ receipts' \in [Ids -> Receipt]
        /\ balance' \in [Tokens -> [Accounts -> Nat]]
        /\ UNCHANGED <<listings, nextListingId, nextDealId, configVars, now, escrow>>
    BY <1>0 DEF Ended
  <1>2. /\ deals'[d] = [deals[d] EXCEPT !.state = final, !.bond = 0]
        /\ receipts'[d] =
             [receipts[d] EXCEPT !.closedAt = now, !.toSeller = toSeller, !.toBuyer = toBuyer,
                !.bondTo = IF deals[d].bond = 0 THEN NoAddress
                           ELSE IF bondToBuyer THEN deals[d].buyer ELSE deals[d].seller]
    BY <1>0 DEF Ended
  <1>3. \A e \in Ids : e # d => deals'[e] = deals[e] /\ receipts'[e] = receipts[e]
    BY <1>0 DEF Ended
  <1>4. deals \in [Ids -> Deal] /\ receipts \in [Ids -> Receipt] /\ now \in Nat
    BY DEF Inv, TypeOK
  <1>5. /\ deals'[d].state = final
        /\ deals'[d].bond = 0
        /\ deals'[d].buyer = deals[d].buyer
        /\ deals'[d].seller = deals[d].seller
        /\ deals'[d].payToken = deals[d].payToken
        /\ deals'[d].priceUsd1e8 = deals[d].priceUsd1e8
        /\ deals'[d].tokenAmount = deals[d].tokenAmount
        /\ deals'[d].depositBps = deals[d].depositBps
        /\ deals'[d].freeCancelUntil = deals[d].freeCancelUntil
        /\ deals'[d].expiry = deals[d].expiry
        /\ deals'[d].sellerCheckedIn = deals[d].sellerCheckedIn
    BY <1>2, <1>4 DEF Deal
  <1>6. /\ receipts'[d].listingId = receipts[d].listingId
        /\ receipts'[d].bond = receipts[d].bond
        /\ receipts'[d].closedAt = now
        /\ receipts'[d].toSeller = toSeller
        /\ receipts'[d].toBuyer = toBuyer
        /\ receipts'[d].bondTo = IF deals[d].bond = 0 THEN NoAddress
                                 ELSE IF bondToBuyer THEN deals[d].buyer ELSE deals[d].seller
    BY <1>2, <1>4 DEF Receipt
  <1>7. /\ deals[d].state \in LiveStates
        /\ deals[d].state # "None"
        /\ deals[d].bond = receipts[d].bond
        /\ final # "None" /\ final \notin LiveStates
        /\ deals[d].buyer \in Users /\ deals[d].seller \in Users
    BY <1>0 DEF Live, LiveStates, FinalStates, Inv, DealsWellFormed
  <1>8. TypeOK'
    BY <1>0, <1>1 DEF Inv, TypeOK, ReputationTypeOK, configVars
  <1>9. ListingsWellFormed'
    BY <1>1 DEF Inv, ListingsWellFormed
  <1>10. DealsWellFormed'
    <2> SUFFICES ASSUME NEW e \in Ids
                 PROVE  DealsWellFormed!(e)'
      BY DEF DealsWellFormed
    <2>1. CASE e = d
      BY <2>1, <1>1, <1>5, <1>6, <1>7 DEF Inv, DealsWellFormed, LiveStates
    <2>2. CASE e # d
      BY <2>2, <1>1, <1>3 DEF Inv, DealsWellFormed
    <2> QED
      BY <2>1, <2>2
  <1>11. BondBacksOneDeal'
    BY <1>1, <1>3, <1>5, <1>6, <1>7 DEF Inv, BondBacksOneDeal
  <1>12. DepositAtRisk'
    BY <1>3, <1>5, <1>6 DEF Inv, DepositAtRisk, SettlesFairly
  <1>13. BondFollowsPresence'
    BY <1>3, <1>5, <1>6, <1>7 DEF Inv, BondFollowsPresence, SettlesFairly, Final
  <1>14. SettledInFull'
    BY <1>3, <1>5, <1>6, <1>7 DEF Inv, SettledInFull, SettlesFairly, Final
  <1>15. StableDealsPayExactly'
    BY <1>3, <1>5, <1>6, <1>7 DEF Inv, StableDealsPayExactly, SettlesFairly, FinalStates
  <1>16. DepositShareBounded'
    BY <1>3, <1>5, <1>6 DEF Inv, DepositShareBounded, SettlesFairly
  <1> QED
    BY <1>8, <1>9, <1>10, <1>11, <1>12, <1>13, <1>14, <1>15, <1>16 DEF Inv

----------------------------------------------------------------------------
(* The amounts a settlement computes. *)

\* What is worth how much is a natural number, whatever the terms; the stable conversion needs
\* no price, and a volatile one a price above zero.
LEMMA WorthType ==
  ASSUME NEW deal \in Deal, deal.payToken \in Tokens, NEW p \in OraclePrices,
         Priceable(deal, p)
  PROVE  PriceWorth(deal, p) \in Nat /\ DepositWorth(deal, p) \in Nat
  <1>1. /\ deal.priceUsd1e8 \in Nat
        /\ deal.depositBps \in Nat
    BY DEF Deal
  <1>2. CASE deal.payToken = StableToken
    <2>1. deal.priceUsd1e8 \div 100 \in Nat
      BY <1>1, DivNat
    <2>2. (deal.priceUsd1e8 \div 100) * deal.depositBps \in Nat
      BY <1>1, <2>1, MulNat
    <2>3. ((deal.priceUsd1e8 \div 100) * deal.depositBps) \div 10000 \in Nat
      BY <2>2, DivNat
    <2> QED
      BY <1>2, <2>1, <2>3
      DEF PriceWorth, DepositWorth, stablePriceUnits, stableDepositUnits, BPS_DENOMINATOR
  <1>3. CASE deal.payToken # StableToken
    <2> DEFINE scale == Scale[deal.payToken]
               depositUsd == (deal.priceUsd1e8 * deal.depositBps) \div 10000
    <2>1. scale \in Nat
      BY <1>3, EscrowAssumption DEF Tokens
    <2>2. p \in Nat \ {0}
      BY <1>3, EscrowAssumption DEF Priceable
    <2> HIDE DEF scale
    <2>3. deal.priceUsd1e8 * deal.depositBps \in Nat
      BY <1>1, MulNat
    <2>4. depositUsd \in Nat
      BY <2>3, DivNat
    <2> HIDE DEF depositUsd
    <2>5. deal.priceUsd1e8 * scale \in Nat /\ depositUsd * scale \in Nat
      BY <1>1, <2>1, <2>4, MulNat
    <2>6. /\ (deal.priceUsd1e8 * scale) \div p \in Nat
          /\ (depositUsd * scale) \div p \in Nat
      BY <2>2, <2>5, DivNat
    <2> QED
      BY <1>3, <2>6 DEF PriceWorth, DepositWorth, scale, depositUsd, BPS_DENOMINATOR
  <1> QED
    BY <1>2, <1>3

\* A settlement never gives out more than is held, and for the stable token the caps are idle.
LEMMA UnitsBounds ==
  ASSUME Inv, NEW d \in Ids, Live(d), NEW p \in OraclePrices, Priceable(deals[d], p)
  PROVE  /\ PriceUnits(deals[d], p) \in 0 .. deals[d].tokenAmount
         /\ DepositUnits(deals[d], p) \in 0 .. deals[d].tokenAmount
         /\ deals[d].payToken = StableToken =>
              /\ PriceUnits(deals[d], p) = stablePriceUnits(deals[d].priceUsd1e8)
              /\ DepositUnits(deals[d], p) =
                   stableDepositUnits(deals[d].priceUsd1e8, deals[d].depositBps)
  <1>1. /\ deals[d] \in Deal
        /\ deals[d].payToken \in Tokens
        /\ deals[d].tokenAmount \in Nat
    BY DEF Inv, TypeOK, DealsWellFormed, Live, LiveStates, Deal
  <1>2. PriceWorth(deals[d], p) \in Nat /\ DepositWorth(deals[d], p) \in Nat
    BY <1>1, WorthType
  <1>3. deals[d].payToken = StableToken =>
          /\ PriceWorth(deals[d], p) = stablePriceUnits(deals[d].priceUsd1e8)
          /\ DepositWorth(deals[d], p) =
               stableDepositUnits(deals[d].priceUsd1e8, deals[d].depositBps)
          /\ PriceWorth(deals[d], p) + DepositWorth(deals[d], p) <= deals[d].tokenAmount
    BY <1>1, <1>2 DEF PriceWorth, DepositWorth, Inv, StableDealsPayExactly
  <1> QED
    BY <1>1, <1>2, <1>3 DEF PriceUnits, DepositUnits, Lesser

\* What the deposit is worth is at most depositBps of what the price is worth, up to one unit.
LEMMA DepositWorthBound ==
  ASSUME NEW deal \in Deal, deal.payToken \in Tokens, NEW p \in OraclePrices,
         Priceable(deal, p)
  PROVE  DepositWorth(deal, p) * BPS_DENOMINATOR
           <= deal.depositBps * (PriceWorth(deal, p) + 1)
  <1>1. deal.priceUsd1e8 \in Nat /\ deal.depositBps \in Nat
    BY DEF Deal
  <1>2. CASE deal.payToken = StableToken
    <2> DEFINE worth == deal.priceUsd1e8 \div 100
               deposit == (worth * deal.depositBps) \div 10000
    <2>1. worth \in Nat
      BY <1>1, DivNat
    <2>2. worth * deal.depositBps \in Nat
      BY <1>1, <2>1, MulNat
    <2>3. deposit \in Nat /\ deposit * 10000 <= worth * deal.depositBps
      BY <2>2, DivBounds
    <2> HIDE DEF worth, deposit
    <2>4. worth * deal.depositBps <= (worth + 1) * deal.depositBps
      BY <1>1, <2>1, MulMono
    <2>5. (worth + 1) * deal.depositBps = deal.depositBps * (worth + 1)
      BY <1>1, <2>1
    <2>6. (worth + 1) * deal.depositBps \in Nat
      BY <1>1, <2>1, MulNat
    <2>7. deposit * 10000 <= deal.depositBps * (worth + 1)
      BY <2>2, <2>3, <2>4, <2>5, <2>6
    <2> QED
      BY <1>2, <2>7
      DEF PriceWorth, DepositWorth, stablePriceUnits, stableDepositUnits, BPS_DENOMINATOR,
          worth, deposit
  <1>3. CASE deal.payToken # StableToken
    <2>1. Scale[deal.payToken] \in Nat
      BY <1>3, EscrowAssumption DEF Tokens
    <2>2. p \in Nat \ {0}
      BY <1>3, EscrowAssumption DEF Priceable
    <2> DEFINE price == deal.priceUsd1e8
               bps == deal.depositBps
               scale == Scale[deal.payToken]
    <2>3. /\ PriceWorth(deal, p) = (price * scale) \div p
          /\ DepositWorth(deal, p) = (((price * bps) \div BPS_DENOMINATOR) * scale) \div p
      BY <1>3 DEF PriceWorth, DepositWorth
    <2>4. price \in Nat /\ bps \in Nat /\ scale \in Nat
      BY <1>1, <2>1
    <2> HIDE DEF price, bps, scale
    <2>5. BPS_DENOMINATOR \in Nat \ {0}
      BY DEF BPS_DENOMINATOR
    <2>6. DepositWorth(deal, p) * BPS_DENOMINATOR <= bps * (PriceWorth(deal, p) + 1)
      BY <2>2, <2>3, <2>4, <2>5, ShareRounds, Zenon
    <2> QED
      BY <2>6, Zenon DEF bps
  <1> QED
    BY <1>2, <1>3

\* In a shortfall the buyer's price comes first: the caps lower the deposit before they lower
\* what is left for the buyer.
LEMMA DepositShare ==
  ASSUME Inv, NEW d \in Ids, Live(d), NEW p \in OraclePrices, Priceable(deals[d], p)
  PROVE  DepositUnits(deals[d], p) * BPS_DENOMINATOR
           <= deals[d].depositBps * (deals[d].tokenAmount - DepositUnits(deals[d], p) + 1)
  <1> DEFINE deal == deals[d]
             worth == PriceWorth(deal, p)
             deposit == DepositWorth(deal, p)
             units == DepositUnits(deal, p)
             rest == deal.tokenAmount - units
  <1>1. /\ deal \in Deal
        /\ deal.payToken \in Tokens
        /\ deal.tokenAmount \in Nat
        /\ deal.depositBps \in Nat
    BY DEF Inv, TypeOK, DealsWellFormed, Live, LiveStates, Deal
  <1>2. worth \in Nat /\ deposit \in Nat
    BY <1>1, WorthType
  <1>3. deposit * 10000 <= deal.depositBps * (worth + 1)
    BY <1>1, DepositWorthBound DEF BPS_DENOMINATOR
  <1>4. units = IF deposit <= deal.tokenAmount
                               - (IF worth <= deal.tokenAmount THEN worth ELSE deal.tokenAmount)
                THEN deposit
                ELSE deal.tokenAmount
                       - (IF worth <= deal.tokenAmount THEN worth ELSE deal.tokenAmount)
    BY DEF DepositUnits, PriceUnits, Lesser
  <1> HIDE DEF worth, deposit, units, deal
  <1>5. \/ units = 0 /\ rest = deal.tokenAmount
        \/ units \in Nat /\ units <= deposit /\ worth <= rest /\ rest \in Nat
    BY <1>1, <1>2, <1>4
  <1>6. CASE units = 0 /\ rest = deal.tokenAmount
    <2>1. deal.depositBps * (rest + 1) \in Nat
      BY <1>1, <1>6, MulNat
    <2> QED
      BY <1>6, <2>1 DEF BPS_DENOMINATOR, deal, units
  <1>7. CASE units \in Nat /\ units <= deposit /\ worth <= rest /\ rest \in Nat
    <2> HIDE DEF rest
    <2>1. (worth + 1) * deal.depositBps <= (rest + 1) * deal.depositBps
      BY <1>1, <1>2, <1>7, MulMono
    <2>2. units * 10000 <= deposit * 10000
      BY <1>2, <1>7
    <2>3. /\ (worth + 1) * deal.depositBps = deal.depositBps * (worth + 1)
          /\ (rest + 1) * deal.depositBps = deal.depositBps * (rest + 1)
      BY <1>1, <1>2, <1>7
    <2>4. deal.depositBps * (worth + 1) \in Nat /\ deal.depositBps * (rest + 1) \in Nat
      BY <1>1, <1>2, <1>7, MulNat
    <2>5. units * 10000 <= deal.depositBps * (rest + 1)
      BY <1>2, <1>3, <1>7, <2>1, <2>2, <2>3, <2>4
    <2> QED
      BY <2>5 DEF BPS_DENOMINATOR, deal, rest, units
  <1> QED
    BY <1>5, <1>6, <1>7

\* A hook, called or not, leaves a tally of naturals.
LEMMA HooksType ==
  ASSUME stats \in [Users -> Stats], NEW buyer \in Users, NEW seller \in Users,
         \/ Hook(onCompleted(EscrowAddress, buyer, seller))
         \/ Hook(onBuyerFlake(EscrowAddress, buyer, seller))
         \/ Hook(onSellerNoShow(EscrowAddress, buyer, seller))
         \/ Hook(onMutualCancel(EscrowAddress, buyer, seller))
         \/ UNCHANGED stats
  PROVE  stats' \in [Users -> Stats]
  BY DEF Hook, onCompleted, onBuyerFlake, onSellerNoShow, onMutualCancel, Stats

----------------------------------------------------------------------------
(* The ways a deal ends, one lemma each. *)

\* A forfeit splits the deal by the deposit and is fair.
LEMMA ForfeitCloses ==
  ASSUME Inv, NEW d \in Ids, Live(d), NEW p \in OraclePrices,
         deals[d].sellerCheckedIn, now >= deals[d].freeCancelUntil, Forfeit(d, p)
  PROVE  Closes(d)
  <1> DEFINE deposit == DepositUnits(deals[d], p)
             rest == deals[d].tokenAmount - deposit
  <1>1. Priceable(deals[d], p) /\ Settle(d, "Forfeited", deposit, rest, FALSE)
    BY DEF Forfeit
  <1>2. /\ deals[d].tokenAmount \in Nat
        /\ deals[d].buyer \in Users
        /\ deals[d].seller \in Users
        /\ stats \in [Users -> Stats]
    BY DEF Inv, TypeOK, ReputationTypeOK, DealsWellFormed, Live, LiveStates, Deal
  <1>3. deposit \in 0 .. deals[d].tokenAmount
    BY <1>1, UnitsBounds
  <1>4. deals[d].payToken = StableToken =>
          deposit = stableDepositUnits(deals[d].priceUsd1e8, deals[d].depositBps)
    BY <1>1, UnitsBounds
  <1>5. stats' \in [Users -> Stats]
    BY <1>2, HooksType DEF Forfeit
  <1>6. deposit * BPS_DENOMINATOR <= deals[d].depositBps * (rest + 1)
    BY <1>1, DepositShare
  <1> HIDE DEF deposit
  <1>7. deposit \in Nat /\ rest \in Nat /\ deposit + rest = deals[d].tokenAmount
    BY <1>2, <1>3
  <1>8. SettlesFairly(d, "Forfeited", deposit, rest, FALSE)
    <2> HIDE DEF rest
    <2> QED
      BY <1>4, <1>6, <1>7 DEF SettlesFairly
  <1>9. "Forfeited" \in FinalStates
    BY DEF FinalStates
  <1>10. Recorded(d, "Forfeited", FALSE)
    BY DEF Forfeit, Recorded
  <1> QED
    BY <1>1, <1>5, <1>7, <1>8, <1>9, <1>10, SettleCloses

\* A refund gives everything to the buyer; the bond may go there too only after a no-show.
LEMMA RefundCloses ==
  ASSUME Inv, NEW d \in Ids, Live(d), NEW bondToBuyer \in BOOLEAN,
         bondToBuyer => ~deals[d].sellerCheckedIn /\ now >= deals[d].freeCancelUntil,
         Settle(d, "Refunded", 0, deals[d].tokenAmount, bondToBuyer),
         Recorded(d, "Refunded", bondToBuyer),
         stats' \in [Users -> Stats]
  PROVE  Closes(d)
  <1>1. deals[d].tokenAmount \in Nat
    BY DEF Inv, TypeOK, Deal
  <1>2. SettlesFairly(d, "Refunded", 0, deals[d].tokenAmount, bondToBuyer)
    BY <1>1 DEF SettlesFairly
  <1>3. "Refunded" \in FinalStates /\ 0 \in Nat
    BY DEF FinalStates
  <1> QED
    BY <1>1, <1>2, <1>3, SettleCloses

\* The buyer's confirmation splits the deal by the price.
LEMMA ConfirmCloses ==
  ASSUME Inv, NEW d \in Ids, NEW u \in Users, NEW p \in OraclePrices, confirmReceipt(u, d, p)
  PROVE  Closes(d)
  <1> DEFINE price == PriceUnits(deals[d], p)
             rest == deals[d].tokenAmount - price
  <1>1. Live(d) /\ Priceable(deals[d], p) /\ Settle(d, "Completed", price, rest, FALSE)
    BY DEF confirmReceipt
  <1>2. /\ deals[d].tokenAmount \in Nat
        /\ deals[d].buyer \in Users
        /\ deals[d].seller \in Users
        /\ stats \in [Users -> Stats]
    BY <1>1 DEF Inv, TypeOK, ReputationTypeOK, DealsWellFormed, Live, LiveStates, Deal
  <1>3. price \in 0 .. deals[d].tokenAmount
    BY <1>1, UnitsBounds
  <1>4. deals[d].payToken = StableToken => price = stablePriceUnits(deals[d].priceUsd1e8)
    BY <1>1, UnitsBounds
  <1>5. stats' \in [Users -> Stats]
    BY <1>2, HooksType DEF confirmReceipt
  <1> HIDE DEF price
  <1>6. price \in Nat /\ rest \in Nat /\ price + rest = deals[d].tokenAmount
    BY <1>2, <1>3
  <1>7. SettlesFairly(d, "Completed", price, rest, FALSE)
    BY <1>4, <1>6 DEF SettlesFairly
  <1>8. "Completed" \in FinalStates
    BY DEF FinalStates
  <1>9. Recorded(d, "Completed", FALSE)
    BY DEF confirmReceipt, Recorded
  <1> QED
    BY <1>1, <1>5, <1>6, <1>7, <1>8, <1>9, SettleCloses

\* A refund in which the seller never showed is fair.
LEMMA NoShowCloses ==
  ASSUME Inv, NEW d \in Ids, Live(d), ~deals[d].sellerCheckedIn,
         now >= deals[d].freeCancelUntil, NoShow(d)
  PROVE  Closes(d)
  <1>1. Settle(d, "Refunded", 0, deals[d].tokenAmount, TRUE)
    BY DEF NoShow
  <1>2. stats' \in [Users -> Stats]
    BY HooksType
    DEF NoShow, Inv, TypeOK, ReputationTypeOK, DealsWellFormed, Live, LiveStates
  <1>3. Recorded(d, "Refunded", TRUE)
    BY DEF NoShow, Recorded
  <1> QED
    BY <1>1, <1>2, <1>3, RefundCloses

\* The seller's cancellation is a refund that keeps the bond, at any time.
LEMMA AgreeCancelCloses ==
  ASSUME Inv, NEW d \in Ids, NEW u \in Users, agreeCancel(u, d)
  PROVE  Closes(d)
  <1>1. Live(d) /\ Settle(d, "Refunded", 0, deals[d].tokenAmount, FALSE)
    BY DEF agreeCancel
  <1>2. stats' \in [Users -> Stats]
    BY HooksType
    DEF agreeCancel, Inv, TypeOK, ReputationTypeOK, DealsWellFormed, Live, LiveStates
  <1>3. Recorded(d, "Refunded", FALSE)
    BY DEF agreeCancel, Recorded
  <1> QED
    BY <1>1, <1>2, <1>3, RefundCloses

\* In the free window a refund, after it a no-show or a forfeit, depending on the check-in.
LEMMA BuyerCancelCloses ==
  ASSUME Inv, NEW d \in Ids, NEW u \in Users, NEW p \in OraclePrices, buyerCancel(u, d, p)
  PROVE  Closes(d)
  <1>1. Live(d)
    BY DEF buyerCancel
  <1>2. now \in Nat /\ deals[d].freeCancelUntil \in Nat
    BY DEF Inv, TypeOK, Deal
  <1>3. CASE /\ InFreeWindow(deals[d])
             /\ Settle(d, "Refunded", 0, deals[d].tokenAmount, FALSE)
             /\ UNCHANGED stats
    <2>1. stats' \in [Users -> Stats]
      BY <1>3 DEF Inv, TypeOK, ReputationTypeOK
    <2>2. Recorded(d, "Refunded", FALSE)
      BY <1>3 DEF InFreeWindow, Recorded
    <2> QED
      BY <1>1, <1>3, <2>1, <2>2, RefundCloses
  <1>4. CASE ~InFreeWindow(deals[d]) /\ ~deals[d].sellerCheckedIn /\ NoShow(d)
    BY <1>1, <1>2, <1>4, NoShowCloses DEF InFreeWindow
  <1>5. CASE ~InFreeWindow(deals[d]) /\ deals[d].sellerCheckedIn /\ Forfeit(d, p)
    BY <1>1, <1>2, <1>5, ForfeitCloses DEF InFreeWindow
  <1> QED
    BY <1>3, <1>4, <1>5 DEF buyerCancel

\* At expiry the free window is over, because list made it end no later.
LEMMA ReclaimCloses ==
  ASSUME Inv, NEW d \in Ids, NEW p \in OraclePrices, reclaimExpired(d, p)
  PROVE  Closes(d)
  <1>1. Live(d) /\ now >= deals[d].expiry
    BY DEF reclaimExpired
  <1>2. now >= deals[d].freeCancelUntil
    BY <1>1 DEF Inv, TypeOK, Deal, DealsWellFormed, Live, LiveStates
  <1>3. CASE deals[d].sellerCheckedIn /\ Forfeit(d, p)
    BY <1>1, <1>2, <1>3, ForfeitCloses
  <1>4. CASE ~deals[d].sellerCheckedIn /\ NoShow(d)
    BY <1>1, <1>2, <1>4, NoShowCloses
  <1> QED
    BY <1>3, <1>4 DEF reclaimExpired

----------------------------------------------------------------------------
(* The other transactions. *)

\* Pulling tokens from a user who has them keeps every balance a natural number.
LEMMA PullType ==
  ASSUME TypeOK, NEW token \in Tokens, NEW u \in Users, NEW amount \in Nat,
         Pull(token, u, amount)
  PROVE  /\ balance' \in [Tokens -> [Accounts -> Nat]]
         /\ Delta(token, amount) \in Nat
  <1>1. EscrowAddress \in Accounts /\ u \in Accounts /\ u # EscrowAddress
    BY UsersAssumption DEF Accounts
  <1>2. balance \in [Tokens -> [Accounts -> Nat]] /\ amount <= balance[token][u]
    BY DEF TypeOK, Pull
  <1>3. Move(balance, token, u, EscrowAddress, amount) \in [Tokens -> [Accounts -> Nat]]
    BY <1>1, <1>2, MoveEffect
  <1>4. Received(token, amount) \in Nat
    BY ReceivedBounds
  <1> QED
    BY <1>3, <1>4 DEF Pull, Delta

\* A new listing has a fresh id, so no deal refers to it, and keeps the terms list checked.
LEMMA ListInv ==
  ASSUME Inv, NEW u \in Users, NEW t \in Terms, list(u, t)
  PROVE  Inv'
  <1> DEFINE n == nextListingId
             new == [seller |-> u, priceUsd1e8 |-> t.priceUsd1e8, depositBps |-> t.depositBps,
                     payToken |-> t.payToken, active |-> TRUE,
                     freeCancelWindow |-> t.freeCancelWindow, dealTtl |-> t.dealTtl,
                     bond |-> Delta(t.payToken, t.bondAmount)]
  <1>1. /\ t.priceUsd1e8 \in Nat /\ t.depositBps \in Nat /\ t.payToken \in Tokens
        /\ t.freeCancelWindow \in Nat /\ t.dealTtl \in Nat /\ t.bondAmount \in Nat
        /\ t.dealTtl > 0 /\ t.freeCancelWindow <= t.dealTtl
    BY EscrowAssumption DEF list, ValidTerms
  <1>2. /\ balance' \in [Tokens -> [Accounts -> Nat]]
        /\ Delta(t.payToken, t.bondAmount) \in Nat
    BY <1>1, PullType DEF list, Inv
  <1>3. n \in Ids /\ n' = n + 1 /\ n' \in 1 .. MaxListings + 1
    BY EscrowAssumption DEF list, Inv, TypeOK, Ids
  <1>4. new \in Listing
    BY <1>1, <1>2 DEF Listing
  <1>5. listings' = [listings EXCEPT ![n] = new]
    BY DEF list
  <1>6. new.seller = u /\ new.payToken = t.payToken /\ new.dealTtl = t.dealTtl
        /\ new.freeCancelWindow = t.freeCancelWindow /\ u # NoAddress
    BY UsersAssumption
  <1> HIDE DEF new
  <1>7. /\ listings' \in [Ids -> Listing]
        /\ listings'[n] = new
        /\ \A i \in Ids : i # n => listings'[i] = listings[i]
    BY <1>3, <1>4, <1>5 DEF Inv, TypeOK
  <1>8. UNCHANGED <<deals, nextDealId, configVars, now, receipts, reputationVars>>
    BY DEF list
  <1>9. listings[n].seller = NoAddress
    BY <1>3 DEF Inv, ListingsWellFormed, TypeOK
  <1>10. \A d \in Ids : deals[d].state # "None" => receipts[d].listingId # n
    BY <1>9 DEF Inv, DealsWellFormed
  <1>11. TypeOK'
    BY <1>2, <1>3, <1>7, <1>8 DEF Inv, TypeOK, ReputationTypeOK, configVars, reputationVars
  <1>12. ListingsWellFormed'
    <2>1. \A i \in Ids : i # n => (i < n' <=> i < n)
      BY <1>3 DEF Ids, Inv, TypeOK
    <2>2. n < n'
      BY <1>3 DEF Inv, TypeOK
    <2> QED
      BY <1>1, <1>3, <1>6, <1>7, <2>1, <2>2 DEF Inv, ListingsWellFormed
  <1>13. BondBacksOneDeal'
    BY <1>7, <1>8, <1>10 DEF Inv, BondBacksOneDeal
  <1>14. DealsWellFormed'
    <2> SUFFICES ASSUME NEW d \in Ids
                 PROVE  DealsWellFormed!(d)'
      BY DEF DealsWellFormed
    <2>1. deals[d].state # "None" => listings'[receipts[d].listingId].seller # NoAddress
      BY <1>7, <1>10 DEF Inv, DealsWellFormed, BondBacksOneDeal
    <2> QED
      BY <1>8, <2>1 DEF Inv, DealsWellFormed
  <1>15. /\ DepositAtRisk'
         /\ BondFollowsPresence'
         /\ SettledInFull'
         /\ StableDealsPayExactly'
         /\ DepositShareBounded'
    BY <1>8
    DEF Inv, DepositAtRisk, BondFollowsPresence, SettledInFull, StableDealsPayExactly,
        DepositShareBounded, Final
  <1> QED
    BY <1>11, <1>12, <1>13, <1>14, <1>15 DEF Inv

\* An active listing backs no deal yet, so withdrawing it takes no deal's bond.
LEMMA CancelListingInv ==
  ASSUME Inv, NEW u \in Users, NEW i \in Ids, cancelListing(u, i)
  PROVE  Inv'
  <1> DEFINE new == [listings[i] EXCEPT !.active = FALSE, !.bond = 0]
  <1>1. /\ listings \in [Ids -> Listing]
        /\ listings[i].active
        /\ listings[i].seller \in Users
        /\ listings[i].payToken \in Tokens
        /\ listings[i].bond \in Nat
    BY DEF cancelListing, Open, Inv, TypeOK, ListingsWellFormed, Listing
  <1>2. balance' \in [Tokens -> [Accounts -> Nat]]
    BY <1>1, PayoutEffect DEF cancelListing, Inv, TypeOK
  <1>3. listings' = [listings EXCEPT ![i] = new]
    BY DEF cancelListing
  <1>4. /\ new \in Listing
        /\ new.active = FALSE
        /\ new.seller = listings[i].seller
        /\ new.payToken = listings[i].payToken
        /\ new.dealTtl = listings[i].dealTtl
        /\ new.freeCancelWindow = listings[i].freeCancelWindow
    BY <1>1 DEF Listing
  <1> HIDE DEF new
  <1>5. /\ listings' \in [Ids -> Listing]
        /\ listings'[i] = new
        /\ \A j \in Ids : j # i => listings'[j] = listings[j]
    BY <1>1, <1>3, <1>4
  <1>6. UNCHANGED <<deals, nextListingId, nextDealId, configVars, now, receipts, reputationVars>>
    BY DEF cancelListing
  <1>7. \A d \in Ids : deals[d].state # "None" => receipts[d].listingId # i
    BY <1>1 DEF Inv, BondBacksOneDeal
  <1>8. TypeOK'
    BY <1>2, <1>5, <1>6 DEF Inv, TypeOK, ReputationTypeOK, configVars, reputationVars
  <1>9. ListingsWellFormed'
    BY <1>4, <1>5, <1>6 DEF Inv, ListingsWellFormed
  <1>10. DealsWellFormed'
    <2> SUFFICES ASSUME NEW d \in Ids
                 PROVE  DealsWellFormed!(d)'
      BY DEF DealsWellFormed
    <2>1. deals[d].state # "None" => listings'[receipts[d].listingId].seller # NoAddress
      BY <1>5, <1>7 DEF Inv, DealsWellFormed, BondBacksOneDeal
    <2> QED
      BY <1>6, <2>1 DEF Inv, DealsWellFormed
  <1>11. BondBacksOneDeal'
    BY <1>5, <1>6, <1>7 DEF Inv, BondBacksOneDeal
  <1>12. /\ DepositAtRisk'
         /\ BondFollowsPresence'
         /\ SettledInFull'
         /\ StableDealsPayExactly'
         /\ DepositShareBounded'
    BY <1>6
    DEF Inv, DepositAtRisk, BondFollowsPresence, SettledInFull, StableDealsPayExactly,
        DepositShareBounded, Final
  <1> QED
    BY <1>8, <1>9, <1>10, <1>11, <1>12 DEF Inv

\* Funding takes over the bond of an active listing, which no deal has yet, and closes the
\* listing; the stable token's exact cover is what fund checked.
LEMMA FundInv ==
  ASSUME Inv, NEW u \in Users, NEW i \in Ids, NEW amount \in FundAmounts, fund(u, i, amount)
  PROVE  Inv'
  <1> DEFINE l == listings[i]
             n == nextDealId
             received == Delta(l.payToken, amount)
             required == stablePriceUnits(l.priceUsd1e8)
                           + stableDepositUnits(l.priceUsd1e8, l.depositBps)
             until == IF l.freeCancelWindow = 0 THEN 0 ELSE now + l.freeCancelWindow
             new == [state |-> "Funded", buyer |-> u, seller |-> l.seller,
                     payToken |-> l.payToken, priceUsd1e8 |-> l.priceUsd1e8,
                     tokenAmount |-> received, depositBps |-> l.depositBps,
                     freeCancelUntil |-> until, expiry |-> now + l.dealTtl,
                     sellerCheckedIn |-> FALSE, bond |-> l.bond]
             closed == [l EXCEPT !.active = FALSE]
             receipt == [receipts[n] EXCEPT !.listingId = i, !.bond = l.bond]
  <1>1. /\ listings \in [Ids -> Listing] /\ deals \in [Ids -> Deal]
        /\ receipts \in [Ids -> Receipt] /\ now \in Nat /\ i \in Nat
    BY DEF Inv, TypeOK, Ids
  <1>2. /\ l.active /\ l.seller \in Users /\ l.payToken \in Tokens /\ l.bond \in Nat
        /\ l.priceUsd1e8 \in Nat /\ l.depositBps \in Nat /\ l.freeCancelWindow \in Nat
        /\ l.dealTtl \in Nat /\ l.freeCancelWindow <= l.dealTtl
    BY <1>1 DEF fund, Open, Inv, ListingsWellFormed, Listing
  <1>3. balance' \in [Tokens -> [Accounts -> Nat]] /\ received \in Nat /\ received # 0
    BY <1>2, PullType, EscrowAssumption DEF fund, Inv
  <1>4. l.payToken = StableToken => received >= required
    BY DEF fund, Covers
  <1>5. n \in Ids /\ n' = n + 1 /\ n' \in 1 .. MaxListings + 1
    BY EscrowAssumption DEF fund, Inv, TypeOK, Ids
  <1>6. until \in Nat /\ now + l.dealTtl \in Nat /\ until <= now + l.dealTtl
    BY <1>1, <1>2
  <1>7. /\ deals' = [deals EXCEPT ![n] = new]
        /\ listings' = [listings EXCEPT ![i] = closed]
        /\ receipts' = [receipts EXCEPT ![n] = receipt]
        /\ UNCHANGED <<nextListingId, configVars, now, reputationVars>>
    BY DEF fund
  <1>8. /\ deals[n].state = "None"
        /\ deals[n] = NoDeal
        /\ receipts[n] = NoReceipt
    BY <1>5 DEF Inv, DealsWellFormed, TypeOK
  <1>9. \A d \in Ids : deals[d].state # "None" => receipts[d].listingId # i
    BY <1>2 DEF Inv, BondBacksOneDeal
  <1> HIDE DEF received, required, until
  <1>10. new \in Deal
    BY <1>2, <1>3, <1>6 DEF Deal, States
  <1>11. /\ closed \in Listing /\ closed.active = FALSE /\ closed.seller = l.seller
         /\ closed.payToken = l.payToken /\ closed.dealTtl = l.dealTtl
         /\ closed.freeCancelWindow = l.freeCancelWindow /\ closed.bond = l.bond
    BY <1>1 DEF Listing
  <1>12. /\ receipt \in Receipt /\ receipt.listingId = i /\ receipt.bond = l.bond
         /\ receipt.closedAt = 0 /\ receipt.toSeller = 0 /\ receipt.toBuyer = 0
         /\ receipt.bondTo = NoAddress
    <2>1. receipt = [NoReceipt EXCEPT !.listingId = i, !.bond = l.bond]
      BY <1>8
    <2>2. l.bond \in Nat /\ i \in Nat
      BY <1>1, <1>2
    <2> HIDE DEF receipt, l
    <2> QED
      BY <2>1, <2>2 DEF Receipt, NoReceipt
  <1>13. /\ new.state = "Funded" /\ new.buyer = u /\ new.seller = l.seller
         /\ new.payToken = l.payToken /\ new.tokenAmount = received
         /\ new.priceUsd1e8 = l.priceUsd1e8 /\ new.depositBps = l.depositBps
         /\ new.freeCancelUntil = until /\ new.expiry = now + l.dealTtl
         /\ new.sellerCheckedIn = FALSE /\ new.bond = l.bond
    OBVIOUS
  <1> HIDE DEF new, closed, receipt
  <1>14. /\ deals' \in [Ids -> Deal] /\ deals'[n] = new
         /\ \A d \in Ids : d # n => deals'[d] = deals[d]
    BY <1>1, <1>5, <1>7, <1>10
  <1>15. /\ listings' \in [Ids -> Listing] /\ listings'[i] = closed
         /\ \A j \in Ids : j # i => listings'[j] = listings[j]
    BY <1>1, <1>7, <1>11
  <1>16. /\ receipts' \in [Ids -> Receipt] /\ receipts'[n] = receipt
         /\ \A d \in Ids : d # n => receipts'[d] = receipts[d]
    BY <1>1, <1>5, <1>7, <1>12
  <1> HIDE DEF l
  <1>17. TypeOK'
    BY <1>3, <1>5, <1>7, <1>14, <1>15, <1>16
    DEF Inv, TypeOK, ReputationTypeOK, configVars, reputationVars
  <1>18. ListingsWellFormed'
    BY <1>7, <1>11, <1>15 DEF Inv, ListingsWellFormed, l
  <1>19. DealsWellFormed'
    <2> SUFFICES ASSUME NEW d \in Ids
                 PROVE  DealsWellFormed!(d)'
      BY DEF DealsWellFormed
    <2>1. CASE d = n
      <3>1. n < n'
        BY <1>5 DEF Ids
      <3>2. listings'[i].seller # NoAddress
        BY <1>2, <1>11, <1>15, UsersAssumption
      <3> QED
        BY <2>1, <3>1, <3>2, <1>2, <1>3, <1>6, <1>12, <1>13, <1>14, <1>16 DEF LiveStates
    <2>2. CASE d # n
      <3>1. d < n' <=> d < n
        BY <2>2, <1>5 DEF Ids
      <3>2. deals[d].state # "None" => listings'[receipts[d].listingId].seller # NoAddress
        BY <1>9, <1>15 DEF Inv, DealsWellFormed, BondBacksOneDeal
      <3> QED
        BY <2>2, <3>1, <3>2, <1>14, <1>16 DEF Inv, DealsWellFormed
    <2> QED
      BY <2>1, <2>2
  <1>20. BondBacksOneDeal'
    BY <1>5, <1>9, <1>11, <1>12, <1>13, <1>14, <1>15, <1>16 DEF Inv, BondBacksOneDeal
  <1>21. DepositAtRisk'
    BY <1>13, <1>14, <1>16 DEF Inv, DepositAtRisk
  <1>22. BondFollowsPresence' /\ SettledInFull'
    BY <1>13, <1>14, <1>16 DEF Inv, BondFollowsPresence, SettledInFull, Final, FinalStates
  <1>23. StableDealsPayExactly'
    BY <1>4, <1>13, <1>14, <1>16 DEF Inv, StableDealsPayExactly, required
  <1>24. DepositShareBounded'
    BY <1>13, <1>14, <1>16 DEF Inv, DepositShareBounded
  <1> QED
    BY <1>17, <1>18, <1>19, <1>20, <1>21, <1>22, <1>23, <1>24 DEF Inv

\* A check-in changes the state and the flag of one funded deal, at any time.
LEMMA CheckInInv ==
  ASSUME Inv, NEW u \in Users, NEW d \in Ids, checkIn(u, d)
  PROVE  Inv'
  <1> DEFINE new == [deals[d] EXCEPT !.sellerCheckedIn = TRUE, !.state = "SellerCheckedIn"]
  <1>1. deals \in [Ids -> Deal] /\ deals[d].state = "Funded"
    BY DEF Inv, TypeOK, checkIn
  <1>2. deals' = [deals EXCEPT ![d] = new]
    BY DEF checkIn
  <1>3. /\ new \in Deal /\ new.state = "SellerCheckedIn" /\ new.sellerCheckedIn = TRUE
        /\ new.buyer = deals[d].buyer /\ new.seller = deals[d].seller
        /\ new.payToken = deals[d].payToken /\ new.priceUsd1e8 = deals[d].priceUsd1e8
        /\ new.tokenAmount = deals[d].tokenAmount /\ new.depositBps = deals[d].depositBps
        /\ new.freeCancelUntil = deals[d].freeCancelUntil /\ new.expiry = deals[d].expiry
        /\ new.bond = deals[d].bond
    BY <1>1 DEF Deal, States
  <1> HIDE DEF new
  <1>4. /\ deals' \in [Ids -> Deal] /\ deals'[d] = new
        /\ \A e \in Ids : e # d => deals'[e] = deals[e]
    BY <1>1, <1>2, <1>3
  <1>5. UNCHANGED <<listings, nextListingId, nextDealId, balance, configVars, now, receipts,
                    reputationVars>>
    BY DEF checkIn
  <1>6. TypeOK'
    BY <1>4, <1>5 DEF Inv, TypeOK, ReputationTypeOK, configVars, reputationVars
  <1>7. ListingsWellFormed' /\ BondBacksOneDeal'
    BY <1>1, <1>3, <1>4, <1>5 DEF Inv, ListingsWellFormed, BondBacksOneDeal
  <1>8. DealsWellFormed'
    <2> SUFFICES ASSUME NEW e \in Ids
                 PROVE  DealsWellFormed!(e)'
      BY DEF DealsWellFormed
    <2>1. CASE e = d
      BY <2>1, <1>1, <1>3, <1>4, <1>5 DEF Inv, DealsWellFormed, LiveStates
    <2>2. CASE e # d
      BY <2>2, <1>4, <1>5 DEF Inv, DealsWellFormed
    <2> QED
      BY <2>1, <2>2
  <1>9. DepositAtRisk' /\ BondFollowsPresence' /\ SettledInFull'
    BY <1>3, <1>4, <1>5
    DEF Inv, DepositAtRisk, BondFollowsPresence, SettledInFull, Final, FinalStates
  <1>10. StableDealsPayExactly'
    BY <1>3, <1>4, <1>5 DEF Inv, StableDealsPayExactly
  <1>11. DepositShareBounded'
    BY <1>3, <1>4, <1>5 DEF Inv, DepositShareBounded
  <1> QED
    BY <1>6, <1>7, <1>8, <1>9, <1>10, <1>11 DEF Inv

\* A step that leaves listings, deals, receipts and ids alone cannot disturb them.
LEMMA FrameInv ==
  ASSUME Inv, TypeOK',
         UNCHANGED <<listings, deals, nextListingId, nextDealId, receipts>>
  PROVE  Inv'
  <1>1. ListingsWellFormed' /\ DealsWellFormed' /\ BondBacksOneDeal'
    BY DEF Inv, ListingsWellFormed, DealsWellFormed, BondBacksOneDeal
  <1>2. DepositAtRisk' /\ BondFollowsPresence' /\ SettledInFull' /\ StableDealsPayExactly'
    BY DEF Inv, DepositAtRisk, BondFollowsPresence, SettledInFull, StableDealsPayExactly, Final
  <1>3. DepositShareBounded'
    BY DEF Inv, DepositShareBounded
  <1> QED
    BY <1>1, <1>2, <1>3 DEF Inv

----------------------------------------------------------------------------
(* The invariant is inductive. *)

\* Every transaction, whoever sends it and whenever, preserves the invariant.
LEMMA NextInv == Inv /\ [Next]_vars => Inv'
  <1> SUFFICES ASSUME Inv, [Next]_vars
               PROVE  Inv'
    OBVIOUS
  <1>1. ASSUME NEW v \in VerifierChoices, setVerifierProxy(v)
        PROVE  Inv'
    BY <1>1, FrameInv DEF setVerifierProxy, Inv, TypeOK, ReputationTypeOK, reputationVars
  <1>2. ASSUME NEW r \in ReputationChoices, setReputation(r)
        PROVE  Inv'
    BY <1>2, FrameInv DEF setReputation, Inv, TypeOK, ReputationTypeOK, reputationVars
  <1>3. ASSUME NEW e \in EscrowCandidates, wireReputation(e)
        PROVE  Inv'
    BY <1>3, FrameInv
    DEF wireReputation, setEscrow, Inv, TypeOK, ReputationTypeOK, configVars
  <1>4. ASSUME NEW u \in Users, NEW t \in Terms, list(u, t)
        PROVE  Inv'
    BY <1>4, ListInv
  <1>5. ASSUME NEW u \in Users, NEW i \in Ids, cancelListing(u, i)
        PROVE  Inv'
    BY <1>5, CancelListingInv
  <1>6. ASSUME NEW u \in Users, NEW i \in Ids, NEW amount \in FundAmounts, fund(u, i, amount)
        PROVE  Inv'
    BY <1>6, FundInv
  <1>7. ASSUME NEW u \in Users, NEW d \in Ids, checkIn(u, d)
        PROVE  Inv'
    BY <1>7, CheckInInv
  <1>8. ASSUME NEW u \in Users, NEW d \in Ids, agreeCancel(u, d)
        PROVE  Inv'
    BY <1>8, AgreeCancelCloses, ClosingInv
  <1>9. ASSUME NEW u \in Users, NEW d \in Ids, NEW p \in OraclePrices, confirmReceipt(u, d, p)
        PROVE  Inv'
    BY <1>9, ConfirmCloses, ClosingInv
  <1>10. ASSUME NEW u \in Users, NEW d \in Ids, NEW p \in OraclePrices, buyerCancel(u, d, p)
         PROVE  Inv'
    BY <1>10, BuyerCancelCloses, ClosingInv
  <1>11. ASSUME NEW d \in Ids, NEW p \in OraclePrices, reclaimExpired(d, p)
         PROVE  Inv'
    BY <1>11, ReclaimCloses, ClosingInv
  <1>12. ASSUME Tick
         PROVE  Inv'
    BY <1>12, FrameInv, EscrowAssumption
    DEF Tick, Inv, TypeOK, ReputationTypeOK, configVars, reputationVars
  <1>13. ASSUME UNCHANGED vars
         PROVE  Inv'
    BY <1>13, FrameInv DEF vars, Inv, TypeOK, ReputationTypeOK, configVars, reputationVars
  <1> QED
    BY <1>1, <1>2, <1>3, <1>4, <1>5, <1>6, <1>7, <1>8, <1>9, <1>10, <1>11, <1>12, <1>13
    DEF Next, OwnerNext, ListingNext, DealNext

\* The inductive invariant holds in every reachable state.
THEOREM Invariance == Spec => []Inv
  BY InitInv, NextInv, PTL DEF Spec

\* Listings, deals, balances, tally and clock keep their types: no transaction takes a balance
\* below zero, whatever fee a token burns and whatever price a report carries.
THEOREM TypeCorrect == Spec => []TypeOK
  <1>1. Inv => TypeOK
    BY DEF Inv
  <1> QED
    BY <1>1, Invariance, PTL

\* A seller's bond is never promised to two deals, nor refunded by cancelListing once it backs
\* one (fund, cancelListing, list).
THEOREM BondsAreExclusive == Spec => []BondBacksOneDeal
  <1>1. Inv => BondBacksOneDeal
    BY DEF Inv
  <1> QED
    BY <1>1, Invariance, PTL

\* A buyer's deposit is forfeited only to a seller who checked in, and never in the free window
\* (buyerCancel, reclaimExpired, _settleForfeit).
THEOREM DepositsAreSafe == Spec => []DepositAtRisk
  <1>1. Inv => DepositAtRisk
    BY DEF Inv
  <1> QED
    BY <1>1, Invariance, PTL

\* A seller who checked in, or whose buyer left early, gets the bond back (_settleBond).
THEOREM BondsAreSafe == Spec => []BondFollowsPresence
  <1>1. Inv => BondFollowsPresence
    BY DEF Inv
  <1> QED
    BY <1>1, Invariance, PTL

\* An ended deal gave out everything it held, however the amounts were computed and capped
\* (_settlementUnits, _payout).
THEOREM NothingIsKept == Spec => []SettledInFull
  <1>1. Inv => SettledInFull
    BY DEF Inv
  <1> QED
    BY <1>1, Invariance, PTL

\* Deals in the stable token settle to the exact price and deposit (fund, _settlementUnits).
THEOREM StableDealsAreExact == Spec => []StableDealsPayExactly
  <1>1. Inv => StableDealsPayExactly
    BY DEF Inv
  <1> QED
    BY <1>1, Invariance, PTL

\* Whatever price a report carries, a forfeited deposit is at most its share of what the buyer
\* gets back, up to the unit the price is rounded down by (_settlementUnits, _settleForfeit).
THEOREM DepositsAreInProportion == Spec => []DepositShareBounded
  <1>1. Inv => DepositShareBounded
    BY DEF Inv
  <1> QED
    BY <1>1, Invariance, PTL

----------------------------------------------------------------------------
(* What a step does to deals: end one, fund one, check in to one, or       *)
(* nothing.                                                                *)

\* Every step is of one of four kinds, as far as deals and the clock are concerned.
LEMMA StepKinds ==
  ASSUME Inv, [Next]_vars
  PROVE  \/ \E d \in Ids : Closes(d)
         \/ \E u \in Users, i \in Ids, amount \in FundAmounts : fund(u, i, amount)
         \/ \E u \in Users, d \in Ids : checkIn(u, d)
         \/ UNCHANGED <<deals, receipts>> /\ (now' = now \/ now' = now + 1)
  <1>1. ASSUME OwnerNext \/ Tick \/ UNCHANGED vars
        PROVE  UNCHANGED <<deals, receipts>> /\ (now' = now \/ now' = now + 1)
    BY <1>1 DEF OwnerNext, Tick, vars, setVerifierProxy, setReputation, wireReputation
  <1>2. ASSUME NEW u \in Users, \/ \E t \in Terms : list(u, t)
                                \/ \E i \in Ids : cancelListing(u, i)
        PROVE  UNCHANGED <<deals, receipts, now>>
    BY <1>2 DEF list, cancelListing
  <1>3. ASSUME NEW d \in Ids,
               \/ \E u \in Users : agreeCancel(u, d)
               \/ \E u \in Users, p \in OraclePrices : confirmReceipt(u, d, p)
               \/ \E u \in Users, p \in OraclePrices : buyerCancel(u, d, p)
               \/ \E p \in OraclePrices : reclaimExpired(d, p)
        PROVE  Closes(d)
    BY <1>3, AgreeCancelCloses, ConfirmCloses, BuyerCancelCloses, ReclaimCloses
  <1> QED
    BY <1>1, <1>2, <1>3 DEF Next, ListingNext, DealNext

\* The one new record fund writes is that of the next deal id, which no deal has yet.
LEMMA FundEffect ==
  ASSUME Inv, NEW u \in Users, NEW i \in Ids, NEW amount \in FundAmounts, fund(u, i, amount)
  PROVE  /\ nextDealId \in Ids
         /\ deals[nextDealId] = NoDeal
         /\ receipts[nextDealId] = NoReceipt
         /\ \A d \in Ids : d # nextDealId => deals'[d] = deals[d] /\ receipts'[d] = receipts[d]
  <1>1. nextDealId \in Ids
    BY EscrowAssumption DEF fund, Inv, TypeOK, Ids
  <1>2. deals[nextDealId] = NoDeal /\ receipts[nextDealId] = NoReceipt
    BY <1>1 DEF Inv, DealsWellFormed, TypeOK
  <1>3. \A d \in Ids : d # nextDealId => deals'[d] = deals[d] /\ receipts'[d] = receipts[d]
    BY <1>1 DEF fund, Inv, TypeOK
  <1> QED
    BY <1>1, <1>2, <1>3

\* What DealIsBinding says of one deal in one step.
Binds(d) ==
  deals[d].state # "None" =>
    /\ Final(d) => deals'[d] = deals[d] /\ receipts'[d] = receipts[d]
    /\ deals'[d] = [deals[d] EXCEPT !.state = deals'[d].state, !.bond = deals'[d].bond,
                                    !.sellerCheckedIn = deals'[d].sellerCheckedIn]
    /\ deals[d].sellerCheckedIn => deals'[d].sellerCheckedIn

\* A deal a step leaves alone is bound.
LEMMA FrameBinds ==
  ASSUME TypeOK, NEW d \in Ids, deals'[d] = deals[d], receipts'[d] = receipts[d]
  PROVE  Binds(d)
  <1>1. deals[d] \in Deal
    BY DEF TypeOK
  <1> QED
    BY <1>1 DEF Binds, Deal

\* No step changes an ended deal or the terms of a live one.
LEMMA StepBinds ==
  ASSUME Inv, [Next]_vars, NEW e \in Ids
  PROVE  Binds(e)
  <1>1. TypeOK /\ deals[e] \in Deal
    BY DEF Inv, TypeOK
  <1>2. ASSUME NEW d \in Ids, Closes(d)
        PROVE  Binds(e)
    <2>1. PICK final \in FinalStates, toSeller \in Nat, toBuyer \in Nat, back \in BOOLEAN :
            Ended(d, final, toSeller, toBuyer, back)
      BY <1>2, Zenon DEF Closes
    <2>2. CASE e = d
      <3>1. deals'[e] = [deals[e] EXCEPT !.state = final, !.bond = 0]
        BY <2>1, <2>2 DEF Ended
      <3>2. ~Final(e)
        BY <1>2, <2>2 DEF Closes, Live, Final, LiveStates, FinalStates
      <3> QED
        BY <1>1, <3>1, <3>2 DEF Binds, Deal
    <2>3. CASE e # d
      <3>1. deals'[e] = deals[e] /\ receipts'[e] = receipts[e]
        BY <2>1, <2>3 DEF Ended
      <3> QED
        BY <1>1, <3>1, FrameBinds
    <2> QED
      BY <2>2, <2>3
  <1>3. ASSUME NEW u \in Users, NEW i \in Ids, NEW amount \in FundAmounts, fund(u, i, amount)
        PROVE  Binds(e)
    <2>1. CASE e = nextDealId
      BY <1>3, <2>1, FundEffect DEF Binds, NoDeal
    <2>2. CASE e # nextDealId
      BY <1>1, <1>3, <2>2, FundEffect, FrameBinds
    <2> QED
      BY <2>1, <2>2
  <1>4. ASSUME NEW u \in Users, NEW d \in Ids, checkIn(u, d)
        PROVE  Binds(e)
    <2>1. receipts'[e] = receipts[e]
      BY <1>4 DEF checkIn
    <2>2. CASE e = d
      <3>1. deals'[e] = [deals[e] EXCEPT !.sellerCheckedIn = TRUE, !.state = "SellerCheckedIn"]
        BY <1>4, <2>2 DEF checkIn, Inv, TypeOK
      <3>2. ~Final(e)
        BY <1>4, <2>2 DEF checkIn, Final, FinalStates
      <3> QED
        BY <1>1, <3>1, <3>2 DEF Binds, Deal
    <2>3. CASE e # d
      <3>1. deals'[e] = deals[e]
        BY <1>4, <2>3 DEF checkIn, Inv, TypeOK
      <3> QED
        BY <1>1, <2>1, <3>1, FrameBinds
    <2> QED
      BY <2>2, <2>3
  <1>5. ASSUME UNCHANGED <<deals, receipts>>
        PROVE  Binds(e)
    BY <1>1, <1>5, FrameBinds
  <1> QED
    BY <1>2, <1>3, <1>4, <1>5, StepKinds

\* Once funded, a deal's parties, token, amount, terms and timing never change; once ended,
\* nothing of it does (fund, checkIn and the five ways to end a deal).
THEOREM DealsAreBinding == Spec => DealIsBinding
  <1>1. Inv /\ [Next]_vars => \A d \in Ids : Binds(d)
    BY StepBinds
  <1>2. Inv /\ [Next]_vars =>
          [\A d \in Ids : deals[d].state # "None" =>
             /\ Final(d) => deals'[d] = deals[d] /\ receipts'[d] = receipts[d]
             /\ deals'[d] = [deals[d] EXCEPT !.state = deals'[d].state, !.bond = deals'[d].bond,
                                             !.sellerCheckedIn = deals'[d].sellerCheckedIn]
             /\ deals[d].sellerCheckedIn => deals'[d].sellerCheckedIn]_vars
    BY <1>1 DEF Binds
  <1> QED
    BY <1>2, Invariance, PTL DEF Spec, DealIsBinding

----------------------------------------------------------------------------
(* Escrow implements Handoff. *)

\* The contract starts with no deal open.
LEMMA InitRefines == Init => H!HandoffInit
  <1> SUFFICES ASSUME Init PROVE H!HandoffInit
    OBVIOUS
  <1>1. /\ now = 0
        /\ deals = [d \in Ids |-> NoDeal]
        /\ receipts = [d \in Ids |-> NoReceipt]
    BY DEF Init
  <1>2. phaseBar = [d \in Ids |-> "None"]
    BY <1>1 DEF phaseBar, Phase, NoDeal, LiveStates
  <1>3. termsBar = [d \in Ids |-> H!NoTerms]
    BY <1>1 DEF termsBar, NoDeal, H!NoTerms
  <1>4. metBar = [d \in Ids |-> FALSE]
    BY <1>1 DEF metBar, NoDeal
  <1>5. awardBar = [d \in Ids |-> H!NoAward]
    BY <1>1 DEF awardBar, BondWay, NoReceipt, H!NoAward
  <1> QED
    BY <1>1, <1>2, <1>3, <1>4, <1>5 DEF H!HandoffInit

\* Ending a deal is paying, returning or keeping, with an award those allow.
LEMMA ClosingRefines ==
  ASSUME Inv, NEW d \in Ids, Closes(d)
  PROVE  H!HandoffNext
  <1> PICK final \in FinalStates, toSeller \in Nat, toBuyer \in Nat, bondToBuyer \in BOOLEAN :
        /\ SettlesFairly(d, final, toSeller, toBuyer, bondToBuyer)
        /\ Ended(d, final, toSeller, toBuyer, bondToBuyer)
    BY Zenon DEF Closes
  <1> DEFINE bondTo == IF deals[d].bond = 0 THEN NoAddress
                       ELSE IF bondToBuyer THEN deals[d].buyer ELSE deals[d].seller
  <1>1. /\ deals \in [Ids -> Deal] /\ deals' \in [Ids -> Deal]
        /\ receipts \in [Ids -> Receipt] /\ receipts' \in [Ids -> Receipt]
        /\ now' = now
    BY DEF Inv, TypeOK, Ended
  <1>2. /\ deals'[d] = [deals[d] EXCEPT !.state = final, !.bond = 0]
        /\ receipts'[d] = [receipts[d] EXCEPT !.closedAt = now, !.toSeller = toSeller,
                                              !.toBuyer = toBuyer, !.bondTo = bondTo]
        /\ \A e \in Ids : e # d => deals'[e] = deals[e] /\ receipts'[e] = receipts[e]
    BY DEF Ended
  <1>3. /\ deals'[d].state = final
        /\ deals'[d].seller = deals[d].seller
        /\ deals'[d].tokenAmount = deals[d].tokenAmount
        /\ deals'[d].freeCancelUntil = deals[d].freeCancelUntil
        /\ deals'[d].expiry = deals[d].expiry
        /\ deals'[d].sellerCheckedIn = deals[d].sellerCheckedIn
        /\ deals[d].tokenAmount \in Nat
    BY <1>1, <1>2 DEF Deal
  <1> HIDE DEF bondTo
  <1>4. receipts'[d].toSeller = toSeller /\ receipts'[d].bondTo = bondTo
    BY <1>1, <1>2 DEF Receipt
  <1>5. /\ Live(d) /\ deals[d].seller \in Users
    BY DEF Closes, Inv, DealsWellFormed, Live, LiveStates
  <1>6. UNCHANGED <<now, termsBar, metBar>>
    BY <1>1, <1>2, <1>3 DEF termsBar, metBar
  <1>7. phaseBar' = [phaseBar EXCEPT ![d] = Phase(final)]
    BY <1>1, <1>2, <1>3 DEF phaseBar
  <1>8. awardBar' = [awardBar EXCEPT ![d] = awardBar'[d]]
    BY <1>1, <1>2 DEF awardBar, BondWay
  <1>9. /\ phaseBar[d] = "Open"
        /\ termsBar[d].locked = deals[d].tokenAmount
        /\ termsBar[d].freeUntil = deals[d].freeCancelUntil
        /\ metBar[d] = deals[d].sellerCheckedIn
    BY <1>5 DEF phaseBar, termsBar, metBar, Phase, Live, LiveStates
  <1>10. awardBar'[d] = [seller |-> toSeller, bondTo |-> BondWay(d)']
    BY <1>4 DEF awardBar
  <1>11. BondWay(d)' \in {"none", "seller", "buyer"}
    BY DEF BondWay
  <1>12. ~bondToBuyer => BondWay(d)' # "buyer"
    BY <1>3, <1>4, <1>5, UsersAssumption DEF BondWay, bondTo
  <1>13. toSeller <= deals[d].tokenAmount
    BY <1>3 DEF SettlesFairly
  <1>14. H!End(d, Phase(final), awardBar'[d])
    BY <1>6, <1>7, <1>8, <1>9, <1>10, <1>11, <1>13 DEF H!End, H!Awards
  <1>15. CASE final = "Completed"
    <2>1. H!Pay(d, awardBar'[d])
      BY <1>10, <1>12, <1>14, <1>15 DEF H!Pay, SettlesFairly, Phase, LiveStates
    <2> QED
      BY <2>1 DEF H!HandoffNext
  <1>16. CASE final = "Refunded"
    <2>1. toSeller = 0
      BY <1>16 DEF SettlesFairly
    <2>2. H!Return(d, awardBar'[d])
      BY <2>1, <1>9, <1>10, <1>12, <1>14, <1>16 DEF H!Return, SettlesFairly, Phase, LiveStates
    <2> QED
      BY <2>2 DEF H!HandoffNext
  <1>17. CASE final = "Forfeited"
    <2>1. H!Keep(d, awardBar'[d])
      BY <1>9, <1>10, <1>12, <1>14, <1>17 DEF H!Keep, SettlesFairly, Phase, LiveStates
    <2> QED
      BY <2>1 DEF H!HandoffNext
  <1> QED
    BY <1>15, <1>16, <1>17 DEF FinalStates

\* Funding locks a deal, whose window list made end no later than the expiry.
LEMMA FundRefines ==
  ASSUME Inv, NEW u \in Users, NEW i \in Ids, NEW amount \in FundAmounts, fund(u, i, amount)
  PROVE  H!HandoffNext
  <1> DEFINE n == nextDealId
             l == listings[i]
             received == Delta(l.payToken, amount)
             until == IF l.freeCancelWindow = 0 THEN 0 ELSE now + l.freeCancelWindow
  <1>1. /\ n \in Ids /\ deals[n] = NoDeal /\ receipts[n] = NoReceipt
        /\ \A d \in Ids : d # n => deals'[d] = deals[d] /\ receipts'[d] = receipts[d]
    BY FundEffect
  <1>2. /\ deals \in [Ids -> Deal] /\ receipts \in [Ids -> Receipt] /\ now \in Nat
        /\ listings \in [Ids -> Listing]
    BY DEF Inv, TypeOK
  <1>3. /\ l.payToken \in Tokens /\ l.freeCancelWindow \in Nat /\ l.dealTtl \in Nat
        /\ l.dealTtl > 0 /\ l.freeCancelWindow <= l.dealTtl /\ received # 0 /\ now' = now
    BY <1>2 DEF fund, Open, Inv, ListingsWellFormed, Listing
  <1>4. received \in Nat
    BY <1>3, ReceivedBounds, EscrowAssumption DEF Delta
  <1>5. /\ deals'[n].state = "Funded" /\ deals'[n].tokenAmount = received
        /\ deals'[n].freeCancelUntil = until /\ deals'[n].expiry = now + l.dealTtl
        /\ deals'[n].sellerCheckedIn = FALSE
    BY <1>1, <1>2 DEF fund
  <1>6. receipts'[n].toSeller = 0 /\ receipts'[n].bondTo = NoAddress
    BY <1>1, <1>2 DEF fund, NoReceipt
  <1> HIDE DEF received
  <1>7. until \in Nat /\ until <= now + l.dealTtl /\ now + l.dealTtl \in Nat
        /\ now + l.dealTtl > now
    BY <1>2, <1>3
  <1> HIDE DEF until, l, n
  <1>8. /\ phaseBar' = [phaseBar EXCEPT ![n] = "Open"] /\ phaseBar[n] = "None"
    <2>1. Phase("Funded") = "Open" /\ Phase("None") = "None" /\ deals[n].state = "None"
      BY <1>1 DEF Phase, LiveStates, NoDeal
    <2>2. phaseBar'[n] = "Open" /\ phaseBar[n] = "None"
      BY <1>1, <1>5, <2>1 DEF phaseBar
    <2>3. \A d \in Ids : d # n => phaseBar'[d] = phaseBar[d]
      BY <1>1 DEF phaseBar
    <2> QED
      BY <2>2, <2>3 DEF phaseBar
  <1>9. /\ termsBar' = [termsBar EXCEPT ![n] = termsBar'[n]]
        /\ termsBar'[n] = [locked |-> received, freeUntil |-> until, expiry |-> now + l.dealTtl]
    BY <1>1, <1>5 DEF termsBar
  <1>10. metBar' = metBar
    <2>1. deals[n].sellerCheckedIn = FALSE
      BY <1>1 DEF NoDeal
    <2>2. \A d \in Ids : deals'[d].sellerCheckedIn = deals[d].sellerCheckedIn
      BY <1>1, <1>5, <2>1
    <2> QED
      BY <2>2 DEF metBar
  <1>11. awardBar' = awardBar
    BY <1>1, <1>6 DEF awardBar, BondWay, NoReceipt
  <1>12. H!Lock(n, termsBar'[n])
    BY <1>3, <1>4, <1>7, <1>8, <1>9, <1>10, <1>11 DEF H!Lock, H!HandoffTerms
  <1> QED
    BY <1>1, <1>12 DEF H!HandoffNext

\* A check-in is a meeting.
LEMMA CheckInRefines ==
  ASSUME Inv, NEW u \in Users, NEW d \in Ids, checkIn(u, d)
  PROVE  H!HandoffNext
  <1>1. /\ deals \in [Ids -> Deal] /\ receipts' = receipts /\ now' = now
        /\ deals[d].state = "Funded" /\ ~deals[d].sellerCheckedIn
    BY DEF checkIn, Inv, TypeOK, DealsWellFormed
  <1>2. /\ deals'[d] = [deals[d] EXCEPT !.sellerCheckedIn = TRUE, !.state = "SellerCheckedIn"]
        /\ \A e \in Ids : e # d => deals'[e] = deals[e]
    BY <1>1 DEF checkIn
  <1>3. /\ deals'[d].state = "SellerCheckedIn" /\ deals'[d].sellerCheckedIn = TRUE
        /\ deals'[d].seller = deals[d].seller /\ deals'[d].tokenAmount = deals[d].tokenAmount
        /\ deals'[d].freeCancelUntil = deals[d].freeCancelUntil
        /\ deals'[d].expiry = deals[d].expiry
    BY <1>1, <1>2 DEF Deal
  <1>4. phaseBar' = phaseBar /\ phaseBar[d] = "Open"
    <2>1. Phase("Funded") = "Open" /\ Phase("SellerCheckedIn") = "Open"
      BY DEF Phase, LiveStates
    <2>2. phaseBar[d] = "Open" /\ Phase(deals'[d].state) = Phase(deals[d].state)
      BY <1>1, <1>3, <2>1 DEF phaseBar
    <2>3. \A e \in Ids : Phase(deals'[e].state) = Phase(deals[e].state)
      BY <1>2, <2>2
    <2> QED
      BY <2>2, <2>3 DEF phaseBar
  <1>5. termsBar' = termsBar /\ awardBar' = awardBar
    <2>1. \A e \in Ids : /\ deals'[e].tokenAmount = deals[e].tokenAmount
                         /\ deals'[e].freeCancelUntil = deals[e].freeCancelUntil
                         /\ deals'[e].expiry = deals[e].expiry
                         /\ deals'[e].seller = deals[e].seller
      BY <1>2, <1>3
    <2>2. \A e \in Ids : BondWay(e)' = BondWay(e)
      BY <1>1, <2>1 DEF BondWay
    <2> QED
      BY <1>1, <2>1, <2>2 DEF termsBar, awardBar
  <1>6. metBar' = [metBar EXCEPT ![d] = TRUE] /\ ~metBar[d]
    BY <1>1, <1>2, <1>3 DEF metBar
  <1>7. H!Meet(d)
    BY <1>1, <1>4, <1>5, <1>6 DEF H!Meet
  <1> QED
    BY <1>7 DEF H!HandoffNext

\* The rest lets time pass or touches no deal.
LEMMA FrameRefines ==
  ASSUME UNCHANGED <<deals, receipts>>, now' = now \/ now' = now + 1
  PROVE  [H!HandoffNext]_H!handoffVars
  <1>1. UNCHANGED <<phaseBar, termsBar, metBar, awardBar>>
    BY DEF phaseBar, termsBar, metBar, awardBar, BondWay
  <1> QED
    BY <1>1 DEF H!HandoffNext, H!Advance, H!handoffVars

\* Every transaction of the contract is a step, or a stutter, of the rules in Handoff: no
\* interleaving of owner, buyers, sellers and keeper ends a deal otherwise than SPEC section 4
\* allows.
THEOREM Refinement == Spec => ImplementsHandoff
  <1>1. Inv /\ [Next]_vars => [H!HandoffNext]_H!handoffVars
    BY StepKinds, ClosingRefines, FundRefines, CheckInRefines, FrameRefines
  <1> QED
    BY <1>1, InitRefines, Invariance, PTL DEF Spec, ImplementsHandoff, H!HandoffSpec

===========================================================================
