-------------------------- MODULE AccountsProofs --------------------------
(***************************************************************************)
(* The books of EscrowAccounts balance for every set of users, tokens,     *)
(* terms and fees, any number of listings and any order of transactions.   *)
(***************************************************************************)
EXTENDS EscrowAccounts, EscrowProofs, TotalsProofs, FiniteSetTheorems

----------------------------------------------------------------------------
(* What the transfers do to every account. *)

Balances == [Tokens -> [Accounts -> Nat]]

\* The escrow is no user, and every user has an account.
LEMMA AccountsDiffer ==
  /\ EscrowAddress \in Accounts
  /\ \A u \in Users : u \in Accounts /\ u # EscrowAddress
  BY UsersAssumption DEF Accounts

\* A transfer changes two accounts of one token and nothing else.
LEMMA MoveAll ==
  ASSUME NEW bal \in Balances, NEW token \in Tokens,
         NEW from \in Accounts, NEW to \in Accounts, from # to,
         NEW amount \in Nat, amount <= bal[token][from]
  PROVE  /\ Move(bal, token, from, to, amount) \in Balances
         /\ \A t \in Tokens : t # token => Move(bal, token, from, to, amount)[t] = bal[t]
         /\ \A a \in Accounts :
              Move(bal, token, from, to, amount)[token][a]
                = IF a = from THEN bal[token][a] - amount
                  ELSE IF a = to THEN bal[token][a] + Received(token, amount)
                  ELSE bal[token][a]
  <1> DEFINE row == [bal[token] EXCEPT ![from] = bal[token][from] - amount,
                                       ![to] = bal[token][to] + Received(token, amount)]
  <1>1. Received(token, amount) \in Nat
    BY ReceivedBounds
  <1>2. bal[token] \in [Accounts -> Nat] /\ bal[token][from] - amount \in Nat
    BY DEF Balances
  <1>3. /\ row \in [Accounts -> Nat]
        /\ \A a \in Accounts :
             row[a] = IF a = from THEN bal[token][a] - amount
                      ELSE IF a = to THEN bal[token][a] + Received(token, amount)
                      ELSE bal[token][a]
    BY <1>1, <1>2
  <1>4. Move(bal, token, from, to, amount) = [bal EXCEPT ![token] = row]
    BY DEF Move
  <1> HIDE DEF row
  <1>5. /\ [bal EXCEPT ![token] = row] \in Balances
        /\ [bal EXCEPT ![token] = row][token] = row
        /\ \A t \in Tokens : t # token => [bal EXCEPT ![token] = row][t] = bal[t]
    BY <1>3 DEF Balances
  <1> QED
    BY <1>3, <1>4, <1>5

\* Without a fee what is sent is received.
LEMMA FreeTransfer ==
  ASSUME NEW token \in Tokens, NEW amount \in Nat, FeeBps[token] = 0
  PROVE  Received(token, amount) = amount
  <1>1. amount * FeeBps[token] = 0 /\ 0 \div 10000 = 0
    OBVIOUS
  <1> QED
    BY <1>1 DEF Received, BPS_DENOMINATOR

\* _payout takes the amount from the escrow and gives what is received to one user.
LEMMA PayoutAll ==
  ASSUME NEW bal \in Balances, NEW token \in Tokens, NEW u \in Users,
         NEW amount \in Nat, amount <= bal[token][EscrowAddress]
  PROVE  /\ Payout(bal, token, u, amount) \in Balances
         /\ \A t \in Tokens : t # token => Payout(bal, token, u, amount)[t] = bal[t]
         /\ Payout(bal, token, u, amount)[token][EscrowAddress]
              = bal[token][EscrowAddress] - amount
         /\ \A a \in Users : Payout(bal, token, u, amount)[token][a]
              = bal[token][a] + (IF a = u THEN Received(token, amount) ELSE 0)
  <1>1. /\ EscrowAddress \in Accounts /\ u \in Accounts /\ u # EscrowAddress
        /\ \A a \in Users : a \in Accounts /\ a # EscrowAddress
    BY AccountsDiffer
  <1> DEFINE new == Move(bal, token, EscrowAddress, u, amount)
  <1>2. /\ new \in Balances
        /\ \A t \in Tokens : t # token => new[t] = bal[t]
        /\ \A a \in Accounts :
              new[token][a] = IF a = EscrowAddress THEN bal[token][a] - amount
                              ELSE IF a = u THEN bal[token][a] + Received(token, amount)
                              ELSE bal[token][a]
    BY <1>1, MoveAll
  <1>3. Payout(bal, token, u, amount) = new
    BY DEF Payout
  <1>4. \A a \in Accounts : bal[token][a] \in Nat
    BY DEF Balances
  <1> HIDE DEF new
  <1> QED
    BY <1>1, <1>2, <1>3, <1>4

\* What three payouts of x to a, y to b and z to c make of the balances.
PaidThree(bal, end, token, a, x, b, y, c, z) ==
  /\ \A t \in Tokens : t # token => end[t] = bal[t]
  /\ end[token][EscrowAddress] = bal[token][EscrowAddress] - (x + y + z)
  /\ FeeBps[token] = 0 =>
       \A u \in Users : end[token][u] = bal[token][u] + (IF u = a THEN x ELSE 0)
                          + (IF u = b THEN y ELSE 0) + (IF u = c THEN z ELSE 0)

\* The payouts at the end of a deal do that, whether or not the parties are the same user.
LEMMA PayoutsAll ==
  ASSUME NEW bal \in Balances, NEW token \in Tokens,
         NEW a \in Users, NEW b \in Users, NEW c \in Users,
         NEW x \in Nat, NEW y \in Nat, NEW z \in Nat,
         x + y + z <= bal[token][EscrowAddress]
  PROVE  PaidThree(bal, Payout(Payout(Payout(bal, token, a, x), token, b, y), token, c, z),
                   token, a, x, b, y, c, z)
  <1> DEFINE bal1 == Payout(bal, token, a, x)
             bal2 == Payout(bal1, token, b, y)
             bal3 == Payout(bal2, token, c, z)
  <1>1. bal[token][EscrowAddress] \in Nat /\ \A u \in Users : bal[token][u] \in Nat
    BY AccountsDiffer DEF Balances
  <1>2. x <= bal[token][EscrowAddress]
    BY <1>1
  <1>3. /\ bal1 \in Balances
        /\ \A t \in Tokens : t # token => bal1[t] = bal[t]
        /\ bal1[token][EscrowAddress] = bal[token][EscrowAddress] - x
        /\ \A u \in Users : bal1[token][u]
             = bal[token][u] + (IF u = a THEN Received(token, x) ELSE 0)
    BY <1>2, PayoutAll
  <1> HIDE DEF bal1
  <1>4. y <= bal1[token][EscrowAddress]
    BY <1>1, <1>3
  <1>5. /\ bal2 \in Balances
        /\ \A t \in Tokens : t # token => bal2[t] = bal1[t]
        /\ bal2[token][EscrowAddress] = bal1[token][EscrowAddress] - y
        /\ \A u \in Users : bal2[token][u]
             = bal1[token][u] + (IF u = b THEN Received(token, y) ELSE 0)
    BY <1>3, <1>4, PayoutAll
  <1> HIDE DEF bal2
  <1>6. z <= bal2[token][EscrowAddress]
    BY <1>1, <1>3, <1>5
  <1>7. /\ bal3 \in Balances
        /\ \A t \in Tokens : t # token => bal3[t] = bal2[t]
        /\ bal3[token][EscrowAddress] = bal2[token][EscrowAddress] - z
        /\ \A u \in Users : bal3[token][u]
             = bal2[token][u] + (IF u = c THEN Received(token, z) ELSE 0)
    BY <1>5, <1>6, PayoutAll
  <1> DEFINE end == Payout(Payout(Payout(bal, token, a, x), token, b, y), token, c, z)
  <1>8. end = bal3
    BY DEF bal1, bal2
  <1> HIDE DEF bal3, end
  <1>9. \A t \in Tokens : t # token => end[t] = bal[t]
    BY <1>3, <1>5, <1>7, <1>8
  <1>10. end[token][EscrowAddress] = bal[token][EscrowAddress] - (x + y + z)
    BY <1>1, <1>3, <1>5, <1>7, <1>8
  <1>11. ASSUME FeeBps[token] = 0, NEW u \in Users
         PROVE  end[token][u] = bal[token][u] + (IF u = a THEN x ELSE 0)
                                  + (IF u = b THEN y ELSE 0) + (IF u = c THEN z ELSE 0)
    <2>1. Received(token, x) = x /\ Received(token, y) = y /\ Received(token, z) = z
      BY <1>11, FreeTransfer
    <2> QED
      BY <1>3, <1>5, <1>7, <1>8, <2>1
  <1>12. PaidThree(bal, end, token, a, x, b, y, c, z)
    BY <1>9, <1>10, <1>11, Zenon DEF PaidThree
  <1> QED
    BY <1>12 DEF end

\* A pull takes the amount from the user and gives the escrow what is recorded.
LEMMA PullAll ==
  ASSUME TypeOK, NEW token \in Tokens, NEW u \in Users, NEW amount \in Nat,
         Pull(token, u, amount)
  PROVE  /\ Delta(token, amount) \in Nat
         /\ FeeBps[token] = 0 => Delta(token, amount) = amount
         /\ \A t \in Tokens : t # token => balance'[t] = balance[t]
         /\ balance'[token][EscrowAddress] = balance[token][EscrowAddress] + Delta(token, amount)
         /\ \A a \in Users :
              balance'[token][a] = balance[token][a] - (IF a = u THEN amount ELSE 0)
  <1>1. /\ EscrowAddress \in Accounts /\ u \in Accounts /\ u # EscrowAddress
        /\ \A a \in Users : a \in Accounts /\ a # EscrowAddress
    BY AccountsDiffer
  <1>2. balance \in Balances /\ amount <= balance[token][u]
    BY DEF TypeOK, Balances, Pull
  <1> DEFINE new == Move(balance, token, u, EscrowAddress, amount)
  <1>3. /\ \A t \in Tokens : t # token => new[t] = balance[t]
        /\ \A a \in Accounts :
              new[token][a] = IF a = u THEN balance[token][a] - amount
                              ELSE IF a = EscrowAddress
                                   THEN balance[token][a] + Received(token, amount)
                              ELSE balance[token][a]
    BY <1>1, <1>2, MoveAll
  <1>4. balance' = new
    BY DEF Pull
  <1>5. \A a \in Accounts : balance[token][a] \in Nat
    BY <1>2 DEF Balances
  <1>6. Received(token, amount) \in Nat
    BY ReceivedBounds
  <1> HIDE DEF new
  <1> QED
    BY <1>1, <1>3, <1>4, <1>5, <1>6, FreeTransfer DEF Delta

----------------------------------------------------------------------------
(* What each kind of transaction does to the books. *)

\* What ending a deal does to the money: the escrow lets go of all the deal held, and, in a
\* token without fee, every user gets what the events say.
Pays(d) ==
  LET deal == deals[d]
      token == deal.payToken
  IN
  /\ token \in Tokens /\ deal.tokenAmount \in Nat /\ deal.bond \in Nat
  /\ Live(d) /\ ~Final(d) /\ ~Live(d)' /\ Final(d)'
  /\ deals'[d].payToken = token
  /\ deals'[d].buyer = deal.buyer
  /\ deals'[d].tokenAmount = deal.tokenAmount
  /\ \A e \in Ids : e # d => deals'[e] = deals[e] /\ receipts'[e] = receipts[e]
  /\ listings' = listings
  /\ deal.tokenAmount + deal.bond <= balance[token][EscrowAddress]
  /\ \A t \in Tokens : t # token => balance'[t] = balance[t]
  /\ balance'[token][EscrowAddress] = balance[token][EscrowAddress] - (deal.tokenAmount + deal.bond)
  /\ FeeBps[token] = 0 =>
       \A u \in Users : /\ PaidOut(u, d)' \in Nat
                        /\ balance'[token][u] = balance[token][u] + PaidOut(u, d)'

\* Every transaction that ends a deal does that.
LEMMA ClosingPays ==
  ASSUME Inv, NEW d \in Ids, Closes(d)
  PROVE  Pays(d)
  <1> PICK final \in FinalStates, toSeller \in Nat, toBuyer \in Nat, back \in BOOLEAN :
        /\ SettlesFairly(d, final, toSeller, toBuyer, back)
        /\ Ended(d, final, toSeller, toBuyer, back)
        /\ Settle(d, final, toSeller, toBuyer, back)
    BY Zenon DEF Closes
  <1> DEFINE token == deals[d].payToken
             bond == deals[d].bond
             bondTo == IF back THEN deals[d].buyer ELSE deals[d].seller
  <1>1. /\ deals \in [Ids -> Deal] /\ receipts \in [Ids -> Receipt]
        /\ deals' \in [Ids -> Deal] /\ receipts' \in [Ids -> Receipt]
        /\ balance \in Balances
    BY DEF Inv, TypeOK, Ended, Balances
  <1>2. Live(d) /\ deals[d].state \in LiveStates /\ ~Final(d)
    BY DEF Closes, Live, Final, LiveStates, FinalStates
  <1>3. /\ token \in Tokens /\ deals[d].buyer \in Users /\ deals[d].seller \in Users
        /\ deals[d].tokenAmount \in Nat /\ bond \in Nat /\ bond = receipts[d].bond
        /\ bondTo \in Users
    BY <1>1, <1>2 DEF Inv, DealsWellFormed, LiveStates, Deal
  <1>4. /\ deals'[d] = [deals[d] EXCEPT !.state = final, !.bond = 0]
        /\ receipts'[d] =
             [receipts[d] EXCEPT !.closedAt = now, !.toSeller = toSeller, !.toBuyer = toBuyer,
                                 !.bondTo = IF bond = 0 THEN NoAddress ELSE bondTo]
        /\ \A e \in Ids : e # d => deals'[e] = deals[e] /\ receipts'[e] = receipts[e]
        /\ listings' = listings
    BY DEF Ended
  <1>5. /\ deals'[d].state = final /\ deals'[d].payToken = token
        /\ deals'[d].buyer = deals[d].buyer /\ deals'[d].seller = deals[d].seller
        /\ deals'[d].tokenAmount = deals[d].tokenAmount
    BY <1>1, <1>4 DEF Deal
  <1>6. /\ receipts'[d].toSeller = toSeller /\ receipts'[d].toBuyer = toBuyer
        /\ receipts'[d].bond = bond
        /\ receipts'[d].bondTo = IF bond = 0 THEN NoAddress ELSE bondTo
    BY <1>1, <1>3, <1>4 DEF Receipt
  <1>7. ~Live(d)' /\ Final(d)'
    BY <1>5 DEF Live, Final, LiveStates, FinalStates
  <1>8. toSeller + toBuyer = deals[d].tokenAmount
    BY DEF SettlesFairly
  <1>9. /\ toSeller + toBuyer + bond <= balance[token][EscrowAddress]
        /\ balance' = Payout(Payout(Payout(balance, token, deals[d].seller, toSeller),
                                    token, deals[d].buyer, toBuyer),
                             token, bondTo, bond)
    BY DEF Settle
  <1> HIDE DEF token, bond, bondTo
  <1>10. /\ \A t \in Tokens : t # token => balance'[t] = balance[t]
         /\ balance'[token][EscrowAddress]
              = balance[token][EscrowAddress] - (toSeller + toBuyer + bond)
         /\ FeeBps[token] = 0 =>
              \A u \in Users :
                balance'[token][u] = balance[token][u]
                  + (IF u = deals[d].seller THEN toSeller ELSE 0)
                  + (IF u = deals[d].buyer THEN toBuyer ELSE 0)
                  + (IF u = bondTo THEN bond ELSE 0)
    <2>1. /\ balance \in Balances /\ token \in Tokens /\ bond \in Nat /\ bondTo \in Users
          /\ deals[d].seller \in Users /\ deals[d].buyer \in Users
          /\ toSeller + toBuyer + bond <= balance[token][EscrowAddress]
      BY <1>1, <1>3, <1>9
    <2>2. toSeller \in Nat /\ toBuyer \in Nat
      OBVIOUS
    <2>3. PaidThree(balance, balance', token, deals[d].seller, toSeller, deals[d].buyer, toBuyer,
                    bondTo, bond)
      BY <1>9, <2>1, <2>2, PayoutsAll
    <2> QED
      BY <2>3, Zenon DEF PaidThree
  <1>11. ASSUME NEW u \in Users
         PROVE  PaidOut(u, d)' = (IF u = deals[d].seller THEN toSeller ELSE 0)
                  + (IF u = deals[d].buyer THEN toBuyer ELSE 0)
                  + (IF u = bondTo THEN bond ELSE 0)
    <2>1. PaidOut(u, d)' = (IF u = deals[d].seller THEN toSeller ELSE 0)
                             + (IF u = deals[d].buyer THEN toBuyer ELSE 0)
                             + (IF u = receipts'[d].bondTo THEN bond ELSE 0)
      BY <1>5, <1>6, <1>7 DEF PaidOut
    <2>2. (IF u = receipts'[d].bondTo THEN bond ELSE 0) = (IF u = bondTo THEN bond ELSE 0)
      BY <1>3, <1>6, UsersAssumption
    <2> QED
      BY <2>1, <2>2
  <1>12. ASSUME FeeBps[token] = 0, NEW u \in Users
         PROVE  /\ PaidOut(u, d)' \in Nat
                /\ balance'[token][u] = balance[token][u] + PaidOut(u, d)'
    <2>1. balance[token][u] \in Nat
      BY <1>1, <1>3, AccountsDiffer DEF Balances
    <2> QED
      BY <1>3, <1>10, <1>11, <1>12, <2>1
  <1>13. deals[d].tokenAmount + bond <= balance[token][EscrowAddress]
    BY <1>8, <1>9
  <1>14. balance'[token][EscrowAddress]
           = balance[token][EscrowAddress] - (deals[d].tokenAmount + bond)
    BY <1>8, <1>10
  <1> QED
    BY <1>2, <1>3, <1>4, <1>5, <1>7, <1>10, <1>12, <1>13, <1>14 DEF Pays, token, bond

\* list writes the listing with the next number, which was empty, and takes its bond.
LEMMA ListMoves ==
  ASSUME Inv, NEW u \in Users, NEW t \in Terms, list(u, t)
  PROVE  LET i == nextListingId
             token == t.payToken
         IN
         /\ i \in Ids /\ ~listings[i].active /\ listings[i].seller = NoAddress
         /\ listings'[i].active /\ listings'[i].seller = u /\ listings'[i].payToken = token
         /\ listings'[i].bond = Delta(token, t.bondAmount)
         /\ token \in Tokens /\ t.bondAmount \in Nat /\ Pull(token, u, t.bondAmount)
         /\ \A k \in Ids : k # i => listings'[k] = listings[k]
         /\ UNCHANGED <<deals, receipts, stats>>
  <1>1. t.payToken \in Tokens /\ t.bondAmount \in Nat
    BY EscrowAssumption DEF list, ValidTerms
  <1>2. nextListingId \in Ids
    BY EscrowAssumption DEF list, Inv, TypeOK, Ids
  <1>3. listings[nextListingId].seller = NoAddress /\ ~listings[nextListingId].active
    BY <1>2 DEF Inv, ListingsWellFormed, TypeOK, Listing
  <1>4. listings \in [Ids -> Listing]
    BY DEF Inv, TypeOK
  <1> QED
    BY <1>1, <1>2, <1>3, <1>4 DEF list, reputationVars

\* cancelListing closes an open listing and returns its bond.
LEMMA CancelMoves ==
  ASSUME Inv, NEW u \in Users, NEW i \in Ids, cancelListing(u, i)
  PROVE  LET l == listings[i]
             token == l.payToken
         IN
         /\ l.active /\ l.seller = u /\ token \in Tokens /\ l.bond \in Nat
         /\ ~listings'[i].active /\ listings'[i].seller = u /\ listings'[i].payToken = token
         /\ listings'[i].bond = 0
         /\ \A k \in Ids : k # i => listings'[k] = listings[k]
         /\ \A t \in Tokens : t # token => balance'[t] = balance[t]
         /\ balance'[token][EscrowAddress] = balance[token][EscrowAddress] - l.bond
         /\ FeeBps[token] = 0 => \A a \in Users :
              balance'[token][a] = balance[token][a] + (IF a = u THEN l.bond ELSE 0)
         /\ UNCHANGED <<deals, receipts, stats>>
  <1> DEFINE l == listings[i]
             token == l.payToken
  <1>1. /\ listings \in [Ids -> Listing] /\ balance \in Balances
        /\ l \in Listing /\ l.active /\ l.seller = u /\ token \in Tokens /\ l.bond \in Nat
    BY DEF cancelListing, Open, Inv, TypeOK, ListingsWellFormed, Listing, Balances
  <1>2. /\ listings' = [listings EXCEPT ![i] = [@ EXCEPT !.active = FALSE, !.bond = 0]]
        /\ balance' = Payout(balance, token, u, l.bond)
        /\ l.bond <= balance[token][EscrowAddress]
        /\ UNCHANGED <<deals, receipts, stats>>
    BY <1>1 DEF cancelListing, reputationVars
  <1>3. /\ listings'[i] = [l EXCEPT !.active = FALSE, !.bond = 0]
        /\ \A k \in Ids : k # i => listings'[k] = listings[k]
    BY <1>1, <1>2
  <1>4. /\ ~listings'[i].active /\ listings'[i].seller = u /\ listings'[i].payToken = token
        /\ listings'[i].bond = 0
    BY <1>1, <1>3 DEF Listing
  <1> HIDE DEF l, token
  <1>5. /\ \A t \in Tokens : t # token => balance'[t] = balance[t]
        /\ balance'[token][EscrowAddress] = balance[token][EscrowAddress] - l.bond
        /\ \A a \in Users :
              balance'[token][a] = balance[token][a] + (IF a = u THEN Received(token, l.bond) ELSE 0)
    BY <1>1, <1>2, PayoutAll
  <1>6. FeeBps[token] = 0 => Received(token, l.bond) = l.bond
    BY <1>1, FreeTransfer
  <1> QED
    BY <1>1, <1>2, <1>3, <1>4, <1>5, <1>6 DEF l, token

\* fund moves the listing's bond to the next deal, which was empty, and takes the tokens.
LEMMA FundMoves ==
  ASSUME Inv, NEW u \in Users, NEW i \in Ids, NEW amount \in FundAmounts, fund(u, i, amount)
  PROVE  LET l == listings[i]
             token == l.payToken
             n == nextDealId
         IN
         /\ l.active /\ token \in Tokens /\ l.bond \in Nat
         /\ ~listings'[i].active /\ listings'[i].seller = l.seller
         /\ listings'[i].payToken = token /\ listings'[i].bond = l.bond
         /\ \A k \in Ids : k # i => listings'[k] = listings[k]
         /\ n \in Ids /\ deals[n] = NoDeal
         /\ deals'[n].state = "Funded" /\ deals'[n].buyer = u /\ deals'[n].payToken = token
         /\ deals'[n].tokenAmount = Delta(token, amount) /\ deals'[n].bond = l.bond
         /\ \A d \in Ids : d # n => deals'[d] = deals[d] /\ receipts'[d] = receipts[d]
         /\ amount \in Nat /\ Pull(token, u, amount)
         /\ stats' = stats
  <1>1. /\ listings \in [Ids -> Listing] /\ deals \in [Ids -> Deal] /\ listings[i] \in Listing
        /\ listings[i].active /\ listings[i].payToken \in Tokens /\ listings[i].bond \in Nat
    BY DEF fund, Open, Inv, TypeOK, ListingsWellFormed, Listing
  <1>2. /\ nextDealId \in Ids /\ deals[nextDealId] = NoDeal
        /\ \A d \in Ids : d # nextDealId => deals'[d] = deals[d] /\ receipts'[d] = receipts[d]
    BY FundEffect
  <1>3. /\ listings'[i] = [listings[i] EXCEPT !.active = FALSE]
        /\ \A k \in Ids : k # i => listings'[k] = listings[k]
    BY <1>1 DEF fund
  <1>4. /\ ~listings'[i].active /\ listings'[i].seller = listings[i].seller
        /\ listings'[i].payToken = listings[i].payToken /\ listings'[i].bond = listings[i].bond
    BY <1>1, <1>3 DEF Listing
  <1>5. /\ deals'[nextDealId].state = "Funded" /\ deals'[nextDealId].buyer = u
        /\ deals'[nextDealId].payToken = listings[i].payToken
        /\ deals'[nextDealId].tokenAmount = Delta(listings[i].payToken, amount)
        /\ deals'[nextDealId].bond = listings[i].bond
    BY <1>1, <1>2 DEF fund
  <1>6. amount \in Nat /\ Pull(listings[i].payToken, u, amount) /\ stats' = stats
    BY EscrowAssumption DEF fund, reputationVars
  <1> QED
    BY <1>1, <1>2, <1>3, <1>4, <1>5, <1>6

\* A check-in moves no money and ends nothing.
LEMMA CheckInMoves ==
  ASSUME Inv, NEW u \in Users, NEW d \in Ids, checkIn(u, d)
  PROVE  /\ Live(d) /\ Live(d)' /\ ~Final(d) /\ ~Final(d)'
         /\ deals'[d].payToken = deals[d].payToken /\ deals'[d].buyer = deals[d].buyer
         /\ deals'[d].tokenAmount = deals[d].tokenAmount /\ deals'[d].bond = deals[d].bond
         /\ \A e \in Ids : e # d => deals'[e] = deals[e]
         /\ UNCHANGED <<listings, receipts, balance, stats>>
  <1>1. deals \in [Ids -> Deal] /\ deals[d] \in Deal /\ deals[d].state = "Funded"
    BY DEF checkIn, Inv, TypeOK
  <1>2. /\ deals'[d] = [deals[d] EXCEPT !.sellerCheckedIn = TRUE, !.state = "SellerCheckedIn"]
        /\ \A e \in Ids : e # d => deals'[e] = deals[e]
        /\ UNCHANGED <<listings, receipts, balance, stats>>
    BY <1>1 DEF checkIn, reputationVars
  <1>3. /\ deals'[d].state = "SellerCheckedIn"
        /\ deals'[d].payToken = deals[d].payToken /\ deals'[d].buyer = deals[d].buyer
        /\ deals'[d].tokenAmount = deals[d].tokenAmount /\ deals'[d].bond = deals[d].bond
    BY <1>1, <1>2 DEF Deal
  <1> QED
    BY <1>1, <1>2, <1>3 DEF Live, Final, LiveStates, FinalStates

\* Every step is one of these, or touches none of the books.
LEMMA BookSteps ==
  ASSUME Inv, [Next]_vars
  PROVE  \/ \E u \in Users, t \in Terms : list(u, t)
         \/ \E u \in Users, i \in Ids : cancelListing(u, i)
         \/ \E u \in Users, i \in Ids, amount \in FundAmounts : fund(u, i, amount)
         \/ \E u \in Users, d \in Ids : checkIn(u, d)
         \/ \E d \in Ids : Closes(d)
         \/ UNCHANGED <<listings, deals, receipts, balance, stats>>
  <1>1. ASSUME OwnerNext \/ Tick \/ UNCHANGED vars
        PROVE  UNCHANGED <<listings, deals, receipts, balance, stats>>
    BY <1>1
    DEF OwnerNext, Tick, vars, setVerifierProxy, setReputation, wireReputation, setEscrow,
        reputationVars
  <1>2. ASSUME NEW d \in Ids,
               \/ \E u \in Users : agreeCancel(u, d)
               \/ \E u \in Users, p \in OraclePrices : confirmReceipt(u, d, p)
               \/ \E u \in Users, p \in OraclePrices : buyerCancel(u, d, p)
               \/ \E p \in OraclePrices : reclaimExpired(d, p)
        PROVE  Closes(d)
    BY <1>2, AgreeCancelCloses, ConfirmCloses, BuyerCancelCloses, ReclaimCloses
  <1> QED
    BY <1>1, <1>2 DEF Next, ListingNext, DealNext

----------------------------------------------------------------------------
(* The escrow is solvent. *)

\* The books count natural numbers of tokens.
LEMMA BooksType ==
  ASSUME Inv, NEW token \in Tokens
  PROVE  /\ MaxListings \in Nat
         /\ ListingBonds(token) \in [1 .. MaxListings -> Nat]
         /\ DealFunds(token) \in [1 .. MaxListings -> Nat]
  <1>1. \A i \in Ids : listings[i].bond \in Nat
    BY DEF Inv, TypeOK, Listing
  <1>2. \A d \in Ids : deals[d].tokenAmount + deals[d].bond \in Nat
    BY DEF Inv, TypeOK, Deal
  <1> QED
    BY <1>1, <1>2, EscrowAssumption DEF ListingBonds, DealFunds, Ids

\* A transaction that changes one listing changes what the listings hold by as much.
LEMMA ListingBondsChange ==
  ASSUME Inv, NEW token \in Tokens, NEW i \in Ids,
         \A k \in Ids : k # i => listings'[k] = listings[k],
         ListingBonds(token)'[i] \in Nat
  PROVE  /\ Total(ListingBonds(token), MaxListings) \in Int
         /\ Total(ListingBonds(token)', MaxListings)
              = Total(ListingBonds(token), MaxListings)
                  - ListingBonds(token)[i] + ListingBonds(token)'[i]
  <1> DEFINE old == ListingBonds(token)
             new == ListingBonds(token)'
  <1>1. new = [k \in Ids |-> new[k]] /\ \A k \in Ids : k # i => new[k] = old[k]
    BY DEF ListingBonds
  <1>2. old \in [1 .. MaxListings -> Nat] /\ MaxListings \in Nat
    BY BooksType
  <1>3. new[i] \in Nat
    OBVIOUS
  <1> HIDE DEF old, new
  <1>4. old \in [1 .. MaxListings -> Int] /\ new \in [1 .. MaxListings -> Int]
    BY <1>1, <1>2, <1>3 DEF Ids
  <1>5. Total(old, MaxListings) \in Int
        /\ Total(new, MaxListings) = Total(old, MaxListings) - old[i] + new[i]
    BY <1>1, <1>2, <1>4, TotalChanges DEF Ids
  <1> QED
    BY <1>5 DEF old, new

\* A transaction that changes one deal changes what the deals hold by as much.
LEMMA DealFundsChange ==
  ASSUME Inv, NEW token \in Tokens, NEW d \in Ids,
         \A e \in Ids : e # d => deals'[e] = deals[e],
         DealFunds(token)'[d] \in Nat
  PROVE  /\ Total(DealFunds(token), MaxListings) \in Int
         /\ Total(DealFunds(token)', MaxListings)
              = Total(DealFunds(token), MaxListings)
                  - DealFunds(token)[d] + DealFunds(token)'[d]
  <1> DEFINE old == DealFunds(token)
             new == DealFunds(token)'
  <1>1. new = [e \in Ids |-> new[e]] /\ \A e \in Ids : e # d => new[e] = old[e]
    BY DEF DealFunds, Live
  <1>2. old \in [1 .. MaxListings -> Nat] /\ MaxListings \in Nat
    BY BooksType
  <1>3. new[d] \in Nat
    OBVIOUS
  <1> HIDE DEF old, new
  <1>4. old \in [1 .. MaxListings -> Int] /\ new \in [1 .. MaxListings -> Int]
    BY <1>1, <1>2, <1>3 DEF Ids
  <1>5. Total(old, MaxListings) \in Int
        /\ Total(new, MaxListings) = Total(old, MaxListings) - old[d] + new[d]
    BY <1>1, <1>2, <1>4, TotalChanges DEF Ids
  <1> QED
    BY <1>5 DEF old, new

\* What Solvent says of one token.
SolventIn(token) == balance[token][EscrowAddress] = Obligations(token)

\* The escrow's balances are numbers.
LEMMA EscrowHolds ==
  ASSUME Inv, NEW token \in Tokens
  PROVE  balance[token][EscrowAddress] \in Nat
  BY AccountsDiffer DEF Inv, TypeOK

\* list pulls in the bond it records.
LEMMA ListSolvent ==
  ASSUME Inv, NEW u \in Users, NEW t \in Terms, list(u, t), NEW token \in Tokens, SolventIn(token)
  PROVE  SolventIn(token)'
  <1> DEFINE i == nextListingId
             bond == Delta(t.payToken, t.bondAmount)
  <1>1. /\ i \in Ids /\ ~listings[i].active
        /\ listings'[i].active /\ listings'[i].payToken = t.payToken /\ listings'[i].bond = bond
        /\ t.payToken \in Tokens /\ t.bondAmount \in Nat /\ Pull(t.payToken, u, t.bondAmount)
        /\ \A k \in Ids : k # i => listings'[k] = listings[k]
        /\ deals' = deals
    BY ListMoves
  <1>2. /\ bond \in Nat
        /\ \A s \in Tokens : s # t.payToken => balance'[s] = balance[s]
        /\ balance'[t.payToken][EscrowAddress] = balance[t.payToken][EscrowAddress] + bond
    BY <1>1, PullAll DEF Inv
  <1> HIDE DEF i, bond
  <1>3. /\ ListingBonds(token)[i] = 0
        /\ ListingBonds(token)'[i] = IF t.payToken = token THEN bond ELSE 0
    BY <1>1 DEF ListingBonds
  <1>4. /\ Total(ListingBonds(token), MaxListings) \in Int
        /\ Total(ListingBonds(token)', MaxListings)
             = Total(ListingBonds(token), MaxListings) + (IF t.payToken = token THEN bond ELSE 0)
    BY <1>1, <1>2, <1>3, ListingBondsChange
  <1>5. DealFunds(token)' = DealFunds(token)
    BY <1>1 DEF DealFunds, Live
  <1>6. Total(DealFunds(token), MaxListings) \in Nat /\ balance[token][EscrowAddress] \in Nat
    BY BooksType, TotalNat, EscrowHolds
  <1> QED
    BY <1>2, <1>4, <1>5, <1>6 DEF SolventIn, Obligations

\* cancelListing pays out the bond it stops recording.
LEMMA CancelSolvent ==
  ASSUME Inv, NEW u \in Users, NEW i \in Ids, cancelListing(u, i),
         NEW token \in Tokens, SolventIn(token)
  PROVE  SolventIn(token)'
  <1> DEFINE l == listings[i]
  <1>1. /\ l.active /\ l.payToken \in Tokens /\ l.bond \in Nat
        /\ ~listings'[i].active
        /\ \A k \in Ids : k # i => listings'[k] = listings[k]
        /\ \A s \in Tokens : s # l.payToken => balance'[s] = balance[s]
        /\ balance'[l.payToken][EscrowAddress] = balance[l.payToken][EscrowAddress] - l.bond
        /\ deals' = deals
    BY CancelMoves
  <1>2. /\ ListingBonds(token)[i] = IF l.payToken = token THEN l.bond ELSE 0
        /\ ListingBonds(token)'[i] = 0
    BY <1>1 DEF ListingBonds
  <1> HIDE DEF l
  <1>3. /\ Total(ListingBonds(token), MaxListings) \in Int
        /\ Total(ListingBonds(token)', MaxListings)
             = Total(ListingBonds(token), MaxListings) - (IF l.payToken = token THEN l.bond ELSE 0)
    BY <1>1, <1>2, ListingBondsChange
  <1>4. DealFunds(token)' = DealFunds(token)
    BY <1>1 DEF DealFunds, Live
  <1>5. Total(DealFunds(token), MaxListings) \in Nat /\ balance[token][EscrowAddress] \in Nat
    BY BooksType, TotalNat, EscrowHolds
  <1> QED
    BY <1>1, <1>3, <1>4, <1>5 DEF SolventIn, Obligations

\* fund pulls in the amount it records, and the bond only changes from the listing to the deal.
LEMMA FundSolvent ==
  ASSUME Inv, NEW u \in Users, NEW i \in Ids, NEW amount \in FundAmounts, fund(u, i, amount),
         NEW token \in Tokens, SolventIn(token)
  PROVE  SolventIn(token)'
  <1> DEFINE l == listings[i]
             n == nextDealId
             received == Delta(l.payToken, amount)
  <1>1. /\ l.active /\ l.payToken \in Tokens /\ l.bond \in Nat /\ ~listings'[i].active
        /\ \A k \in Ids : k # i => listings'[k] = listings[k]
        /\ n \in Ids /\ deals[n] = NoDeal
        /\ deals'[n].state = "Funded" /\ deals'[n].payToken = l.payToken
        /\ deals'[n].tokenAmount = received /\ deals'[n].bond = l.bond
        /\ \A d \in Ids : d # n => deals'[d] = deals[d]
        /\ amount \in Nat /\ Pull(l.payToken, u, amount)
    BY FundMoves
  <1>2. /\ received \in Nat
        /\ \A s \in Tokens : s # l.payToken => balance'[s] = balance[s]
        /\ balance'[l.payToken][EscrowAddress] = balance[l.payToken][EscrowAddress] + received
    BY <1>1, PullAll DEF Inv
  <1>3. /\ ListingBonds(token)[i] = IF l.payToken = token THEN l.bond ELSE 0
        /\ ListingBonds(token)'[i] = 0
    BY <1>1 DEF ListingBonds
  <1>4. /\ DealFunds(token)[n] = 0
        /\ DealFunds(token)'[n] = IF l.payToken = token THEN received + l.bond ELSE 0
    BY <1>1 DEF DealFunds, Live, LiveStates, NoDeal
  <1> HIDE DEF l, n, received
  <1>5. /\ Total(ListingBonds(token), MaxListings) \in Int
        /\ Total(ListingBonds(token)', MaxListings)
             = Total(ListingBonds(token), MaxListings) - (IF l.payToken = token THEN l.bond ELSE 0)
    BY <1>1, <1>3, ListingBondsChange
  <1>6. /\ Total(DealFunds(token), MaxListings) \in Int
        /\ Total(DealFunds(token)', MaxListings)
             = Total(DealFunds(token), MaxListings)
                 + (IF l.payToken = token THEN received + l.bond ELSE 0)
    BY <1>1, <1>2, <1>4, DealFundsChange
  <1>7. balance[token][EscrowAddress] \in Nat
    BY EscrowHolds
  <1> QED
    BY <1>1, <1>2, <1>5, <1>6, <1>7 DEF SolventIn, Obligations

\* A deal that ends lets go of exactly what it held.
LEMMA ClosingSolvent ==
  ASSUME Inv, NEW d \in Ids, Closes(d), NEW token \in Tokens, SolventIn(token)
  PROVE  SolventIn(token)'
  <1> DEFINE deal == deals[d]
             held == deal.tokenAmount + deal.bond
  <1>1. Pays(d)
    BY ClosingPays
  <1>2. /\ DealFunds(token)[d] = IF deal.payToken = token THEN held ELSE 0
        /\ DealFunds(token)'[d] = 0
    BY <1>1 DEF DealFunds, Pays
  <1>3. held \in Nat /\ \A e \in Ids : e # d => deals'[e] = deals[e]
    BY <1>1 DEF Pays
  <1>4. /\ \A t \in Tokens : t # deal.payToken => balance'[t] = balance[t]
        /\ balance'[deal.payToken][EscrowAddress] = balance[deal.payToken][EscrowAddress] - held
        /\ deal.payToken \in Tokens
        /\ listings' = listings
    BY <1>1 DEF Pays
  <1> HIDE DEF deal, held
  <1>5. /\ Total(DealFunds(token), MaxListings) \in Int
        /\ Total(DealFunds(token)', MaxListings)
             = Total(DealFunds(token), MaxListings) - (IF deal.payToken = token THEN held ELSE 0)
    BY <1>2, <1>3, DealFundsChange
  <1>6. ListingBonds(token)' = ListingBonds(token)
    BY <1>4 DEF ListingBonds
  <1>7. Total(ListingBonds(token), MaxListings) \in Nat /\ balance[token][EscrowAddress] \in Nat
    BY BooksType, TotalNat, EscrowHolds
  <1> QED
    BY <1>3, <1>4, <1>5, <1>6, <1>7 DEF SolventIn, Obligations

\* A step that moves no money changes no book.
LEMMA CheckInSolvent ==
  ASSUME Inv, NEW u \in Users, NEW d \in Ids, checkIn(u, d), NEW token \in Tokens, SolventIn(token)
  PROVE  SolventIn(token)'
  <1>1. /\ Live(d) /\ Live(d)'
        /\ deals'[d].payToken = deals[d].payToken
        /\ deals'[d].tokenAmount = deals[d].tokenAmount /\ deals'[d].bond = deals[d].bond
        /\ \A e \in Ids : e # d => deals'[e] = deals[e]
        /\ UNCHANGED <<listings, balance>>
    BY CheckInMoves
  <1>2. DealFunds(token)' = DealFunds(token)
    <2>1. \A e \in Ids : e # d => (Live(e)' <=> Live(e))
      BY <1>1 DEF Live
    <2> QED
      BY <1>1, <2>1 DEF DealFunds
  <1>3. ListingBonds(token)' = ListingBonds(token)
    BY <1>1 DEF ListingBonds
  <1> QED
    BY <1>1, <1>2, <1>3 DEF SolventIn, Obligations

\* At the start the escrow holds nothing and owes nothing.
LEMMA InitSolvent == Init => Solvent
  <1> SUFFICES ASSUME Init, NEW token \in Tokens
               PROVE  balance[token][EscrowAddress] = Obligations(token)
    BY DEF Solvent
  <1>1. balance[token][EscrowAddress] = 0
    BY AccountsDiffer, UsersAssumption DEF Init
  <1>2. \A k \in 1 .. MaxListings : ListingBonds(token)[k] = 0 /\ DealFunds(token)[k] = 0
    BY DEF Init, ListingBonds, DealFunds, NoListing, NoDeal, Live, LiveStates, Ids
  <1>3. /\ MaxListings \in Nat
        /\ ListingBonds(token) \in [1 .. MaxListings -> Int]
        /\ DealFunds(token) \in [1 .. MaxListings -> Int]
    BY InitInv, BooksType
  <1> QED
    BY <1>1, <1>2, <1>3, TotalZero DEF Obligations

\* No transaction breaks the balance of the books.
LEMMA NextSolvent ==
  ASSUME Inv, Solvent, [Next]_vars
  PROVE  Solvent'
  <1> SUFFICES ASSUME NEW token \in Tokens
               PROVE  SolventIn(token)'
    BY DEF Solvent, SolventIn
  <1>1. SolventIn(token)
    BY DEF Solvent, SolventIn
  <1>2. ASSUME UNCHANGED <<listings, deals, receipts, balance, stats>>
        PROVE  SolventIn(token)'
    BY <1>1, <1>2 DEF SolventIn, Obligations, ListingBonds, DealFunds, Live
  <1> QED
    BY <1>1, <1>2, BookSteps, ListSolvent, CancelSolvent, FundSolvent, ClosingSolvent,
       CheckInSolvent

\* Escrow.sol 295-300: whatever fees the tokens burn and in whatever order listings and deals
\* come and go, the escrow holds exactly what its open listings and live deals have recorded.
THEOREM EscrowIsSolvent == Spec => []Solvent
  <1>1. Inv /\ Solvent /\ [Next]_vars => Solvent'
    BY NextSolvent
  <1> QED
    BY <1>1, InitSolvent, Invariance, PTL DEF Spec

\* The funds of every live deal, and the bond of every open listing, are there to be paid out.
Covered ==
  /\ \A d \in Ids : Live(d) =>
       deals[d].tokenAmount + deals[d].bond <= balance[deals[d].payToken][EscrowAddress]
  /\ \A i \in Ids : listings[i].active =>
       listings[i].bond <= balance[listings[i].payToken][EscrowAddress]

\* No settlement and no cancelListing ever reverts for want of tokens: the balance check of the
\* token transfers, a guard of Settle and of cancelListing, never bites.
THEOREM PayoutsAreCovered == Spec => []Covered
  <1>1. ASSUME Inv, Solvent
        PROVE  Covered
    <2>1. ASSUME NEW token \in Tokens
          PROVE  /\ Total(ListingBonds(token), MaxListings) \in Nat
                 /\ Total(DealFunds(token), MaxListings) \in Nat
                 /\ \A k \in Ids : /\ ListingBonds(token)[k] \in Nat
                                   /\ DealFunds(token)[k] \in Nat
                                   /\ ListingBonds(token)[k] <= balance[token][EscrowAddress]
                                   /\ DealFunds(token)[k] <= balance[token][EscrowAddress]
      <3>1. /\ MaxListings \in Nat
            /\ ListingBonds(token) \in [1 .. MaxListings -> Nat]
            /\ DealFunds(token) \in [1 .. MaxListings -> Nat]
        BY <1>1, BooksType
      <3>2. /\ Total(ListingBonds(token), MaxListings) \in Nat
            /\ Total(DealFunds(token), MaxListings) \in Nat
        BY <3>1, TotalNat
      <3>3. \A k \in 1 .. MaxListings :
              /\ ListingBonds(token)[k] <= Total(ListingBonds(token), MaxListings)
              /\ DealFunds(token)[k] <= Total(DealFunds(token), MaxListings)
        BY <3>1, TotalCovers
      <3>4. balance[token][EscrowAddress]
              = Total(ListingBonds(token), MaxListings) + Total(DealFunds(token), MaxListings)
        BY <1>1 DEF Solvent, Obligations
      <3> QED
        BY <3>1, <3>2, <3>3, <3>4 DEF Ids
    <2>2. ASSUME NEW d \in Ids, Live(d)
          PROVE  deals[d].tokenAmount + deals[d].bond <= balance[deals[d].payToken][EscrowAddress]
      <3>1. deals[d].payToken \in Tokens
        BY <1>1, <2>2 DEF Inv, DealsWellFormed, Live, LiveStates
      <3>2. DealFunds(deals[d].payToken)[d] = deals[d].tokenAmount + deals[d].bond
        BY <2>2 DEF DealFunds
      <3> QED
        BY <2>1, <3>1, <3>2
    <2>3. ASSUME NEW i \in Ids, listings[i].active
          PROVE  listings[i].bond <= balance[listings[i].payToken][EscrowAddress]
      <3>1. listings[i].payToken \in Tokens
        BY <1>1, <2>3 DEF Inv, ListingsWellFormed
      <3>2. ListingBonds(listings[i].payToken)[i] = listings[i].bond
        BY <2>3 DEF ListingBonds
      <3> QED
        BY <2>1, <3>1, <3>2
    <2> QED
      BY <2>2, <2>3 DEF Covered
  <1> QED
    BY <1>1, EscrowIsSolvent, Invariance, PTL

----------------------------------------------------------------------------
(* Every wallet is explained. *)

\* What WalletsExplained says of one user in one token.
Explained(u, token) ==
  balance[token][u] = InitialBalance - Total(Stakes(u, token), MaxListings)
                                     + Total(Outcomes(u, token), MaxListings)

\* Stakes are natural numbers; outcomes may be losses.
LEMMA WalletsType ==
  ASSUME Inv, NEW u \in Users, NEW token \in Tokens
  PROVE  /\ MaxListings \in Nat /\ InitialBalance \in Nat /\ balance[token][u] \in Nat
         /\ Stakes(u, token) \in [1 .. MaxListings -> Int]
         /\ Outcomes(u, token) \in [1 .. MaxListings -> Int]
         /\ Total(Stakes(u, token), MaxListings) \in Int
         /\ Total(Outcomes(u, token), MaxListings) \in Int
  <1>1. \A i \in Ids : listings[i].bond \in Int
    BY DEF Inv, TypeOK, Listing
  <1>2. \A d \in Ids : PaidIn(u, d) \in Int
    BY DEF Inv, TypeOK, Deal, PaidIn
  <1>3. \A d \in Ids : PaidOut(u, d) \in Int
    BY DEF Inv, TypeOK, Receipt, PaidOut
  <1>4. MaxListings \in Nat /\ InitialBalance \in Nat /\ balance[token][u] \in Nat
    BY EscrowAssumption, AccountsDiffer DEF Inv, TypeOK
  <1>5. Stakes(u, token) \in [1 .. MaxListings -> Int]
    BY <1>1 DEF Stakes, Ids
  <1>6. Outcomes(u, token) \in [1 .. MaxListings -> Int]
    BY <1>2, <1>3 DEF Outcomes, Ids
  <1>7. Total(Stakes(u, token), MaxListings) \in Int /\ Total(Outcomes(u, token), MaxListings) \in Int
    <2>1. ASSUME NEW amount \in [1 .. MaxListings -> Int]
          PROVE  Total(amount, MaxListings) \in Int
      BY <1>4, <2>1, TotalIsSum
    <2> QED
      BY <1>5, <1>6, <2>1
  <1> QED
    BY <1>4, <1>5, <1>6, <1>7

\* A transaction that changes one listing changes a user's stakes by as much.
LEMMA StakesChange ==
  ASSUME Inv, NEW u \in Users, NEW token \in Tokens, NEW i \in Ids,
         \A k \in Ids : k # i => listings'[k] = listings[k],
         Stakes(u, token)'[i] \in Int
  PROVE  Total(Stakes(u, token)', MaxListings)
           = Total(Stakes(u, token), MaxListings) - Stakes(u, token)[i] + Stakes(u, token)'[i]
  <1> DEFINE old == Stakes(u, token)
             new == Stakes(u, token)'
  <1>1. new = [k \in Ids |-> new[k]] /\ \A k \in Ids : k # i => new[k] = old[k]
    BY DEF Stakes
  <1>2. old \in [1 .. MaxListings -> Int] /\ MaxListings \in Nat
    BY WalletsType
  <1>3. new[i] \in Int
    OBVIOUS
  <1> HIDE DEF old, new
  <1>4. new \in [1 .. MaxListings -> Int]
    BY <1>1, <1>2, <1>3 DEF Ids
  <1>5. Total(new, MaxListings) = Total(old, MaxListings) - old[i] + new[i]
    BY <1>1, <1>2, <1>4, TotalChanges DEF Ids
  <1> QED
    BY <1>5 DEF old, new

\* A transaction that changes one deal changes a user's outcomes by as much.
LEMMA OutcomesChange ==
  ASSUME Inv, NEW u \in Users, NEW token \in Tokens, NEW d \in Ids,
         \A e \in Ids : e # d => deals'[e] = deals[e] /\ receipts'[e] = receipts[e],
         Outcomes(u, token)'[d] \in Int
  PROVE  Total(Outcomes(u, token)', MaxListings)
           = Total(Outcomes(u, token), MaxListings) - Outcomes(u, token)[d]
               + Outcomes(u, token)'[d]
  <1> DEFINE old == Outcomes(u, token)
             new == Outcomes(u, token)'
  <1>1. new = [e \in Ids |-> new[e]]
    BY DEF Outcomes
  <1>2. \A e \in Ids : e # d => new[e] = old[e]
    <2> SUFFICES ASSUME NEW e \in Ids, e # d
                 PROVE  new[e] = old[e]
      OBVIOUS
    <2>1. PaidOut(u, e)' = PaidOut(u, e) /\ PaidIn(u, e)' = PaidIn(u, e)
      BY DEF PaidOut, PaidIn, Final
    <2> QED
      BY <2>1 DEF Outcomes
  <1>3. old \in [1 .. MaxListings -> Int] /\ MaxListings \in Nat
    BY WalletsType
  <1>4. new[d] \in Int
    OBVIOUS
  <1> HIDE DEF old, new
  <1>5. new \in [1 .. MaxListings -> Int]
    BY <1>1, <1>2, <1>3, <1>4 DEF Ids
  <1>6. Total(new, MaxListings) = Total(old, MaxListings) - old[d] + new[d]
    BY <1>2, <1>3, <1>5, TotalChanges DEF Ids
  <1> QED
    BY <1>6 DEF old, new

\* A wallet no deal or receipt of which changed has the same outcomes.
LEMMA SameOutcomes ==
  ASSUME NEW u, NEW token, UNCHANGED <<deals, receipts>>
  PROVE  Outcomes(u, token)' = Outcomes(u, token)
  BY DEF Outcomes, PaidIn, PaidOut, Final

\* list takes the bond from its seller, and from nobody else.
LEMMA ListExplained ==
  ASSUME Inv, NEW v \in Users, NEW t \in Terms, list(v, t),
         NEW u \in Users, NEW token \in Tokens, FeeBps[token] = 0, Explained(u, token)
  PROVE  Explained(u, token)'
  <1> DEFINE i == nextListingId
             bond == Delta(t.payToken, t.bondAmount)
  <1>1. /\ i \in Ids /\ listings[i].seller = NoAddress
        /\ listings'[i].seller = v /\ listings'[i].payToken = t.payToken /\ listings'[i].bond = bond
        /\ t.payToken \in Tokens /\ t.bondAmount \in Nat /\ Pull(t.payToken, v, t.bondAmount)
        /\ \A k \in Ids : k # i => listings'[k] = listings[k]
        /\ UNCHANGED <<deals, receipts>>
    BY ListMoves
  <1>2. /\ bond \in Nat
        /\ FeeBps[t.payToken] = 0 => bond = t.bondAmount
        /\ \A s \in Tokens : s # t.payToken => balance'[s] = balance[s]
        /\ \A a \in Users :
             balance'[t.payToken][a] = balance[t.payToken][a] - (IF a = v THEN t.bondAmount ELSE 0)
    BY <1>1, PullAll DEF Inv
  <1> HIDE DEF i, bond
  <1>3. /\ Stakes(u, token)[i] = 0
        /\ Stakes(u, token)'[i] = IF t.payToken = token /\ v = u THEN bond ELSE 0
    BY <1>1, UsersAssumption DEF Stakes
  <1>4. Total(Stakes(u, token)', MaxListings) = Total(Stakes(u, token), MaxListings)
          - Stakes(u, token)[i] + Stakes(u, token)'[i]
    BY <1>1, <1>2, <1>3, StakesChange
  <1>5. Outcomes(u, token)' = Outcomes(u, token)
    BY <1>1, SameOutcomes
  <1>6. /\ InitialBalance \in Nat /\ balance[token][u] \in Nat
        /\ Total(Stakes(u, token), MaxListings) \in Int
        /\ Total(Outcomes(u, token), MaxListings) \in Int
    BY WalletsType
  <1>7. balance'[token][u] = balance[token][u] - (IF t.payToken = token /\ v = u THEN bond ELSE 0)
    BY <1>1, <1>2, <1>6
  <1> QED
    BY <1>2, <1>3, <1>4, <1>5, <1>6, <1>7 DEF Explained

\* cancelListing gives the bond back to its seller, and to nobody else.
LEMMA CancelExplained ==
  ASSUME Inv, NEW v \in Users, NEW i \in Ids, cancelListing(v, i),
         NEW u \in Users, NEW token \in Tokens, FeeBps[token] = 0, Explained(u, token)
  PROVE  Explained(u, token)'
  <1> DEFINE l == listings[i]
  <1>1. /\ l.seller = v /\ l.payToken \in Tokens /\ l.bond \in Nat
        /\ listings'[i].bond = 0
        /\ \A k \in Ids : k # i => listings'[k] = listings[k]
        /\ \A s \in Tokens : s # l.payToken => balance'[s] = balance[s]
        /\ FeeBps[l.payToken] = 0 => \A a \in Users :
             balance'[l.payToken][a] = balance[l.payToken][a] + (IF a = v THEN l.bond ELSE 0)
        /\ UNCHANGED <<deals, receipts>>
    BY CancelMoves
  <1>2. /\ Stakes(u, token)[i] = IF l.payToken = token /\ v = u THEN l.bond ELSE 0
        /\ Stakes(u, token)'[i] = 0
    BY <1>1 DEF Stakes
  <1> HIDE DEF l
  <1>3. Total(Stakes(u, token)', MaxListings) = Total(Stakes(u, token), MaxListings)
          - Stakes(u, token)[i] + Stakes(u, token)'[i]
    BY <1>1, <1>2, StakesChange
  <1>4. Outcomes(u, token)' = Outcomes(u, token)
    BY <1>1, SameOutcomes
  <1>5. /\ InitialBalance \in Nat /\ balance[token][u] \in Nat
        /\ Total(Stakes(u, token), MaxListings) \in Int
        /\ Total(Outcomes(u, token), MaxListings) \in Int
    BY WalletsType
  <1>6. balance'[token][u] = balance[token][u] + (IF l.payToken = token /\ v = u THEN l.bond ELSE 0)
    BY <1>1, <1>5
  <1> QED
    BY <1>1, <1>2, <1>3, <1>4, <1>5, <1>6 DEF Explained

\* fund takes the amount it records from the buyer, and from nobody else.
LEMMA FundExplained ==
  ASSUME Inv, NEW v \in Users, NEW i \in Ids, NEW amount \in FundAmounts, fund(v, i, amount),
         NEW u \in Users, NEW token \in Tokens, FeeBps[token] = 0, Explained(u, token)
  PROVE  Explained(u, token)'
  <1> DEFINE l == listings[i]
             n == nextDealId
             received == Delta(l.payToken, amount)
  <1>1. /\ l.payToken \in Tokens
        /\ listings'[i].seller = l.seller /\ listings'[i].payToken = l.payToken
        /\ listings'[i].bond = l.bond
        /\ \A k \in Ids : k # i => listings'[k] = listings[k]
        /\ n \in Ids /\ deals[n] = NoDeal
        /\ deals'[n].state = "Funded" /\ deals'[n].buyer = v /\ deals'[n].payToken = l.payToken
        /\ deals'[n].tokenAmount = received
        /\ \A d \in Ids : d # n => deals'[d] = deals[d] /\ receipts'[d] = receipts[d]
        /\ amount \in Nat /\ Pull(l.payToken, v, amount)
    BY FundMoves
  <1>2. /\ received \in Nat
        /\ FeeBps[l.payToken] = 0 => received = amount
        /\ \A s \in Tokens : s # l.payToken => balance'[s] = balance[s]
        /\ \A a \in Users :
             balance'[l.payToken][a] = balance[l.payToken][a] - (IF a = v THEN amount ELSE 0)
    BY <1>1, PullAll DEF Inv
  <1>3. Stakes(u, token)' = Stakes(u, token)
    BY <1>1 DEF Stakes
  <1>4. Outcomes(u, token)[n] = 0
    BY <1>1, EscrowAssumption DEF Outcomes, NoDeal
  <1>5. Outcomes(u, token)'[n] = IF l.payToken = token /\ v = u THEN 0 - received ELSE 0
    <2> SUFFICES ASSUME NEW d \in Ids, d = n
                 PROVE  Outcomes(u, token)'[d]
                          = IF l.payToken = token /\ v = u THEN 0 - received ELSE 0
      BY <1>1
    <2>1. /\ deals'[d].state = "Funded" /\ deals'[d].buyer = v /\ deals'[d].payToken = l.payToken
          /\ deals'[d].tokenAmount = received
      BY <1>1
    <2> HIDE DEF l, n, received
    <2>2. PaidOut(u, d)' = 0 /\ PaidIn(u, d)' = IF v = u THEN received ELSE 0
      BY <2>1 DEF PaidOut, PaidIn, Final, FinalStates
    <2>3. Outcomes(u, token)'[d]
            = IF l.payToken = token THEN 0 - (IF v = u THEN received ELSE 0) ELSE 0
      BY <2>1, <2>2 DEF Outcomes
    <2> QED
      BY <1>2, <2>3
  <1> HIDE DEF l, n, received
  <1>6. Total(Outcomes(u, token)', MaxListings) = Total(Outcomes(u, token), MaxListings)
          - Outcomes(u, token)[n] + Outcomes(u, token)'[n]
    BY <1>1, <1>2, <1>5, OutcomesChange
  <1>7. /\ InitialBalance \in Nat /\ balance[token][u] \in Nat
        /\ Total(Stakes(u, token), MaxListings) \in Int
        /\ Total(Outcomes(u, token), MaxListings) \in Int
    BY WalletsType
  <1>8. balance'[token][u] = balance[token][u] - (IF l.payToken = token /\ v = u THEN received ELSE 0)
    BY <1>1, <1>2, <1>7
  <1> QED
    BY <1>2, <1>3, <1>4, <1>5, <1>6, <1>7, <1>8 DEF Explained

\* The end of a deal gives every user what its events say.
LEMMA ClosingExplained ==
  ASSUME Inv, NEW d \in Ids, Closes(d),
         NEW u \in Users, NEW token \in Tokens, FeeBps[token] = 0, Explained(u, token)
  PROVE  Explained(u, token)'
  <1> DEFINE payToken == deals[d].payToken
             back == PaidOut(u, d)'
  <1>1. Pays(d)
    BY ClosingPays
  <1>2. /\ payToken \in Tokens /\ ~Final(d) /\ Final(d)'
        /\ deals'[d].payToken = payToken /\ deals'[d].buyer = deals[d].buyer
        /\ deals'[d].tokenAmount = deals[d].tokenAmount /\ deals[d].tokenAmount \in Nat
        /\ \A e \in Ids : e # d => deals'[e] = deals[e] /\ receipts'[e] = receipts[e]
        /\ listings' = listings
        /\ \A t \in Tokens : t # payToken => balance'[t] = balance[t]
        /\ FeeBps[payToken] = 0 => back \in Nat /\ balance'[payToken][u] = balance[payToken][u] + back
    BY <1>1 DEF Pays
  <1>3. Stakes(u, token)' = Stakes(u, token)
    BY <1>2 DEF Stakes
  <1>4. PaidOut(u, d) = 0 /\ PaidIn(u, d)' = PaidIn(u, d) /\ PaidIn(u, d) \in Nat
    BY <1>2 DEF PaidOut, PaidIn
  <1>5. /\ Outcomes(u, token)[d] = IF payToken = token THEN 0 - PaidIn(u, d) ELSE 0
        /\ Outcomes(u, token)'[d] = IF payToken = token THEN back - PaidIn(u, d) ELSE 0
    BY <1>2, <1>4 DEF Outcomes
  <1> HIDE DEF payToken, back
  <1>6. Outcomes(u, token)'[d] \in Int
    BY <1>2, <1>4, <1>5
  <1>7. Total(Outcomes(u, token)', MaxListings) = Total(Outcomes(u, token), MaxListings)
          - Outcomes(u, token)[d] + Outcomes(u, token)'[d]
    BY <1>2, <1>6, OutcomesChange
  <1>8. /\ InitialBalance \in Nat /\ balance[token][u] \in Nat
        /\ Total(Stakes(u, token), MaxListings) \in Int
        /\ Total(Outcomes(u, token), MaxListings) \in Int
    BY WalletsType
  <1> QED
    BY <1>2, <1>3, <1>4, <1>5, <1>7, <1>8 DEF Explained

\* A check-in pays nobody.
LEMMA CheckInExplained ==
  ASSUME Inv, NEW v \in Users, NEW d \in Ids, checkIn(v, d),
         NEW u \in Users, NEW token \in Tokens, Explained(u, token)
  PROVE  Explained(u, token)'
  <1>1. /\ ~Final(d) /\ ~Final(d)'
        /\ deals'[d].payToken = deals[d].payToken /\ deals'[d].buyer = deals[d].buyer
        /\ deals'[d].tokenAmount = deals[d].tokenAmount
        /\ \A e \in Ids : e # d => deals'[e] = deals[e]
        /\ UNCHANGED <<listings, receipts, balance>>
    BY CheckInMoves
  <1>2. \A e \in Ids : PaidOut(u, e)' = PaidOut(u, e) /\ PaidIn(u, e)' = PaidIn(u, e)
    <2>1. PaidOut(u, d)' = PaidOut(u, d) /\ PaidIn(u, d)' = PaidIn(u, d)
      BY <1>1 DEF PaidOut, PaidIn
    <2>2. \A e \in Ids : e # d => PaidOut(u, e)' = PaidOut(u, e) /\ PaidIn(u, e)' = PaidIn(u, e)
      BY <1>1 DEF PaidOut, PaidIn, Final
    <2> QED
      BY <2>1, <2>2
  <1>3. Outcomes(u, token)' = Outcomes(u, token)
    <2>1. \A e \in Ids : deals'[e].payToken = deals[e].payToken
      BY <1>1
    <2> QED
      BY <1>2, <2>1 DEF Outcomes
  <1>4. Stakes(u, token)' = Stakes(u, token)
    BY <1>1 DEF Stakes
  <1> QED
    BY <1>1, <1>3, <1>4 DEF Explained

\* At the start nobody has staked, paid or been paid.
LEMMA InitExplained == Init => WalletsExplained
  <1> SUFFICES ASSUME Init, NEW token \in Tokens, NEW u \in Users
               PROVE  Explained(u, token)
    BY DEF WalletsExplained, Explained
  <1>1. balance[token][u] = InitialBalance
    BY AccountsDiffer DEF Init
  <1>2. \A k \in 1 .. MaxListings : Stakes(u, token)[k] = 0 /\ Outcomes(u, token)[k] = 0
    BY EscrowAssumption DEF Init, Stakes, Outcomes, NoListing, NoDeal, Ids
  <1>3. /\ MaxListings \in Nat /\ InitialBalance \in Nat
        /\ Stakes(u, token) \in [1 .. MaxListings -> Int]
        /\ Outcomes(u, token) \in [1 .. MaxListings -> Int]
    BY InitInv, WalletsType
  <1> QED
    BY <1>1, <1>2, <1>3, TotalZero DEF Explained

\* No transaction moves a user's tokens without an event that says so.
LEMMA NextExplained ==
  ASSUME Inv, WalletsExplained, [Next]_vars
  PROVE  WalletsExplained'
  <1> SUFFICES ASSUME NEW token \in Tokens, FeeBps[token] = 0, NEW u \in Users
               PROVE  Explained(u, token)'
    BY DEF WalletsExplained, Explained
  <1>1. Explained(u, token)
    BY DEF WalletsExplained, Explained
  <1>2. ASSUME UNCHANGED <<listings, deals, receipts, balance, stats>>
        PROVE  Explained(u, token)'
    <2>1. Outcomes(u, token)' = Outcomes(u, token)
      BY <1>2, SameOutcomes
    <2> QED
      BY <1>1, <1>2, <2>1 DEF Explained, Stakes
  <1> QED
    BY <1>1, <1>2, BookSteps, ListExplained, CancelExplained, FundExplained, ClosingExplained,
       CheckInExplained

\* No call ever takes tokens from, or pays them to, an account that is not a party to the listing
\* or the deal it names: in a token without fee every wallet is what the user started with, less
\* the bonds staked, plus the outcomes of the user's deals.
THEOREM WalletsAreExplained == Spec => []WalletsExplained
  <1>1. Inv /\ WalletsExplained /\ [Next]_vars => WalletsExplained'
    BY NextExplained
  <1> QED
    BY <1>1, InitExplained, Invariance, PTL DEF Spec

----------------------------------------------------------------------------
(* The tally follows the deals. *)

\* One more deal in a set of deals makes it one larger.
LEMMA OneMore ==
  ASSUME NEW S \in SUBSET Ids, NEW d \in Ids, d \notin S
  PROVE  Cardinality(S) \in Nat /\ Cardinality(S \cup {d}) = Cardinality(S) + 1
  <1>1. IsFiniteSet(Ids)
    BY EscrowAssumption, FS_Interval DEF Ids
  <1>2. IsFiniteSet(S)
    BY <1>1, FS_Subset
  <1> QED
    BY <1>2, FS_CardinalityType, FS_AddElement

\* The sets of deals that the tally is about have sizes.
LEMMA CountsType ==
  ASSUME NEW u
  PROVE  /\ \A f \in FinalStates : /\ Cardinality(AsBuyer(u, f)) \in Nat
                                   /\ Cardinality(AsSeller(u, f)) \in Nat
         /\ Cardinality(Unkept(u)) \in Nat
         /\ Cardinality(Late(u)) \in Nat
  <1>1. ASSUME NEW S \in SUBSET Ids
        PROVE  Cardinality(S) \in Nat
    <2>1. IsFiniteSet(Ids)
      BY EscrowAssumption, FS_Interval DEF Ids
    <2> QED
      BY <2>1, FS_Subset, FS_CardinalityType
  <1> QED
    BY <1>1 DEF AsBuyer, AsSeller, Unkept, Late

\* A deal that ends joins the sets its ending and its parties say, and no others.
LEMMA ClosingCounts ==
  ASSUME Inv, NEW d \in Ids, Live(d), NEW final \in FinalStates, NEW toSeller, NEW toBuyer,
         NEW back, Ended(d, final, toSeller, toBuyer, back), NEW u
  PROVE  LET deal == deals[d] IN
         /\ \A f \in FinalStates :
              /\ Cardinality(AsBuyer(u, f))' = Cardinality(AsBuyer(u, f))
                   + (IF f = final /\ deal.buyer = u THEN 1 ELSE 0)
              /\ Cardinality(AsSeller(u, f))' = Cardinality(AsSeller(u, f))
                   + (IF f = final /\ deal.seller = u THEN 1 ELSE 0)
         /\ Cardinality(Unkept(u))' = Cardinality(Unkept(u))
              + (IF final = "Refunded" /\ deal.seller = u /\ ~deal.sellerCheckedIn THEN 1 ELSE 0)
         /\ Cardinality(Late(u))' = Cardinality(Late(u))
              + (IF final = "Refunded" /\ deal.seller = u /\ now >= deal.freeCancelUntil
                 THEN 1 ELSE 0)
  <1> DEFINE deal == deals[d]
  <1>1. /\ deals \in [Ids -> Deal] /\ receipts \in [Ids -> Receipt]
        /\ deals'[d] = [deals[d] EXCEPT !.state = final, !.bond = 0]
        /\ \A e \in Ids : e # d => deals'[e] = deals[e] /\ receipts'[e] = receipts[e]
    BY DEF Inv, TypeOK, Ended
  <1>2. /\ deals'[d].state = final
        /\ deals'[d].buyer = deal.buyer /\ deals'[d].seller = deal.seller
        /\ deals'[d].sellerCheckedIn = deal.sellerCheckedIn
        /\ deals'[d].freeCancelUntil = deal.freeCancelUntil
    BY <1>1 DEF Deal
  <1>3. receipts'[d].closedAt = now
    BY <1>1 DEF Ended, Receipt
  <1>4. deal.state \in LiveStates /\ \A f \in FinalStates : f # deal.state
    BY DEF Live, LiveStates, FinalStates
  <1> HIDE DEF deal
  <1>5. ASSUME NEW f \in FinalStates
        PROVE  Cardinality(AsBuyer(u, f))' = Cardinality(AsBuyer(u, f))
                 + (IF f = final /\ deal.buyer = u THEN 1 ELSE 0)
    <2>1. AsBuyer(u, f) \in SUBSET Ids /\ d \notin AsBuyer(u, f)
      BY <1>4 DEF AsBuyer, deal
    <2>2. AsBuyer(u, f)' = IF f = final /\ deal.buyer = u THEN AsBuyer(u, f) \cup {d}
                           ELSE AsBuyer(u, f)
      BY <1>1, <1>2, <2>1 DEF AsBuyer
    <2> QED
      BY <2>1, <2>2, OneMore
  <1>6. ASSUME NEW f \in FinalStates
        PROVE  /\ Cardinality(AsSeller(u, f))' = Cardinality(AsSeller(u, f))
                    + (IF f = final /\ deal.seller = u THEN 1 ELSE 0)
               /\ AsSeller(u, f)' = IF f = final /\ deal.seller = u THEN AsSeller(u, f) \cup {d}
                                    ELSE AsSeller(u, f)
               /\ d \notin AsSeller(u, f)
    <2>1. AsSeller(u, f) \in SUBSET Ids /\ d \notin AsSeller(u, f)
      BY <1>4 DEF AsSeller, deal
    <2>2. AsSeller(u, f)' = IF f = final /\ deal.seller = u THEN AsSeller(u, f) \cup {d}
                            ELSE AsSeller(u, f)
      BY <1>1, <1>2, <2>1 DEF AsSeller
    <2> QED
      BY <2>1, <2>2, OneMore
  <1>7. "Refunded" \in FinalStates
    BY DEF FinalStates
  <1>8. Cardinality(Unkept(u))' = Cardinality(Unkept(u))
          + (IF final = "Refunded" /\ deal.seller = u /\ ~deal.sellerCheckedIn THEN 1 ELSE 0)
    <2> DEFINE joins == final = "Refunded" /\ deal.seller = u /\ ~deal.sellerCheckedIn
    <2>1. Unkept(u) \in SUBSET Ids /\ Unkept(u)' \in SUBSET Ids /\ d \notin Unkept(u)
      BY <1>6, <1>7 DEF Unkept, AsSeller
    <2>2. \A e \in Ids : e # d => (e \in Unkept(u)' <=> e \in Unkept(u))
      BY <1>1 DEF Unkept, AsSeller
    <2>3. d \in Unkept(u)' <=> joins
      BY <1>2 DEF Unkept, AsSeller
    <2> HIDE DEF joins
    <2>4. CASE joins
      <3>1. Unkept(u)' = Unkept(u) \cup {d}
        BY <2>1, <2>2, <2>3, <2>4
      <3> QED
        BY <2>1, <2>4, <3>1, OneMore DEF joins
    <2>5. CASE ~joins
      <3>1. Unkept(u)' = Unkept(u)
        BY <2>1, <2>2, <2>3, <2>5
      <3>2. Cardinality(Unkept(u))' = Cardinality(Unkept(u)) /\ Cardinality(Unkept(u)) \in Nat
        BY <3>1, CountsType
      <3> QED
        BY <2>5, <3>2 DEF joins
    <2> QED
      BY <2>4, <2>5
  <1>9. Cardinality(Late(u))' = Cardinality(Late(u))
          + (IF final = "Refunded" /\ deal.seller = u /\ now >= deal.freeCancelUntil
             THEN 1 ELSE 0)
    <2> DEFINE joins == final = "Refunded" /\ deal.seller = u /\ now >= deal.freeCancelUntil
    <2>1. Late(u) \in SUBSET Ids /\ Late(u)' \in SUBSET Ids /\ d \notin Late(u)
      BY <1>6, <1>7 DEF Late, AsSeller
    <2>2. \A e \in Ids : e # d => (e \in Late(u)' <=> e \in Late(u))
      BY <1>1 DEF Late, AsSeller
    <2>3. d \in Late(u)' <=> joins
      BY <1>2, <1>3 DEF Late, AsSeller
    <2> HIDE DEF joins
    <2>4. CASE joins
      <3>1. Late(u)' = Late(u) \cup {d}
        BY <2>1, <2>2, <2>3, <2>4
      <3> QED
        BY <2>1, <2>4, <3>1, OneMore DEF joins
    <2>5. CASE ~joins
      <3>1. Late(u)' = Late(u)
        BY <2>1, <2>2, <2>3, <2>5
      <3>2. Cardinality(Late(u))' = Cardinality(Late(u)) /\ Cardinality(Late(u)) \in Nat
        BY <3>1, CountsType
      <3> QED
        BY <2>5, <3>2 DEF joins
    <2> QED
      BY <2>4, <2>5
  <1> QED
    BY <1>5, <1>6, <1>8, <1>9 DEF deal

\* What each hook adds to the tally of a user, who may be buyer and seller at once.
LEMMA HooksAdd ==
  ASSUME stats \in [Users -> Stats], NEW buyer \in Users, NEW seller \in Users, NEW u \in Users
  PROVE  LET b == IF u = buyer THEN 1 ELSE 0
             s == IF u = seller THEN 1 ELSE 0
             t == stats[u]
             n == stats'[u]
         IN
         /\ onCompleted(EscrowAddress, buyer, seller) =>
              /\ n.completed = t.completed + b + s /\ n.buyerFlakes = t.buyerFlakes
              /\ n.sellerNoShows = t.sellerNoShows /\ n.mutualCancels = t.mutualCancels
         /\ onBuyerFlake(EscrowAddress, buyer, seller) =>
              /\ n.completed = t.completed /\ n.buyerFlakes = t.buyerFlakes + b
              /\ n.sellerNoShows = t.sellerNoShows /\ n.mutualCancels = t.mutualCancels
         /\ onSellerNoShow(EscrowAddress, buyer, seller) =>
              /\ n.completed = t.completed /\ n.buyerFlakes = t.buyerFlakes
              /\ n.sellerNoShows = t.sellerNoShows + s /\ n.mutualCancels = t.mutualCancels
         /\ onMutualCancel(EscrowAddress, buyer, seller) =>
              /\ n.completed = t.completed /\ n.buyerFlakes = t.buyerFlakes
              /\ n.sellerNoShows = t.sellerNoShows /\ n.mutualCancels = t.mutualCancels + b + s
  <1> DEFINE b == IF u = buyer THEN 1 ELSE 0
             s == IF u = seller THEN 1 ELSE 0
             t == stats[u]
             n == stats'[u]
  <1>1. ASSUME onCompleted(EscrowAddress, buyer, seller)
        PROVE  /\ n.completed = t.completed + b + s /\ n.buyerFlakes = t.buyerFlakes
               /\ n.sellerNoShows = t.sellerNoShows /\ n.mutualCancels = t.mutualCancels
    <2> DEFINE mid == [stats EXCEPT ![buyer].completed = @ + 1]
    <2>1. mid \in [Users -> Stats] /\ mid[u] = [t EXCEPT !.completed = @ + b]
      BY DEF Stats
    <2>2. stats' = [mid EXCEPT ![seller].completed = @ + 1]
      BY <1>1 DEF onCompleted
    <2> HIDE DEF mid
    <2>3. n = [mid[u] EXCEPT !.completed = @ + s]
      <3>1. CASE u = seller
        BY <2>1, <2>2, <3>1
      <3>2. CASE u # seller
        <4>1. n = mid[u] /\ mid[u] \in Stats
          BY <2>1, <2>2, <3>2
        <4> QED
          BY <3>2, <4>1 DEF Stats
      <3> QED
        BY <3>1, <3>2
    <2>4. t \in Stats
      OBVIOUS
    <2> HIDE DEF b, s, t, n
    <2> QED
      BY <2>1, <2>3, <2>4 DEF Stats
  <1>2. ASSUME onBuyerFlake(EscrowAddress, buyer, seller)
        PROVE  /\ n.completed = t.completed /\ n.buyerFlakes = t.buyerFlakes + b
               /\ n.sellerNoShows = t.sellerNoShows /\ n.mutualCancels = t.mutualCancels
    BY <1>2 DEF onBuyerFlake, Stats
  <1>3. ASSUME onSellerNoShow(EscrowAddress, buyer, seller)
        PROVE  /\ n.completed = t.completed /\ n.buyerFlakes = t.buyerFlakes
               /\ n.sellerNoShows = t.sellerNoShows + s /\ n.mutualCancels = t.mutualCancels
    BY <1>3 DEF onSellerNoShow, Stats
  <1>4. ASSUME onMutualCancel(EscrowAddress, buyer, seller)
        PROVE  /\ n.completed = t.completed /\ n.buyerFlakes = t.buyerFlakes
               /\ n.sellerNoShows = t.sellerNoShows /\ n.mutualCancels = t.mutualCancels + b + s
    <2> DEFINE mid == [stats EXCEPT ![buyer].mutualCancels = @ + 1]
    <2>1. mid \in [Users -> Stats] /\ mid[u] = [t EXCEPT !.mutualCancels = @ + b]
      BY DEF Stats
    <2>2. stats' = [mid EXCEPT ![seller].mutualCancels = @ + 1]
      BY <1>4 DEF onMutualCancel
    <2> HIDE DEF mid
    <2>3. n = [mid[u] EXCEPT !.mutualCancels = @ + s]
      <3>1. CASE u = seller
        BY <2>1, <2>2, <3>1
      <3>2. CASE u # seller
        <4>1. n = mid[u] /\ mid[u] \in Stats
          BY <2>1, <2>2, <3>2
        <4> QED
          BY <3>2, <4>1 DEF Stats
      <3> QED
        BY <3>1, <3>2
    <2>4. t \in Stats
      OBVIOUS
    <2> HIDE DEF b, s, t, n
    <2> QED
      BY <2>1, <2>3, <2>4 DEF Stats
  <1> QED
    BY <1>1, <1>2, <1>3, <1>4, Zenon

\* A deal that ends is recorded by the one hook that goes with its ending, or, when there is no
\* reputation contract or the free window is still open, by none.
LEMMA ClosingTally ==
  ASSUME Inv, NEW d \in Ids, Closes(d), NEW u \in Users, TallyOf(u)
  PROVE  TallyOf(u)'
  <1> PICK final \in FinalStates, toSeller \in Nat, toBuyer \in Nat, back \in BOOLEAN :
        /\ SettlesFairly(d, final, toSeller, toBuyer, back)
        /\ Ended(d, final, toSeller, toBuyer, back)
        /\ Recorded(d, final, back)
    BY Zenon DEF Closes
  <1> DEFINE deal == deals[d]
             b == IF u = deal.buyer THEN 1 ELSE 0
             s == IF u = deal.seller THEN 1 ELSE 0
             isUnkept == deal.seller = u /\ ~deal.sellerCheckedIn
             isLate == deal.seller = u /\ now >= deal.freeCancelUntil
             kept == NoAddress \notin ReputationChoices
             t == stats[u]
             n == stats'[u]
  <1>1. /\ stats \in [Users -> Stats] /\ deal.buyer \in Users /\ deal.seller \in Users
        /\ Live(d) /\ now \in Nat /\ deal.freeCancelUntil \in Nat
        /\ kept => reputation # NoAddress
    BY DEF Closes, Live, LiveStates, Inv, TypeOK, ReputationTypeOK, DealsWellFormed, Deal
  <1>2. /\ t.completed \in Nat /\ t.buyerFlakes \in Nat /\ t.sellerNoShows \in Nat
        /\ t.mutualCancels \in Nat
    BY <1>1 DEF Stats
  <1>3. /\ \A f \in FinalStates :
             /\ Cardinality(AsBuyer(u, f))' = Cardinality(AsBuyer(u, f))
                  + (IF f = final THEN b ELSE 0)
             /\ Cardinality(AsSeller(u, f))' = Cardinality(AsSeller(u, f))
                  + (IF f = final THEN s ELSE 0)
        /\ Cardinality(Unkept(u))' = Cardinality(Unkept(u))
             + (IF final = "Refunded" /\ isUnkept THEN 1 ELSE 0)
        /\ Cardinality(Late(u))' = Cardinality(Late(u))
             + (IF final = "Refunded" /\ isLate THEN 1 ELSE 0)
    BY <1>1, ClosingCounts
  <1>4. /\ \A f \in FinalStates : /\ Cardinality(AsBuyer(u, f)) \in Nat
                                  /\ Cardinality(AsSeller(u, f)) \in Nat
        /\ Cardinality(Unkept(u)) \in Nat
        /\ Cardinality(Late(u)) \in Nat
    BY CountsType
  <1>5. {"Completed", "Forfeited", "Refunded"} \subseteq FinalStates
    BY DEF FinalStates
  <1> DEFINE completed == Cardinality(AsBuyer(u, "Completed")) + Cardinality(AsSeller(u, "Completed"))
             refunded == Cardinality(AsBuyer(u, "Refunded")) + Cardinality(AsSeller(u, "Refunded"))
             flakes == Cardinality(AsBuyer(u, "Forfeited"))
             unkept == Cardinality(Unkept(u))
             late == Cardinality(Late(u))
  <1>6. /\ completed \in Nat /\ refunded \in Nat /\ flakes \in Nat /\ unkept \in Nat /\ late \in Nat
        /\ b \in {0, 1} /\ s \in {0, 1}
        /\ completed' = completed + (IF final = "Completed" THEN b + s ELSE 0)
        /\ refunded' = refunded + (IF final = "Refunded" THEN b + s ELSE 0)
        /\ flakes' = flakes + (IF final = "Forfeited" THEN b ELSE 0)
        /\ unkept' = unkept + (IF final = "Refunded" /\ isUnkept THEN 1 ELSE 0)
        /\ late' = late + (IF final = "Refunded" /\ isLate THEN 1 ELSE 0)
    BY <1>3, <1>4, <1>5
  <1>7. /\ t.completed <= completed /\ t.buyerFlakes <= flakes /\ t.sellerNoShows <= unkept
        /\ t.mutualCancels + t.sellerNoShows <= refunded
        /\ kept => /\ t.completed = completed /\ t.buyerFlakes = flakes
                   /\ t.mutualCancels + t.sellerNoShows >= late
    BY DEF TallyOf
  <1> DEFINE Goal == /\ n.completed <= completed' /\ n.buyerFlakes <= flakes'
                     /\ n.sellerNoShows <= unkept'
                     /\ n.mutualCancels + n.sellerNoShows <= refunded'
                     /\ kept => /\ n.completed = completed' /\ n.buyerFlakes = flakes'
                                /\ n.mutualCancels + n.sellerNoShows >= late'
  <1>8. SUFFICES Goal
    BY DEF TallyOf
  <1>9. /\ isUnkept => s = 1
        /\ isLate => s = 1
        /\ s = 1 => deal.seller = u
    OBVIOUS
  <1>10. /\ onCompleted(EscrowAddress, deal.buyer, deal.seller) =>
              /\ n.completed = t.completed + b + s /\ n.buyerFlakes = t.buyerFlakes
              /\ n.sellerNoShows = t.sellerNoShows /\ n.mutualCancels = t.mutualCancels
         /\ onBuyerFlake(EscrowAddress, deal.buyer, deal.seller) =>
              /\ n.completed = t.completed /\ n.buyerFlakes = t.buyerFlakes + b
              /\ n.sellerNoShows = t.sellerNoShows /\ n.mutualCancels = t.mutualCancels
         /\ onSellerNoShow(EscrowAddress, deal.buyer, deal.seller) =>
              /\ n.completed = t.completed /\ n.buyerFlakes = t.buyerFlakes
              /\ n.sellerNoShows = t.sellerNoShows + s /\ n.mutualCancels = t.mutualCancels
         /\ onMutualCancel(EscrowAddress, deal.buyer, deal.seller) =>
              /\ n.completed = t.completed /\ n.buyerFlakes = t.buyerFlakes
              /\ n.sellerNoShows = t.sellerNoShows /\ n.mutualCancels = t.mutualCancels + b + s
    BY <1>1, HooksAdd
  <1>11. /\ back => final = "Refunded" /\ ~deal.sellerCheckedIn
         /\ ~(back /\ final # "Refunded")
    BY DEF SettlesFairly
  <1>12. \/ ~kept /\ n = t
         \/ final = "Completed" /\ onCompleted(EscrowAddress, deal.buyer, deal.seller)
         \/ final = "Forfeited" /\ onBuyerFlake(EscrowAddress, deal.buyer, deal.seller)
         \/ final = "Refunded" /\ back /\ onSellerNoShow(EscrowAddress, deal.buyer, deal.seller)
         \/ final = "Refunded" /\ onMutualCancel(EscrowAddress, deal.buyer, deal.seller)
         \/ final = "Refunded" /\ ~isLate /\ n = t
    BY <1>1 DEF Recorded, Hook
  <1>13. final = "Refunded" /\ back /\ s = 1 => isUnkept
    BY <1>9, <1>11
  <1> HIDE DEF completed, refunded, flakes, unkept, late, kept, isUnkept, isLate, b, s, t, n, deal
  <1>14. CASE ~kept /\ n = t
    BY <1>2, <1>6, <1>7, <1>14
  <1>15. CASE final = "Completed" /\ onCompleted(EscrowAddress, deal.buyer, deal.seller)
    BY <1>2, <1>6, <1>7, <1>10, <1>15
  <1>16. CASE final = "Forfeited" /\ onBuyerFlake(EscrowAddress, deal.buyer, deal.seller)
    BY <1>2, <1>6, <1>7, <1>10, <1>16
  <1>17. CASE final = "Refunded" /\ back /\ onSellerNoShow(EscrowAddress, deal.buyer, deal.seller)
    BY <1>2, <1>6, <1>7, <1>9, <1>10, <1>13, <1>17
  <1>18. CASE final = "Refunded" /\ onMutualCancel(EscrowAddress, deal.buyer, deal.seller)
    BY <1>2, <1>6, <1>7, <1>9, <1>10, <1>18
  <1>19. CASE final = "Refunded" /\ ~isLate /\ n = t
    BY <1>2, <1>6, <1>7, <1>19
  <1> QED
    BY <1>12, <1>14, <1>15, <1>16, <1>17, <1>18, <1>19

\* A step that neither ends a deal nor calls a hook leaves every count as it was.
LEMMA SameTally ==
  ASSUME NEW u, TallyOf(u), stats' = stats,
         \A d \in Ids : /\ Final(d)' <=> Final(d)
                        /\ Final(d) => deals'[d] = deals[d] /\ receipts'[d] = receipts[d]
  PROVE  TallyOf(u)'
  <1>1. ASSUME NEW f \in FinalStates
        PROVE  AsBuyer(u, f)' = AsBuyer(u, f) /\ AsSeller(u, f)' = AsSeller(u, f)
    BY DEF AsBuyer, AsSeller, Final
  <1>2. {"Completed", "Forfeited", "Refunded"} \subseteq FinalStates
    BY DEF FinalStates
  <1>3. \A d \in AsSeller(u, "Refunded") : deals'[d] = deals[d] /\ receipts'[d] = receipts[d]
    BY <1>2 DEF AsSeller, Final
  <1>4. Unkept(u)' = Unkept(u) /\ Late(u)' = Late(u)
    BY <1>1, <1>2, <1>3 DEF Unkept, Late
  <1> QED
    BY <1>1, <1>2, <1>4 DEF TallyOf

\* No deal, no record.
LEMMA InitTally == Init => StatsFollowDeals
  <1> SUFFICES ASSUME Init, NEW u \in Users
               PROVE  TallyOf(u)
    BY DEF StatsFollowDeals
  <1>1. stats[u] = NoStats
    BY DEF Init, ReputationInit
  <1>2. \A f \in FinalStates : AsBuyer(u, f) = {} /\ AsSeller(u, f) = {}
    BY DEF Init, AsBuyer, AsSeller, NoDeal, FinalStates
  <1>3. {"Completed", "Forfeited", "Refunded"} \subseteq FinalStates
    BY DEF FinalStates
  <1>4. Unkept(u) = {} /\ Late(u) = {}
    BY <1>2, <1>3 DEF Unkept, Late
  <1>5. Cardinality({}) = 0
    BY FS_EmptySet
  <1> QED
    BY <1>1, <1>2, <1>3, <1>4, <1>5 DEF TallyOf, NoStats

\* No step credits or blames a user for anything but the end of one of the user's deals.
LEMMA NextTally ==
  ASSUME Inv, StatsFollowDeals, [Next]_vars
  PROVE  StatsFollowDeals'
  <1> SUFFICES ASSUME NEW u \in Users
               PROVE  TallyOf(u)'
    BY DEF StatsFollowDeals
  <1>1. TallyOf(u)
    BY DEF StatsFollowDeals
  <1>2. ASSUME UNCHANGED <<deals, receipts, stats>>
        PROVE  TallyOf(u)'
    BY <1>1, <1>2, SameTally DEF Final
  <1>3. ASSUME NEW v \in Users, NEW i \in Ids, NEW amount \in FundAmounts, fund(v, i, amount)
        PROVE  TallyOf(u)'
    <2>1. /\ deals[nextDealId] = NoDeal /\ deals'[nextDealId].state = "Funded"
          /\ \A d \in Ids : d # nextDealId => deals'[d] = deals[d] /\ receipts'[d] = receipts[d]
          /\ stats' = stats
      BY <1>3, FundMoves
    <2>2. ASSUME NEW d \in Ids
          PROVE  /\ Final(d)' <=> Final(d)
                 /\ Final(d) => deals'[d] = deals[d] /\ receipts'[d] = receipts[d]
      BY <2>1 DEF Final, FinalStates, NoDeal
    <2> QED
      BY <1>1, <2>1, <2>2, SameTally
  <1>4. ASSUME NEW v \in Users, NEW d \in Ids, checkIn(v, d)
        PROVE  TallyOf(u)'
    <2>1. /\ ~Final(d) /\ ~Final(d)'
          /\ \A e \in Ids : e # d => deals'[e] = deals[e]
          /\ UNCHANGED <<receipts, stats>>
      BY <1>4, CheckInMoves
    <2>2. ASSUME NEW e \in Ids
          PROVE  /\ Final(e)' <=> Final(e)
                 /\ Final(e) => deals'[e] = deals[e] /\ receipts'[e] = receipts[e]
      BY <2>1 DEF Final
    <2> QED
      BY <1>1, <2>1, <2>2, SameTally
  <1>5. ASSUME NEW v \in Users, \/ \E t \in Terms : list(v, t)
                                \/ \E i \in Ids : cancelListing(v, i)
        PROVE  UNCHANGED <<deals, receipts, stats>>
    BY <1>5, ListMoves, CancelMoves
  <1> QED
    BY <1>1, <1>2, <1>3, <1>4, <1>5, BookSteps, ClosingTally

\* Reputation.sol: what the tally says of a user is backed by deals of that user, one record for
\* each, and while the owner keeps the reputation contract in place no completed deal, no flake
\* and no refund past the free window goes unrecorded.
THEOREM TallyFollowsDeals == Spec => []StatsFollowDeals
  <1>1. Inv /\ StatsFollowDeals /\ [Next]_vars => StatsFollowDeals'
    BY NextTally
  <1> QED
    BY <1>1, InitTally, Invariance, PTL DEF Spec

===========================================================================
