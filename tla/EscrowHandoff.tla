--------------------------- MODULE EscrowHandoff ---------------------------
(***************************************************************************)
(* Escrow implements Handoff: each deal's record and receipt, read as a    *)
(* phase, the terms it was locked under, the check-in and the award.       *)
(***************************************************************************)
EXTENDS Escrow

Phase(state) ==
  CASE state = "None" -> "None"
    [] state \in LiveStates -> "Open"
    [] state = "Completed" -> "Paid"
    [] state = "Refunded" -> "Returned"
    [] state = "Forfeited" -> "Forfeited"

\* The bond's way in a deal of a user with itself is read as "seller": it goes to that account.
BondWay(d) ==
  CASE receipts[d].bondTo = NoAddress -> "none"
    [] receipts[d].bondTo # NoAddress /\ receipts[d].bondTo = deals[d].seller -> "seller"
    [] receipts[d].bondTo # NoAddress /\ receipts[d].bondTo # deals[d].seller -> "buyer"

phaseBar == [d \in Ids |-> Phase(deals[d].state)]

termsBar == [d \in Ids |-> [locked |-> deals[d].tokenAmount,
                            freeUntil |-> deals[d].freeCancelUntil,
                            expiry |-> deals[d].expiry]]

metBar == [d \in Ids |-> deals[d].sellerCheckedIn]

awardBar == [d \in Ids |-> [seller |-> receipts[d].toSeller, bondTo |-> BondWay(d)]]

H == INSTANCE Handoff WITH Deals <- Ids, phase <- phaseBar, terms <- termsBar, met <- metBar,
                           award <- awardBar

\* Escrow's transactions are the steps SPEC section 4 allows, in any interleaving: the contract
\* never ends a deal in a way, or at a time, that the rules do not.
ImplementsHandoff == H!HandoffSpec

============================================================================
