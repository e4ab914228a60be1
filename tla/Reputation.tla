---------------------------- MODULE Reputation ----------------------------
(***************************************************************************)
(* contracts/src/Reputation.sol: the tally of escrow outcomes.  Only the   *)
(* one escrow contract wired by the owner may write it; every hook called  *)
(* from any other address reverts, and takes the calling transaction with  *)
(* it.  A revert is an action that is not enabled.                         *)
(***************************************************************************)
EXTENDS Integers

CONSTANTS
  Users,               \* externally owned accounts: buyers and sellers
  NoAddress,           \* address(0)
  EscrowAddress,       \* the Escrow contract of this deployment
  EscrowCandidates     \* addresses the owner may pass to setEscrow

ASSUME UsersAssumption ==
  /\ NoAddress \notin Users
  /\ EscrowAddress \notin Users \cup {NoAddress}

VARIABLES
  escrow,              \* Reputation.escrow, set once
  stats                \* Reputation._stats

reputationVars == <<escrow, stats>>

COMPLETED_WEIGHT == 10
FLAKE_PENALTY == 15
NO_SHOW_PENALTY == 15

Stats == [completed : Nat, buyerFlakes : Nat, sellerNoShows : Nat, mutualCancels : Nat]

NoStats == [completed |-> 0, buyerFlakes |-> 0, sellerNoShows |-> 0, mutualCancels |-> 0]

ReputationTypeOK ==
  /\ escrow \in EscrowCandidates \cup {NoAddress, EscrowAddress}
  /\ stats \in [Users -> Stats]

\* DeployReputation.s.sol wires the escrow at once when it knows the address.
ReputationInit ==
  /\ escrow \in {NoAddress, EscrowAddress}
  /\ stats = [u \in Users |-> NoStats]

\* onlyOwner; callable once, never with address(0).
setEscrow(address) ==
  /\ escrow = NoAddress
  /\ address # NoAddress
  /\ escrow' = address
  /\ UNCHANGED stats

onlyEscrow(sender) == sender = escrow

\* Both parties are credited; a deal of a user with itself counts twice.
onCompleted(sender, buyer, seller) ==
  /\ onlyEscrow(sender)
  /\ stats' = [[stats EXCEPT ![buyer].completed = @ + 1] EXCEPT ![seller].completed = @ + 1]

\* With a plausible mistake, for the runs to notice.
onBuyerFlake_BlamesSeller(sender, buyer, seller) ==
  /\ onlyEscrow(sender)
  /\ stats' = [stats EXCEPT ![seller].buyerFlakes = @ + 1]

onBuyerFlake(sender, buyer, seller) ==
  /\ onlyEscrow(sender)
  /\ stats' = [stats EXCEPT ![buyer].buyerFlakes = @ + 1]

onSellerNoShow(sender, buyer, seller) ==
  /\ onlyEscrow(sender)
  /\ stats' = [stats EXCEPT ![seller].sellerNoShows = @ + 1]

onMutualCancel(sender, buyer, seller) ==
  /\ onlyEscrow(sender)
  /\ stats' = [[stats EXCEPT ![buyer].mutualCancels = @ + 1] EXCEPT ![seller].mutualCancels = @ + 1]

\* The derived score: penalties can never push it below zero.
scoreOf(who) ==
  LET s == stats[who]
      positive == s.completed * COMPLETED_WEIGHT
      negative == s.buyerFlakes * FLAKE_PENALTY + s.sellerNoShows * NO_SHOW_PENALTY
  IN  IF positive > negative THEN positive - negative ELSE 0

===========================================================================
