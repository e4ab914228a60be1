------------------------------ MODULE Handoff ------------------------------
(***************************************************************************)
(* What Escrow promises about one deal, without listings, balances, terms, *)
(* oracle or reputation: the commitment-deposit rules of SPEC section 4 as *)
(* the contract enforces them.  Escrow implements this specification under *)
(* the mapping of module EscrowHandoff.                                    *)
(***************************************************************************)
EXTENDS Integers

CONSTANTS
  Deals                \* deal ids

VARIABLES
  now,                 \* block timestamp
  phase,               \* deal -> "None", "Open", "Paid", "Returned", "Forfeited"
  terms,               \* deal -> what was fixed when the buyer's tokens were locked
  met,                 \* deal -> has the seller checked in
  award                \* deal -> who got what when the deal ended

handoffVars == <<now, phase, terms, met, award>>

HandoffTerms == [locked : Nat, freeUntil : Nat, expiry : Nat]
Awards == [seller : Nat, bondTo : {"none", "seller", "buyer"}]

NoTerms == [locked |-> 0, freeUntil |-> 0, expiry |-> 0]
NoAward == [seller |-> 0, bondTo |-> "none"]

HandoffInit ==
  /\ now = 0
  /\ phase = [d \in Deals |-> "None"]
  /\ terms = [d \in Deals |-> NoTerms]
  /\ met = [d \in Deals |-> FALSE]
  /\ award = [d \in Deals |-> NoAward]

\* Funding: something is locked, and the free window ends no later than the expiry.
Lock(d, t) ==
  /\ phase[d] = "None"
  /\ t \in HandoffTerms
  /\ t.locked > 0
  /\ t.freeUntil <= t.expiry
  /\ t.expiry > now
  /\ phase' = [phase EXCEPT ![d] = "Open"]
  /\ terms' = [terms EXCEPT ![d] = t]
  /\ UNCHANGED <<now, met, award>>

Meet(d) ==
  /\ phase[d] = "Open"
  /\ ~met[d]
  /\ met' = [met EXCEPT ![d] = TRUE]
  /\ UNCHANGED <<now, phase, terms, award>>

\* A deal ends with at most what it locked going to the seller; the rest is the buyer's.
End(d, final, a) ==
  /\ phase[d] = "Open"
  /\ a \in Awards
  /\ a.seller <= terms[d].locked
  /\ phase' = [phase EXCEPT ![d] = final]
  /\ award' = [award EXCEPT ![d] = a]
  /\ UNCHANGED <<now, terms, met>>

\* The buyer confirms: some of the locked tokens are the price.
Pay(d, a) ==
  /\ a.bondTo # "buyer"
  /\ End(d, "Paid", a)

\* Everything goes back; the bond with it only if the seller stayed away past the free window.
Return(d, a) ==
  /\ a.seller = 0
  /\ a.bondTo = "buyer" => ~met[d] /\ now >= terms[d].freeUntil
  /\ End(d, "Returned", a)

\* The seller keeps a deposit only after checking in, and only past the free window.
Keep(d, a) ==
  /\ met[d]
  /\ now >= terms[d].freeUntil
  /\ a.bondTo # "buyer"
  /\ End(d, "Forfeited", a)

Advance ==
  /\ now' = now + 1
  /\ UNCHANGED <<phase, terms, met, award>>

\* The parameters of a step are read off its result, so that any terms and any award will do.
HandoffNext ==
  \/ \E d \in Deals :
       \/ Lock(d, terms'[d])
       \/ Meet(d)
       \/ Pay(d, award'[d])
       \/ Return(d, award'[d])
       \/ Keep(d, award'[d])
  \/ Advance

HandoffSpec == HandoffInit /\ [][HandoffNext]_handoffVars

============================================================================
