----------------------------- MODULE MCCheckout -----------------------------
(***************************************************************************)
(* Small instances of Checkout, explored in one run.  Who owns the pages   *)
(* decides what is looked at: wallets 1 and 2 with the faucet, 3 and 4     *)
(* with waits that are given up, 5 and 6 with two listings.                *)
(***************************************************************************)
EXTENDS Checkout

TermsOf(price, bps, bond) == [price |-> price, bps |-> bps, bond |-> bond]

\* 150 and 100% of it: the page asks for 3 units, the contract requires 1 + 1.
OneTerm == {TermsOf(150, 10000, 1)}
TwoTerms == OneTerm \cup {TermsOf(200, 5000, 0)}
Nothing == TermsOf(0, 0, 0)

\* The second page is of the seller's own wallet or of another; what two pages of one wallet can do
\* to each other is the matter of the first four wallets.
Couples == {<<1, 1>>, <<1, 2>>, <<3, 3>>, <<3, 4>>, <<5, 6>>}

\* Only the first wallet comes with nothing.
Arrivals == {[w \in Wallets |-> IF w = 1 THEN 0 ELSE 4]}

Shelf == [w \in Wallets |-> IF w \in {1, 3} THEN OneTerm ELSE IF w = 5 THEN TwoTerms ELSE {}]
=============================================================================
