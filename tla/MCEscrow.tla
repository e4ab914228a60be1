----------------------------- MODULE MCEscrow -----------------------------
(* Model values and small instances for EscrowAccounts. *)
EXTENDS EscrowAccounts, EscrowHandoff, TLC

CONSTANTS alice, bob, usdc, weth, nobody, escrowAddress, oldEscrow, verifier, reputationContract

MCUsers == {alice, bob}
Symmetry == Permutations(MCUsers)

Term(price, bps, token, window, ttl, bond) ==
  [priceUsd1e8 |-> price, depositBps |-> bps, payToken |-> token, freeCancelWindow |-> window,
   dealTtl |-> ttl, bondAmount |-> bond]

\* Stable runs: 250 is 2 units (the cents below a unit are cut), 50% of them is 1 unit; 99 is
\* 0 units; the last three tuples are refused by list.
StableTerms ==
  {Term(250, 5000, usdc, 1, 2, 1), Term(99, 10000, usdc, 0, 1, 0),
   Term(0, 0, usdc, 1, 2, 0), Term(250, 10001, usdc, 1, 2, 0), Term(250, 0, usdc, 2, 1, 0)}
StableAmounts == {0, 2, 3, 4}
NoTokens == {}
NoScale == <<>>
OnePrice == {1}
NoFee == [t \in {usdc} |-> 0]

\* Volatile runs: weth has 0 decimals and is worth 2 or (a crash past any buffer) 1; a report
\* may also carry a price of 0.  Both tokens burn a part of every transfer, so that what a buyer
\* sends and what the escrow receives differ.
WethOnly == {weth}
UnitScale == [t \in {weth} |-> 1]
BothBurn == [t \in {usdc, weth} |-> IF t = weth THEN 2500 ELSE 3400]
VolatileTerms ==
  {Term(8, 5000, weth, 1, 1, 2), Term(250, 5000, usdc, 0, 1, 1)}
VolatileAmounts == {3, 8}
Prices == {0, 1, 2}

LiveTerms == {Term(8, 5000, weth, 1, 1, 0), Term(250, 5000, usdc, 1, 2, 1)}
LivePrices == {0, 2}
LiveAmounts == {3}
NoFees == [t \in {usdc, weth} |-> 0]
===========================================================================
