------------------------------- MODULE Faucet -------------------------------
(***************************************************************************)
(* backend/src/faucet.ts behind POST /faucet: it mints test USDC to a      *)
(* wallet that holds less than TARGET.  The check of the cooldown, the     *)
(* answer of balanceOf and the block with the mint are three moments, and  *)
(* requests for one wallet interleave between them.                        *)
(*                                                                         *)
(* X_Fault, defined before X, is X with a plausible mistake that the runs  *)
(* are known to notice.  No other definition refers to it.                 *)
(***************************************************************************)
EXTENDS Integers, FiniteSets

CONSTANTS
  Wallets,             \* addresses of users
  Served,              \* bound: wallets whose requests get through to the faucet
  MaxRequests,         \* bound: /faucet requests that the server works on at once
  GRANT,               \* test USDC minted per top-up
  TARGET               \* only wallets that hold less are topped up

ASSUME FaucetAssumption ==
  /\ {MaxRequests, GRANT, TARGET} \subseteq Nat
  /\ IsFiniteSet(Wallets) /\ Served \subseteq Wallets

VARIABLES
  balance,             \* wallet -> test USDC
  reading,             \* wallet -> requests that wait for balanceOf
  minting              \* wallet -> mints sent and not yet in a block

faucetVars == <<balance, reading, minting>>

\* The requests under way, numbered wallet by wallet.
InFlight == Cardinality({r \in Wallets \X (1 .. MaxRequests) : r[2] <= reading[r[1]] + minting[r[1]]})

\* POST /faucet is lost, answered 429 during the cooldown, or accepted.  The cooldown is a matter of
\* time, which passes at any rate; it never keeps apart two requests that overlap, because lastDrip
\* is set only after an await.
Ask(w) ==
  \/ w \in Served /\ InFlight < MaxRequests /\ reading' = [reading EXCEPT ![w] = @ + 1]
  \/ UNCHANGED reading

\* balanceOf answers.  A wallet with enough is skipped.
ReadBalance_AnyBalance(w) ==
  /\ reading[w] > 0
  /\ reading' = [reading EXCEPT ![w] = @ - 1]
  /\ minting' = [minting EXCEPT ![w] = @ + 1]
  /\ UNCHANGED balance

ReadBalance(w) ==
  /\ reading[w] > 0
  /\ reading' = [reading EXCEPT ![w] = @ - 1]
  /\ minting' = IF balance[w] < TARGET THEN [minting EXCEPT ![w] = @ + 1] ELSE minting
  /\ UNCHANGED balance

\* balanceOf rejects, or the mint cannot be sent.
DripFails(w) ==
  /\ reading[w] > 0
  /\ reading' = [reading EXCEPT ![w] = @ - 1]
  /\ UNCHANGED <<balance, minting>>

\* A block includes the mint, whether or not the server still waits for its receipt.
Mint(w) ==
  /\ minting[w] > 0
  /\ minting' = [minting EXCEPT ![w] = @ - 1]
  /\ balance' = [balance EXCEPT ![w] = @ + GRANT]
  /\ UNCHANGED reading

FaucetInit(balances) ==
  /\ balance \in balances
  /\ reading = [w \in Wallets |-> 0]
  /\ minting = [w \in Wallets |-> 0]

FaucetNext == \E w \in Wallets : ReadBalance(w) \/ DripFails(w) \/ Mint(w)

FaucetTypeOK ==
  /\ balance \in [Wallets -> Nat]
  /\ reading \in [Wallets -> 0 .. MaxRequests]
  /\ minting \in [Wallets -> 0 .. MaxRequests]

=============================================================================
