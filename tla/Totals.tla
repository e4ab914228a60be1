------------------------------- MODULE Totals -------------------------------
(***************************************************************************)
(* The total of numbered amounts.  A recursive function, not a recursive   *)
(* operator or a fold over a set, so that the totals of the contract's     *)
(* books can be computed by TLC and reasoned about by the proof system.    *)
(***************************************************************************)
EXTENDS Integers

\* amount[1] + ... + amount[n]
Total(amount, n) ==
  LET upTo[k \in 0 .. n] == IF k = 0 THEN 0 ELSE upTo[k - 1] + amount[k]
  IN  upTo[n]

=============================================================================
