------------------------------ MODULE MCMarket ------------------------------
(* A small instance of Market. *)
EXTENDS Market, TLC

CONSTANTS lamp, desk, t1, t2

Symmetry == Permutations({lamp, desk}) \cup Permutations({t1, t2})
=============================================================================
