----------------------------- MODULE MCJourney -----------------------------
(* Small instances of Journey. *)
EXTENDS Journey

OneDeal == {1}
TwoPrices == {1, 2}
LocAndContact == {"loc", "contact"}
============================================================================
