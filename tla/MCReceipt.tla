----------------------------- MODULE MCReceipt -----------------------------
(* Small instances of Receipt. *)
EXTENDS Receipt

OneListing == {1}
OneDeal == {1}
Two == {1, 2}
============================================================================
