----------------------------- MODULE MCKeeper -----------------------------
(* Small instances of Keeper and Workflow. *)
EXTENDS Workflow

TwoDeals == {1, 2}
============================================================================
