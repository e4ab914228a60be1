----------------------------- MODULE MCIndexer -----------------------------
(* Small instances of Indexer. *)
EXTENDS Indexer

OneListing == {1}
OneDeal == {1}
One == {1}
Two == {1, 2}
CheckInThrows == {"CheckedIn"}
============================================================================
