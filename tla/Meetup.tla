------------------------------- MODULE Meetup -------------------------------
(***************************************************************************)
(* How the parties of a deal find each other: components/MeetupCard.tsx on *)
(* both deal pages, what buy/[listingId]/page.tsx seeds after a purchase,  *)
(* the coordination routes of backend/src/app.ts and table                 *)
(* deal_coordination, which has a row per party and merges what arrives.   *)
(*                                                                         *)
(* A page shows what the last poll answered, or nothing if it failed; what *)
(* holds of every answer holds of every page, so that no page is a         *)
(* variable.  A value is known by where it comes from.                     *)
(*                                                                         *)
(* X_Fault, defined before X, is X with a plausible mistake that the runs  *)
(* are known to notice.  No other definition refers to it.                 *)
(***************************************************************************)
EXTENDS Naturals, FiniteSets

CONSTANTS
  Given,               \* of "loc" and "contact", what the seller's listing has
  MaxShares            \* bound: shares on their way to the backend

ASSUME MeetupAssumption == Given \subseteq {"loc", "contact"} /\ MaxShares \in Nat

VARIABLES
  rows,                \* party -> field -> where its value comes from, "none" for NULL
  linked,              \* is the deal linked to its listing
  shares,              \* shares on their way to the backend
  pressed              \* party -> the one button its page shows as busy, "no" for none

meetVars == <<rows, linked, shares, pressed>>

Parts == {"buyer", "seller"}

Fields == {"loc", "contact", "note"}

Sources == Parts \cup {"none", "listing"}

Share == [role : Parts, fields : SUBSET Fields, from : Parts \cup {"listing"},
          button : {"loc", "contact", "note", "no"}]

Other(r) == IF r = "buyer" THEN "seller" ELSE "buyer"

----------------------------------------------------------------------------
(* The backend. *)

\* A field that is not sent is NULL in the statement.
Patch(share) == [f \in Fields |-> IF f \in share.fields THEN share.from ELSE "none"]

COALESCE_Ignored(new, old) == new

COALESCE(new, old) == IF new # "none" THEN new ELSE old

upsertCoordination(share) ==
  /\ rows' = [rows EXCEPT ![share.role] =
                [f \in Fields |-> COALESCE(Patch(share)[f], rows[share.role][f])]]
  /\ linked' = (linked \/ share.from = "listing")

----------------------------------------------------------------------------
(* The card. *)

\* What a page shows of the other party when its poll succeeds.  The seller's contact is that of
\* the listing, which can be loaded once the deal is linked, until another is shared.
Theirs(r, f) ==
  IF rows[Other(r)][f] = "none" /\ r = "buyer" /\ f = "contact" /\ linked /\ f \in Given
  THEN "listing"
  ELSE rows[Other(r)][f]

shareCoordination(r, fields, button) ==
  /\ Cardinality(shares) < MaxShares
  /\ shares' = shares \cup {[role |-> r, fields |-> fields, from |-> r, button |-> button]}
  /\ UNCHANGED <<rows, linked>>

\* A button is off while it is the busy one; another one pressed meanwhile takes its place.  The
\* wait for the browser's position is part of the way.
shareLocation(r) ==
  /\ pressed[r] # "loc"
  /\ pressed' = [pressed EXCEPT ![r] = "loc"]
  /\ shareCoordination(r, {"loc"}, "loc")

\* An empty field shares nothing and takes nothing back.
shareContact(r) ==
  /\ pressed[r] # "contact"
  /\ pressed' = [pressed EXCEPT ![r] = "contact"]
  /\ \E filled \in BOOLEAN : shareCoordination(r, IF filled THEN {"contact"} ELSE {}, "contact")

propose(r) ==
  /\ pressed[r] # "note"
  /\ pressed' = [pressed EXCEPT ![r] = "note"]
  /\ shareCoordination(r, {"note"}, "note")

\* The backend has answered, or there was no position to send.  That the answer may be an error, and
\* nothing stored, is not noticed; no button is busy any more, whichever it was.
Answered(share) ==
  /\ shares' = shares \ {share}
  /\ upsertCoordination(share) \/ UNCHANGED <<rows, linked>>
  /\ pressed' = IF share.button = "no" THEN pressed ELSE [pressed EXCEPT ![share.role] = "no"]

\* The fetch rejects: the button stays busy, and the share may arrive all the same.
ShareRejects(share) ==
  /\ share.button # "no"
  /\ shares' = (shares \ {share}) \cup {[share EXCEPT !.button = "no"]}
  /\ UNCHANGED <<rows, linked, pressed>>

----------------------------------------------------------------------------
\* After a purchase the buyer's page seeds both rows and waits for neither.
Seeds ==
  {[role |-> "seller", fields |-> Given, from |-> "listing", button |-> "no"],
   [role |-> "buyer", fields |-> {"contact"}, from |-> "buyer", button |-> "no"]}

MeetInit ==
  /\ rows = [r \in Parts |-> [f \in Fields |-> "none"]]
  /\ linked = FALSE
  /\ shares = {}
  /\ pressed = [r \in Parts |-> "no"]

MeetNext ==
  \/ \E r \in Parts : \/ shareLocation(r)
                      \/ shareContact(r)
                      \/ propose(r)
  \/ \E share \in shares : Answered(share) \/ ShareRejects(share)

MeetTypeOK ==
  /\ rows \in [Parts -> [Fields -> Sources]]
  /\ linked \in BOOLEAN
  /\ shares \subseteq Share
  /\ pressed \in [Parts -> {"loc", "contact", "note", "no"}]

\* Nothing a party was shown of the other is taken back by whatever either shares next, in whatever
\* order the shares and the seeds of the purchase arrive (db.ts 444-455): a page that a poll answers
\* shows at least what an earlier poll showed, and shows nothing as a party's word that is not that
\* party's or, of the seller, the listing's.
SharedStaysShared ==
  [][ \A r \in Parts, f \in Fields :
        /\ Theirs(r, f) # "none" => Theirs(r, f)' # "none"
        /\ Theirs(r, f)' \in {"none", Other(r)} \cup (IF r = "buyer" THEN {"listing"} ELSE {})
    ]_meetVars

=============================================================================
