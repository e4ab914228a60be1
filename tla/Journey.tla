------------------------------ MODULE Journey ------------------------------
(***************************************************************************)
(* One buyer and one seller from their first message to the end of their   *)
(* deal: the conversation of Offers until the buyer funds, and from then   *)
(* on the deal page (buy/[listingId]/page.tsx puts the buyer on it), with  *)
(* the transactions and the hand-over of DealRoom and the meetup card of   *)
(* Meetup.  Nothing on the deal page depends on the conversation, which is *)
(* not followed any further, and its two parts share no state: a behaviour *)
(* follows one of them.                                                    *)
(***************************************************************************)
EXTENDS Offers, DealRoom, Meetup

VARIABLES
  part                 \* the part of the journey that is followed

vars == <<chatVars, roomVars, meetVars, part>>

Init ==
  /\ ChatInit
  /\ RoomInit
  /\ MeetInit
  /\ part = "chat"

\* The buyer funds, at the price of the listing whatever was agreed in the conversation.
Fund ==
  /\ part = "chat"
  /\ part' \in {"room", "meetup"}
  /\ Lock(deal, [locked |-> 2, freeUntil |-> now + FreeWindow, expiry |-> now + Ttl])
  /\ thread' = <<>>
  /\ seen' = [r \in Roles |-> 0]
  /\ posts' = {}
  /\ busy' = [r \in Roles |-> FALSE]
  /\ indexed' = FALSE
  /\ sel' = FALSE
  /\ shares' = IF part' = "meetup" THEN Seeds ELSE {}
  /\ UNCHANGED <<pageVars, rows, linked, pressed>>

InChat(A) == part = "chat" /\ A /\ UNCHANGED <<roomVars, meetVars, part>>

InRoom(A) == part = "room" /\ A /\ UNCHANGED <<chatVars, meetVars, part>>

AtMeetup(A) == part = "meetup" /\ A /\ UNCHANGED <<chatVars, roomVars, part>>

Next ==
  \/ Fund
  \/ InChat(ChatNext)
  \/ InRoom(RoomNext)
  \/ AtMeetup(MeetNext)

Spec == Init /\ [][Next]_vars

\* The buyer's page keeps polling, and a call does not fail for ever.  A buyer who cannot release
\* keeps trying: starts the camera and holds it to the seller's code.
Fairness ==
  /\ WF_vars(InRoom(refresh("buyer")))
  /\ SF_vars(InRoom(startCamera))
  /\ SF_vars(InRoom(accept("ours")))

FairSpec == Spec /\ Fairness

----------------------------------------------------------------------------
TypeOK ==
  /\ ChatTypeOK
  /\ RoomTypeOK
  /\ MeetTypeOK
  /\ part \in {"chat", "room", "meetup"}

\* A buyer who can see the seller's code gets to release or the deal ends: neither the code of
\* another deal nor an error page in between locks the scanner for good (qr/index.tsx 204-222).
CodeUnlocks == shown ~> (scan = "scanned" \/ ~Open)

============================================================================
