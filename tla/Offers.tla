------------------------------- MODULE Offers -------------------------------
(***************************************************************************)
(* The conversation of a listing's seller with one buyer before a purchase:*)
(* components/Chat.tsx on both sides, the list of conversations on         *)
(* messages/page.tsx through which the seller comes to it, the thread      *)
(* routes of backend/src/app.ts and table messages.  Rows are only ever    *)
(* appended; each page shows the thread as some answer to its polls had    *)
(* it.                                                                     *)
(*                                                                         *)
(* X_Fault, defined before X, is X with a plausible mistake that the runs  *)
(* are known to notice.  No other definition refers to it.                 *)
(***************************************************************************)
EXTENDS Naturals, Sequences, SequencesExt, FiniteSets

CONSTANTS
  Prices,              \* what a buyer may offer
  ListedPrice,         \* priceUsd1e8 of the listing
  MaxMessages          \* bound: rows of the thread, posts on their way included

ASSUME OffersAssumption ==
  /\ 0 \notin Prices /\ Prices \subseteq Nat /\ ListedPrice \in Nat
  /\ MaxMessages \in Nat

VARIABLES
  thread,              \* the rows, in the order of their ids
  seen,                \* role -> how many of them its page shows
  posts,               \* messages on their way to the backend, and whether a page waits for them
  busy,                \* role -> are the buttons of its page off
  indexed,             \* does the backend know the listing
  sel                  \* has the seller selected the conversation

chatVars == <<thread, seen, posts, busy, indexed, sel>>

Roles == {"buyer", "seller"}

Row == [sender : Roles, kind : {"text", "offer", "accept", "decline"}, price : Prices \cup {0}]

Post == [row : Row, waited : BOOLEAN]

----------------------------------------------------------------------------
(* What a page makes of the rows it has. *)

Shown(r) == SubSeq(thread, 1, seen[r])

\* The place of the last offer, 0 if it was answered or there is none.
openOffer(rows) ==
  LET offers == {n \in DOMAIN rows : rows[n].kind = "offer"} IN
  IF \E n \in offers : \A k \in n + 1 .. Len(rows) : rows[k].kind = "text"
  THEN CHOOSE n \in offers : \A k \in offers : k <= n
  ELSE 0

\* The price of the last "accept", whatever was said after it; 0 if there is none.
acceptedPrice(rows) ==
  LET accepts == {n \in DOMAIN rows : rows[n].kind = "accept"} IN
  IF accepts = {} THEN 0 ELSE rows[CHOOSE n \in accepts : \A k \in accepts : k <= n].price

----------------------------------------------------------------------------
\* The buyer's chat is on the page of the listing; the seller's, on the page of a conversation.
Mounted(r) == r = "seller" => sel

\* The buttons are off from a message's departure to the answer, but not until the page has read it
\* back; the first answer turns them on again, whatever else is on its way.  Two texts of one page
\* on their way at once are one member of posts: a text says nothing here, and answers no offer.
send(r, kind, price) ==
  /\ Mounted(r)
  /\ Len(thread) + Cardinality(posts) < MaxMessages
  /\ posts' = posts \cup {[row |-> [sender |-> r, kind |-> kind, price |-> price], waited |-> TRUE]}
  /\ busy' = [busy EXCEPT ![r] = TRUE]
  /\ UNCHANGED <<thread, seen, indexed, sel>>

\* The Enter key sends a text also while the buttons are off.
sendText(r) == send(r, "text", 0)

makeOffer ==
  /\ ~busy["buyer"]
  /\ \E price \in Prices : send("buyer", "offer", price)

Accept_Listed ==
  /\ ~busy["seller"]
  /\ openOffer(Shown("seller")) # 0
  /\ send("seller", "accept", ListedPrice)

\* Accept and Decline stand beside the offer that the seller's page shows as open.
Accept ==
  /\ ~busy["seller"]
  /\ openOffer(Shown("seller")) # 0
  /\ send("seller", "accept", thread[openOffer(Shown("seller"))].price)

Decline ==
  /\ ~busy["seller"]
  /\ openOffer(Shown("seller")) # 0
  /\ send("seller", "decline", 0)

addMessage(row) == Append(thread, row)

ButtonsOn(p) == busy' = [busy EXCEPT ![p.row.sender] = @ /\ ~p.waited]

\* The row is added and the page reloads; an answer that says no is taken for one that says yes.
Posted(p) ==
  /\ posts' = posts \ {p}
  /\ thread' \in {thread, addMessage(p.row)}
  /\ ButtonsOn(p)
  /\ UNCHANGED <<seen, indexed, sel>>

\* The fetch rejects; the message may arrive all the same.
PostRejects(p) ==
  /\ p.waited
  /\ posts' = (posts \ {p}) \cup {[p EXCEPT !.waited = FALSE]}
  /\ ButtonsOn(p)
  /\ UNCHANGED <<thread, seen, indexed, sel>>

reload_CountsPosts(r) ==
  /\ Mounted(r)
  /\ \E n \in 0 .. Len(thread) + Cardinality(posts) : seen' = [seen EXCEPT ![r] = n]
  /\ UNCHANGED <<thread, posts, busy, indexed, sel>>

\* Every four seconds, and after each message, the page asks for the rows and shows the answer.
\* Answers overtake one another, so that any earlier length of the thread may be shown again; of an
\* error getThread makes an empty thread.
reload(r) ==
  /\ Mounted(r)
  /\ \E n \in 0 .. Len(thread) : seen' = [seen EXCEPT ![r] = n]
  /\ UNCHANGED <<thread, posts, busy, indexed, sel>>

----------------------------------------------------------------------------
(* How the pages come to the conversation. *)

IndexListing ==
  /\ ~indexed
  /\ indexed' = TRUE
  /\ UNCHANGED <<thread, seen, posts, busy, sel>>

\* A conversation is in the seller's list once it has a message and the listing it is about is in
\* the mirror of the chain; it never leaves the list again.
getSellerThreads == IF indexed /\ thread # <<>> THEN {Last(thread)} ELSE {}

\* A fresh chat: it shows nothing until it is answered, and no button waits for what an earlier one
\* has sent.  The buyer reloads the page of the listing, the seller selects the conversation.
Mount(r) ==
  /\ r = "seller" => getSellerThreads # {}
  /\ sel' = (sel \/ r = "seller")
  /\ seen' = [seen EXCEPT ![r] = 0]
  /\ busy' = [busy EXCEPT ![r] = FALSE]
  /\ posts' = {IF p.row.sender = r THEN [p EXCEPT !.waited = FALSE] ELSE p : p \in posts}
  /\ UNCHANGED <<thread, indexed>>

----------------------------------------------------------------------------
ChatInit ==
  /\ thread = <<>>
  /\ seen = [r \in Roles |-> 0]
  /\ posts = {}
  /\ busy = [r \in Roles |-> FALSE]
  /\ indexed = FALSE
  /\ sel = FALSE

ChatNext ==
  \/ \E r \in Roles : sendText(r) \/ reload(r) \/ Mount(r)
  \/ IndexListing
  \/ makeOffer
  \/ Accept
  \/ Decline
  \/ \E p \in posts : Posted(p) \/ PostRejects(p)

ChatTypeOK ==
  /\ thread \in Seq(Row)
  /\ seen \in [Roles -> 0 .. Len(thread)]
  /\ posts \subseteq Post
  /\ busy \in [Roles -> BOOLEAN]
  /\ indexed \in BOOLEAN
  /\ sel \in BOOLEAN

\* A price that either page shows as agreed was offered by the buyer and then accepted by the
\* seller, however old the page on which the seller pressed Accept (Chat.tsx 69-79, 96-129).
AgreedWasOffered ==
  \A r \in Roles : acceptedPrice(Shown(r)) # 0 =>
    \E n, k \in DOMAIN thread :
      /\ n < k
      /\ thread[n].kind = "offer" /\ thread[n].sender = "buyer"
      /\ thread[k].kind = "accept" /\ thread[k].sender = "seller"
      /\ thread[n].price = acceptedPrice(Shown(r)) /\ thread[k].price = thread[n].price

=============================================================================
