------------------------------- MODULE Market -------------------------------
(***************************************************************************)
(* Posting and managing listings: the pages /sell and /my-listings, the    *)
(* route POST /listings/:id/meta of backend/src/app.ts, and the tables     *)
(* listings and listing_meta of db.ts, for one seller who has some tabs    *)
(* open.  A listing is made on chain first and described off chain after,  *)
(* two systems that fail one without the other; what buyers browse is the  *)
(* join of the indexer's copy of the chain and of that description.        *)
(*                                                                         *)
(* A transaction or a request goes on without the page that sent it: the   *)
(* page may stop waiting, and it takes effect later or never.              *)
(*                                                                         *)
(* X_Fault, defined before X, is X with a plausible mistake that the runs  *)
(* are known to notice.  No other definition refers to it.                 *)
(***************************************************************************)
EXTENDS Naturals, FiniteSets

CONSTANTS
  Tabs,                \* the seller's browser tabs
  Titles,              \* what the seller may type as the name of a new item
  Edited,              \* what the seller may type over it later
  Null,                \* SQL NULL, a field that is undefined, a value nobody has
  MaxListings,         \* bound: listings made
  Managed,             \* bound: listings that are edited, hidden and delisted
  MaxOrphans           \* bound: requests and transactions that nobody waits for

ASSUME MarketAssumption ==
  /\ Null \notin Titles \cup {Edited} \cup BOOLEAN \cup Nat
  /\ Edited \notin Titles
  /\ {MaxListings, MaxOrphans} \subseteq Nat
  /\ Managed \subseteq 1 .. MaxListings

VARIABLES
  chain,               \* listing -> its state in Escrow
  typed,               \* listing -> the name that was typed for it
  rows,                \* listing -> its row in table listings
  meta,                \* listing -> its row in table listing_meta; listing 0 can have one too
  sent,                \* transactions and requests on their way, with the tab that sent them
  tab                  \* tab -> its page, and where its call waits

vars == <<chain, typed, rows, meta, sent, tab>>

Ids == 1 .. MaxListings
States == {"absent", "active", "inactive"}
Archived == {Null, TRUE, FALSE}

----------------------------------------------------------------------------
(* The backend. *)

NoMeta == [title |-> Null, owned |-> Null, archived |-> Null]

\* The columns of an upsert; a patch has Null for every field it does not mention.
Patch == [title : Titles \cup {Edited, Null}, owned : {Null, TRUE}, archived : Archived]

COALESCE(new, old) == IF new # Null THEN new ELSE old

upsertListingMeta_Replaces(i, patch) == meta' = [meta EXCEPT ![i] = patch]

upsertListingMeta(i, patch) ==
  meta' = [meta EXCEPT ![i] = [f \in DOMAIN NoMeta |-> COALESCE(patch[f], @[f])]]

\* What the browse page gets: for sale on chain, as far as the indexer knows, and not withdrawn.
getActiveListings == {i \in Ids : rows[i] = "active" /\ COALESCE(meta[i].archived, FALSE) = FALSE}

\* What the seller's own page gets: the rows that carry the seller's address.
getSellerListings == {i \in DOMAIN meta : meta[i].owned = TRUE}

----------------------------------------------------------------------------
(* What is on its way. *)

Message ==
  [tab : Tabs, waited : BOOLEAN, kind : {"list", "cancel", "meta"}, id : 0 .. MaxListings,
   patch : Patch]

Orphans == {m \in sent : ~m.waited}

\* An identical message nobody waits for is the same one again.
SendOut(t, kind, i, patch) ==
  sent' = sent \cup {[tab |-> t, waited |-> TRUE, kind |-> kind, id |-> i, patch |-> patch]}

Unwaited_StillHeard(t) == UNCHANGED sent

\* Nobody waits for the tab's message any more.
Unwaited(t) ==
  /\ sent' = {[m EXCEPT !.waited = @ /\ m.tab # t] : m \in sent}
  /\ Cardinality(Orphans') <= MaxOrphans

----------------------------------------------------------------------------
(* The tabs: a form or a list, the call that runs, and what was shown at its end. *)

Blank == [page |-> "sell", at |-> "idle", title |-> Null, id |-> Null, warn |-> FALSE]

MyPage == [Blank EXCEPT !.page = "mine"]

Goto(t, place) == tab' = [tab EXCEPT ![t].at = place]

Open(t, page) ==
  /\ tab[t].at = "idle"
  /\ tab[t] # page
  /\ tab' = [tab EXCEPT ![t] = page]
  /\ UNCHANGED <<chain, typed, rows, meta, sent>>

\* onSubmit with a name and a price; the last listing's number goes away.
Submit(t, title) ==
  /\ tab[t].page = "sell" /\ tab[t].at = "idle"
  /\ Cardinality({m \in sent : m.kind = "list"}) < Cardinality({i \in Ids : chain[i] = "absent"})
  /\ tab' = [tab EXCEPT ![t] = [Blank EXCEPT !.at = "listing", !.title = title]]
  /\ SendOut(t, "list", 0, [NoMeta EXCEPT !.title = title])
  /\ UNCHANGED <<chain, typed, rows, meta>>

\* A card of /my-listings.  The page shows the rows as they were when it was last loaded, so the
\* buttons it offers may be those of an earlier state of the row.
Card(t, i) ==
  /\ tab[t] = MyPage
  /\ i \in getSellerListings \cap Managed

\* "Delist & refund bond", of a card that is not shown as withdrawn.
delistOnChain(t, i) ==
  /\ Card(t, i)
  /\ tab' = [tab EXCEPT ![t].at = "cancelling", ![t].id = i]
  /\ SendOut(t, "cancel", i, NoMeta)
  /\ UNCHANGED <<chain, typed, rows, meta>>

\* "Hide", or "Relist" of what was withdrawn: the flag alone, whatever the chain says.
toggleArchived(t, i, archived) ==
  /\ Card(t, i)
  /\ ~archived => meta[i].archived # Null
  /\ tab' = [tab EXCEPT ![t].at = "saving", ![t].id = i]
  /\ SendOut(t, "meta", i, [NoMeta EXCEPT !.archived = archived])
  /\ UNCHANGED <<chain, typed, rows, meta>>

\* The edit form reads the row once, or starts empty if it cannot, and writes back every field
\* it has, those the seller left alone too.
OpenEdit(t, i) ==
  /\ Card(t, i)
  /\ \E title \in {meta[i].title, Null} :
       tab' = [tab EXCEPT ![t].at = "editing", ![t].id = i, ![t].title = title]
  /\ UNCHANGED <<chain, typed, rows, meta, sent>>

EditPatch(title) == [NoMeta EXCEPT !.title = title]

SaveEdit(t) ==
  /\ tab[t].at = "editing"
  /\ \E title \in {Edited, tab[t].title} : SendOut(t, "meta", tab[t].id, EditPatch(title))
  /\ Goto(t, "saving")
  /\ UNCHANGED <<chain, typed, rows, meta>>

\* The call ends.  A listing whose description was not saved is announced with a warning.
Saved_NoWarning(t, ok) ==
  tab' = [tab EXCEPT ![t] = IF @.page = "mine" THEN MyPage ELSE [@ EXCEPT !.at = "idle"]]

Saved(t, ok) ==
  tab' = [tab EXCEPT ![t] = IF @.page = "mine" THEN MyPage
                            ELSE [@ EXCEPT !.at = "idle", !.warn = ~ok]]

\* listItem returned: the description is posted for the number it gave, 0 after a revert.
SaveMeta_Latest(t) ==
  /\ tab[t].at = "listed"
  /\ tab[t].id # Null
  /\ SendOut(t, "meta", IF tab[t].id = 0 THEN 0 ELSE Cardinality({i \in Ids : chain[i] # "absent"}),
             [title |-> tab[t].title, owned |-> TRUE, archived |-> Null])
  /\ Goto(t, "saving")
  /\ UNCHANGED <<chain, typed, rows, meta>>

SaveMeta(t) ==
  /\ tab[t].at = "listed"
  /\ SendOut(t, "meta", tab[t].id, [title |-> tab[t].title, owned |-> TRUE, archived |-> Null])
  /\ Goto(t, "saving")
  /\ UNCHANGED <<chain, typed, rows, meta>>

\* cancelListing returned, whatever its receipt said: the row is marked withdrawn.
MarkWithdrawn(t) ==
  /\ tab[t].at = "cancelled"
  /\ SendOut(t, "meta", tab[t].id, [NoMeta EXCEPT !.archived = TRUE])
  /\ Goto(t, "saving")
  /\ UNCHANGED <<chain, typed, rows, meta>>

\* The wallet, the wait for a receipt, or a fetch rejects.  If a description is not saved, the
\* listing it is for is there all the same.
Rejects(t) ==
  /\ tab[t].at \in {"listing", "cancelling", "saving"}
  /\ Unwaited(t)
  /\ \/ tab[t].at = "saving" /\ Saved(t, FALSE)
     \/ tab[t].at = "cancelling" /\ tab' = [tab EXCEPT ![t] = MyPage]
     \/ tab[t].at = "listing" /\ tab' = [tab EXCEPT ![t] = Blank]
  /\ UNCHANGED <<chain, typed, rows, meta>>

Close(t) ==
  /\ tab[t].at # "idle"
  /\ tab' = [tab EXCEPT ![t] = MyPage]
  /\ Unwaited(t)
  /\ UNCHANGED <<chain, typed, rows, meta>>

----------------------------------------------------------------------------
(* The chain, the indexer and the server. *)

Take(m, place, id) ==
  /\ sent' = sent \ {m}
  /\ tab' = IF m.waited THEN [tab EXCEPT ![m.tab].at = place, ![m.tab].id = id] ELSE tab

NextId == CHOOSE i \in Ids : chain[i] = "absent" /\ \A j \in Ids : j < i => chain[j] # "absent"

\* The list reverts when the bond, or its allowance, was spent after the page had looked (Checkout).
Listed(m) ==
  /\ m.kind = "list"
  /\ \/ /\ chain' = [chain EXCEPT ![NextId] = "active"]
        /\ typed' = [typed EXCEPT ![NextId] = m.patch.title]
        /\ Take(m, "listed", NextId)
     \/ Take(m, "listed", 0) /\ UNCHANGED <<chain, typed>>
  /\ UNCHANGED <<rows, meta>>

\* Of a listing no longer active it reverts, and nobody looks.  (A purchase, left out, has the same
\* effect on what is modelled here.)
Cancelled(m) ==
  /\ m.kind = "cancel"
  /\ chain' = [chain EXCEPT ![m.id] = "inactive"]
  /\ Take(m, "cancelled", m.id)
  /\ UNCHANGED <<typed, rows, meta>>

\* The indexer applies a log of the listing, for the first time or again: two backfills that overlap,
\* or one after a crash, apply Listed once more after what ended the listing (module Indexer).
Index(i) ==
  /\ \/ chain[i] # "absent" /\ rows' = [rows EXCEPT ![i] = "active"]
     \/ chain[i] = "inactive" /\ rows[i] # "absent" /\ rows' = [rows EXCEPT ![i] = "inactive"]
  /\ UNCHANGED <<chain, typed, meta, sent, tab>>

\* POST /listings/:id/meta answered 201.  One that nobody waits for may undo what a later one did.
Stored(m) ==
  /\ m.kind = "meta"
  /\ upsertListingMeta(m.id, m.patch)
  /\ sent' = sent \ {m}
  /\ \/ ~m.waited /\ UNCHANGED tab
     \/ m.waited /\ Saved(m.tab, TRUE)
  /\ UNCHANGED <<chain, typed, rows>>

\* Too large, for the route (400) or for the server (413), or the backend is down.
Refused(m) ==
  /\ m.kind = "meta"
  /\ sent' = sent \ {m}
  /\ \/ ~m.waited /\ UNCHANGED tab
     \/ m.waited /\ Saved(m.tab, FALSE)
  /\ UNCHANGED <<chain, typed, rows, meta>>

----------------------------------------------------------------------------
Init ==
  /\ chain = [i \in Ids |-> "absent"]
  /\ typed = [i \in Ids |-> Null]
  /\ rows = [i \in Ids |-> "absent"]
  /\ meta = [i \in 0 .. MaxListings |-> NoMeta]
  /\ sent = {}
  /\ tab = [t \in Tabs |-> Blank]

OnPage(t) ==
  \/ Open(t, Blank)
  \/ Open(t, MyPage)
  \/ \E title \in Titles : Submit(t, title)
  \/ \E i \in Managed : delistOnChain(t, i) \/ OpenEdit(t, i)
                               \/ \E archived \in BOOLEAN : toggleArchived(t, i, archived)
  \/ SaveEdit(t)
  \/ SaveMeta(t)
  \/ MarkWithdrawn(t)
  \/ Rejects(t)
  \/ Close(t)

Next ==
  \/ \E t \in Tabs : OnPage(t)
  \/ \E m \in sent : Listed(m) \/ Cancelled(m) \/ Stored(m) \/ Refused(m)
  \/ \E i \in Ids : Index(i)

Spec == Init /\ [][Next]_vars

----------------------------------------------------------------------------
Page ==
  [page : {"sell", "mine"},
   at : {"idle", "listing", "listed", "cancelling", "cancelled", "editing", "saving"},
   title : Titles \cup {Edited, Null}, id : (0 .. MaxListings) \cup {Null}, warn : BOOLEAN]

TypeOK ==
  /\ chain \in [Ids -> States]
  /\ typed \in [Ids -> Titles \cup {Null}]
  /\ rows \in [Ids -> States]
  /\ meta \in [0 .. MaxListings -> Patch]
  /\ sent \subseteq Message
  /\ tab \in [Tabs -> Page]
  /\ \A t \in Tabs :
       Cardinality({m \in sent : m.tab = t /\ m.waited}) =
         IF tab[t].at \in {"listing", "cancelling", "saving"} THEN 1 ELSE 0

\* The description a buyer reads was typed for that listing, although several are posted at once
\* and a number is known only from the receipt; only number 0, which no listing has, collects the
\* descriptions of listings that were never made (sell page 160-184, tx.ts 147).
DetailsOfTheirListing ==
  \A i \in Ids : /\ meta[i].title \in {typed[i], Edited, Null}
                 /\ meta[i] # NoMeta => chain[i] # "absent"

\* "Listing posted", without the warning: the listing has its name and is one that "My listings"
\* shows, so that it can be hidden, edited and delisted (sell page 168-188, 209-225).
PostedIsManaged ==
  \A t \in Tabs :
    tab[t].page = "sell" /\ tab[t].at = "idle" /\ tab[t].id \in Ids /\ ~tab[t].warn =>
      tab[t].id \in getSellerListings /\ meta[tab[t].id].title # Null

\* What is stored as withdrawn comes back before the buyers only by a request to relist it: not by an
\* edit begun before the withdrawal, not by the description of the new listing saved late, and not by
\* an indexer that forgets that it was delisted or sold.  The mark is what a delisting is kept by:
\* until it is stored, that indexer does bring the listing back (my-listings 112-124, db.ts 347-357).
WithdrawnStaysWithdrawn ==
  [][\A i \in getActiveListings' \ getActiveListings :
       \/ rows[i] # "active" /\ meta[i].archived # TRUE
       \/ \E m \in sent : m.id = i /\ m.patch = [NoMeta EXCEPT !.archived = FALSE]]_vars

=============================================================================
