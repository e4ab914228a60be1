---------------------------- MODULE IndexerProofs ----------------------------
(***************************************************************************)
(* Proofs about Indexer and Receipt for any listings and deals, any number *)
(* of overlapping backfills and crashes, any window and any chain.         *)
(***************************************************************************)
EXTENDS Receipt, TotalsProofs, FiniteSetTheorems

----------------------------------------------------------------------------
(* The inductive invariant. *)

\* The chain has its events in the order of their blocks, and emits each after what came before.
ChainOK ==
  /\ \A k \in DOMAIN chain : chain[k].block <= height
  /\ \A j \in DOMAIN chain, k \in DOMAIN chain : j < k => chain[j].block <= chain[k].block
  /\ \A k \in DOMAIN chain : Emits({chain[j].event : j \in 1 .. k - 1}, chain[k].event)

\* What a backfill read of the cursor and the chain lies behind them.
TaskOK(t) == t.head <= height /\ t.cursor <= db.cursor

Inv ==
  /\ TypeOK
  /\ ChainOK
  /\ db.cursor <= height /\ reach <= height
  /\ \A b \in Backfills : TaskOK(task[b])

\* The logs of a deal, the place of one among them, and the logs up to a block.
Its(d) == {k \in DOMAIN chain : chain[k].event.deal = d}

Place(d, k) == Cardinality({j \in Its(d) : j <= k})

DoneBy(h) == {k \in DOMAIN chain : chain[k].block <= h}

\* A timeline's entries are at their places, and an event is in its deal's timeline.
InOrder(t) ==
  \A d \in Deals : \A n \in DOMAIN t.timeline[d] :
    \E k \in Its(d) : Place(d, k) = n /\ chain[k].event.name = t.timeline[d][n]

Recorded(t, k) ==
  \A d \in Deals : k \in Its(d) => Place(d, k) \in DOMAIN t.timeline[d]

\* No window skips a block: it starts where some batch before it ended, or earlier.
TimelineInv ==
  /\ InOrder(db)
  /\ \A k \in DoneBy(db.cursor) : Recorded(db, k)
  /\ \A b \in Backfills : task[b].at = "logs" => task[b].from <= db.cursor + 1

----------------------------------------------------------------------------
(* What the tables show when the logs in done have been applied since the  *)
(* cursor, and others up to block r may have been before a crash.          *)

Coming(done, r) == {k \in DOMAIN chain \ done : chain[k].block <= r}

\* Some of the logs in ks is of a deal, or of a listing, and has the name, or one of the names.
Was(ks, name, d) == \E k \in ks : chain[k].event.name = name /\ chain[k].event.deal = d

Named(ks, names, i) == \E k \in ks : chain[k].event.name \in names /\ chain[k].event.listing = i

OfListing == {"Listed", "ListingCancelled", "Funded"}

\* A listing that was made has a row; when none of its events is to come again, the row is right.
ListingShown(t, i, done, r) ==
  /\ Named(done, {"Listed"}, i) => t.listing[i] # "absent"
  /\ ~Named(Coming(done, r), OfListing, i) =>
       t.listing[i] = IF ~Named(done, {"Listed"}, i) THEN "absent"
                      ELSE IF Named(done, {"ListingCancelled", "Funded"}, i) THEN "inactive"
                      ELSE "active"

\* A deal that was funded has a row with its token; a row shows what has happened; and when none of
\* the deal's events is to come again, it shows the last of them.
DealShown(t, d, done, r) ==
  LET row == t.deal[d]
      all == done \cup Coming(done, r)
  IN  /\ Was(done, "Funded", d) => row.state # "None" /\ row.payToken
      /\ row.state # "None" \/ row.payToken => Was(all, "Funded", d)
      /\ row.state = "SellerCheckedIn" \/ row.checkedIn => Was(all, "CheckedIn", d)
      /\ row.state \in FinalEvents => Was(all, row.state, d)
      /\ (\A k \in Coming(done, r) : chain[k].event.deal # d) =>
           /\ \A name \in FinalEvents : Was(done, name, d) => row.state = name
           /\ Was(done, "CheckedIn", d) /\ "CheckedIn" \notin Throwing => row.state # "Funded"

Mirrors(t, done, r) ==
  /\ \A i \in Listings : ListingShown(t, i, done, r)
  /\ \A d \in Deals : DealShown(t, d, done, r)

\* One backfill at a time: it starts right after the cursor.
MirrorInv ==
  /\ Mirrors(db, DoneBy(db.cursor), reach)
  /\ \A b \in Backfills :
       /\ task[b].at = "head" => task[b].cursor = db.cursor
       /\ task[b].at = "logs" =>
            task[b].from = db.cursor + 1 \/ (db.cursor = 0 /\ task[b].from = 0)

----------------------------------------------------------------------------
(* The course of a deal and of a listing on the chain. *)

\* What the contract has emitted before an event.
LEMMA Course ==
  ASSUME chain \in Seq(Log), ChainOK, NEW k \in DOMAIN chain
  PROVE  LET e == chain[k].event
             has(names) == \E j \in 1 .. k - 1 : /\ chain[j].event.name \in names
                                                 /\ chain[j].event.listing = e.listing
         IN  /\ e \in Event /\ chain[k].block \in 1 .. MaxBlocks /\ k \in 1 .. Len(chain)
             /\ \A j \in 1 .. k - 1 : j \in DOMAIN chain /\ chain[j].event \in Event
             /\ e.name = "Listed" => e.deal = 0 /\ ~has({"Listed"})
             /\ e.name = "ListingCancelled" =>
                  e.deal = 0 /\ has({"Listed"}) /\ ~has({"ListingCancelled", "Funded"})
             /\ e.name = "Funded" =>
                  /\ e.deal # 0 /\ has({"Listed"}) /\ ~has({"ListingCancelled", "Funded"})
                  /\ \A j \in 1 .. k - 1 : chain[j].event.deal # e.deal
             /\ e.name = "CheckedIn" => ~has({"CheckedIn"} \cup FinalEvents)
             /\ e.name \in FinalEvents => ~has(FinalEvents)
             /\ e.name \in {"CheckedIn"} \cup FinalEvents =>
                  \E j \in 1 .. k - 1 : chain[j].event = [e EXCEPT !.name = "Funded"]
  <1> DEFINE e == chain[k].event
             past == {chain[j].event : j \in 1 .. k - 1}
  <1>1. /\ e \in Event /\ chain[k].block \in 1 .. MaxBlocks /\ k \in 1 .. Len(chain)
        /\ \A j \in 1 .. k - 1 : j \in DOMAIN chain /\ chain[j].event \in Event
    <2>1. k \in 1 .. Len(chain) /\ \A j \in 1 .. k - 1 : j \in DOMAIN chain
      OBVIOUS
    <2>2. \A j \in DOMAIN chain : chain[j] \in Log
      OBVIOUS
    <2>3. \A j \in DOMAIN chain : chain[j].event \in Event /\ chain[j].block \in 1 .. MaxBlocks
      BY <2>2 DEF Log
    <2> QED
      BY <2>1, <2>3
  <1>2. Emits(past, e)
    BY DEF ChainOK
  <1> DEFINE has(names) == \E p \in past : p.name \in names /\ p.listing = e.listing
  <1>3. /\ e.name = "Listed" => e.deal = 0 /\ ~has({"Listed"})
        /\ e.name = "ListingCancelled" =>
             e.deal = 0 /\ has({"Listed"}) /\ ~has({"ListingCancelled", "Funded"})
        /\ e.name = "Funded" =>
             /\ e.deal # 0 /\ has({"Listed"}) /\ ~has({"ListingCancelled", "Funded"})
             /\ \A p \in past : p.deal # e.deal
        /\ e.name = "CheckedIn" =>
             [e EXCEPT !.name = "Funded"] \in past /\ ~has({"CheckedIn"} \cup FinalEvents)
        /\ e.name \in FinalEvents => [e EXCEPT !.name = "Funded"] \in past /\ ~has(FinalEvents)
    <2> HIDE DEF past, e
    <2>1. "CheckedIn" \notin FinalEvents /\ "Funded" \notin FinalEvents
          /\ "Listed" \notin FinalEvents /\ "ListingCancelled" \notin FinalEvents
      BY DEF FinalEvents
    <2>2. CASE e.name = "Listed"
      BY <1>2, <2>1, <2>2 DEF Emits
    <2>3. CASE e.name = "ListingCancelled"
      BY <1>2, <2>1, <2>3 DEF Emits
    <2>4. CASE e.name = "Funded"
      BY <1>2, <2>1, <2>4 DEF Emits
    <2>5. CASE e.name = "CheckedIn"
      BY <1>2, <2>1, <2>5 DEF Emits
    <2>6. CASE e.name \in FinalEvents
      BY <1>2, <2>1, <2>6 DEF Emits
    <2>7. e.name \in EventNames
      BY <1>1 DEF Event, e
    <2> QED
      BY <2>2, <2>3, <2>4, <2>5, <2>6, <2>7 DEF EventNames, DealEvents
  <1>4. ASSUME NEW names
        PROVE  has(names) <=> \E j \in 1 .. k - 1 : /\ chain[j].event.name \in names
                                                    /\ chain[j].event.listing = e.listing
    OBVIOUS
  <1>5. [e EXCEPT !.name = "Funded"] \in past =>
          \E j \in 1 .. k - 1 : chain[j].event = [e EXCEPT !.name = "Funded"]
    OBVIOUS
  <1>6. (\A p \in past : p.deal # e.deal) => \A j \in 1 .. k - 1 : chain[j].event.deal # e.deal
    OBVIOUS
  <1> HIDE DEF has, past, e
  <1>7. "CheckedIn" \in {"CheckedIn"} \cup FinalEvents
    OBVIOUS
  <1>8. e.name \in {"CheckedIn"} \cup FinalEvents =>
          \E j \in 1 .. k - 1 : chain[j].event = [e EXCEPT !.name = "Funded"]
    BY <1>3, <1>5
  <1>9. /\ e.name = "Listed" => ~has({"Listed"})
        /\ e.name = "ListingCancelled" => has({"Listed"}) /\ ~has({"ListingCancelled", "Funded"})
        /\ e.name = "Funded" => has({"Listed"}) /\ ~has({"ListingCancelled", "Funded"})
        /\ e.name = "CheckedIn" => ~has({"CheckedIn"} \cup FinalEvents)
        /\ e.name \in FinalEvents => ~has(FinalEvents)
    BY <1>3
  <1> QED
    BY <1>1, <1>3, <1>4, <1>6, <1>8, <1>9, Zenon DEF e

\* A deal's events: it is funded first and ends last, each event comes once, all of one listing.
LEMMA DealCourse ==
  ASSUME chain \in Seq(Log), ChainOK, 0 \notin Deals, NEW d \in Deals, NEW k \in Its(d)
  PROVE  /\ k \in DOMAIN chain /\ chain[k].event.name \in DealEvents
         /\ chain[k].event.name # "Funded" =>
              \E j \in Its(d) : /\ j < k /\ chain[j].event.name = "Funded"
                                /\ chain[j].event.listing = chain[k].event.listing
         /\ \A j \in Its(d) : j < k =>
              /\ chain[k].event.name # "Funded" /\ chain[j].event.name # chain[k].event.name
              /\ chain[j].event.name \notin FinalEvents
              /\ chain[j].event.listing = chain[k].event.listing
  <1>1. ASSUME NEW i \in Its(d)
        PROVE  /\ i \in DOMAIN chain /\ i \in 1 .. Len(chain) /\ chain[i].event \in Event
               /\ chain[i].event.deal = d /\ d # 0
               /\ chain[i].event.name \in DealEvents
               /\ chain[i].event.name = "Funded" => \A j \in Its(d) : ~ (j < i)
               /\ chain[i].event.name # "Funded" =>
                    \E j \in Its(d) : /\ j < i /\ chain[j].event.name = "Funded"
                                      /\ chain[j].event.listing = chain[i].event.listing
    <2>1. i \in DOMAIN chain /\ chain[i].event.deal = d /\ d # 0
      BY DEF Its
    <2>2. i \in 1 .. Len(chain) /\ chain[i].event \in Event
      BY <2>1, Course
    <2>3. chain[i].event.name \in DealEvents
      <3>1. chain[i].event.name \notin {"Listed", "ListingCancelled"}
        BY <2>1, Course
      <3> QED
        BY <2>2, <3>1 DEF Event, EventNames
    <2>4. chain[i].event.name = "Funded" => \A j \in Its(d) : ~ (j < i)
      <3>1. chain[i].event.name = "Funded" => \A j \in 1 .. i - 1 : chain[j].event.deal # d
        BY <2>1, Course
      <3>2. \A j \in Its(d) : j \in 1 .. Len(chain) /\ chain[j].event.deal = d
        BY DEF Its
      <3> QED
        BY <2>2, <3>1, <3>2
    <2>5. ASSUME chain[i].event.name # "Funded"
          PROVE  \E j \in Its(d) : /\ j < i /\ chain[j].event.name = "Funded"
                                   /\ chain[j].event.listing = chain[i].event.listing
      <3>1. chain[i].event.name \in {"CheckedIn"} \cup FinalEvents
        BY <2>3, <2>5 DEF DealEvents
      <3>2. \E j \in 1 .. i - 1 : chain[j].event = [chain[i].event EXCEPT !.name = "Funded"]
        BY <2>1, <3>1, Course
      <3>3. PICK j \in 1 .. i - 1 : chain[j].event = [chain[i].event EXCEPT !.name = "Funded"]
        BY <3>2
      <3>4. /\ chain[j].event.name = "Funded" /\ chain[j].event.deal = d
            /\ chain[j].event.listing = chain[i].event.listing
        BY <2>1, <2>2, <3>3 DEF Event
      <3>5. j \in Its(d) /\ j < i
        BY <2>2, <3>4 DEF Its
      <3> QED
        BY <3>4, <3>5
    <2> QED
      BY <2>1, <2>2, <2>3, <2>4, <2>5
  <1>2. ASSUME NEW i \in Its(d)
        PROVE  \E f \in Its(d) : /\ f <= i /\ chain[f].event.name = "Funded"
                                 /\ chain[f].event.listing = chain[i].event.listing
    BY <1>1
  <1>3. ASSUME NEW j \in Its(d), j < k
        PROVE  /\ chain[k].event.name # "Funded" /\ chain[j].event.name # chain[k].event.name
               /\ chain[j].event.name \notin FinalEvents
               /\ chain[j].event.listing = chain[k].event.listing
    <2>1. chain[k].event.name # "Funded"
      BY <1>1, <1>3
    <2>2. PICK f \in Its(d) : /\ f <= j /\ chain[f].event.name = "Funded"
                              /\ chain[f].event.listing = chain[j].event.listing
      BY <1>2
    <2>3. PICK g \in Its(d) : /\ g <= k /\ chain[g].event.name = "Funded"
                              /\ chain[g].event.listing = chain[k].event.listing
      BY <1>2
    <2>4. f = g
      BY <1>1, <2>2, <2>3
    <2>5. chain[j].event.listing = chain[k].event.listing
      BY <2>2, <2>3, <2>4
    <2>6. j \in 1 .. k - 1 /\ k \in DOMAIN chain
      BY <1>1, <1>3
    <2>7. chain[k].event.name \in {"CheckedIn"} \cup FinalEvents
      BY <1>1, <2>1 DEF DealEvents
    <2>8. /\ chain[k].event.name = "CheckedIn" =>
               chain[j].event.name \notin {"CheckedIn"} \cup FinalEvents
          /\ chain[k].event.name \in FinalEvents => chain[j].event.name \notin FinalEvents
      BY <2>5, <2>6, Course
    <2> QED
      BY <2>1, <2>5, <2>7, <2>8
  <1> QED
    BY <1>1, <1>3

\* A deal's event is known by its name, and it ends once.
LEMMA OneOfEach ==
  ASSUME chain \in Seq(Log), ChainOK, 0 \notin Deals, NEW d \in Deals,
         NEW j \in Its(d), NEW k \in Its(d),
         \/ chain[j].event.name = chain[k].event.name
         \/ chain[j].event.name \in FinalEvents /\ chain[k].event.name \in FinalEvents
  PROVE  j = k
  <1>1. j \in 1 .. Len(chain) /\ k \in 1 .. Len(chain)
    BY DEF Its
  <1>2. ~ (j < k) /\ ~ (k < j)
    BY DealCourse
  <1> QED
    BY <1>1, <1>2

----------------------------------------------------------------------------
(* The statements. *)

Markets == {"absent", "active", "inactive"}

\* Tables with one part replaced.
LEMMA Parts ==
  ASSUME NEW t \in Tables
  PROVE  /\ t.listing \in [Listings -> Markets] /\ t.deal \in [Deals -> Row]
         /\ t.timeline \in [Deals -> Seq(DealEvents)] /\ t.cursor \in 0 .. MaxBlocks
  BY DEF Tables, Markets

\* The tables with their listings replaced.
LEMMA NewListing ==
  ASSUME NEW t \in Tables, NEW l \in [Listings -> Markets]
  PROVE  LET s == [t EXCEPT !.listing = l] IN
         /\ s \in Tables /\ s.listing = l /\ s.deal = t.deal
         /\ s.timeline = t.timeline /\ s.cursor = t.cursor
  BY DEF Tables, Markets

\* The tables with their deals replaced.
LEMMA NewDeal ==
  ASSUME NEW t \in Tables, NEW r \in [Deals -> Row]
  PROVE  LET s == [t EXCEPT !.deal = r] IN
         /\ s \in Tables /\ s.listing = t.listing /\ s.deal = r
         /\ s.timeline = t.timeline /\ s.cursor = t.cursor
  BY DEF Tables

\* The tables with their timelines replaced.
LEMMA NewTimeline ==
  ASSUME NEW t \in Tables, NEW h \in [Deals -> Seq(DealEvents)]
  PROVE  LET s == [t EXCEPT !.timeline = h] IN
         /\ s \in Tables /\ s.listing = t.listing /\ s.deal = t.deal
         /\ s.timeline = h /\ s.cursor = t.cursor
  BY DEF Tables

\* The tables with their cursor replaced.
LEMMA NewCursor ==
  ASSUME NEW t \in Tables, NEW c \in 0 .. MaxBlocks
  PROVE  LET s == [t EXCEPT !.cursor = c] IN
         /\ s \in Tables /\ s.listing = t.listing /\ s.deal = t.deal
         /\ s.timeline = t.timeline /\ s.cursor = c
  BY DEF Tables

\* What the statements write in the row of a listing and in that of a deal.
OnlyListing(s, t, i) == \A j \in Listings : j # i => s.listing[j] = t.listing[j]

OnlyDeal(s, t, d) == \A c \in Deals : c # d => s.deal[c] = t.deal[c]

Sold(s, t, i) == s.listing[i] = IF t.listing[i] = "absent" THEN "absent" ELSE "inactive"

Bought(s, t, d, i) ==
  /\ s.deal[d].state = IF t.deal[d].state = "None" THEN "Funded" ELSE t.deal[d].state
  /\ s.deal[d].checkedIn = t.deal[d].checkedIn
  /\ s.deal[d].payToken = (t.listing[i] # "absent")

Advanced(s, t, d, state) ==
  /\ s.deal[d].state = IF t.deal[d].state = "None" THEN "None" ELSE state
  /\ s.deal[d].checkedIn => t.deal[d].checkedIn \/ state = "SellerCheckedIn"
  /\ s.deal[d].payToken = t.deal[d].payToken

\* What each statement leaves in the tables.
LEMMA Statements ==
  ASSUME NEW t \in Tables
  PROVE  /\ \A i \in Listings :
              LET s == upsertListing(t, i) IN
              /\ s \in Tables /\ s.deal = t.deal /\ s.timeline = t.timeline /\ s.cursor = t.cursor
              /\ s.listing[i] = "active" /\ OnlyListing(s, t, i)
         /\ \A i \in Listings :
              LET s == setListingActive(t, i) IN
              /\ s \in Tables /\ s.deal = t.deal /\ s.timeline = t.timeline /\ s.cursor = t.cursor
              /\ Sold(s, t, i) /\ OnlyListing(s, t, i)
         /\ \A d \in Deals, i \in Listings :
              LET s == upsertDealFromFunded(t, d, i) IN
              /\ s \in Tables /\ s.listing = t.listing /\ s.timeline = t.timeline
              /\ s.cursor = t.cursor
              /\ Bought(s, t, d, i) /\ OnlyDeal(s, t, d)
         /\ \A d \in Deals, state \in {"SellerCheckedIn"} \cup FinalEvents :
              LET s == setDealState(t, d, state) IN
              /\ s \in Tables /\ s.listing = t.listing /\ s.timeline = t.timeline
              /\ s.cursor = t.cursor
              /\ Advanced(s, t, d, state) /\ OnlyDeal(s, t, d)
         /\ \A d \in Deals, name \in DealEvents :
              LET s == recordEventOnce(t, d, name) IN
              /\ s \in Tables /\ s.listing = t.listing /\ s.deal = t.deal /\ s.cursor = t.cursor
              /\ s.timeline[d] = IF name \in ToSet(t.timeline[d]) THEN t.timeline[d]
                                 ELSE Append(t.timeline[d], name)
              /\ \A c \in Deals : c # d => s.timeline[c] = t.timeline[c]
         /\ \A block \in 0 .. MaxBlocks :
              LET s == Moved(t, block) IN
              /\ s \in Tables /\ s.listing = t.listing /\ s.deal = t.deal
              /\ s.timeline = t.timeline
              /\ s.cursor = IF block > t.cursor THEN block ELSE t.cursor
  <1>1. /\ t.listing \in [Listings -> Markets] /\ t.deal \in [Deals -> Row]
        /\ t.timeline \in [Deals -> Seq(DealEvents)] /\ t.cursor \in 0 .. MaxBlocks
    BY Parts
  <1>2. ASSUME NEW i \in Listings, NEW m \in Markets
        PROVE  LET s == [t EXCEPT !.listing[i] = m] IN
               /\ s \in Tables /\ s.deal = t.deal /\ s.timeline = t.timeline /\ s.cursor = t.cursor
               /\ s.listing[i] = m
               /\ \A j \in Listings : j # i => s.listing[j] = t.listing[j]
    <2> DEFINE l == [t.listing EXCEPT ![i] = m]
    <2>1. /\ l \in [Listings -> Markets] /\ l[i] = m
          /\ \A j \in Listings : j # i => l[j] = t.listing[j]
      BY <1>1
    <2>2. [t EXCEPT !.listing[i] = m] = [t EXCEPT !.listing = l]
      OBVIOUS
    <2> HIDE DEF l
    <2> DEFINE s == [t EXCEPT !.listing = l]
    <2>3. /\ s \in Tables /\ s.listing = l /\ s.deal = t.deal
          /\ s.timeline = t.timeline /\ s.cursor = t.cursor
      BY <2>1, NewListing
    <2> HIDE DEF s
    <2>4. [t EXCEPT !.listing[i] = m] = s
      BY <2>2 DEF s
    <2> QED
      BY <2>1, <2>3, <2>4
  <1>3. ASSUME NEW i \in Listings
        PROVE  LET s == upsertListing(t, i) IN
               /\ s \in Tables /\ s.deal = t.deal /\ s.timeline = t.timeline /\ s.cursor = t.cursor
               /\ s.listing[i] = "active" /\ OnlyListing(s, t, i)
    <2>1. "active" \in Markets
      BY DEF Markets
    <2> QED
      BY <1>2, <2>1, Zenon DEF upsertListing, OnlyListing
  <1>4. ASSUME NEW i \in Listings
        PROVE  LET s == setListingActive(t, i) IN
               /\ s \in Tables /\ s.deal = t.deal /\ s.timeline = t.timeline /\ s.cursor = t.cursor
               /\ Sold(s, t, i) /\ OnlyListing(s, t, i)
    <2>1. "inactive" \in Markets
      BY DEF Markets
    <2>2. CASE t.listing[i] = "absent"
      BY <2>2, Zenon DEF setListingActive, Sold, OnlyListing
    <2>3. CASE t.listing[i] # "absent"
      BY <1>2, <2>1, <2>3 DEF setListingActive, Sold, OnlyListing
    <2> QED
      BY <2>2, <2>3
  <1>5. ASSUME NEW d \in Deals, NEW row \in Row
        PROVE  LET s == [t EXCEPT !.deal[d] = row] IN
               /\ s \in Tables /\ s.listing = t.listing /\ s.timeline = t.timeline
               /\ s.cursor = t.cursor /\ s.deal[d] = row
               /\ \A c \in Deals : c # d => s.deal[c] = t.deal[c]
    <2> DEFINE r == [t.deal EXCEPT ![d] = row]
    <2>1. /\ r \in [Deals -> Row] /\ r[d] = row /\ \A c \in Deals : c # d => r[c] = t.deal[c]
      BY <1>1
    <2>2. [t EXCEPT !.deal[d] = row] = [t EXCEPT !.deal = r]
      OBVIOUS
    <2> HIDE DEF r
    <2> DEFINE s == [t EXCEPT !.deal = r]
    <2>3. /\ s \in Tables /\ s.listing = t.listing /\ s.deal = r
          /\ s.timeline = t.timeline /\ s.cursor = t.cursor
      BY <2>1, NewDeal
    <2> HIDE DEF s
    <2>4. [t EXCEPT !.deal[d] = row] = s
      BY <2>2 DEF s
    <2> QED
      BY <2>1, <2>3, <2>4
  <1>6. \A d \in Deals : /\ t.deal[d] \in Row
                         /\ t.deal[d].state \in {"None", "Funded", "SellerCheckedIn"} \cup FinalEvents
                         /\ t.deal[d].checkedIn \in BOOLEAN /\ t.deal[d].payToken \in BOOLEAN
    BY <1>1 DEF Row
  <1>7. ASSUME NEW d \in Deals, NEW i \in Listings
        PROVE  LET s == upsertDealFromFunded(t, d, i) IN
               /\ s \in Tables /\ s.listing = t.listing /\ s.timeline = t.timeline
               /\ s.cursor = t.cursor
               /\ Bought(s, t, d, i) /\ OnlyDeal(s, t, d)
    <2> DEFINE row == [state |-> IF t.deal[d].state = "None" THEN "Funded" ELSE t.deal[d].state,
                       checkedIn |-> t.deal[d].checkedIn, payToken |-> t.listing[i] # "absent"]
    <2>1. row \in Row
      BY <1>6 DEF Row
    <2>2. upsertDealFromFunded(t, d, i) = [t EXCEPT !.deal[d] = row]
      BY DEF upsertDealFromFunded
    <2>3. /\ row.state = IF t.deal[d].state = "None" THEN "Funded" ELSE t.deal[d].state
          /\ row.checkedIn = t.deal[d].checkedIn /\ row.payToken = (t.listing[i] # "absent")
      BY Zenon
    <2> HIDE DEF row
    <2> DEFINE s == [t EXCEPT !.deal[d] = row]
    <2>4. /\ s \in Tables /\ s.listing = t.listing /\ s.timeline = t.timeline
          /\ s.cursor = t.cursor /\ s.deal[d] = row
          /\ \A c \in Deals : c # d => s.deal[c] = t.deal[c]
      BY <1>5, <2>1
    <2> HIDE DEF s
    <2>5. upsertDealFromFunded(t, d, i) = s
      BY <2>2 DEF s
    <2> QED
      BY <2>3, <2>4, <2>5, Zenon DEF Bought, OnlyDeal
  <1>8. ASSUME NEW d \in Deals, NEW state \in {"SellerCheckedIn"} \cup FinalEvents
        PROVE  LET s == setDealState(t, d, state) IN
               /\ s \in Tables /\ s.listing = t.listing /\ s.timeline = t.timeline
               /\ s.cursor = t.cursor
               /\ Advanced(s, t, d, state) /\ OnlyDeal(s, t, d)
    <2>1. CASE t.deal[d].state = "None"
      BY <2>1, Zenon DEF setDealState, Advanced, OnlyDeal
    <2>2. CASE t.deal[d].state # "None"
      <3> DEFINE row == [state |-> state, payToken |-> t.deal[d].payToken,
                         checkedIn |-> t.deal[d].checkedIn \/ state = "SellerCheckedIn"]
      <3>1. row \in Row
        BY <1>6 DEF Row
      <3>2. setDealState(t, d, state) = [t EXCEPT !.deal[d] = row]
        BY <2>2, Zenon DEF setDealState
      <3>3. /\ row.state = state /\ row.payToken = t.deal[d].payToken
            /\ row.checkedIn = (t.deal[d].checkedIn \/ state = "SellerCheckedIn")
        BY Zenon
      <3> HIDE DEF row
      <3> DEFINE s == [t EXCEPT !.deal[d] = row]
      <3>4. /\ s \in Tables /\ s.listing = t.listing /\ s.timeline = t.timeline
            /\ s.cursor = t.cursor /\ s.deal[d] = row
            /\ \A c \in Deals : c # d => s.deal[c] = t.deal[c]
        BY <1>5, <3>1
      <3> HIDE DEF s
      <3>5. setDealState(t, d, state) = s
        BY <3>2 DEF s
      <3> QED
        BY <2>2, <3>3, <3>4, <3>5, Zenon DEF Advanced, OnlyDeal
    <2> QED
      BY <2>1, <2>2
  <1>9. ASSUME NEW d \in Deals, NEW name \in DealEvents
        PROVE  LET s == recordEventOnce(t, d, name) IN
               /\ s \in Tables /\ s.listing = t.listing /\ s.deal = t.deal /\ s.cursor = t.cursor
               /\ s.timeline[d] = IF name \in ToSet(t.timeline[d]) THEN t.timeline[d]
                                  ELSE Append(t.timeline[d], name)
               /\ \A c \in Deals : c # d => s.timeline[c] = t.timeline[c]
    <2>1. CASE name \in ToSet(t.timeline[d])
      BY <2>1, Zenon DEF recordEventOnce
    <2>2. CASE name \notin ToSet(t.timeline[d])
      <3> DEFINE kept == Append(t.timeline[d], name)
                 h == [t.timeline EXCEPT ![d] = kept]
      <3>1. t.timeline[d] \in Seq(DealEvents)
        BY <1>1
      <3>2. kept \in Seq(DealEvents)
        BY <3>1
      <3> HIDE DEF kept
      <3>3. /\ h \in [Deals -> Seq(DealEvents)] /\ h[d] = kept
            /\ \A c \in Deals : c # d => h[c] = t.timeline[c]
        BY <1>1, <3>2
      <3>4. recordEventOnce(t, d, name) = [t EXCEPT !.timeline = h]
        <4>1. recordEventOnce(t, d, name) = [t EXCEPT !.timeline[d] = kept]
          BY <2>2, Zenon DEF recordEventOnce, kept
        <4>2. [t EXCEPT !.timeline[d] = kept] = [t EXCEPT !.timeline = h]
          OBVIOUS
        <4> QED
          BY <4>1, <4>2
      <3> HIDE DEF h
      <3> DEFINE s == [t EXCEPT !.timeline = h]
      <3>5. /\ s \in Tables /\ s.listing = t.listing /\ s.deal = t.deal
            /\ s.timeline = h /\ s.cursor = t.cursor
        BY <3>3, NewTimeline
      <3> HIDE DEF s
      <3>6. recordEventOnce(t, d, name) = s
        BY <3>4 DEF s
      <3> QED
        BY <2>2, <3>3, <3>5, <3>6 DEF kept
    <2> QED
      BY <2>1, <2>2
  <1>10. ASSUME NEW block \in 0 .. MaxBlocks
         PROVE  LET s == Moved(t, block) IN
                /\ s \in Tables /\ s.listing = t.listing /\ s.deal = t.deal
                /\ s.timeline = t.timeline
                /\ s.cursor = IF block > t.cursor THEN block ELSE t.cursor
    <2> DEFINE s == [t EXCEPT !.cursor = block]
    <2>1. /\ s \in Tables /\ s.listing = t.listing /\ s.deal = t.deal
          /\ s.timeline = t.timeline /\ s.cursor = block
      BY NewCursor
    <2>2. CASE block > t.cursor
      <3>1. Moved(t, block) = s
        BY <2>2 DEF Moved, setCursor
      <3> HIDE DEF s
      <3> QED
        BY <2>1, <2>2, <3>1
    <2>3. CASE ~ (block > t.cursor)
      BY <2>3, Zenon DEF Moved
    <2> QED
      BY <2>2, <2>3
  <1> QED
    BY <1>3, <1>4, <1>7, <1>8, <1>9, <1>10, Zenon

----------------------------------------------------------------------------
(* The handlers. *)

\* An event the handlers can take up: a deal event is about a deal.
Sound(e) == e \in Event /\ (e.name \in DealEvents => e.deal \in Deals)

Written(e) == IF e.name = "CheckedIn" THEN "SellerCheckedIn" ELSE e.name

\* The tables a handler goes through.
LEMMA Runs ==
  ASSUME NEW t, NEW e, Sound(e)
  PROVE  LET tables == handleEvent(t, e)
             funded == upsertDealFromFunded(t, e.deal, e.listing)
             sold == setListingActive(funded, e.listing)
             moved == setDealState(t, e.deal, Written(e))
         IN  /\ e.name = "Listed" =>
                  /\ ToSet(tables) = {upsertListing(t, e.listing)}
                  /\ Last(tables) = upsertListing(t, e.listing)
             /\ e.name = "ListingCancelled" =>
                  /\ ToSet(tables) = {setListingActive(t, e.listing)}
                  /\ Last(tables) = setListingActive(t, e.listing)
             /\ e.name = "Funded" =>
                  /\ ToSet(tables) = {funded, sold, recordEventOnce(sold, e.deal, e.name)}
                  /\ Last(tables) = recordEventOnce(sold, e.deal, e.name)
             /\ e.name \in {"CheckedIn"} \cup FinalEvents =>
                  /\ ToSet(tables) = {moved, recordEventOnce(moved, e.deal, e.name)}
                  /\ Last(tables) = recordEventOnce(moved, e.deal, e.name)
  <1> DEFINE funded == upsertDealFromFunded(t, e.deal, e.listing)
             sold == setListingActive(funded, e.listing)
             bought == recordEventOnce(sold, e.deal, e.name)
             moved == setDealState(t, e.deal, Written(e))
             noted == recordEventOnce(moved, e.deal, e.name)
  <1>1. /\ "Listed" \notin FinalEvents /\ "ListingCancelled" \notin FinalEvents
        /\ "Funded" \notin FinalEvents
    BY DEF FinalEvents
  <1>2. ASSUME NEW x, NEW y, NEW z
        PROVE  /\ ToSet(<<x>>) = {x} /\ Last(<<x>>) = x
               /\ ToSet(<<x, y>>) = {x, y} /\ Last(<<x, y>>) = y
               /\ ToSet(<<x, y, z>>) = {x, y, z} /\ Last(<<x, y, z>>) = z
    BY DEF ToSet, Last
  <1>3. ASSUME e.name = "Listed"
        PROVE  handleEvent(t, e) = <<upsertListing(t, e.listing)>>
    BY <1>1, <1>3 DEF handleEvent
  <1>4. ASSUME e.name = "ListingCancelled"
        PROVE  handleEvent(t, e) = <<setListingActive(t, e.listing)>>
    BY <1>1, <1>4 DEF handleEvent
  <1>5. ASSUME e.name = "Funded"
        PROVE  handleEvent(t, e) = <<funded, sold, bought>>
    BY <1>1, <1>5 DEF handleEvent
  <1>6. ASSUME e.name \in {"CheckedIn"} \cup FinalEvents
        PROVE  handleEvent(t, e) = <<moved, noted>>
    BY <1>1, <1>6 DEF handleEvent, Written
  <1> HIDE DEF funded, sold, bought, moved, noted
  <1>7. /\ e.name = "Listed" =>
             /\ ToSet(handleEvent(t, e)) = {upsertListing(t, e.listing)}
             /\ Last(handleEvent(t, e)) = upsertListing(t, e.listing)
        /\ e.name = "ListingCancelled" =>
             /\ ToSet(handleEvent(t, e)) = {setListingActive(t, e.listing)}
             /\ Last(handleEvent(t, e)) = setListingActive(t, e.listing)
        /\ e.name = "Funded" => /\ ToSet(handleEvent(t, e)) = {funded, sold, bought}
                                /\ Last(handleEvent(t, e)) = bought
        /\ e.name \in {"CheckedIn"} \cup FinalEvents =>
             ToSet(handleEvent(t, e)) = {moved, noted} /\ Last(handleEvent(t, e)) = noted
    <2>1. CASE e.name = "Listed"
      BY <1>1, <1>2, <1>3, <2>1
    <2>2. CASE e.name = "ListingCancelled"
      BY <1>1, <1>2, <1>4, <2>2
    <2>3. CASE e.name = "Funded"
      <3>1. /\ e.name # "Listed" /\ e.name # "ListingCancelled"
            /\ e.name \notin {"CheckedIn"} \cup FinalEvents
        BY <1>1, <2>3
      <3>2. handleEvent(t, e) = <<funded, sold, bought>>
        BY <1>5, <2>3
      <3>3. /\ ToSet(<<funded, sold, bought>>) = {funded, sold, bought}
            /\ Last(<<funded, sold, bought>>) = bought
        BY DEF ToSet, Last
      <3> QED
        BY <3>1, <3>2, <3>3, Zenon
    <2>4. CASE e.name \in {"CheckedIn"} \cup FinalEvents
      <3>1. /\ e.name # "Listed" /\ e.name # "ListingCancelled" /\ e.name # "Funded"
        BY <1>1, <2>4
      <3>2. handleEvent(t, e) = <<moved, noted>>
        BY <1>6, <2>4
      <3>3. ToSet(<<moved, noted>>) = {moved, noted} /\ Last(<<moved, noted>>) = noted
        BY <1>2, Zenon
      <3> QED
        BY <3>1, <3>2, <3>3, Zenon
    <2> QED
      BY <2>1, <2>2, <2>3, <2>4
  <1> QED
    BY <1>7, Zenon DEF funded, sold, bought, moved, noted

\* No handler moves the cursor or leaves anything but tables.
LEMMA HandlersType ==
  ASSUME NEW t \in Tables, NEW e, Sound(e)
  PROVE  /\ \A s \in {t} \cup ToSet(handleEvent(t, e)) : s \in Tables /\ s.cursor = t.cursor
         /\ Handled(t, e) \subseteq {t} \cup ToSet(handleEvent(t, e))
         /\ e.name \notin Throwing => Handled(t, e) = {Last(handleEvent(t, e))}
         /\ Last(handleEvent(t, e)) \in ToSet(handleEvent(t, e))
  <1> DEFINE funded == upsertDealFromFunded(t, e.deal, e.listing)
             sold == setListingActive(funded, e.listing)
             moved == setDealState(t, e.deal, Written(e))
  <1>1. e.name \in EventNames /\ e.listing \in Listings
    BY DEF Sound, Event
  <1>2. CASE e.name = "Listed"
    <2>1. upsertListing(t, e.listing) \in Tables /\ upsertListing(t, e.listing).cursor = t.cursor
      BY <1>1, Statements
    <2>2. /\ ToSet(handleEvent(t, e)) = {upsertListing(t, e.listing)}
          /\ Last(handleEvent(t, e)) = upsertListing(t, e.listing)
      BY <1>2, Runs
    <2> QED
      BY <2>1, <2>2 DEF Handled
  <1>3. CASE e.name = "ListingCancelled"
    <2>1. /\ setListingActive(t, e.listing) \in Tables
          /\ setListingActive(t, e.listing).cursor = t.cursor
      BY <1>1, Statements
    <2>2. /\ ToSet(handleEvent(t, e)) = {setListingActive(t, e.listing)}
          /\ Last(handleEvent(t, e)) = setListingActive(t, e.listing)
      BY <1>3, Runs
    <2> QED
      BY <2>1, <2>2 DEF Handled
  <1>4. CASE e.name = "Funded"
    <2>1. e.deal \in Deals /\ e.name \in DealEvents
      BY <1>4 DEF Sound, DealEvents
    <2>2. funded \in Tables /\ funded.cursor = t.cursor
      BY <1>1, <2>1, Statements
    <2> HIDE DEF funded
    <2>3. sold \in Tables /\ sold.cursor = t.cursor
      BY <1>1, <2>2, Statements
    <2> HIDE DEF sold
    <2> DEFINE bought == recordEventOnce(sold, e.deal, e.name)
    <2>4. bought \in Tables /\ bought.cursor = t.cursor
      BY <2>1, <2>3, Statements
    <2>5. /\ ToSet(handleEvent(t, e)) = {funded, sold, bought}
          /\ Last(handleEvent(t, e)) = bought
      BY <1>4, Runs, Zenon DEF funded, sold
    <2> HIDE DEF bought
    <2> QED
      BY <2>2, <2>3, <2>4, <2>5 DEF Handled
  <1>5. CASE e.name \in {"CheckedIn"} \cup FinalEvents
    <2>1. e.deal \in Deals /\ e.name \in DealEvents
      BY <1>5 DEF Sound, DealEvents
    <2>2. Written(e) \in {"SellerCheckedIn"} \cup FinalEvents
      BY <1>5 DEF Written
    <2>3. moved \in Tables /\ moved.cursor = t.cursor
      <3>1. \A state \in {"SellerCheckedIn"} \cup FinalEvents :
              LET s == setDealState(t, e.deal, state) IN s \in Tables /\ s.cursor = t.cursor
        BY <2>1, Statements
      <3> QED
        BY <2>2, <3>1
    <2> HIDE DEF moved
    <2> DEFINE noted == recordEventOnce(moved, e.deal, e.name)
    <2>4. noted \in Tables /\ noted.cursor = t.cursor
      BY <2>1, <2>3, Statements
    <2>5. ToSet(handleEvent(t, e)) = {moved, noted} /\ Last(handleEvent(t, e)) = noted
      BY <1>5, Runs, Zenon DEF moved
    <2> HIDE DEF noted
    <2> QED
      BY <2>3, <2>4, <2>5 DEF Handled
  <1> QED
    BY <1>1, <1>2, <1>3, <1>4, <1>5 DEF EventNames, DealEvents

\* The handlers can take up every log of the chain.
LEMMA LogsAreSound ==
  ASSUME chain \in Seq(Log), ChainOK, 0 \notin Deals, NEW k \in DOMAIN chain
  PROVE  Sound(chain[k].event)
  <1>1. chain[k].event \in Event
    BY Course
  <1>2. ASSUME chain[k].event.name \in DealEvents
        PROVE  chain[k].event.deal # 0
    <2>1. CASE chain[k].event.name = "Funded"
      BY <2>1, Course
    <2>2. CASE chain[k].event.name # "Funded"
      <3>1. chain[k].event.name \in {"CheckedIn"} \cup FinalEvents
        BY <1>2, <2>2 DEF DealEvents
      <3>2. PICK j \in 1 .. k - 1 : chain[j].event = [chain[k].event EXCEPT !.name = "Funded"]
        BY <3>1, Course
      <3>3. chain[j].event.name = "Funded" /\ chain[j].event.deal = chain[k].event.deal
        BY <1>1, <3>2 DEF Event
      <3>4. j \in DOMAIN chain
        BY Course
      <3> QED
        BY <3>3, <3>4, Course
    <2> QED
      BY <2>1, <2>2
  <1>3. chain[k].event.deal \in Deals \cup {0}
    BY <1>1 DEF Event
  <1> QED
    BY <1>1, <1>2, <1>3 DEF Sound

----------------------------------------------------------------------------
(* A batch. *)

\* The tables after each of the first n logs.
Batch(s, from, to, n) ==
  s = [k \in 0 .. n |->
         IF k = 0 THEN {db}
         ELSE IF k \in GetLogs(from, to) THEN UNION {Handled(t, chain[k].event) : t \in s[k - 1]}
         ELSE s[k - 1]]

\* There is such a sequence for every batch, by the least length that would have none.
LEMMA BatchExists ==
  ASSUME NEW n \in Nat, NEW from, NEW to
  PROVE  \E s : Batch(s, from, to, n)
  <1> DEFINE Good == {k \in 0 .. n : \E s : Batch(s, from, to, k)}
  <1>1. 0 \in Good
    <2> DEFINE s == [k \in 0 .. 0 |-> {db}]
    <2>1. s = [k \in 0 .. 0 |->
                 IF k = 0 THEN {db}
                 ELSE IF k \in GetLogs(from, to)
                      THEN UNION {Handled(t, chain[k].event) : t \in s[k - 1]}
                 ELSE s[k - 1]]
      OBVIOUS
    <2> HIDE DEF s
    <2>2. Batch(s, from, to, 0)
      BY <2>1, Zenon DEF Batch
    <2> QED
      BY <2>2
  <1>2. ASSUME NEW k \in 1 .. n, k - 1 \in Good
        PROVE  k \in Good
    <2>1. PICK s : Batch(s, from, to, k - 1)
      BY <1>2
    <2> DEFINE last == IF k \in GetLogs(from, to)
                       THEN UNION {Handled(t, chain[k].event) : t \in s[k - 1]} ELSE s[k - 1]
               r == [j \in 0 .. k |-> IF j < k THEN s[j] ELSE last]
    <2>2. \A j \in 0 .. k - 1 :
            s[j] = IF j = 0 THEN {db}
                   ELSE IF j \in GetLogs(from, to)
                        THEN UNION {Handled(t, chain[j].event) : t \in s[j - 1]}
                   ELSE s[j - 1]
      BY <2>1, Zenon DEF Batch
    <2>3. \A j \in 0 .. k - 1 : r[j] = s[j]
      <3> HIDE DEF last
      <3> QED OBVIOUS
    <2>4. r[k] = last
      <3> HIDE DEF last
      <3> QED OBVIOUS
    <2>5. ASSUME NEW j \in 0 .. k
          PROVE  r[j] = IF j = 0 THEN {db}
                        ELSE IF j \in GetLogs(from, to)
                             THEN UNION {Handled(t, chain[j].event) : t \in r[j - 1]}
                        ELSE r[j - 1]
      <3>1. CASE j = 0
        <4>1. 0 \in 0 .. k - 1
          OBVIOUS
        <4>2. s[0] = {db} /\ r[0] = s[0]
          BY <2>2, <2>3, <4>1
        <4> QED
          BY <3>1, <4>2
      <3>2. CASE j \in 1 .. k - 1
        <4>1. j \in 0 .. k - 1 /\ j - 1 \in 0 .. k - 1 /\ j # 0
          BY <3>2
        <4>2. r[j] = s[j] /\ r[j - 1] = s[j - 1]
          BY <2>3, <4>1
        <4> HIDE DEF r
        <4> QED
          BY <2>2, <4>1, <4>2, Zenon
      <3>3. CASE j = k
        <4>1. k - 1 \in 0 .. k - 1 /\ k # 0
          OBVIOUS
        <4>2. r[k - 1] = s[k - 1]
          BY <2>3, <4>1
        <4> HIDE DEF r
        <4> QED
          BY <2>4, <3>3, <4>1, <4>2, Zenon
      <3> QED
        BY <3>1, <3>2, <3>3
    <2>6. r = [j \in 0 .. k |-> r[j]]
      <3> HIDE DEF last
      <3> QED OBVIOUS
    <2> HIDE DEF r
    <2>7. Batch(r, from, to, k)
      BY <2>5, <2>6, Zenon DEF Batch
    <2> QED
      BY <2>7
  <1> HIDE DEF Good
  <1>3. \A k \in 0 .. n : k \in Good
    BY <1>1, <1>2, Upwards
  <1>4. n \in Good
    BY <1>3
  <1> QED
    BY <1>4 DEF Good

\* What holds of the tables when a batch begins, and after each log of what held before it, holds of
\* them all along.  Fine[k] are the tables that are fine after the first k logs.
LEMMA AllAlong ==
  ASSUME chain \in Seq(Log), NEW from, NEW to, NEW Fine, db \in Fine[0],
         \A k \in 1 .. Len(chain) : \A t \in Fine[k - 1] :
           IF k \in GetLogs(from, to) THEN Handled(t, chain[k].event) \subseteq Fine[k]
           ELSE t \in Fine[k]
  PROVE  \A k \in 0 .. Len(chain) : Applied(from, to)[k] \subseteq Fine[k]
  <1> DEFINE n == Len(chain)
  <1>1. n \in Nat
    OBVIOUS
  <1>2. \E s : Batch(s, from, to, n) /\ Applied(from, to) = s
    <2>1. \E s : Batch(s, from, to, n)
      BY <1>1, BatchExists
    <2> QED
      BY <2>1, Zenon DEF Batch, Applied
  <1>3. PICK s : Batch(s, from, to, n) /\ Applied(from, to) = s
    BY <1>2
  <1>4. \A k \in 0 .. n :
          s[k] = IF k = 0 THEN {db}
                 ELSE IF k \in GetLogs(from, to)
                      THEN UNION {Handled(t, chain[k].event) : t \in s[k - 1]}
                 ELSE s[k - 1]
    BY <1>3, Zenon DEF Batch
  <1> DEFINE Good == {k \in 0 .. n : s[k] \subseteq Fine[k]}
  <1>5. 0 \in Good
    <2>1. 0 \in 0 .. n
      BY <1>1
    <2>2. s[0] = {db}
      BY <1>4, <2>1, Zenon
    <2> QED
      BY <2>1, <2>2
  <1>6. ASSUME NEW k \in 1 .. n, k - 1 \in Good
        PROVE  k \in Good
    <2>1. k \in 0 .. n /\ k # 0 /\ s[k - 1] \subseteq Fine[k - 1]
      BY <1>6
    <2>2. s[k] = IF k \in GetLogs(from, to)
                 THEN UNION {Handled(t, chain[k].event) : t \in s[k - 1]} ELSE s[k - 1]
      BY <1>4, <2>1, Zenon
    <2>3. \A t \in s[k - 1] : IF k \in GetLogs(from, to)
                              THEN Handled(t, chain[k].event) \subseteq Fine[k] ELSE t \in Fine[k]
      BY <2>1
    <2>4. s[k] \subseteq Fine[k]
      <3>1. CASE k \in GetLogs(from, to)
        <4>1. s[k] = UNION {Handled(t, chain[k].event) : t \in s[k - 1]}
          BY <2>2, <3>1
        <4> QED
          BY <2>3, <3>1, <4>1
      <3>2. CASE k \notin GetLogs(from, to)
        BY <2>2, <2>3, <3>2
      <3> QED
        BY <3>1, <3>2
    <2> QED
      BY <2>1, <2>4
  <1> HIDE DEF Good
  <1>7. \A k \in 0 .. n : k \in Good
    BY <1>1, <1>5, <1>6, Upwards
  <1> QED
    BY <1>3, <1>7 DEF Good


----------------------------------------------------------------------------
(* The last block with a log. *)

\* A non-empty set of numbers up to n has a greatest.
LEMMA Greatest ==
  ASSUME NEW n \in Nat, NEW S \in SUBSET (0 .. n), S # {}
  PROVE  Max(S) \in S /\ \A y \in S : y <= Max(S)
  <1> DEFINE Above == {u \in 0 .. n : \A y \in S : y <= u}
  <1>1. Above \in SUBSET Nat /\ n \in Above
    OBVIOUS
  <1>2. PICK m \in Above : \A k \in Above : m <= k
    <2> HIDE DEF Above
    <2> QED
      BY <1>1, Least
  <1>3. m \in S
    <2>1. SUFFICES ASSUME m \notin S PROVE FALSE
      OBVIOUS
    <2>2. \A y \in S : y \in 0 .. n /\ y <= m /\ y # m
      BY <2>1
    <2>3. m \in 1 .. n /\ \A y \in S : y <= m - 1
      <3>1. PICK y \in S : TRUE
        OBVIOUS
      <3>2. m \in 0 .. n /\ m # 0
        BY <2>2, <3>1
      <3> QED
        BY <2>2, <3>2
    <2>4. m - 1 \in Above
      BY <2>3
    <2> QED
      BY <1>2, <2>3, <2>4
  <1>4. \A y \in S : m >= y
    BY <1>2
  <1>5. Max(S) \in S /\ \A y \in S : Max(S) >= y
    BY <1>3, <1>4, Zenon DEF Max
  <1> QED
    BY <1>5

\* The newest block of a batch is that of one of its logs, or 0 when it has none.
LEMMA NewestLog ==
  ASSUME chain \in Seq(Log), MaxBlocks \in Nat, NEW from, NEW to
  PROVE  LET top == Newest(from, to) IN
         /\ top \in 0 .. MaxBlocks
         /\ \A k \in GetLogs(from, to) : chain[k].block <= top
         /\ top = 0 \/ \E k \in GetLogs(from, to) : chain[k].block = top
  <1> DEFINE S == {chain[k].block : k \in GetLogs(from, to)} \cup {0}
  <1>1. S \in SUBSET (0 .. MaxBlocks) /\ S # {}
    <2>1. \A k \in GetLogs(from, to) : chain[k] \in Log
      BY DEF GetLogs
    <2>2. \A k \in GetLogs(from, to) : chain[k].block \in 0 .. MaxBlocks
      BY <2>1 DEF Log
    <2> QED
      BY <2>2
  <1>2. Max(S) \in S /\ \A y \in S : y <= Max(S)
    <2> HIDE DEF S
    <2> QED
      BY <1>1, Greatest
  <1>3. Newest(from, to) = Max(S)
    BY DEF Newest
  <1> QED
    BY <1>1, <1>2, <1>3

----------------------------------------------------------------------------
(* The invariant. *)

\* A sequence put after another.
LEMMA Joined ==
  ASSUME NEW S, NEW s \in Seq(S), NEW r \in Seq(S)
  PROVE  /\ s \o r \in Seq(S) /\ Len(s \o r) = Len(s) + Len(r)
         /\ \A k \in 1 .. Len(s) : (s \o r)[k] = s[k]
         /\ \A k \in 1 .. Len(s) + Len(r) : k > Len(s) => (s \o r)[k] = r[k - Len(s)]
  OBVIOUS

\* A block adds its logs to the end of the chain.
LEMMA Mined ==
  ASSUME TypeOK, ChainOK, Mine, MaxBlocks \in Nat, MaxPerBlock \in Nat
  PROVE  /\ height' = height + 1 /\ height' \in 0 .. MaxBlocks
         /\ chain' \in Seq(Log) /\ Len(chain) <= Len(chain')
         /\ \A k \in 1 .. Len(chain) : chain'[k] = chain[k]
         /\ \A k \in 1 .. Len(chain') : k > Len(chain) => chain'[k].block = height + 1
         /\ ChainOK'
  <1>1. height \in 0 .. MaxBlocks /\ height' = height + 1 /\ height' \in 1 .. MaxBlocks
    BY DEF TypeOK, Mine
  <1> DEFINE add(block) == [n \in DOMAIN block |-> [event |-> block[n], block |-> height + 1]]
  <1>2. PICK block \in SeqOf(Event, MaxPerBlock) :
          LET mined == chain \o add(block) IN
          /\ \A k \in DOMAIN mined \ DOMAIN chain :
               Emits({mined[j].event : j \in 1 .. k - 1}, mined[k].event)
          /\ chain' = mined
    BY Zenon DEF Mine
  <1> DEFINE new == add(block)
  <1>3. PICK m \in 0 .. MaxPerBlock : block \in [1 .. m -> Event]
    BY DEF SeqOf
  <1>4. new \in [1 .. m -> Log] /\ \A n \in 1 .. m : new[n].block = height + 1
    BY <1>1, <1>3 DEF Log
  <1>5. new \in Seq(Log) /\ Len(new) = m /\ chain \in Seq(Log) /\ m \in Nat
    <2> HIDE DEF new
    <2> QED
      BY <1>4 DEF TypeOK
  <1>6. chain' = chain \o new
    BY <1>2
  <1>7. \A k \in DOMAIN chain' \ DOMAIN chain :
          Emits({chain'[j].event : j \in 1 .. k - 1}, chain'[k].event)
    BY <1>2
  <1> HIDE DEF new
  <1>8. /\ chain' \in Seq(Log) /\ Len(chain') = Len(chain) + m
        /\ \A k \in 1 .. Len(chain) : chain'[k] = chain[k]
        /\ \A k \in 1 .. Len(chain') : k > Len(chain) => chain'[k] = new[k - Len(chain)]
    <2>1. /\ chain \o new \in Seq(Log) /\ Len(chain \o new) = Len(chain) + Len(new)
          /\ \A k \in 1 .. Len(chain) : (chain \o new)[k] = chain[k]
          /\ \A k \in 1 .. Len(chain) + Len(new) :
               k > Len(chain) => (chain \o new)[k] = new[k - Len(chain)]
      BY <1>5, Joined
    <2> QED
      BY <1>5, <1>6, <2>1, Zenon
  <1>9. \A k \in 1 .. Len(chain') : k > Len(chain) => chain'[k].block = height + 1
    BY <1>4, <1>5, <1>8
  <1>10. ChainOK'
    <2>1. /\ DOMAIN chain = 1 .. Len(chain) /\ DOMAIN chain' = 1 .. Len(chain')
          /\ Len(chain) \in Nat /\ Len(chain') \in Nat /\ Len(chain) <= Len(chain')
      BY <1>5, <1>8
    <2>2. \A k \in 1 .. Len(chain) : chain[k].block \in 1 .. MaxBlocks
      <3>1. \A k \in 1 .. Len(chain) : chain[k] \in Log
        BY <1>5
      <3> QED
        BY <3>1 DEF Log
    <2>3. /\ \A k \in DOMAIN chain' : chain'[k].block <= height'
          /\ \A j \in DOMAIN chain', k \in DOMAIN chain' :
               j < k => chain'[j].block <= chain'[k].block
      <3>1. ASSUME NEW k \in DOMAIN chain'
            PROVE  chain'[k].block \in Nat /\ chain'[k].block <= height + 1
        <4>1. CASE k \in DOMAIN chain
          <5>1. chain'[k] = chain[k] /\ chain[k].block \in 1 .. MaxBlocks
            BY <1>8, <2>1, <2>2, <4>1
          <5>2. chain[k].block <= height
            BY <4>1 DEF ChainOK
          <5> QED
            BY <1>1, <5>1, <5>2
        <4>2. CASE k \notin DOMAIN chain
          <5>1. k \in 1 .. Len(chain') /\ k > Len(chain)
            BY <2>1, <4>2
          <5> QED
            BY <1>1, <1>9, <5>1
        <4> QED
          BY <4>1, <4>2
      <3>2. ASSUME NEW j \in DOMAIN chain', NEW k \in DOMAIN chain', j < k
            PROVE  chain'[j].block <= chain'[k].block
        <4>1. CASE k \in DOMAIN chain
          <5>1. j \in DOMAIN chain
            BY <2>1, <3>2, <4>1
          <5>2. chain'[k] = chain[k] /\ chain'[j] = chain[j]
            BY <1>8, <2>1, <4>1, <5>1
          <5>3. chain[j].block <= chain[k].block
            BY <3>2, <4>1, <5>1 DEF ChainOK
          <5> QED
            BY <5>2, <5>3
        <4>2. CASE k \notin DOMAIN chain
          <5>1. k \in 1 .. Len(chain') /\ k > Len(chain)
            BY <2>1, <4>2
          <5>2. chain'[k].block = height + 1
            BY <1>9, <5>1
          <5> QED
            BY <3>1, <5>2
        <4> QED
          BY <4>1, <4>2
      <3> QED
        BY <1>1, <3>1, <3>2
    <2>4. ASSUME NEW k \in DOMAIN chain'
          PROVE  Emits({chain'[j].event : j \in 1 .. k - 1}, chain'[k].event)
      <3>1. CASE k \in DOMAIN chain
        <4>1. {chain'[j].event : j \in 1 .. k - 1} = {chain[j].event : j \in 1 .. k - 1}
          <5>1. \A j \in 1 .. k - 1 : chain'[j] = chain[j]
            BY <1>8, <2>1, <3>1
          <5> QED
            BY <5>1
        <4>2. chain'[k] = chain[k]
          BY <1>8, <2>1, <3>1
        <4>3. Emits({chain[j].event : j \in 1 .. k - 1}, chain[k].event)
          BY <3>1 DEF ChainOK
        <4> QED
          BY <4>1, <4>2, <4>3, Zenon
      <3>2. CASE k \notin DOMAIN chain
        BY <1>7, <3>2
      <3> QED
        BY <3>1, <3>2
    <2> QED
      BY <2>3, <2>4 DEF ChainOK
  <1> QED
    BY <1>1, <1>5, <1>8, <1>9, <1>10

\* All along a batch the tables are tables, and the cursor waits.
LEMMA BatchType ==
  ASSUME TypeOK, ChainOK, 0 \notin Deals, NEW from, NEW to
  PROVE  /\ \A k \in 0 .. Len(chain) : \A t \in Applied(from, to)[k] :
              t \in Tables /\ t.cursor = db.cursor
         /\ \A k \in GetLogs(from, to) : \A t \in Applied(from, to)[k - 1] :
              \A s \in ToSet(handleEvent(t, chain[k].event)) :
                s \in Tables /\ s.cursor = db.cursor
  <1> DEFINE Still == {t \in Tables : t.cursor = db.cursor}
             Fine == [k \in 0 .. Len(chain) |-> Still]
  <1>1. chain \in Seq(Log) /\ db \in Still /\ 0 \in 0 .. Len(chain)
    BY DEF TypeOK
  <1>2. ASSUME NEW k \in DOMAIN chain, NEW t \in Still
        PROVE  \A s \in {t} \cup ToSet(handleEvent(t, chain[k].event)) : s \in Still
    <2>1. Sound(chain[k].event)
      BY <1>1, LogsAreSound
    <2> QED
      BY <2>1, HandlersType
  <1>3. ASSUME NEW k \in DOMAIN chain, NEW t \in Still
        PROVE  Handled(t, chain[k].event) \subseteq Still
    <2>1. Sound(chain[k].event)
      BY <1>1, LogsAreSound
    <2>2. Handled(t, chain[k].event) \subseteq {t} \cup ToSet(handleEvent(t, chain[k].event))
      BY <2>1, HandlersType
    <2> QED
      BY <1>2, <2>2
  <1>4. \A k \in 1 .. Len(chain) :
          k \in DOMAIN chain /\ k - 1 \in 0 .. Len(chain) /\ k \in 0 .. Len(chain)
    BY <1>1
  <1> HIDE DEF Still
  <1>5. \A k \in 0 .. Len(chain) : Fine[k] = Still
    OBVIOUS
  <1> HIDE DEF Fine
  <1>6. \A k \in 1 .. Len(chain) : \A t \in Fine[k - 1] :
          IF k \in GetLogs(from, to) THEN Handled(t, chain[k].event) \subseteq Fine[k]
          ELSE t \in Fine[k]
    BY <1>3, <1>4, <1>5
  <1>7. db \in Fine[0]
    BY <1>1, <1>5
  <1>8. \A k \in 0 .. Len(chain) : Applied(from, to)[k] \subseteq Still
    BY <1>1, <1>5, <1>6, <1>7, AllAlong
  <1>9. \A k \in GetLogs(from, to) : k \in DOMAIN chain /\ k \in 1 .. Len(chain)
    BY <1>1 DEF GetLogs
  <1>10. \A k \in GetLogs(from, to) : \A t \in Applied(from, to)[k - 1] :
           \A s \in ToSet(handleEvent(t, chain[k].event)) : s \in Still
    BY <1>2, <1>4, <1>8, <1>9
  <1> QED
    BY <1>8, <1>10 DEF Still

\* A window of a backfill: where it leaves the cursor and what its batch leaves of the tables.
LEMMA WindowType ==
  ASSUME IndexerAssumption, Inv, NEW b \in Backfills
  PROVE  LET t == task[b] IN
         /\ t \in [at : {"idle", "head", "logs"}, cursor : Nat, from : Nat, head : Nat,
                   first : BOOLEAN]
         /\ t.head <= height /\ t.cursor <= db.cursor
         /\ Scanned(t) \in 0 .. height
         /\ t.from <= t.head =>
              WindowEnd(t) \in t.from .. t.head /\ Asked(t) = {WindowEnd(t)}
         /\ ~ (t.from <= t.head) => t.from > t.head /\ Asked(t) = (t.from - 1) .. height
         /\ WindowEnd(t) + 1 \in Nat
  <1> DEFINE t == task[b]
  <1>1. /\ t \in [at : {"idle", "head", "logs"}, cursor : Nat, from : Nat, head : Nat,
                  first : BOOLEAN]
        /\ t.head <= height /\ t.cursor <= db.cursor /\ height \in Nat
    BY DEF Inv, TypeOK, TaskOK
  <1>2. t.from \in Nat /\ t.head \in Nat /\ MAX_RANGE \in Nat /\ MAX_RANGE >= 1
    BY <1>1 DEF IndexerAssumption
  <1> HIDE DEF t
  <1>3. t.from <= t.head => WindowEnd(t) \in t.from .. t.head /\ Asked(t) = {WindowEnd(t)}
    BY <1>2 DEF WindowEnd, Asked
  <1>4. ~ (t.from <= t.head) => t.from > t.head /\ Asked(t) = (t.from - 1) .. height
    BY <1>2 DEF Asked
  <1>5. WindowEnd(t) + 1 \in Nat
    BY <1>2 DEF WindowEnd
  <1>6. Scanned(t) \in 0 .. height
    <2>1. CASE t.from <= t.head
      <3>1. Scanned(t) = WindowEnd(t)
        BY <1>2, <2>1 DEF Scanned
      <3> QED
        BY <1>1, <1>2, <1>3, <2>1, <3>1
    <2>2. CASE ~ (t.from <= t.head)
      BY <1>1, <1>2, <1>4, <2>2 DEF Scanned
    <2> QED
      BY <2>1, <2>2
  <1> QED
    BY <1>1, <1>3, <1>4, <1>5, <1>6 DEF t

\* applyLogs leaves what its last handler left, with the cursor moved on to the newest log.
LEMMA BatchEnds ==
  ASSUME IndexerAssumption, Inv, NEW from, NEW to
  PROVE  /\ Newest(from, to) \in 0 .. height
         /\ \A s \in applyLogs(from, to) :
              \E t \in Applied(from, to)[Len(chain)] :
                /\ t \in Tables /\ t.cursor = db.cursor
                /\ s \in Tables /\ s.listing = t.listing /\ s.deal = t.deal
                /\ s.timeline = t.timeline
                /\ s.cursor = IF Newest(from, to) > db.cursor THEN Newest(from, to) ELSE db.cursor
  <1>1. chain \in Seq(Log) /\ height \in 0 .. MaxBlocks /\ MaxBlocks \in Nat
    BY DEF Inv, TypeOK, IndexerAssumption
  <1>2. Newest(from, to) \in 0 .. height
    <2>1. /\ Newest(from, to) \in 0 .. MaxBlocks
          /\ Newest(from, to) = 0 \/ \E k \in GetLogs(from, to) : chain[k].block = Newest(from, to)
      BY <1>1, NewestLog
    <2>2. \A k \in GetLogs(from, to) : chain[k].block <= height
      BY DEF Inv, ChainOK, GetLogs
    <2> QED
      BY <1>1, <2>1, <2>2
  <1>3. ASSUME NEW s \in applyLogs(from, to)
        PROVE  \E t \in Applied(from, to)[Len(chain)] :
                 /\ t \in Tables /\ t.cursor = db.cursor
                 /\ s \in Tables /\ s.listing = t.listing /\ s.deal = t.deal
                 /\ s.timeline = t.timeline
                 /\ s.cursor = IF Newest(from, to) > db.cursor THEN Newest(from, to) ELSE db.cursor
    <2>1. PICK t \in Applied(from, to)[Len(chain)] : s = Moved(t, Newest(from, to))
      BY DEF applyLogs
    <2>2. Len(chain) \in 0 .. Len(chain)
      BY <1>1
    <2>3. t \in Tables /\ t.cursor = db.cursor
      BY <2>2, BatchType DEF Inv, IndexerAssumption
    <2>4. Newest(from, to) \in 0 .. MaxBlocks
      BY <1>1, <1>2
    <2>5. /\ s \in Tables /\ s.listing = t.listing /\ s.deal = t.deal /\ s.timeline = t.timeline
          /\ s.cursor = IF Newest(from, to) > t.cursor THEN Newest(from, to) ELSE t.cursor
      BY <2>1, <2>3, <2>4, Statements
    <2> QED
      BY <2>3, <2>5
  <1> QED
    BY <1>2, <1>3

\* A step of a backfill whose logs arrived, and the cursor it leaves.
LEMMA LogsType ==
  ASSUME IndexerAssumption, Inv, NEW b \in Backfills, GotLogs(b)
  PROVE  \E to \in Asked(task[b]) :
           /\ \E s \in Applied(task[b].from, to)[Len(chain)] :
                /\ s \in Tables /\ s.cursor = db.cursor
                /\ db' \in Tables /\ db'.listing = s.listing /\ db'.deal = s.deal
                /\ db'.timeline = s.timeline
           /\ LET top == Newest(task[b].from, to)
                  end == Scanned(task[b])
              IN  /\ top \in 0 .. height /\ end \in 0 .. height
                  /\ db'.cursor \in {db.cursor, top, end} \cap (0 .. height)
                  /\ db'.cursor >= db.cursor /\ db'.cursor >= top /\ db'.cursor >= end
                  /\ reach' \in {reach, top} /\ reach' >= reach /\ reach' >= top
  <1> DEFINE t == task[b]
  <1>1. PICK to \in Asked(t) :
          /\ \E tables \in applyLogs(t.from, to) : db' = Moved(tables, Scanned(t))
          /\ reach' = Max({reach, Newest(t.from, to)})
    BY DEF GotLogs
  <1> DEFINE top == Newest(t.from, to)
             end == Scanned(t)
  <1>2. PICK tables \in applyLogs(t.from, to) : db' = Moved(tables, end)
    BY <1>1
  <1>3. end \in 0 .. height
    BY WindowType
  <1>4. /\ top \in 0 .. height
        /\ \E s \in Applied(t.from, to)[Len(chain)] :
             /\ s \in Tables /\ s.cursor = db.cursor
             /\ tables \in Tables /\ tables.listing = s.listing /\ tables.deal = s.deal
             /\ tables.timeline = s.timeline
             /\ tables.cursor = IF top > db.cursor THEN top ELSE db.cursor
    BY BatchEnds
  <1>5. height \in 0 .. MaxBlocks /\ reach \in 0 .. height /\ db.cursor \in 0 .. height
    BY DEF Inv, TypeOK, Tables
  <1> HIDE DEF top, end, t
  <1>6. PICK s \in Applied(t.from, to)[Len(chain)] :
             /\ s \in Tables /\ s.cursor = db.cursor
             /\ tables \in Tables /\ tables.listing = s.listing /\ tables.deal = s.deal
             /\ tables.timeline = s.timeline
             /\ tables.cursor = IF top > db.cursor THEN top ELSE db.cursor
    BY <1>4
  <1>7. end \in 0 .. MaxBlocks /\ tables \in Tables
    BY <1>3, <1>5, <1>6
  <1>8. /\ db' \in Tables /\ db'.listing = tables.listing /\ db'.deal = tables.deal
        /\ db'.timeline = tables.timeline
        /\ db'.cursor = IF end > tables.cursor THEN end ELSE tables.cursor
    BY <1>2, <1>7, Statements
  <1>9. /\ db'.cursor \in {db.cursor, top, end} \cap (0 .. height)
        /\ db'.cursor >= db.cursor /\ db'.cursor >= top /\ db'.cursor >= end
    BY <1>3, <1>4, <1>5, <1>6, <1>8
  <1>10. reach' \in {reach, top} /\ reach' >= reach /\ reach' >= top
    <2>1. {reach, top} \in SUBSET (0 .. height) /\ height \in Nat
      BY <1>4, <1>5
    <2>2. Max({reach, top}) \in {reach, top} /\ \A y \in {reach, top} : y <= Max({reach, top})
      BY <2>1, Greatest
    <2>3. reach' = Max({reach, top})
      BY <1>1 DEF top
    <2> QED
      BY <1>4, <1>5, <2>2, <2>3
  <1> QED
    BY <1>3, <1>4, <1>6, <1>8, <1>9, <1>10 DEF top, end, t

\* A process killed in a batch leaves tables that some statement of the batch left, or all of it.
LEMMA CrashType ==
  ASSUME IndexerAssumption, Inv, NEW b \in Backfills, CrashInBatch(b)
  PROVE  \E to \in Asked(task[b]) :
           \/ \E k \in GetLogs(task[b].from, to) :
                /\ \E t \in Applied(task[b].from, to)[k - 1] :
                     db' \in ToSet(handleEvent(t, chain[k].event))
                /\ db' \in Tables /\ db'.cursor = db.cursor
                /\ reach' \in {reach, chain[k].block} \cap (0 .. height)
                /\ reach' >= reach /\ reach' >= chain[k].block
           \/ LET top == Newest(task[b].from, to) IN
              /\ \E s \in Applied(task[b].from, to)[Len(chain)] :
                   /\ s \in Tables /\ s.cursor = db.cursor
                   /\ db' \in Tables /\ db'.listing = s.listing /\ db'.deal = s.deal
                   /\ db'.timeline = s.timeline
              /\ top \in 0 .. height
              /\ db'.cursor \in {db.cursor, top} /\ db'.cursor >= db.cursor /\ db'.cursor >= top
              /\ reach' \in {reach, top} /\ reach' >= reach /\ reach' >= top
  <1> DEFINE t == task[b]
  <1>1. PICK to \in Asked(t) :
          \/ \E k \in GetLogs(t.from, to) :
               /\ \E tables \in Applied(t.from, to)[k - 1] :
                    db' \in ToSet(handleEvent(tables, chain[k].event))
               /\ reach' = Max({reach, chain[k].block})
          \/ db' \in applyLogs(t.from, to) /\ reach' = Max({reach, Newest(t.from, to)})
    BY DEF CrashInBatch
  <1>2. /\ height \in 0 .. MaxBlocks /\ reach \in 0 .. height /\ db.cursor \in 0 .. height
        /\ chain \in Seq(Log)
    BY DEF Inv, TypeOK, Tables
  <1> HIDE DEF t
  <1>3. ASSUME NEW n \in 0 .. height
        PROVE  Max({reach, n}) \in {reach, n} /\ Max({reach, n}) >= reach /\ Max({reach, n}) >= n
    <2>1. {reach, n} \in SUBSET (0 .. height) /\ height \in Nat
      BY <1>2
    <2>2. Max({reach, n}) \in {reach, n} /\ \A y \in {reach, n} : y <= Max({reach, n})
      BY <2>1, Greatest
    <2> QED
      BY <1>2, <2>2
  <1>4. ASSUME NEW k \in GetLogs(t.from, to),
               \E tables \in Applied(t.from, to)[k - 1] :
                 db' \in ToSet(handleEvent(tables, chain[k].event)),
               reach' = Max({reach, chain[k].block})
        PROVE  /\ db' \in Tables /\ db'.cursor = db.cursor
               /\ reach' \in {reach, chain[k].block} \cap (0 .. height)
               /\ reach' >= reach /\ reach' >= chain[k].block
    <2>1. chain[k].block \in 0 .. height
      <3>1. chain[k] \in Log /\ chain[k].block <= height
        BY <1>2 DEF GetLogs, Inv, ChainOK
      <3> QED
        BY <1>2, <3>1 DEF Log
    <2>2. db' \in Tables /\ db'.cursor = db.cursor
      BY <1>4, BatchType DEF Inv, IndexerAssumption
    <2>3. LET n == chain[k].block IN
          reach' \in {reach, n} /\ reach' >= reach /\ reach' >= n
      BY <1>3, <1>4, <2>1
    <2> QED
      BY <1>2, <2>1, <2>2, <2>3
  <1>5. ASSUME db' \in applyLogs(t.from, to), reach' = Max({reach, Newest(t.from, to)})
        PROVE  LET top == Newest(t.from, to) IN
               /\ \E s \in Applied(t.from, to)[Len(chain)] :
                    /\ s \in Tables /\ s.cursor = db.cursor
                    /\ db' \in Tables /\ db'.listing = s.listing /\ db'.deal = s.deal
                    /\ db'.timeline = s.timeline
               /\ top \in 0 .. height
               /\ db'.cursor \in {db.cursor, top} /\ db'.cursor >= db.cursor /\ db'.cursor >= top
               /\ reach' \in {reach, top} /\ reach' >= reach /\ reach' >= top
    <2> DEFINE top == Newest(t.from, to)
    <2>1. /\ top \in 0 .. height
          /\ \E s \in Applied(t.from, to)[Len(chain)] :
               /\ s \in Tables /\ s.cursor = db.cursor
               /\ db' \in Tables /\ db'.listing = s.listing /\ db'.deal = s.deal
               /\ db'.timeline = s.timeline
               /\ db'.cursor = IF top > db.cursor THEN top ELSE db.cursor
      BY <1>5, BatchEnds
    <2>2. Max({reach, top}) \in {reach, top} /\ Max({reach, top}) >= reach
          /\ Max({reach, top}) >= top
      BY <1>3, <2>1
    <2> HIDE DEF top
    <2>3. reach' = Max({reach, top})
      BY <1>5 DEF top
    <2>4. db'.cursor \in {db.cursor, top} /\ db'.cursor >= db.cursor /\ db'.cursor >= top
      BY <1>2, <2>1
    <2> QED
      BY <2>1, <2>2, <2>3, <2>4 DEF top
  <1> QED
    BY <1>1, <1>4, <1>5, Zenon DEF t

\* At the start the chain is empty, and nothing has been read of it.
LEMMA InvInit ==
  ASSUME IndexerAssumption, Init
  PROVE  Inv
  <1>1. MaxBlocks \in Nat /\ MaxCrashes \in Nat
    BY DEF IndexerAssumption
  <1>2. EmptyDb \in Tables /\ EmptyDb.cursor = 0
    <2>1. NoRow \in Row
      BY DEF NoRow, Row
    <2> QED
      BY <1>1, <2>1 DEF EmptyDb, Tables
  <1>3. Idle \in [at : {"idle", "head", "logs"}, cursor : Nat, from : Nat, head : Nat,
                  first : BOOLEAN]
        /\ Idle.head = 0 /\ Idle.cursor = 0
    BY DEF Idle
  <1>4. chain = <<>> /\ chain \in Seq(Log) /\ DOMAIN chain = {}
    BY DEF Init
  <1>5. ChainOK
    BY <1>4, Zenon DEF ChainOK
  <1>6. /\ \A b \in Backfills : task[b] = Idle
        /\ task \in [Backfills -> [at : {"idle", "head", "logs"}, cursor : Nat, from : Nat,
                                   head : Nat, first : BOOLEAN]]
    BY <1>3 DEF Init
  <1>7. \A b \in Backfills : TaskOK(task[b])
    BY <1>2, <1>3, <1>6 DEF TaskOK, Init
  <1>8. TypeOK
    <2>1. height \in 0 .. MaxBlocks /\ reach \in 0 .. MaxBlocks /\ crashes \in 0 .. MaxCrashes
      BY <1>1 DEF Init
    <2>2. db \in Tables /\ up \in BOOLEAN /\ timer \in BOOLEAN
      BY <1>2 DEF Init
    <2> QED
      BY <1>4, <1>6, <2>1, <2>2, Zenon DEF TypeOK
  <1> QED
    BY <1>2, <1>5, <1>7, <1>8 DEF Inv, Init

Tasks == [at : {"idle", "head", "logs"}, cursor : Nat, from : Nat, head : Nat, first : BOOLEAN]

\* The task of a backfill that begins.
LEMMA Begun ==
  ASSUME NEW c \in Nat, NEW f \in BOOLEAN
  PROVE  LET t == [Idle EXCEPT !.at = "head", !.cursor = c, !.first = f]
         IN  t \in Tasks /\ t.at = "head" /\ t.head = 0 /\ t.cursor = c
  BY DEF Idle, Tasks

\* Every step keeps the chain in order, and cursors, heads and what was applied behind it.
LEMMA InvNext ==
  ASSUME IndexerAssumption, Inv, [Next]_vars
  PROVE  Inv'
  <1>1. /\ MaxBlocks \in Nat /\ MaxPerBlock \in Nat /\ MaxCrashes \in Nat /\ FromBlock \in Nat
        /\ MAX_RANGE \in Nat
    BY DEF IndexerAssumption
  <1>2. /\ height \in 0 .. MaxBlocks /\ db \in Tables /\ task \in [Backfills -> Tasks]
        /\ reach \in 0 .. height /\ db.cursor \in 0 .. height /\ crashes \in 0 .. MaxCrashes
        /\ up \in BOOLEAN /\ timer \in BOOLEAN /\ chain \in Seq(Log)
        /\ \A b \in Backfills : task[b].head <= height /\ task[b].cursor <= db.cursor
    BY DEF Inv, TypeOK, Tasks, Tables, TaskOK
  <1>3. Idle \in Tasks /\ Idle.head = 0 /\ Idle.cursor = 0
    BY DEF Idle, Tasks
  <1>4. ASSUME NEW b \in Backfills, NEW t \in Tasks, task' = [task EXCEPT ![b] = t],
               t.head <= height, t.cursor <= db'.cursor, db' \in Tables, db'.cursor \in 0 .. height,
               db.cursor <= db'.cursor, reach' \in 0 .. height, up' \in BOOLEAN, timer' \in BOOLEAN,
               UNCHANGED <<height, chain, crashes>>
        PROVE  Inv'
    <2>1. /\ task' \in [Backfills -> Tasks]
          /\ \A c \in Backfills : task'[c].head <= height /\ task'[c].cursor <= db'.cursor
      <3>1. \A c \in Backfills : task'[c] = IF c = b THEN t ELSE task[c]
        BY <1>2, <1>4
      <3>2. \A c \in Backfills : task[c].cursor \in Nat
        BY <1>2 DEF Tasks
      <3>3. \A c \in Backfills : task[c].cursor <= db'.cursor
        BY <1>2, <1>4, <3>2
      <3>4. task' \in [Backfills -> Tasks]
        BY <1>2, <1>4
      <3> QED
        BY <1>2, <1>4, <3>1, <3>3, <3>4
    <2>2. ChainOK'
      BY <1>4 DEF Inv, ChainOK
    <2>3. /\ TypeOK' /\ db'.cursor <= height' /\ reach' <= height'
          /\ \A c \in Backfills : TaskOK(task[c])'
      <3>1. height' = height /\ chain' = chain /\ crashes' = crashes
        BY <1>4
      <3>2. reach' \in 0 .. MaxBlocks /\ db'.cursor <= height' /\ reach' <= height'
        BY <1>2, <1>4, <3>1
      <3>3. \A c \in Backfills : TaskOK(task[c])'
        BY <2>1, <3>1 DEF TaskOK
      <3>4. TypeOK'
        BY <1>2, <1>4, <2>1, <3>1, <3>2, Zenon DEF TypeOK, Tasks
      <3> QED
        BY <3>2, <3>3, <3>4
    <2> QED
      BY <2>2, <2>3 DEF Inv
  <1>5. ASSUME db' \in Tables, db'.cursor \in 0 .. height, reach' \in 0 .. height, Die
        PROVE  Inv'
    <2>1. /\ task' = [b \in Backfills |-> Idle] /\ up' = FALSE /\ timer' = FALSE
          /\ crashes' \in 0 .. MaxCrashes /\ height' = height /\ chain' = chain
      BY <1>1, <1>2, <1>5 DEF Die
    <2>2. /\ task' \in [Backfills -> Tasks]
          /\ \A c \in Backfills : task'[c].head <= height /\ task'[c].cursor <= db'.cursor
      BY <1>2, <1>3, <1>5, <2>1
    <2>3. ChainOK'
      BY <2>1 DEF Inv, ChainOK
    <2>4. reach' \in 0 .. MaxBlocks /\ db'.cursor <= height' /\ reach' <= height'
      BY <1>2, <1>5, <2>1
    <2>5. \A c \in Backfills : TaskOK(task[c])'
      BY <2>1, <2>2 DEF TaskOK
    <2>6. up' \in BOOLEAN /\ timer' \in BOOLEAN
      BY <2>1
    <2>7. TypeOK'
      BY <1>2, <1>5, <2>1, <2>2, <2>4, <2>6, Zenon DEF TypeOK, Tasks
    <2> QED
      BY <2>3, <2>4, <2>5, <2>7 DEF Inv
  <1>6. CASE Mine
    <2>1. /\ height' = height + 1 /\ height' \in 0 .. MaxBlocks /\ chain' \in Seq(Log) /\ ChainOK'
      BY <1>1, <1>6, Mined DEF Inv
    <2>2. UNCHANGED <<db, up, timer, task, reach, crashes>>
      BY <1>6 DEF Mine
    <2>3. db.cursor <= height' /\ reach <= height' /\ reach \in 0 .. MaxBlocks
      BY <1>2, <2>1
    <2>4. \A c \in Backfills : TaskOK(task[c])'
      <3>1. \A c \in Backfills : task[c].head \in Nat /\ task[c].head <= height
                                 /\ task[c].cursor <= db.cursor
        BY <1>2 DEF Tasks
      <3> QED
        BY <1>2, <2>1, <2>2, <3>1 DEF TaskOK
    <2>5. TypeOK'
      BY <1>2, <2>1, <2>2, <2>3, Zenon DEF TypeOK, Tasks
    <2> QED
      BY <2>1, <2>2, <2>3, <2>4, <2>5 DEF Inv
  <1>7. CASE Crash
    BY <1>2, <1>5, <1>7 DEF Crash
  <1>8. ASSUME NEW b \in Backfills, Boot(b) \/ Poll(b)
        PROVE  Inv'
    <2>1. PICK f \in BOOLEAN : Begin(b, f)
      BY <1>8 DEF Boot, Poll
    <2>2. UNCHANGED <<height, chain, db, timer, reach, crashes>> /\ up' \in BOOLEAN
      BY <1>2, <1>8 DEF Boot, Poll
    <2> DEFINE t == [Idle EXCEPT !.at = "head", !.cursor = db.cursor, !.first = f]
    <2>3. t \in Tasks /\ t.head = 0 /\ t.cursor = db.cursor
      <3>1. db.cursor \in Nat
        BY <1>2
      <3> QED
        BY <3>1, Begun
    <2>4. task' = [task EXCEPT ![b] = t]
      BY <2>1 DEF Begin
    <2> HIDE DEF t
    <2>5. /\ t.head <= height /\ t.cursor <= db'.cursor /\ db'.cursor \in 0 .. height
          /\ db.cursor <= db'.cursor
      BY <1>2, <2>2, <2>3
    <2>6. db' \in Tables /\ reach' \in 0 .. height /\ timer' \in BOOLEAN
      BY <1>2, <2>2
    <2> QED
      BY <1>4, <2>2, <2>3, <2>4, <2>5, <2>6
  <1>9. ASSUME NEW b \in Backfills, NEW head \in 0 .. height, GotHead(b, head)
        PROVE  Inv'
    <2>1. Resume(task[b].cursor) \in Nat
      BY <1>1, <1>2 DEF Resume, Tasks
    <2> DEFINE r == Resume(task[b].cursor)
               t == [task[b] EXCEPT !.at = "logs", !.head = head, !.from = r]
    <2>2. /\ task' = [task EXCEPT ![b].at = "logs", ![b].head = head, ![b].from = r]
          /\ UNCHANGED <<height, chain, db, up, timer, reach, crashes>>
      BY <1>9 DEF GotHead
    <2>3. task' = [task EXCEPT ![b] = t]
      <3> HIDE DEF r
      <3> QED
        BY <1>2, <2>2
    <2>4. t \in Tasks /\ t.head = head /\ t.cursor = task[b].cursor
      <3>1. head \in Nat /\ r \in Nat /\ task[b] \in Tasks
        BY <1>2, <2>1
      <3> HIDE DEF r
      <3> QED
        BY <3>1 DEF Tasks
    <2> HIDE DEF t, r
    <2>5. t.head <= height /\ t.cursor <= db.cursor
      BY <1>2, <2>4
    <2>6. t.cursor <= db'.cursor /\ db'.cursor \in 0 .. height /\ db.cursor <= db'.cursor
      BY <1>2, <2>2, <2>5
    <2>7. db' \in Tables /\ reach' \in 0 .. height /\ timer' \in BOOLEAN /\ up' \in BOOLEAN
      BY <1>2, <2>2
    <2> QED
      BY <1>4, <2>2, <2>3, <2>4, <2>5, <2>6, <2>7
  <1>10. ASSUME NEW b \in Backfills, GotLogs(b)
         PROVE  Inv'
    <2>1. db' \in Tables /\ db'.cursor \in 0 .. height /\ db'.cursor >= db.cursor
          /\ reach' \in 0 .. height
      <3>1. \E to \in Asked(task[b]) :
              LET top == Newest(task[b].from, to) IN
              /\ db' \in Tables
              /\ db'.cursor \in 0 .. height /\ db'.cursor >= db.cursor
              /\ top \in 0 .. height /\ reach' \in {reach, top}
        BY <1>10, LogsType
      <3> QED
        BY <1>2, <3>1
    <2> DEFINE e == WindowEnd(task[b]) + 1
               t == IF Finishes(task[b]) THEN Idle ELSE [task[b] EXCEPT !.from = e]
    <2>2. /\ task' = [task EXCEPT ![b] = t]
          /\ timer' \in BOOLEAN /\ UNCHANGED <<height, chain, up, crashes>>
      <3>1. /\ task' = [task EXCEPT ![b] = t] /\ UNCHANGED <<height, chain, up, crashes>>
            /\ timer' = (timer \/ (Finishes(task[b]) /\ task[b].first))
        BY <1>10 DEF GotLogs
      <3> QED
        BY <3>1
    <2>3. t \in Tasks /\ t.head <= height /\ t.cursor <= db'.cursor
      <3>1. e \in Nat /\ task[b] \in Tasks
        BY <1>2, WindowType
      <3> HIDE DEF e
      <3>2. CASE Finishes(task[b])
        BY <1>2, <1>3, <2>1, <3>2
      <3>3. CASE ~ Finishes(task[b])
        <4>1. t \in Tasks /\ t.head = task[b].head /\ t.cursor = task[b].cursor
          BY <3>1, <3>3 DEF Tasks
        <4> HIDE DEF t
        <4>2. task[b].cursor \in Nat /\ db.cursor \in Nat /\ db'.cursor \in Nat
          BY <1>2, <2>1, <3>1 DEF Tasks
        <4> QED
          BY <1>2, <2>1, <4>1, <4>2
      <3> QED
        BY <3>2, <3>3
    <2> HIDE DEF t
    <2>4. db.cursor <= db'.cursor /\ up' \in BOOLEAN
      BY <1>2, <2>1, <2>2
    <2> QED
      BY <1>4, <2>1, <2>2, <2>3, <2>4
  <1>11. ASSUME NEW b \in Backfills, RpcFails(b)
         PROVE  Inv'
    <2>1. /\ task' = [task EXCEPT ![b] = Idle]
          /\ UNCHANGED <<height, chain, db, up, timer, reach, crashes>>
      BY <1>11 DEF RpcFails
    <2>2. /\ Idle.head <= height /\ Idle.cursor <= db'.cursor /\ db'.cursor \in 0 .. height
          /\ db.cursor <= db'.cursor
      BY <1>2, <1>3, <2>1
    <2>3. db' \in Tables /\ reach' \in 0 .. height /\ timer' \in BOOLEAN /\ up' \in BOOLEAN
      BY <1>2, <2>1
    <2> QED
      BY <1>3, <1>4, <2>1, <2>2, <2>3
  <1>12. ASSUME NEW b \in Backfills, CrashInBatch(b)
         PROVE  Inv'
    <2>1. db' \in Tables /\ db'.cursor \in 0 .. height /\ reach' \in 0 .. height
      <3>1. \E to \in Asked(task[b]) :
              LET top == Newest(task[b].from, to) IN
              /\ db' \in Tables
              /\ \/ db'.cursor = db.cursor /\ reach' \in 0 .. height
                 \/ /\ top \in 0 .. height /\ db'.cursor \in {db.cursor, top}
                    /\ reach' \in {reach, top}
        BY <1>12, CrashType
      <3> QED
        BY <1>2, <3>1
    <2>2. Die
      BY <1>12 DEF CrashInBatch
    <2> QED
      BY <1>5, <2>1, <2>2
  <1>13. CASE UNCHANGED vars
    <2>1. /\ height' = height /\ chain' = chain /\ db' = db /\ up' = up /\ timer' = timer
          /\ task' = task /\ reach' = reach /\ crashes' = crashes
      BY <1>13 DEF vars
    <2>2. ChainOK' /\ TypeOK' /\ \A b \in Backfills : TaskOK(task[b])'
      BY <2>1 DEF Inv, TypeOK, ChainOK, TaskOK
    <2> QED
      BY <2>1, <2>2 DEF Inv
  <1> QED
    BY <1>6, <1>7, <1>8, <1>9, <1>10, <1>11, <1>12, <1>13 DEF Next

\* The invariant holds in every state.
THEOREM Invariance == Spec => []Inv
  <1>1. Init => Inv
    BY IndexerAssumption, InvInit
  <1>2. Inv /\ [Next]_vars => Inv'
    BY IndexerAssumption, InvNext
  <1> QED
    BY <1>1, <1>2, PTL DEF Spec

\* Every run keeps to the types: the cursor and what has been applied stay within the chain.
THEOREM TypeCorrect == Spec => []TypeOK
  <1>1. Inv => TypeOK
    BY DEF Inv
  <1> QED
    BY <1>1, Invariance, PTL

----------------------------------------------------------------------------
(* The timelines. *)

\* A deal's logs have consecutive places.
LEMMA Places ==
  ASSUME chain \in Seq(Log), NEW d, NEW k \in Its(d)
  PROVE  /\ Place(d, k) \in Nat \ {0}
         /\ \A j \in Its(d) : j < k => Place(d, j) < Place(d, k)
         /\ Place(d, k) = 1 \/ \E j \in Its(d) : j < k /\ Place(d, k) = Place(d, j) + 1
  <1> DEFINE To(j) == {i \in Its(d) : i <= j}
  <1>1. Its(d) \in SUBSET (1 .. Len(chain)) /\ Len(chain) \in Nat
    BY DEF Its
  <1>2. ASSUME NEW j \in Its(d)
        PROVE  IsFiniteSet(To(j)) /\ Cardinality(To(j)) \in Nat \ {0} /\ Place(d, j) = Cardinality(To(j))
    <2>1. To(j) \in SUBSET Nat /\ j \in Nat /\ \A i \in To(j) : i <= j
      BY <1>1
    <2>2. j \in To(j)
      BY <1>1
    <2>3. Place(d, j) = Cardinality(To(j))
      BY DEF Place
    <2> HIDE DEF To
    <2>4. IsFiniteSet(To(j))
      BY <2>1, FS_BoundedSetOfNaturals
    <2>5. Cardinality(To(j)) \in Nat /\ Cardinality(To(j)) # 0
      BY <2>2, <2>4, FS_CardinalityType, FS_EmptySet
    <2> QED
      BY <2>3, <2>4, <2>5
  <1>3. ASSUME NEW j \in Its(d), j < k
        PROVE  Place(d, j) < Place(d, k)
    <2>1. To(j) \in SUBSET To(k) /\ k \in To(k) /\ k \notin To(j)
      BY <1>1, <1>3
    <2> HIDE DEF To
    <2>2. Cardinality(To(j)) <= Cardinality(To(k)) /\ Cardinality(To(k)) # Cardinality(To(j))
      BY <1>2, <2>1, FS_Subset
    <2> QED
      BY <1>2, <2>2
  <1>4. Place(d, k) = 1 \/ \E j \in Its(d) : j < k /\ Place(d, k) = Place(d, j) + 1
    <2> DEFINE S == {i \in Its(d) : i < k}
    <2>1. Cardinality(To(k) \ {k}) = Cardinality(To(k)) - 1 /\ k \in To(k)
      <3>1. k \in To(k)
        BY <1>1
      <3> HIDE DEF To
      <3> QED
        BY <1>2, <3>1, FS_RemoveElement
    <2>2. To(k) \ {k} = S
      BY <1>1
    <2>3. CASE S = {}
      <3>1. Cardinality(S) = 0
        BY <2>3, FS_EmptySet
      <3> HIDE DEF To, S
      <3>2. Cardinality(To(k)) - 1 = 0
        BY <2>1, <2>2, <3>1
      <3>3. Cardinality(To(k)) \in Nat /\ Place(d, k) = Cardinality(To(k))
        BY <1>2
      <3> QED
        BY <3>2, <3>3
    <2>4. CASE S # {}
      <3>1. S \in SUBSET (0 .. Len(chain))
        BY <1>1
      <3>2. Max(S) \in S /\ \A i \in S : i <= Max(S)
        <4> HIDE DEF S
        <4> QED
          BY <1>1, <2>4, <3>1, Greatest
      <3>3. PICK j \in S : \A i \in S : i <= j
        BY <3>2
      <3>4. To(j) = S /\ j \in Its(d) /\ j < k
        BY <1>1, <3>3
      <3>5. Cardinality(To(j)) = Cardinality(To(k)) - 1
        BY <2>1, <2>2, <3>4
      <3> HIDE DEF To, S
      <3> QED
        BY <1>2, <3>4, <3>5
    <2> QED
      BY <2>3, <2>4
  <1> QED
    BY <1>2, <1>3, <1>4

\* The timelines of s are those of t with e's name in its deal's, if that was not in it.
Noted(s, t, e) ==
  /\ e.name \in DealEvents
  /\ s.timeline[e.deal] = IF e.name \in ToSet(t.timeline[e.deal]) THEN t.timeline[e.deal]
                          ELSE Append(t.timeline[e.deal], e.name)
  /\ \A c \in Deals : c # e.deal => s.timeline[c] = t.timeline[c]

\* A handler writes no timeline but its deal's, and has recorded its event when it is done.
LEMMA HandlersNote ==
  ASSUME NEW t \in Tables, NEW e, Sound(e)
  PROVE  /\ \A s \in ToSet(handleEvent(t, e)) : s.timeline = t.timeline \/ Noted(s, t, e)
         /\ e.name \in DealEvents => Noted(Last(handleEvent(t, e)), t, e)
  <1> DEFINE funded == upsertDealFromFunded(t, e.deal, e.listing)
             sold == setListingActive(funded, e.listing)
             moved == setDealState(t, e.deal, Written(e))
  <1>1. e.name \in EventNames /\ e.listing \in Listings
    BY DEF Sound, Event
  <1>2. ASSUME NEW s \in Tables, s.timeline = t.timeline, e.name \in DealEvents
        PROVE  Noted(recordEventOnce(s, e.deal, e.name), t, e)
    <2>1. e.deal \in Deals
      BY <1>2 DEF Sound
    <2> DEFINE r == recordEventOnce(s, e.deal, e.name)
    <2>2. /\ r.timeline[e.deal] = IF e.name \in ToSet(s.timeline[e.deal]) THEN s.timeline[e.deal]
                                  ELSE Append(s.timeline[e.deal], e.name)
          /\ \A c \in Deals : c # e.deal => r.timeline[c] = s.timeline[c]
      BY <1>2, <2>1, Statements
    <2> HIDE DEF r
    <2>3. Noted(r, t, e)
      BY <1>2, <2>2 DEF Noted
    <2> QED
      BY <2>3 DEF r
  <1>3. CASE e.name = "Listed"
    <2>1. upsertListing(t, e.listing).timeline = t.timeline
      BY <1>1, Statements
    <2>2. ToSet(handleEvent(t, e)) = {upsertListing(t, e.listing)}
      BY <1>3, Runs
    <2> QED
      BY <1>3, <2>1, <2>2 DEF DealEvents, FinalEvents
  <1>4. CASE e.name = "ListingCancelled"
    <2>1. setListingActive(t, e.listing).timeline = t.timeline
      BY <1>1, Statements
    <2>2. ToSet(handleEvent(t, e)) = {setListingActive(t, e.listing)}
      BY <1>4, Runs
    <2> QED
      BY <1>4, <2>1, <2>2 DEF DealEvents, FinalEvents
  <1>5. CASE e.name = "Funded"
    <2>1. e.deal \in Deals /\ e.name \in DealEvents
      BY <1>5 DEF Sound, DealEvents
    <2>2. funded \in Tables /\ funded.timeline = t.timeline
      BY <1>1, <2>1, Statements
    <2> HIDE DEF funded
    <2>3. sold \in Tables /\ sold.timeline = t.timeline
      BY <1>1, <2>2, Statements
    <2> HIDE DEF sold
    <2> DEFINE bought == recordEventOnce(sold, e.deal, e.name)
    <2>4. Noted(bought, t, e)
      BY <1>2, <2>1, <2>3
    <2>5. /\ ToSet(handleEvent(t, e)) = {funded, sold, bought}
          /\ Last(handleEvent(t, e)) = bought
      BY <1>5, Runs, Zenon DEF funded, sold
    <2> HIDE DEF bought
    <2> QED
      BY <2>2, <2>3, <2>4, <2>5
  <1>6. CASE e.name \in {"CheckedIn"} \cup FinalEvents
    <2>1. e.deal \in Deals /\ e.name \in DealEvents
      BY <1>6 DEF Sound, DealEvents
    <2>2. Written(e) \in {"SellerCheckedIn"} \cup FinalEvents
      BY <1>6 DEF Written
    <2>3. moved \in Tables /\ moved.timeline = t.timeline
      <3>1. \A state \in {"SellerCheckedIn"} \cup FinalEvents :
              LET s == setDealState(t, e.deal, state) IN s \in Tables /\ s.timeline = t.timeline
        BY <2>1, Statements
      <3> QED
        BY <2>2, <3>1
    <2> HIDE DEF moved
    <2> DEFINE noted == recordEventOnce(moved, e.deal, e.name)
    <2>4. Noted(noted, t, e)
      BY <1>2, <2>1, <2>3
    <2>5. ToSet(handleEvent(t, e)) = {moved, noted} /\ Last(handleEvent(t, e)) = noted
      BY <1>6, Runs, Zenon DEF moved
    <2> HIDE DEF noted
    <2> QED
      BY <2>3, <2>4, <2>5
  <1> QED
    BY <1>1, <1>3, <1>4, <1>5, <1>6 DEF EventNames, DealEvents

\* Only the timelines count.
LEMMA SameTimeline ==
  ASSUME NEW s, NEW t, s.timeline = t.timeline
  PROVE  /\ InOrder(t) => InOrder(s)
         /\ \A k : Recorded(t, k) => Recorded(s, k)
  BY DEF InOrder, Recorded

\* A log of which all that came before it in its deal is recorded takes its own place, and no
\* log that was recorded gets lost.
LEMMA NotedInOrder ==
  ASSUME chain \in Seq(Log), ChainOK, 0 \notin Deals, NEW t \in Tables, NEW s \in Tables,
         NEW k \in DOMAIN chain, InOrder(t), Noted(s, t, chain[k].event),
         \A j \in Its(chain[k].event.deal) : j < k => Recorded(t, j)
  PROVE  /\ InOrder(s) /\ Recorded(s, k)
         /\ \A j \in DOMAIN chain : Recorded(t, j) => Recorded(s, j)
  <1> DEFINE e == chain[k].event
             d == e.deal
             kept == t.timeline[d]
             place == Place(d, k)
  <1>1. d \in Deals /\ k \in Its(d) /\ e.name \in DealEvents
    <2>1. Sound(e) /\ e.name \in DealEvents
      BY LogsAreSound DEF Noted
    <2> QED
      BY <2>1 DEF Sound, Its
  <1>2. /\ s.timeline[d] = IF e.name \in ToSet(kept) THEN kept ELSE Append(kept, e.name)
        /\ \A c \in Deals : c # d => s.timeline[c] = t.timeline[c]
    BY DEF Noted
  <1>3. kept \in Seq(DealEvents) /\ Len(kept) \in Nat /\ DOMAIN kept = 1 .. Len(kept)
    <2>1. t.timeline \in [Deals -> Seq(DealEvents)]
      BY Parts
    <2>2. kept \in Seq(DealEvents)
      <3> HIDE DEF d
      <3> QED
        BY <1>1, <2>1
    <2> HIDE DEF kept
    <2> QED
      BY <2>2
  <1>4. \A n \in DOMAIN kept : \E i \in Its(d) : Place(d, i) = n /\ chain[i].event.name = kept[n]
    BY <1>1, Zenon DEF InOrder
  <1>5. \A j \in Its(d) : j < k => Place(d, j) \in DOMAIN kept
    BY <1>1, Zenon DEF Recorded
  <1>6. /\ place \in Nat \ {0}
        /\ place = 1 \/ \E j \in Its(d) : j < k /\ place = Place(d, j) + 1
    BY <1>1, Places, Zenon
  <1>7. \A i \in Its(d) : Place(d, i) = place => i = k
    <2>1. ASSUME NEW i \in Its(d), Place(d, i) = place
          PROVE  i = k
      <3>1. i \in Nat /\ k \in Nat
        BY <1>1 DEF Its
      <3>2. Place(d, i) \in Nat /\ (i < k => Place(d, i) < place) /\ (k < i => place < Place(d, i))
        BY <1>1, Places, Zenon
      <3> QED
        BY <1>6, <2>1, <3>1, <3>2
    <2> QED
      BY <2>1
  <1>8. \A i \in Its(d) : chain[i].event.name = e.name => i = k
    BY <1>1, OneOfEach
  <1>9. e = chain[k].event
    OBVIOUS
  <1> HIDE DEF e, d, kept, place
  <1>10. CASE e.name \in ToSet(kept)
    <2>1. PICK n \in DOMAIN kept : kept[n] = e.name
      BY <1>10 DEF ToSet
    <2>2. place \in DOMAIN kept
      BY <1>4, <1>8, <2>1 DEF place
    <2>3. \A c \in Deals : s.timeline[c] = t.timeline[c]
      BY <1>2, <1>10 DEF kept
    <2>4. InOrder(s) /\ \A j \in DOMAIN chain : Recorded(t, j) => Recorded(s, j)
      BY <2>3 DEF InOrder, Recorded
    <2>5. Recorded(s, k)
      <3>1. ASSUME NEW c \in Deals, k \in Its(c)
            PROVE  Place(c, k) \in DOMAIN s.timeline[c]
        <4>1. c = d
          BY <3>1 DEF Its, d, e
        <4> QED
          BY <2>2, <2>3, <3>1, <4>1 DEF place, kept
      <3> QED
        BY <3>1 DEF Recorded
    <2> QED
      BY <2>4, <2>5
  <1>11. CASE e.name \notin ToSet(kept)
    <2>1. place \notin DOMAIN kept
      <3>1. SUFFICES ASSUME place \in DOMAIN kept PROVE FALSE
        OBVIOUS
      <3>2. PICK i \in Its(d) : Place(d, i) = place /\ chain[i].event.name = kept[place]
        BY <1>4, <3>1
      <3>3. i = k
        BY <1>7, <3>2
      <3>4. kept[place] = e.name
        BY <1>9, <3>2, <3>3
      <3> QED
        BY <1>11, <3>1, <3>4 DEF ToSet
    <2>2. place = Len(kept) + 1
      BY <1>3, <1>5, <1>6, <2>1
    <2>3. LET longer == Append(kept, e.name) IN
          /\ DOMAIN longer = 1 .. Len(kept) + 1
          /\ longer[Len(kept) + 1] = e.name
          /\ \A n \in DOMAIN kept : longer[n] = kept[n]
      BY <1>1, <1>3
    <2>4. /\ DOMAIN s.timeline[d] = 1 .. Len(kept) + 1
          /\ s.timeline[d][place] = e.name
          /\ \A n \in DOMAIN kept : s.timeline[d][n] = kept[n]
      BY <1>2, <1>11, <2>2, <2>3
    <2>5. ASSUME NEW c \in Deals, NEW n \in DOMAIN s.timeline[c]
          PROVE  \E i \in Its(c) : Place(c, i) = n /\ chain[i].event.name = s.timeline[c][n]
      <3>1. CASE c # d
        <4>1. s.timeline[c] = t.timeline[c]
          BY <1>2, <3>1
        <4>2. n \in DOMAIN t.timeline[c]
          BY <2>5, <4>1
        <4>3. \E i \in Its(c) : Place(c, i) = n /\ chain[i].event.name = t.timeline[c][n]
          BY <4>2, Zenon DEF InOrder
        <4> QED
          BY <4>1, <4>3
      <3>2. CASE c = d
        <4>1. n \in DOMAIN kept \/ n = place
          BY <1>3, <2>2, <2>4, <2>5, <3>2
        <4>2. CASE n \in DOMAIN kept
          BY <1>4, <2>4, <3>2, <4>2
        <4>3. CASE n = place
          BY <1>1, <1>9, <2>4, <3>2, <4>3 DEF place
        <4> QED
          BY <4>1, <4>2, <4>3
      <3> QED
        BY <3>1, <3>2
    <2>6. ASSUME NEW j \in DOMAIN chain, Recorded(t, j) \/ j = k, NEW c \in Deals, j \in Its(c)
          PROVE  Place(c, j) \in DOMAIN s.timeline[c]
      <3>1. CASE c # d
        <4>1. s.timeline[c] = t.timeline[c] /\ j # k
          BY <1>2, <2>6, <3>1 DEF Its, d, e
        <4> QED
          BY <2>6, <4>1 DEF Recorded
      <3>2. CASE c = d
        <4>1. CASE j = k
          BY <1>3, <2>2, <2>4, <3>2, <4>1 DEF place
        <4>2. CASE Recorded(t, j)
          <5>1. Place(c, j) \in DOMAIN kept
            BY <2>6, <3>2, <4>2 DEF Recorded, kept
          <5> QED
            BY <1>3, <2>4, <3>2, <5>1
        <4> QED
          BY <2>6, <4>1, <4>2
      <3> QED
        BY <3>1, <3>2
    <2>7. InOrder(s)
      BY <2>5, Zenon DEF InOrder
    <2> QED
      BY <2>6, <2>7 DEF Recorded
  <1> QED
    BY <1>10, <1>11

\* The tables of a batch after the first k logs of the chain, as far as the timelines go.
Kept(t, k, to) ==
  /\ t \in Tables /\ InOrder(t)
  /\ \A j \in DoneBy(db.cursor) : Recorded(t, j)
  /\ \A j \in DOMAIN chain : j <= k /\ chain[j].block <= to => Recorded(t, j)

\* A handler keeps to the order, wherever it stops, and records its log when it ends.
LEMMA KeptByHandler ==
  ASSUME IndexerAssumption, Inv, Throwing \cap DealEvents = {}, NEW to \in Int,
         NEW k \in DOMAIN chain, chain[k].block <= to, NEW t, Kept(t, k - 1, to)
  PROVE  /\ \A s \in ToSet(handleEvent(t, chain[k].event)) :
              InOrder(s) /\ \A j \in DOMAIN chain : Recorded(t, j) => Recorded(s, j)
         /\ \A s \in Handled(t, chain[k].event) : Kept(s, k, to)
  <1> DEFINE e == chain[k].event
  <1>1. /\ chain \in Seq(Log) /\ ChainOK /\ 0 \notin Deals /\ t \in Tables /\ InOrder(t)
        /\ Sound(e)
    BY LogsAreSound DEF Inv, TypeOK, IndexerAssumption, Kept
  <1>2. \A j \in DOMAIN chain : j < k => Recorded(t, j) \/ ~ (chain[j].block <= chain[k].block)
    <2>1. \A j \in DOMAIN chain : chain[j].block \in Int
      <3>1. \A j \in DOMAIN chain : chain[j] \in Log
        BY <1>1
      <3> QED
        BY <3>1 DEF Log
    <2>2. \A j \in DOMAIN chain : j < k => j <= k - 1
      BY <1>1
    <2> QED
      BY <2>1, <2>2 DEF Kept
  <1>3. \A j \in DOMAIN chain : j < k => Recorded(t, j)
    BY <1>1, <1>2 DEF ChainOK
  <1>4. \A j \in Its(e.deal) : j < k => Recorded(t, j)
    BY <1>3 DEF Its
  <1> HIDE DEF e
  <1>5. ASSUME NEW s \in Tables, Noted(s, t, e)
        PROVE  /\ InOrder(s) /\ Recorded(s, k)
               /\ \A j \in DOMAIN chain : Recorded(t, j) => Recorded(s, j)
    BY <1>1, <1>4, <1>5, NotedInOrder DEF e
  <1>6. ASSUME NEW s \in ToSet(handleEvent(t, e))
        PROVE  /\ s \in Tables /\ InOrder(s)
               /\ \A j \in DOMAIN chain : Recorded(t, j) => Recorded(s, j)
    <2>1. s \in Tables
      BY <1>1, HandlersType
    <2>2. s.timeline = t.timeline \/ Noted(s, t, e)
      BY <1>1, HandlersNote
    <2>3. CASE s.timeline = t.timeline
      BY <1>1, <2>1, <2>3, SameTimeline
    <2>4. CASE Noted(s, t, e)
      BY <1>5, <2>1, <2>4
    <2> QED
      BY <2>2, <2>3, <2>4
  <1>7. ASSUME NEW s \in Handled(t, e)
        PROVE  Kept(s, k, to)
    <2>1. /\ s \in Tables /\ InOrder(s) /\ \A j \in DOMAIN chain : Recorded(t, j) => Recorded(s, j)
      <3>1. s = t \/ s \in ToSet(handleEvent(t, e))
        BY <1>1, HandlersType
      <3> QED
        BY <1>1, <1>6, <3>1
    <2>2. Recorded(s, k)
      <3>1. CASE e.name \in DealEvents
        <4>1. s = Last(handleEvent(t, e))
          <5>1. e.name \notin Throwing
            BY <3>1
          <5> QED
            BY <1>1, <5>1, HandlersType
        <4>2. Noted(s, t, e)
          BY <1>1, <3>1, <4>1, HandlersNote
        <4> QED
          BY <1>5, <2>1, <4>2
      <3>2. CASE e.name \notin DealEvents
        <4>1. e.deal = 0
          <5>1. e.name \in EventNames
            BY <1>1 DEF Sound, Event
          <5>2. e.name \in {"Listed", "ListingCancelled"}
            BY <3>2, <5>1 DEF EventNames
          <5> QED
            BY <1>1, <5>2, Course DEF e
        <4>2. \A d \in Deals : k \notin Its(d)
          BY <1>1, <4>1 DEF Its, e
        <4> QED
          BY <4>2 DEF Recorded
      <3> QED
        BY <3>1, <3>2
    <2>3. \A j \in DOMAIN chain : j <= k => j <= k - 1 \/ j = k
      BY <1>1
    <2>4. \A j \in DoneBy(db.cursor) : Recorded(s, j)
      BY <2>1 DEF Kept, DoneBy
    <2>5. \A j \in DOMAIN chain : j <= k /\ chain[j].block <= to => Recorded(s, j)
      BY <2>1, <2>2, <2>3 DEF Kept
    <2> QED
      BY <2>1, <2>4, <2>5 DEF Kept
  <1> QED
    BY <1>6, <1>7 DEF e

\* Along a batch nothing that was recorded is lost, and each log that is done is recorded.
LEMMA KeptByBatch ==
  ASSUME IndexerAssumption, Inv, TimelineInv, Throwing \cap DealEvents = {},
         NEW from \in Nat, NEW to \in Int, from <= db.cursor + 1
  PROVE  \A k \in 0 .. Len(chain) : \A t \in Applied(from, to)[k] : Kept(t, k, to)
  <1> DEFINE Set(k) == {t \in Tables : Kept(t, k, to)}
             Fine == [k \in 0 .. Len(chain) |-> Set(k)]
  <1>1. /\ chain \in Seq(Log) /\ db \in Tables /\ db.cursor \in Nat
        /\ \A k \in 1 .. Len(chain) : k \in DOMAIN chain /\ k - 1 \in 0 .. Len(chain)
                                      /\ k \in 0 .. Len(chain)
    BY DEF Inv, TypeOK, Tables
  <1>2. \A j \in DOMAIN chain : chain[j].block \in Nat
    <2>1. \A j \in DOMAIN chain : chain[j] \in Log
      BY <1>1
    <2> QED
      BY <2>1 DEF Log
  <1>3. db \in Set(0)
    <2>1. \A j \in DOMAIN chain : ~ (j <= 0)
      BY <1>1
    <2> QED
      BY <1>1, <2>1 DEF Kept, TimelineInv
  <1>4. ASSUME NEW k \in 1 .. Len(chain), NEW t \in Set(k - 1)
        PROVE  IF k \in GetLogs(from, to) THEN Handled(t, chain[k].event) \subseteq Set(k)
               ELSE t \in Set(k)
    <2>1. CASE k \in GetLogs(from, to)
      <3>1. k \in DOMAIN chain /\ chain[k].block <= to
        BY <1>2, <2>1 DEF GetLogs
      <3>2. \A s \in Handled(t, chain[k].event) : Kept(s, k, to)
        BY <1>4, <3>1, KeptByHandler
      <3>3. \A s \in Handled(t, chain[k].event) : s \in Set(k)
        BY <3>2 DEF Kept
      <3> QED
        BY <2>1, <3>3
    <2>2. CASE k \notin GetLogs(from, to)
      <3>1. chain[k].block < from \/ chain[k].block > to
        BY <1>1, <1>2, <2>2 DEF GetLogs
      <3>2. chain[k].block <= to => Recorded(t, k)
        <4>1. chain[k].block <= to => chain[k].block <= db.cursor
          BY <1>1, <1>2, <3>1
        <4> QED
          BY <1>1, <1>4, <4>1 DEF Kept, DoneBy
      <3>3. \A j \in DOMAIN chain : j <= k => j <= k - 1 \/ j = k
        BY <1>1
      <3>4. Kept(t, k, to)
        BY <3>2, <3>3 DEF Kept
      <3> QED
        BY <2>2, <3>4
    <2> QED
      BY <2>1, <2>2
  <1> HIDE DEF Set
  <1>5. \A k \in 0 .. Len(chain) : Fine[k] = Set(k)
    OBVIOUS
  <1> HIDE DEF Fine
  <1>6. \A k \in 1 .. Len(chain) : \A t \in Fine[k - 1] :
          IF k \in GetLogs(from, to) THEN Handled(t, chain[k].event) \subseteq Fine[k]
          ELSE t \in Fine[k]
    BY <1>1, <1>4, <1>5
  <1>7. db \in Fine[0]
    <2>1. 0 \in 0 .. Len(chain)
      BY <1>1
    <2> QED
      BY <1>3, <1>5, <2>1
  <1>8. \A k \in 0 .. Len(chain) : Applied(from, to)[k] \subseteq Fine[k]
    BY <1>1, <1>6, <1>7, AllAlong
  <1> QED
    BY <1>5, <1>8 DEF Set

\* What a batch leaves has recorded every log up to where it moves the cursor.
LEMMA KeptAtEnd ==
  ASSUME IndexerAssumption, Inv, TimelineInv, Throwing \cap DealEvents = {},
         NEW from \in Nat, NEW to \in Int, from <= db.cursor + 1,
         NEW s \in Applied(from, to)[Len(chain)], NEW t \in Tables, t.timeline = s.timeline,
         t.cursor \in Nat, t.cursor <= to \/ t.cursor <= db.cursor
  PROVE  InOrder(t) /\ \A k \in DoneBy(t.cursor) : Recorded(t, k)
  <1>1. chain \in Seq(Log) /\ Len(chain) \in 0 .. Len(chain) /\ db.cursor \in Nat
    BY DEF Inv, TypeOK, Tables
  <1>2. Kept(s, Len(chain), to)
    BY <1>1, KeptByBatch
  <1>3. InOrder(t) /\ \A k : Recorded(s, k) => Recorded(t, k)
    BY <1>2, SameTimeline DEF Kept
  <1>4. ASSUME NEW k \in DoneBy(t.cursor)
        PROVE  Recorded(s, k)
    <2>1. k \in DOMAIN chain /\ k <= Len(chain) /\ chain[k].block <= t.cursor
      BY <1>1 DEF DoneBy
    <2>2. chain[k].block \in Nat
      <3>1. chain[k] \in Log
        BY <1>1, <2>1
      <3> QED
        BY <3>1 DEF Log
    <2>3. chain[k].block <= to \/ chain[k].block <= db.cursor
      BY <1>1, <2>1, <2>2
    <2> QED
      BY <1>2, <2>1, <2>3 DEF Kept, DoneBy
  <1> QED
    BY <1>3, <1>4

\* At the start the timelines are empty.
LEMMA TimelineInit ==
  ASSUME IndexerAssumption, Init
  PROVE  TimelineInv
  <1>1. chain = <<>> /\ DOMAIN chain = {} /\ db = EmptyDb
    BY DEF Init
  <1>2. \A d \in Deals : DOMAIN db.timeline[d] = {}
    BY <1>1 DEF EmptyDb
  <1>3. InOrder(db)
    BY <1>2, Zenon DEF InOrder
  <1>4. DoneBy(db.cursor) = {}
    BY <1>1 DEF DoneBy
  <1>5. \A b \in Backfills : task[b].at # "logs"
    BY DEF Init, Idle
  <1> QED
    BY <1>3, <1>4, <1>5 DEF TimelineInv

\* More of the chain takes no place from what was on it.
LEMMA PlacesStay ==
  ASSUME IndexerAssumption, Inv, Mine
  PROVE  /\ \A d : \A k \in Its(d) : k \in Its(d)' /\ Place(d, k)' = Place(d, k)
         /\ \A k \in DOMAIN chain : chain'[k] = chain[k]
         /\ \A c \in 0 .. height : DoneBy(c)' = DoneBy(c)
         /\ \A d : \A k \in DOMAIN chain : k \in Its(d)' => k \in Its(d)
  <1>1. /\ chain \in Seq(Log) /\ chain' \in Seq(Log) /\ Len(chain) <= Len(chain')
        /\ \A k \in 1 .. Len(chain) : chain'[k] = chain[k]
        /\ \A k \in 1 .. Len(chain') : k > Len(chain) => chain'[k].block = height + 1
        /\ height \in Nat
    BY Mined DEF Inv, TypeOK, IndexerAssumption
  <1>2. /\ DOMAIN chain = 1 .. Len(chain) /\ DOMAIN chain' = 1 .. Len(chain')
        /\ Len(chain) \in Nat /\ Len(chain') \in Nat
    BY <1>1
  <1>3. \A k \in DOMAIN chain : chain'[k] = chain[k] /\ k \in DOMAIN chain'
    BY <1>1, <1>2
  <1>4. ASSUME NEW d, NEW k \in Its(d)
        PROVE  k \in Its(d)' /\ Place(d, k)' = Place(d, k)
    <2>1. k \in DOMAIN chain /\ k \in Its(d)'
      BY <1>3 DEF Its
    <2>2. {j \in Its(d) : j <= k} = {j \in Its(d)' : j <= k}
      <3>1. \A j : j \in Its(d) => j \in Its(d)'
        BY <1>3 DEF Its
      <3>2. ASSUME NEW j \in Its(d)', j <= k
            PROVE  j \in Its(d)
        <4>1. j \in DOMAIN chain' /\ chain'[j].event.deal = d
          BY DEF Its
        <4>2. j \in DOMAIN chain
          BY <1>2, <2>1, <3>2, <4>1
        <4> QED
          BY <1>3, <4>1, <4>2 DEF Its
      <3> QED
        BY <3>1, <3>2
    <2> QED
      BY <2>1, <2>2 DEF Place
  <1>5. ASSUME NEW c \in 0 .. height
        PROVE  {k \in DOMAIN chain' : chain'[k].block <= c} = DoneBy(c)
    <2>1. ASSUME NEW k \in DOMAIN chain', chain'[k].block <= c
          PROVE  k \in DOMAIN chain
      <3>1. SUFFICES ASSUME k \notin DOMAIN chain PROVE FALSE
        OBVIOUS
      <3>2. k > Len(chain)
        BY <1>2, <3>1
      <3>3. chain'[k].block = height + 1
        BY <1>1, <1>2, <3>2
      <3> QED
        BY <1>1, <2>1, <3>3
    <2> QED
      BY <1>3, <2>1 DEF DoneBy
  <1>6. \A c \in 0 .. height : DoneBy(c)' = DoneBy(c)
    BY <1>5 DEF DoneBy
  <1> QED
    BY <1>3, <1>4, <1>6 DEF Its

\* What a window asks for and how far it lets the cursor go, when it starts at the cursor or earlier.
LEMMA WindowScanned ==
  ASSUME IndexerAssumption, Inv, NEW b \in Backfills, task[b].from <= db.cursor + 1,
         NEW to \in Asked(task[b])
  PROVE  /\ task[b].from \in Nat /\ to \in Int
         /\ Scanned(task[b]) <= to \/ Scanned(task[b]) <= db.cursor
         /\ ~ Finishes(task[b]) =>
              /\ Scanned(task[b]) = WindowEnd(task[b]) /\ to = WindowEnd(task[b])
              /\ WindowEnd(task[b]) \in Nat /\ WindowEnd(task[b]) >= task[b].from
         /\ Newest(task[b].from, to) <= to \/ Newest(task[b].from, to) = 0
  <1> DEFINE t == task[b]
  <1>1. /\ t \in Tasks /\ t.from <= db.cursor + 1 /\ t.from \in Nat /\ t.head \in Nat
        /\ height \in Nat /\ chain \in Seq(Log) /\ db.cursor \in Nat /\ MaxBlocks \in Nat
        /\ t.head <= height
    BY DEF Tasks, Inv, TypeOK, Tables, IndexerAssumption, TaskOK
  <1>2. /\ t.from <= t.head => WindowEnd(t) \in t.from .. t.head /\ Asked(t) = {WindowEnd(t)}
        /\ ~ (t.from <= t.head) => t.from > t.head /\ Asked(t) = (t.from - 1) .. height
    BY WindowType
  <1> HIDE DEF t
  <1>3. CASE t.from <= t.head
    <2>1. /\ Scanned(t) = WindowEnd(t) /\ to = WindowEnd(t) /\ to \in Int
          /\ WindowEnd(t) \in Nat /\ WindowEnd(t) >= t.from
      <3>1. ~ (t.from > t.head)
        BY <1>1, <1>3
      <3> QED
        BY <1>1, <1>2, <1>3, <3>1 DEF Scanned, t
    <2>2. Newest(t.from, to) <= to \/ Newest(t.from, to) = 0
      <3>1. \/ Newest(t.from, to) = 0
            \/ \E k \in GetLogs(t.from, to) : chain[k].block = Newest(t.from, to)
        BY <1>1, NewestLog
      <3> QED
        BY <1>1, <2>1, <3>1 DEF GetLogs
    <2> QED
      BY <1>1, <2>1, <2>2 DEF t
  <1>4. CASE ~ (t.from <= t.head)
    <2>1. Scanned(t) = t.head /\ t.from > t.head /\ to \in Int /\ Finishes(t)
      BY <1>1, <1>2, <1>4 DEF Scanned, Finishes, t
    <2>2. Newest(t.from, to) <= to \/ Newest(t.from, to) = 0
      <3>1. \/ Newest(t.from, to) = 0
            \/ \E k \in GetLogs(t.from, to) : chain[k].block = Newest(t.from, to)
        BY <1>1, NewestLog
      <3> QED
        BY <1>1, <2>1, <3>1 DEF GetLogs
    <2> QED
      BY <1>1, <2>1, <2>2 DEF t
  <1> QED
    BY <1>3, <1>4

\* Every step keeps the timelines in order, and complete up to the cursor.
LEMMA TimelineNext ==
  ASSUME IndexerAssumption, Inv, TimelineInv, [Next]_vars,
         Throwing \cap DealEvents = {}, FromBlock <= 1
  PROVE  TimelineInv'
  <1>1. /\ FromBlock \in Nat /\ height \in Nat /\ db \in Tables /\ db.cursor \in 0 .. height
        /\ task \in [Backfills -> Tasks] /\ chain \in Seq(Log)
        /\ \A b \in Backfills : task[b].head <= height /\ task[b].cursor <= db.cursor
    BY DEF Inv, TypeOK, IndexerAssumption, Tables, Tasks, TaskOK
  <1>2. \A b \in Backfills : task[b].at = "logs" => task[b].from <= db.cursor + 1
    BY DEF TimelineInv
  <1>3. Idle.at = "idle"
    BY DEF Idle
  <1>3a. ASSUME UNCHANGED chain, InOrder(db'), \A k \in DoneBy(db'.cursor) : Recorded(db', k)
        PROVE  InOrder(db)' /\ \A k \in DoneBy(db.cursor)' : Recorded(db, k)'
    <2>1. \A d : Its(d)' = Its(d)
      BY <1>3a DEF Its
    <2>2. \A d, k : Place(d, k)' = Place(d, k)
      BY <2>1 DEF Place
    <2>3. DoneBy(db.cursor)' = DoneBy(db'.cursor)
      BY <1>3a DEF DoneBy
    <2>4. \A d \in Deals : \A n \in DOMAIN db'.timeline[d] :
            \E k \in Its(d)' : Place(d, k)' = n /\ chain'[k].event.name = db'.timeline[d][n]
      BY <1>3a, <2>1, <2>2 DEF InOrder
    <2>5. \A k \in DoneBy(db.cursor)' : \A d \in Deals :
            k \in Its(d)' => Place(d, k)' \in DOMAIN db'.timeline[d]
      BY <1>3a, <2>1, <2>2, <2>3 DEF Recorded
    <2> QED
      BY <2>4, <2>5 DEF InOrder, Recorded
  <1>4. ASSUME UNCHANGED <<chain, db>>
        PROVE  InOrder(db)' /\ \A k \in DoneBy(db.cursor)' : Recorded(db, k)'
    <2>1. InOrder(db') /\ \A k \in DoneBy(db'.cursor) : Recorded(db', k)
      BY <1>4 DEF TimelineInv
    <2> QED
      BY <1>4, <1>3a, <2>1
  <1>5. ASSUME UNCHANGED chain, NEW from \in Nat, NEW to \in Int, from <= db.cursor + 1,
               NEW s \in Applied(from, to)[Len(chain)], db' \in Tables,
               db'.timeline = s.timeline, db'.cursor \in Nat,
               db'.cursor <= to \/ db'.cursor <= db.cursor
        PROVE  InOrder(db)' /\ \A k \in DoneBy(db.cursor)' : Recorded(db, k)'
    <2>1. InOrder(db') /\ \A k \in DoneBy(db'.cursor) : Recorded(db', k)
      BY <1>5, KeptAtEnd
    <2> QED
      BY <1>5, <1>3a, <2>1
  <1>6. ASSUME NEW b \in Backfills, task[b].at = "logs", NEW to \in Asked(task[b])
        PROVE  /\ task[b].from \in Nat /\ to \in Int /\ task[b].from <= db.cursor + 1
               /\ Scanned(task[b]) <= to \/ Scanned(task[b]) <= db.cursor
               /\ ~ Finishes(task[b]) => Scanned(task[b]) = WindowEnd(task[b])
               /\ Newest(task[b].from, to) <= to \/ Newest(task[b].from, to) = 0
    BY <1>2, <1>6, WindowScanned
  <1>7. ASSUME Mine
        PROVE  TimelineInv'
    <2>1. UNCHANGED <<db, task>>
      BY <1>7 DEF Mine
    <2>2. /\ \A d : \A k \in Its(d) : k \in Its(d)' /\ Place(d, k)' = Place(d, k)
          /\ \A k \in DOMAIN chain : chain'[k] = chain[k]
          /\ \A d : \A k \in DOMAIN chain : k \in Its(d)' => k \in Its(d)
          /\ DoneBy(db.cursor)' = DoneBy(db.cursor)
      <3>1. \A c \in 0 .. height : DoneBy(c)' = DoneBy(c)
        BY <1>7, PlacesStay
      <3>2. DoneBy(db.cursor)' = {k \in DOMAIN chain' : chain'[k].block <= db.cursor}
        BY <2>1 DEF DoneBy
      <3>3. {k \in DOMAIN chain' : chain'[k].block <= db.cursor} = DoneBy(db.cursor)
        BY <1>1, <3>1 DEF DoneBy
      <3> QED
        BY <1>7, <3>2, <3>3, PlacesStay, Zenon
    <2>3. InOrder(db)'
      <3>1. ASSUME NEW d \in Deals, NEW n \in DOMAIN db.timeline[d]
            PROVE  \E k \in Its(d)' : Place(d, k)' = n /\ chain'[k].event.name = db.timeline[d][n]
        <4>1. PICK k \in Its(d) : Place(d, k) = n /\ chain[k].event.name = db.timeline[d][n]
          BY DEF TimelineInv, InOrder
        <4>2. k \in DOMAIN chain
          BY DEF Its
        <4> QED
          BY <2>2, <4>1, <4>2
      <3> QED
        BY <2>1, <3>1 DEF InOrder
    <2>4. ASSUME NEW k \in DoneBy(db.cursor)
          PROVE  Recorded(db, k)'
      <3>1. k \in DOMAIN chain /\ Recorded(db, k)
        BY DEF TimelineInv, DoneBy
      <3>2. ASSUME NEW d \in Deals, k \in Its(d)'
            PROVE  Place(d, k)' \in DOMAIN db.timeline[d]
        <4>1. k \in Its(d)
          BY <2>2, <3>1, <3>2
        <4>2. Place(d, k) \in DOMAIN db.timeline[d] /\ Place(d, k)' = Place(d, k)
          BY <2>2, <3>1, <4>1 DEF Recorded
        <4> QED
          BY <4>2
      <3> QED
        BY <2>1, <3>2 DEF Recorded
    <2> QED
      BY <1>2, <2>1, <2>2, <2>3, <2>4 DEF TimelineInv
  <1>8. ASSUME NEW t, NEW b \in Backfills, task' = [task EXCEPT ![b] = t],
               t.at = "logs" => t.from <= db'.cursor + 1, db'.cursor \in Nat,
               db'.cursor >= db.cursor
        PROVE  \A c \in Backfills : task'[c].at = "logs" => task'[c].from <= db'.cursor + 1
    <2>1. \A c \in Backfills : task'[c] = IF c = b THEN t ELSE task[c]
      BY <1>1, <1>8
    <2>2. \A c \in Backfills : task[c].from \in Nat
      BY <1>1 DEF Tasks
    <2>3. \A c \in Backfills : task[c].at = "logs" => task[c].from <= db'.cursor + 1
      BY <1>1, <1>2, <1>8, <2>2
    <2> QED
      BY <1>8, <2>1, <2>3
  <1>9. ASSUME NEW t, NEW b \in Backfills, task' = [task EXCEPT ![b] = t],
               t.at = "logs" => t.from <= db.cursor + 1, UNCHANGED <<chain, db>>
        PROVE  TimelineInv'
    <2>1. \A c \in Backfills : task'[c].at = "logs" => task'[c].from <= db'.cursor + 1
      <3>1. db' = db /\ db.cursor \in Nat /\ db'.cursor >= db.cursor
        BY <1>1, <1>9
      <3> QED
        BY <1>8, <1>9, <3>1
    <2> QED
      BY <1>4, <1>9, <2>1 DEF TimelineInv
  <1>10. ASSUME Die, InOrder(db)', \A k \in DoneBy(db.cursor)' : Recorded(db, k)'
         PROVE  TimelineInv'
    <2>1. \A c \in Backfills : task'[c].at # "logs"
      BY <1>3, <1>10 DEF Die
    <2> QED
      BY <1>10, <2>1 DEF TimelineInv
  <1>11. CASE Crash
    BY <1>4, <1>10, <1>11 DEF Crash, Die
  <1>12. ASSUME NEW b \in Backfills, Boot(b) \/ Poll(b)
         PROVE  TimelineInv'
    <2>1. PICK f \in BOOLEAN : Begin(b, f)
      BY <1>12 DEF Boot, Poll
    <2>2. UNCHANGED <<chain, db>>
      BY <1>12 DEF Boot, Poll
    <2> DEFINE t == [Idle EXCEPT !.at = "head", !.cursor = db.cursor, !.first = f]
    <2>3. t.at = "head"
      <3>1. db.cursor \in Nat
        BY <1>1
      <3> QED
        BY <3>1, Begun
    <2>4. task' = [task EXCEPT ![b] = t]
      BY <2>1 DEF Begin
    <2> HIDE DEF t
    <2> QED
      BY <1>9, <2>2, <2>3, <2>4
  <1>13. ASSUME NEW b \in Backfills, NEW head \in 0 .. height, GotHead(b, head)
         PROVE  TimelineInv'
    <2> DEFINE r == Resume(task[b].cursor)
               t == [task[b] EXCEPT !.at = "logs", !.head = head, !.from = r]
    <2>1. /\ task' = [task EXCEPT ![b].at = "logs", ![b].head = head, ![b].from = r]
          /\ UNCHANGED <<chain, db>>
      BY <1>13 DEF GotHead
    <2>2. r <= db.cursor + 1
      <3>1. task[b].cursor \in Nat /\ task[b].cursor <= db.cursor
        BY <1>1 DEF Tasks
      <3> QED
        BY <1>1, <3>1 DEF Resume
    <2> HIDE DEF r
    <2>3. task' = [task EXCEPT ![b] = t] /\ t.from = r
      <3>1. task[b] \in Tasks
        BY <1>1
      <3> QED
        BY <1>1, <2>1, <3>1 DEF Tasks
    <2> HIDE DEF t
    <2> QED
      BY <1>9, <2>1, <2>2, <2>3
  <1>14. ASSUME NEW b \in Backfills, GotLogs(b)
         PROVE  TimelineInv'
    <2>1. task[b].at = "logs" /\ UNCHANGED chain
      BY <1>14 DEF GotLogs
    <2>2. PICK to \in Asked(task[b]) :
            /\ \E s \in Applied(task[b].from, to)[Len(chain)] :
                 /\ s \in Tables /\ s.cursor = db.cursor
                 /\ db' \in Tables /\ db'.listing = s.listing /\ db'.deal = s.deal
                 /\ db'.timeline = s.timeline
            /\ LET top == Newest(task[b].from, to)
                   end == Scanned(task[b])
               IN  /\ top \in 0 .. height /\ end \in 0 .. height
                   /\ db'.cursor \in {db.cursor, top, end} \cap (0 .. height)
                   /\ db'.cursor >= db.cursor /\ db'.cursor >= top /\ db'.cursor >= end
                   /\ reach' \in {reach, top} /\ reach' >= reach /\ reach' >= top
      BY <1>14, LogsType
    <2>3. PICK s \in Applied(task[b].from, to)[Len(chain)] :
            db' \in Tables /\ db'.timeline = s.timeline
      BY <2>2
    <2>4. /\ task[b].from \in Nat /\ to \in Int /\ task[b].from <= db.cursor + 1
          /\ Scanned(task[b]) <= to \/ Scanned(task[b]) <= db.cursor
          /\ ~ Finishes(task[b]) => Scanned(task[b]) = WindowEnd(task[b])
      BY <1>6, <2>1
    <2>5. Newest(task[b].from, to) <= to \/ Newest(task[b].from, to) = 0
      BY <1>6, <2>1
    <2>6. db'.cursor \in Nat /\ (db'.cursor <= to \/ db'.cursor <= db.cursor)
      BY <1>1, <2>2, <2>4, <2>5
    <2>7. InOrder(db)' /\ \A k \in DoneBy(db.cursor)' : Recorded(db, k)'
      BY <1>5, <2>1, <2>3, <2>4, <2>6
    <2> DEFINE e == WindowEnd(task[b]) + 1
               t == IF Finishes(task[b]) THEN Idle ELSE [task[b] EXCEPT !.from = e]
    <2>8. task' = [task EXCEPT ![b] = t]
      BY <1>14 DEF GotLogs
    <2>9. t.at = "logs" => t.from <= db'.cursor + 1
      <3>1. ~ Finishes(task[b]) => e <= db'.cursor + 1
        <4>1. ~ Finishes(task[b]) => e = Scanned(task[b]) + 1
          BY <2>4
        <4>2. Scanned(task[b]) \in Nat /\ db'.cursor >= Scanned(task[b]) /\ db'.cursor \in Nat
          BY <1>1, <2>2
        <4> HIDE DEF e
        <4> QED
          BY <4>1, <4>2
      <3> HIDE DEF e
      <3>2. CASE Finishes(task[b])
        BY <1>3, <3>2
      <3>3. CASE ~ Finishes(task[b])
        <4>1. task[b] \in Tasks
          BY <1>1
        <4>2. t.from = e
          BY <3>3, <4>1 DEF Tasks
        <4> QED
          BY <3>1, <3>3, <4>2
      <3> QED
        BY <3>2, <3>3
    <2> HIDE DEF t
    <2>10. \A c \in Backfills : task'[c].at = "logs" => task'[c].from <= db'.cursor + 1
      BY <1>8, <2>2, <2>6, <2>8, <2>9
    <2> QED
      BY <2>7, <2>10 DEF TimelineInv
  <1>15. ASSUME NEW b \in Backfills, RpcFails(b)
         PROVE  TimelineInv'
    <2>1. task' = [task EXCEPT ![b] = Idle] /\ UNCHANGED <<chain, db>>
      BY <1>15 DEF RpcFails
    <2> QED
      BY <1>3, <1>9, <2>1
  <1>16. ASSUME NEW b \in Backfills, CrashInBatch(b)
         PROVE  TimelineInv'
    <2>1. task[b].at = "logs" /\ Die /\ UNCHANGED chain
      BY <1>16 DEF CrashInBatch, Die
    <2>2. PICK to \in Asked(task[b]) :
            \/ \E k \in GetLogs(task[b].from, to) :
                 /\ \E t \in Applied(task[b].from, to)[k - 1] :
                      db' \in ToSet(handleEvent(t, chain[k].event))
                 /\ db' \in Tables /\ db'.cursor = db.cursor
            \/ LET top == Newest(task[b].from, to) IN
               /\ \E s \in Applied(task[b].from, to)[Len(chain)] :
                    /\ db' \in Tables /\ db'.timeline = s.timeline
               /\ top \in 0 .. height /\ db'.cursor \in {db.cursor, top}
      BY <1>16, CrashType, Zenon
    <2>3. task[b].from \in Nat /\ to \in Int /\ task[b].from <= db.cursor + 1
      BY <1>6, <2>1
    <2>4. ASSUME NEW k \in GetLogs(task[b].from, to),
                 NEW t \in Applied(task[b].from, to)[k - 1],
                 db' \in ToSet(handleEvent(t, chain[k].event)), db'.cursor = db.cursor
          PROVE  InOrder(db)' /\ \A j \in DoneBy(db.cursor)' : Recorded(db, j)'
      <3>1. k \in DOMAIN chain /\ k - 1 \in 0 .. Len(chain) /\ chain[k].block <= to
        <4>1. k \in DOMAIN chain /\ chain[k].block \in task[b].from .. to
          BY DEF GetLogs
        <4> QED
          BY <1>1, <2>3, <4>1
      <3>2. Kept(t, k - 1, to)
        BY <2>3, <3>1, KeptByBatch
      <3>3. InOrder(db') /\ \A j \in DOMAIN chain : Recorded(t, j) => Recorded(db', j)
        BY <2>3, <2>4, <3>1, <3>2, KeptByHandler
      <3>4. \A j \in DoneBy(db.cursor) : Recorded(db', j)
        BY <3>2, <3>3 DEF Kept, DoneBy
      <3> QED
        BY <1>3a, <2>1, <2>4, <3>3, <3>4
    <2>5. ASSUME NEW s \in Applied(task[b].from, to)[Len(chain)],
                 db' \in Tables, db'.timeline = s.timeline,
                 Newest(task[b].from, to) \in 0 .. height,
                 db'.cursor \in {db.cursor, Newest(task[b].from, to)}
          PROVE  InOrder(db)' /\ \A j \in DoneBy(db.cursor)' : Recorded(db, j)'
      <3>1. Newest(task[b].from, to) <= to \/ Newest(task[b].from, to) = 0
        BY <1>6, <2>1
      <3>2. db'.cursor \in Nat /\ (db'.cursor <= to \/ db'.cursor <= db.cursor)
        BY <1>1, <2>5, <3>1
      <3> QED
        BY <1>5, <2>1, <2>3, <2>5, <3>2
    <2>6. InOrder(db)' /\ \A j \in DoneBy(db.cursor)' : Recorded(db, j)'
      BY <2>2, <2>4, <2>5
    <2> QED
      BY <1>10, <2>1, <2>6
  <1>17. CASE UNCHANGED vars
    BY <1>4, <1>17 DEF vars, TimelineInv
  <1> QED
    BY <1>7, <1>11, <1>12, <1>13, <1>14, <1>15, <1>16, <1>17 DEF Next

\* The timelines stay in order and complete, and no window skips a block.
THEOREM TimelineInvariance ==
  ASSUME Throwing \cap DealEvents = {}, FromBlock <= 1
  PROVE  Spec => []TimelineInv
  <1>1. Init => TimelineInv
    BY IndexerAssumption, TimelineInit
  <1>2. Inv /\ TimelineInv /\ [Next]_vars => TimelineInv'
    BY IndexerAssumption, TimelineNext
  <1> QED
    BY <1>1, <1>2, Invariance, PTL DEF Spec

\* The timelines have every event of their deal up to the cursor, in the order of the chain and once,
\* whatever crashes, overlaps, fails and lags, as long as no handler of a deal's event throws and the
\* scan starts with the first block that has a log.
THEOREM TimelinesAreComplete ==
  ASSUME Throwing \cap DealEvents = {}, FromBlock <= 1
  PROVE  Spec => []TimelineComplete
  <1>1. ASSUME TimelineInv
        PROVE  TimelineComplete
    <2>1. ASSUME NEW d \in Deals
          PROVE  /\ \A n \in DOMAIN db.timeline[d] :
                      \E k \in Its(d) : Place(d, k) = n /\ chain[k].event.name = db.timeline[d][n]
                 /\ \A k \in Its(d) :
                      chain[k].block <= db.cursor => Place(d, k) \in DOMAIN db.timeline[d]
      <3>1. \A k \in Its(d) : chain[k].block <= db.cursor => Recorded(db, k)
        BY <1>1 DEF TimelineInv, DoneBy, Its
      <3> QED
        BY <1>1, <3>1 DEF TimelineInv, InOrder, Recorded
    <2> QED
      BY <2>1, Zenon DEF TimelineComplete, Its, Place
  <1> QED
    BY <1>1, TimelineInvariance, PTL

----------------------------------------------------------------------------
(* The receipt. *)

PageOK == \E at, state, events : page = [at |-> at, state |-> state, events |-> events]

ReceiptInv == Inv /\ TimelineInv /\ PageOK

\* At the start the receipt page shows nothing.
LEMMA ReceiptInvInit ==
  ASSUME IndexerAssumption, ReceiptInit
  PROVE  ReceiptInv
  <1>1. Inv /\ TimelineInv
    BY InvInit, TimelineInit DEF ReceiptInit
  <1>2. PageOK
    BY DEF PageOK, ReceiptInit, Loading
  <1> QED
    BY <1>1, <1>2 DEF ReceiptInv

\* The receipt page changes nothing of the mirror.
LEMMA ReceiptInvNext ==
  ASSUME IndexerAssumption, ReceiptInv, [ReceiptNext]_receiptVars,
         Throwing \cap DealEvents = {}, FromBlock <= 1
  PROVE  ReceiptInv'
  <1>1. [Next]_vars
    BY DEF ReceiptNext, GotDeal, DealFails, GotEvents, receiptVars
  <1>2. Inv' /\ TimelineInv'
    BY <1>1, InvNext, TimelineNext DEF ReceiptInv
  <1>3. PICK at, state, events : page = [at |-> at, state |-> state, events |-> events]
    BY DEF ReceiptInv, PageOK
  <1>4. \E a, s, e : page' = [at |-> a, state |-> s, events |-> e]
    <2>1. CASE UNCHANGED page
      BY <1>3, <2>1
    <2>2. CASE GotDeal
      <3>1. PICK s : page' = [page EXCEPT !.at = "events", !.state = s]
        BY <2>2 DEF GotDeal
      <3>2. page' = [at |-> "events", state |-> s, events |-> events]
        BY <1>3, <3>1
      <3> QED
        BY <3>2
    <2>3. CASE DealFails
      <3>1. page' = [at |-> "error", state |-> state, events |-> events]
        BY <1>3, <2>3 DEF DealFails
      <3> QED
        BY <3>1
    <2>4. CASE GotEvents
      <3>1. PICK e : page' = [page EXCEPT !.at = "shown", !.events = e]
        BY <2>4 DEF GotEvents
      <3>2. page' = [at |-> "shown", state |-> state, events |-> e]
        BY <1>3, <3>1
      <3> QED
        BY <3>2
    <2> QED
      BY <2>1, <2>2, <2>3, <2>4 DEF ReceiptNext, receiptVars
  <1> QED
    BY <1>2, <1>4 DEF ReceiptInv, PageOK

\* What happened to a deal by some block, and what its timeline has.
LEMMA TimelineTells ==
  ASSUME IndexerAssumption, Inv, TimelineInv, NEW d \in Deals
  PROVE  /\ \A name \in ToSet(db.timeline[d]) : Happened(EventsUpTo(height), {name}, d)
         /\ \A name : Happened(EventsUpTo(db.cursor), {name}, d) => name \in ToSet(db.timeline[d])
  <1> DEFINE kept == db.timeline[d]
  <1>1. chain \in Seq(Log)
    BY DEF Inv, TypeOK
  <1>2. \A n \in DOMAIN kept : \E i \in Its(d) : Place(d, i) = n /\ chain[i].event.name = kept[n]
    BY DEF TimelineInv, InOrder
  <1>3. ASSUME NEW name \in ToSet(kept)
        PROVE  Happened(EventsUpTo(height), {name}, d)
    <2>1. PICK n \in DOMAIN kept : kept[n] = name
      BY <1>3 DEF ToSet
    <2>2. PICK i \in Its(d) : chain[i].event.name = name
      BY <1>2, <2>1
    <2>3. i \in DOMAIN chain /\ chain[i].block <= height /\ chain[i].event.deal = d
      BY DEF Its, Inv, ChainOK
    <2>4. chain[i].event \in EventsUpTo(height)
      BY <2>3 DEF EventsUpTo, ToSet
    <2> QED
      BY <2>2, <2>3, <2>4 DEF Happened
  <1>4. ASSUME NEW name, Happened(EventsUpTo(db.cursor), {name}, d)
        PROVE  name \in ToSet(kept)
    <2>1. PICK k \in DOMAIN chain : /\ chain[k].block <= db.cursor /\ chain[k].event.name = name
                                    /\ chain[k].event.deal = d
      BY <1>4 DEF Happened, EventsUpTo, ToSet
    <2>2. k \in Its(d) /\ Recorded(db, k)
      BY <2>1 DEF Its, TimelineInv, DoneBy
    <2>3. Place(d, k) \in DOMAIN kept
      BY <2>2 DEF Recorded
    <2>4. PICK i \in Its(d) : /\ Place(d, i) = Place(d, k)
                              /\ chain[i].event.name = kept[Place(d, k)]
      BY <1>2, <2>3
    <2>5. i = k
      <3>1. i \in Nat /\ k \in Nat
        BY <1>1, <2>2 DEF Its
      <3>2. /\ Place(d, k) \in Nat /\ (i < k => Place(d, i) < Place(d, k))
            /\ (k < i => Place(d, k) < Place(d, i))
        BY <1>1, <2>2, Places, Zenon
      <3> QED
        BY <2>4, <3>1, <3>2
    <2> QED
      BY <2>1, <2>3, <2>4, <2>5 DEF ToSet
  <1> QED
    BY <1>3, <1>4

\* The order newest first has the same entries.
LEMMA Reversed ==
  ASSUME NEW S, NEW s \in Seq(S)
  PROVE  ToSet(Reverse(s)) = ToSet(s)
  <1>1. Len(s) \in Nat /\ DOMAIN s = 1 .. Len(s) /\ DOMAIN Reverse(s) = 1 .. Len(s)
    BY DEF Reverse
  <1>2. \A n \in 1 .. Len(s) : Reverse(s)[n] = s[Len(s) - n + 1] /\ Len(s) - n + 1 \in 1 .. Len(s)
    BY <1>1 DEF Reverse
  <1>3. \A n \in 1 .. Len(s) : s[n] = Reverse(s)[Len(s) - n + 1]
    <2>1. ASSUME NEW n \in 1 .. Len(s)
          PROVE  s[n] = Reverse(s)[Len(s) - n + 1]
      <3>1. Len(s) - n + 1 \in 1 .. Len(s) /\ Len(s) - (Len(s) - n + 1) + 1 = n
        BY <1>1
      <3> QED
        BY <1>2, <3>1
    <2> QED
      BY <2>1
  <1> QED
    BY <1>1, <1>2, <1>3 DEF ToSet

\* A receipt proves nothing that did not happen to the deal, and lacks nothing that the backend had
\* indexed when it answered.
THEOREM ReceiptsAreTrue ==
  ASSUME Throwing \cap DealEvents = {}, FromBlock <= 1
  PROVE  ReceiptSpec => ReceiptIsTrue
  <1> DEFINE Honest ==
               page'.at = "shown" =>
                       /\ \A name \in proofs(page') : Happened(EventsUpTo(height), {name}, deal)
                       /\ \A name \in {"Funded", "CheckedIn", terminalName(page')} :
                            page'.events # <<>> /\ Happened(EventsUpTo(db.cursor), {name}, deal)
                              => name \in proofs(page')
  <1>1. ReceiptInit => ReceiptInv
    BY IndexerAssumption, ReceiptInvInit
  <1>2. ReceiptInv /\ [ReceiptNext]_receiptVars => ReceiptInv'
    BY IndexerAssumption, ReceiptInvNext
  <1>3. ASSUME ReceiptInv, ReceiptNext
        PROVE  Honest
    <2>1. PICK at, state, events : page = [at |-> at, state |-> state, events |-> events]
      BY <1>3 DEF ReceiptInv, PageOK
    <2>2. SUFFICES ASSUME page'.at = "shown" PROVE Honest
      OBVIOUS
    <2>3. GotEvents
      <3>1. ~ GotDeal
        <4>1. SUFFICES ASSUME GotDeal PROVE FALSE
          OBVIOUS
        <4>2. PICK s : page' = [page EXCEPT !.at = "events", !.state = s]
          BY <4>1 DEF GotDeal
        <4> QED
          BY <2>1, <2>2, <4>2
      <3>2. ~ DealFails
        BY <2>1, <2>2 DEF DealFails
      <3>3. ~ (~Loaded /\ Next /\ UNCHANGED page)
        BY <2>2 DEF Loaded
      <3> QED
        BY <1>3, <3>1, <3>2, <3>3 DEF ReceiptNext
    <2>4. PICK e \in {getDealEvents, <<>>} : page' = [page EXCEPT !.at = "shown", !.events = e]
      BY <2>3 DEF GotEvents
    <2>5. page'.events = e
      BY <2>1, <2>4
    <2>6. deal \in Deals /\ db.timeline[deal] \in Seq(DealEvents)
      <3>1. deal \in Deals
        BY ReceiptAssumption
      <3>2. db.timeline \in [Deals -> Seq(DealEvents)]
        BY <1>3, Parts DEF ReceiptInv, Inv, TypeOK
      <3> QED
        BY <3>1, <3>2
    <2>7. ToSet(<<>>) = {} /\ ToSet(Reverse(db.timeline[deal])) = ToSet(db.timeline[deal])
      <3>1. ToSet(<<>>) = {}
        BY DEF ToSet
      <3>2. ToSet(Reverse(db.timeline[deal])) = ToSet(db.timeline[deal])
        BY <2>6, Reversed
      <3> QED
        BY <3>1, <3>2
    <2>8. ToSet(e) \subseteq ToSet(db.timeline[deal])
          /\ (e # <<>> => ToSet(e) = ToSet(db.timeline[deal]))
      BY <2>7 DEF getDealEvents, getNotifications
    <2>9. /\ \A name \in ToSet(db.timeline[deal]) : Happened(EventsUpTo(height), {name}, deal)
          /\ \A name : Happened(EventsUpTo(db.cursor), {name}, deal) =>
               name \in ToSet(db.timeline[deal])
      BY <1>3, <2>6, IndexerAssumption, TimelineTells DEF ReceiptInv
    <2>10. proofs(page') = {"Funded", "CheckedIn", terminalName(page')} \cap ToSet(e)
      BY <2>5 DEF proofs
    <2> QED
      BY <2>5, <2>8, <2>9, <2>10
  <1>4. ReceiptInv /\ [ReceiptNext]_receiptVars => [Honest]_receiptVars
    BY <1>3
  <1> QED
    BY <1>1, <1>2, <1>4, PTL DEF ReceiptSpec, ReceiptIsTrue

----------------------------------------------------------------------------
(* The mirror. *)

\* What a handler writes, wherever it stops.
LEMMA HandlersWrite ==
  ASSUME NEW t \in Tables, NEW e, Sound(e), NEW s \in ToSet(handleEvent(t, e))
  PROVE  /\ OnlyListing(s, t, e.listing) /\ OnlyDeal(s, t, e.deal)
         /\ e.name = "Listed" => s.deal = t.deal /\ s.listing[e.listing] = "active"
         /\ e.name = "ListingCancelled" => s.deal = t.deal /\ Sold(s, t, e.listing)
         /\ e.name = "Funded" =>
              /\ Bought(s, t, e.deal, e.listing)
              /\ s.listing = t.listing \/ Sold(s, t, e.listing)
              /\ s = Last(handleEvent(t, e)) => Sold(s, t, e.listing)
         /\ e.name \in {"CheckedIn"} \cup FinalEvents =>
              s.listing = t.listing /\ Advanced(s, t, e.deal, Written(e))
  <1> DEFINE funded == upsertDealFromFunded(t, e.deal, e.listing)
             sold == setListingActive(funded, e.listing)
             moved == setDealState(t, e.deal, Written(e))
  <1>1. e.name \in EventNames /\ e.listing \in Listings
    BY DEF Sound, Event
  <1>2. /\ "Listed" \notin FinalEvents /\ "ListingCancelled" \notin FinalEvents
        /\ "Funded" \notin FinalEvents
    BY DEF FinalEvents
  <1>3. CASE e.name = "Listed"
    <2>1. s = upsertListing(t, e.listing)
      BY <1>3, Runs
    <2>2. s.deal = t.deal /\ s.listing[e.listing] = "active" /\ OnlyListing(s, t, e.listing)
      BY <1>1, <2>1, Statements
    <2> QED
      BY <1>2, <1>3, <2>2 DEF OnlyDeal
  <1>4. CASE e.name = "ListingCancelled"
    <2>1. s = setListingActive(t, e.listing)
      BY <1>4, Runs
    <2>2. s.deal = t.deal /\ Sold(s, t, e.listing) /\ OnlyListing(s, t, e.listing)
      BY <1>1, <2>1, Statements
    <2> QED
      BY <1>2, <1>4, <2>2 DEF OnlyDeal
  <1>5. CASE e.name = "Funded"
    <2>1. e.deal \in Deals /\ e.name \in DealEvents
      BY <1>5 DEF Sound, DealEvents
    <2>2. /\ funded \in Tables /\ funded.listing = t.listing
          /\ Bought(funded, t, e.deal, e.listing) /\ OnlyDeal(funded, t, e.deal)
      BY <1>1, <2>1, Statements
    <2> HIDE DEF funded
    <2>3. /\ sold \in Tables /\ sold.deal = funded.deal
          /\ Sold(sold, t, e.listing) /\ OnlyListing(sold, t, e.listing)
      <3>1. /\ sold \in Tables /\ sold.deal = funded.deal
            /\ Sold(sold, funded, e.listing) /\ OnlyListing(sold, funded, e.listing)
        BY <1>1, <2>2, Statements
      <3> HIDE DEF sold
      <3> QED
        BY <2>2, <3>1 DEF Sold, OnlyListing
    <2> HIDE DEF sold
    <2> DEFINE bought == recordEventOnce(sold, e.deal, e.name)
    <2>4. bought.deal = sold.deal /\ bought.listing = sold.listing
      BY <2>1, <2>3, Statements
    <2>5. /\ ToSet(handleEvent(t, e)) = {funded, sold, bought}
          /\ Last(handleEvent(t, e)) = bought
      BY <1>5, Runs, Zenon DEF funded, sold
    <2> HIDE DEF bought
    <2>6. CASE s = funded
      <3>1. Bought(s, t, e.deal, e.listing) /\ OnlyDeal(s, t, e.deal) /\ OnlyListing(s, t, e.listing)
            /\ s.listing = t.listing
        BY <2>2, <2>6 DEF OnlyListing
      <3>2. s = bought => Sold(s, t, e.listing)
        BY <2>3, <2>4 DEF Sold
      <3> QED
        BY <1>2, <1>5, <2>5, <3>1, <3>2
    <2>7. CASE s = sold \/ s = bought
      <3>1. s.deal = funded.deal /\ s.listing = sold.listing
        BY <2>3, <2>4, <2>7
      <3>2. Bought(s, t, e.deal, e.listing) /\ OnlyDeal(s, t, e.deal)
        BY <2>2, <3>1 DEF Bought, OnlyDeal
      <3>3. Sold(s, t, e.listing) /\ OnlyListing(s, t, e.listing)
        BY <2>3, <3>1 DEF Sold, OnlyListing
      <3> QED
        BY <1>2, <1>5, <3>2, <3>3
    <2> QED
      BY <2>5, <2>6, <2>7
  <1>6. CASE e.name \in {"CheckedIn"} \cup FinalEvents
    <2>1. e.deal \in Deals /\ e.name \in DealEvents
      BY <1>6 DEF Sound, DealEvents
    <2>2. Written(e) \in {"SellerCheckedIn"} \cup FinalEvents
      BY <1>6 DEF Written
    <2>3. /\ moved \in Tables /\ moved.listing = t.listing
          /\ Advanced(moved, t, e.deal, Written(e)) /\ OnlyDeal(moved, t, e.deal)
      <3>1. \A state \in {"SellerCheckedIn"} \cup FinalEvents :
              LET m == setDealState(t, e.deal, state) IN
              /\ m \in Tables /\ m.listing = t.listing
              /\ Advanced(m, t, e.deal, state) /\ OnlyDeal(m, t, e.deal)
        BY <2>1, Statements
      <3> QED
        BY <2>2, <3>1
    <2> HIDE DEF moved
    <2> DEFINE noted == recordEventOnce(moved, e.deal, e.name)
    <2>4. noted.deal = moved.deal /\ noted.listing = moved.listing
      BY <2>1, <2>3, Statements
    <2>5. ToSet(handleEvent(t, e)) = {moved, noted}
      BY <1>6, Runs, Zenon DEF moved
    <2> HIDE DEF noted
    <2>6. s.deal = moved.deal /\ s.listing = moved.listing
      BY <2>4, <2>5
    <2>7. s.listing = t.listing /\ Advanced(s, t, e.deal, Written(e)) /\ OnlyDeal(s, t, e.deal)
      BY <2>3, <2>6, Zenon DEF Advanced, OnlyDeal
    <2>8. OnlyListing(s, t, e.listing)
      BY <2>7 DEF OnlyListing
    <2>9. e.name # "Listed" /\ e.name # "ListingCancelled" /\ e.name # "Funded"
      BY <1>2, <1>6
    <2> QED
      BY <2>7, <2>8, <2>9
  <1> QED
    BY <1>1, <1>3, <1>4, <1>5, <1>6 DEF EventNames, DealEvents

\* A row that was right stays right when a log of another deal or listing is done.
LEMMA DealUntouched ==
  ASSUME NEW s, NEW t, NEW d, NEW k \in DOMAIN chain, NEW done, NEW r,
         chain[k].event.deal # d, s.deal[d] = t.deal[d], DealShown(t, d, done, r)
  PROVE  DealShown(s, d, done \cup {k}, r)
  <1> DEFINE next == done \cup {k}
  <1>1. \A name : Was(next, name, d) <=> Was(done, name, d)
    BY DEF Was
  <1>2. /\ Coming(next, r) \subseteq Coming(done, r)
        /\ \A j \in Coming(done, r) : j = k \/ j \in Coming(next, r)
    BY DEF Coming
  <1>3. \A name : Was(done \cup Coming(done, r), name, d) => Was(next \cup Coming(next, r), name, d)
    BY <1>2, Zenon DEF Was
  <1>4. (\A j \in Coming(next, r) : chain[j].event.deal # d)
          => \A j \in Coming(done, r) : chain[j].event.deal # d
    BY <1>2
  <1> HIDE DEF next
  <1>5. DealShown(s, d, next, r)
    BY <1>1, <1>3, <1>4, Zenon DEF DealShown
  <1> QED
    BY <1>5 DEF next

\* A log of another listing changes nothing of what a listing's row has to show.
LEMMA ListingUntouched ==
  ASSUME NEW s, NEW t, NEW i, NEW k \in DOMAIN chain, NEW done, NEW r,
         chain[k].event.listing # i \/ chain[k].event.name \notin OfListing,
         s.listing[i] = t.listing[i], ListingShown(t, i, done, r)
  PROVE  ListingShown(s, i, done \cup {k}, r)
  <1> DEFINE next == done \cup {k}
  <1>1. /\ Named(next, {"Listed"}, i) <=> Named(done, {"Listed"}, i)
        /\ Named(next, {"ListingCancelled", "Funded"}, i)
             <=> Named(done, {"ListingCancelled", "Funded"}, i)
    BY DEF Named, OfListing
  <1>2. Named(Coming(done, r), OfListing, i) => Named(Coming(next, r), OfListing, i)
    <2>1. \A j \in Coming(done, r) : j = k \/ j \in Coming(next, r)
      BY DEF Coming
    <2> QED
      BY <2>1, Zenon DEF Named
  <1> HIDE DEF next
  <1>3. ListingShown(s, i, next, r)
    BY <1>1, <1>2, Zenon DEF ListingShown
  <1> QED
    BY <1>3 DEF next

\* Rows that are right stay right when some logs that were done are to come again, as after a crash.
LEMMA Weaker ==
  ASSUME NEW t, NEW done, NEW r, NEW less, NEW q, Mirrors(t, done, r),
         less \subseteq done, done \subseteq less \cup Coming(less, q),
         Coming(done, r) \subseteq Coming(less, q)
  PROVE  Mirrors(t, less, q)
  <1>1. ASSUME NEW i \in Listings
        PROVE  ListingShown(t, i, less, q)
    <2>1. ListingShown(t, i, done, r)
      BY DEF Mirrors
    <2>2. \A names : Named(less, names, i) => Named(done, names, i)
      BY Zenon DEF Named
    <2>3. Named(Coming(done, r), OfListing, i) => Named(Coming(less, q), OfListing, i)
      BY Zenon DEF Named
    <2>4. ASSUME ~ Named(Coming(less, q), OfListing, i), NEW names, names \subseteq OfListing
          PROVE  Named(less, names, i) <=> Named(done, names, i)
      BY <2>2, <2>4, Zenon DEF Named
    <2>5. {"Listed"} \subseteq OfListing /\ {"ListingCancelled", "Funded"} \subseteq OfListing
      BY DEF OfListing
    <2>6. Named(less, {"Listed"}, i) => t.listing[i] # "absent"
      BY <2>1, <2>2 DEF ListingShown
    <2>7. ASSUME ~ Named(Coming(less, q), OfListing, i)
          PROVE  t.listing[i] =
                   IF ~Named(less, {"Listed"}, i) THEN "absent"
                   ELSE IF Named(less, {"ListingCancelled", "Funded"}, i) THEN "inactive"
                   ELSE "active"
      <3>1. /\ Named(less, {"Listed"}, i) <=> Named(done, {"Listed"}, i)
            /\ Named(less, {"ListingCancelled", "Funded"}, i)
                 <=> Named(done, {"ListingCancelled", "Funded"}, i)
        BY <2>4, <2>5, <2>7, Zenon
      <3> QED
        BY <2>1, <2>3, <2>7, <3>1 DEF ListingShown
    <2> QED
      BY <2>6, <2>7 DEF ListingShown
  <1>2. ASSUME NEW d \in Deals
        PROVE  DealShown(t, d, less, q)
    <2>1. DealShown(t, d, done, r)
      BY DEF Mirrors
    <2>2. \A name : Was(less, name, d) => Was(done, name, d)
      BY Zenon DEF Was
    <2>3. \A name : Was(done \cup Coming(done, r), name, d) => Was(less \cup Coming(less, q), name, d)
      <3>1. done \cup Coming(done, r) \subseteq less \cup Coming(less, q)
        OBVIOUS
      <3> QED
        BY <3>1, Zenon DEF Was
    <2>4. (\A j \in Coming(less, q) : chain[j].event.deal # d)
            => \A j \in Coming(done, r) : chain[j].event.deal # d
      OBVIOUS
    <2> QED
      BY <2>1, <2>2, <2>3, <2>4, Zenon DEF DealShown
  <1> QED
    BY <1>1, <1>2 DEF Mirrors

\* What came before an event of a listing.
LEMMA ListingCourse ==
  ASSUME chain \in Seq(Log), ChainOK, NEW k \in DOMAIN chain
  PROVE  LET e == chain[k].event IN
         /\ e.name = "Listed" =>
              ~ Named(1 .. k, {"ListingCancelled", "Funded"}, e.listing)
         /\ e.name \in {"ListingCancelled", "Funded"} =>
              Named(1 .. k - 1, {"Listed"}, e.listing)
  <1> DEFINE e == chain[k].event
  <1>1. k \in 1 .. Len(chain) /\ \A j \in 1 .. k - 1 : j \in DOMAIN chain
    BY Course
  <1>2. ASSUME e.name = "Listed", NEW j \in 1 .. k,
               chain[j].event.name \in {"ListingCancelled", "Funded"},
               chain[j].event.listing = e.listing
        PROVE  FALSE
    <2>1. j \in 1 .. k - 1
      <3>1. j # k
        BY <1>2
      <3> QED
        BY <1>1, <3>1
    <2>2. j \in DOMAIN chain
      BY <1>1, <2>1
    <2>3. \E m \in 1 .. j - 1 : chain[m].event.name \in {"Listed"}
                                /\ chain[m].event.listing = chain[j].event.listing
      BY <1>2, <2>2, Course
    <2>4. PICK m \in 1 .. j - 1 : chain[m].event.name \in {"Listed"}
                                  /\ chain[m].event.listing = e.listing
      BY <1>2, <2>3
    <2>5. m \in 1 .. k - 1
      BY <1>1, <2>1, <2>4
    <2>6. ~ \E n \in 1 .. k - 1 : chain[n].event.name \in {"Listed"}
                                  /\ chain[n].event.listing = e.listing
      BY <1>2, Course
    <2> QED
      BY <2>4, <2>5, <2>6
  <1>3. ASSUME e.name \in {"ListingCancelled", "Funded"}
        PROVE  Named(1 .. k - 1, {"Listed"}, e.listing)
    <2>1. \E j \in 1 .. k - 1 : chain[j].event.name \in {"Listed"}
                                /\ chain[j].event.listing = e.listing
      BY <1>3, Course
    <2> QED
      BY <2>1 DEF Named
  <1> QED
    BY <1>2, <1>3 DEF Named

\* Another log is done: its handler leaves the rows right.
LEMMA ListingStep ==
  ASSUME chain \in Seq(Log), ChainOK, 0 \notin Deals, Throwing \subseteq {"CheckedIn"},
         NEW t \in Tables, NEW k \in DOMAIN chain, NEW s \in Handled(t, chain[k].event), NEW r,
         NEW i \in Listings, ListingShown(t, i, 1 .. k - 1, r)
  PROVE  ListingShown(s, i, 1 .. k, r)
  <1> DEFINE e == chain[k].event
             done == 1 .. k - 1
  <1>1. k \in 1 .. Len(chain) /\ 1 .. k = done \cup {k} /\ k \in 1 .. k
    <2>1. k \in 1 .. Len(chain) /\ Len(chain) \in Nat
      OBVIOUS
    <2> QED
      BY <2>1
  <1>2. Sound(e) /\ (s = t \/ s \in ToSet(handleEvent(t, e)))
    <2>1. Sound(e)
      BY LogsAreSound
    <2> QED
      BY <2>1, HandlersType
  <1>3. e.name \notin Throwing => s = Last(handleEvent(t, e)) /\ s \in ToSet(handleEvent(t, e))
    BY <1>2, HandlersType
  <1>4. e.name \in EventNames
    BY <1>2 DEF Sound, Event
  <1>5. CASE e.listing # i \/ e.name \notin OfListing
    <2>1. s.listing[i] = t.listing[i]
      <3>1. CASE s = t
        BY <3>1
      <3>2. CASE s \in ToSet(handleEvent(t, e)) /\ e.listing # i
        <4>1. OnlyListing(s, t, e.listing)
          BY <1>2, <3>2, HandlersWrite
        <4> QED
          BY <3>2, <4>1 DEF OnlyListing
      <3>3. CASE s \in ToSet(handleEvent(t, e)) /\ e.name \notin OfListing
        <4>1. e.name \in {"CheckedIn"} \cup FinalEvents
          BY <1>4, <3>3 DEF OfListing, EventNames, DealEvents
        <4>2. s.listing = t.listing
          BY <1>2, <3>3, <4>1, HandlersWrite
        <4> QED
          BY <4>2
      <3> QED
        BY <1>2, <1>5, <3>1, <3>2, <3>3
    <2> HIDE DEF done
    <2>2. ListingShown(s, i, done \cup {k}, r)
      BY <1>5, <2>1, ListingUntouched DEF done
    <2> QED
      BY <1>1, <2>2
  <1>6. CASE e.listing = i /\ e.name \in OfListing
    <2>1. s = Last(handleEvent(t, e)) /\ s \in ToSet(handleEvent(t, e))
      BY <1>3, <1>6 DEF OfListing
    <2>2. CASE e.name = "Listed"
      <3>1. s.listing[i] = "active"
        BY <1>2, <1>6, <2>1, <2>2, HandlersWrite
      <3>2. Named(1 .. k, {"Listed"}, i)
        BY <1>1, <1>6, <2>2 DEF Named
      <3>3. ~ Named(1 .. k, {"ListingCancelled", "Funded"}, i)
        BY <1>6, <2>2, ListingCourse
      <3> QED
        BY <3>1, <3>2, <3>3 DEF ListingShown
    <2>3. CASE e.name \in {"ListingCancelled", "Funded"}
      <3>1. Sold(s, t, i)
        BY <1>2, <1>6, <2>1, <2>3, HandlersWrite
      <3>2. Named(done, {"Listed"}, i)
        BY <1>6, <2>3, ListingCourse
      <3>3. s.listing[i] = "inactive"
        BY <3>1, <3>2 DEF Sold, ListingShown
      <3>4. Named(1 .. k, {"Listed"}, i)
        BY <1>1, <3>2 DEF Named
      <3>5. Named(1 .. k, {"ListingCancelled", "Funded"}, i)
        BY <1>1, <1>6, <2>3 DEF Named
      <3> QED
        BY <3>3, <3>4, <3>5 DEF ListingShown
    <2> QED
      BY <1>6, <2>2, <2>3 DEF OfListing
  <1> QED
    BY <1>5, <1>6

\* Handling the next log makes a deal's row show that log too.
LEMMA DealStep ==
  ASSUME chain \in Seq(Log), ChainOK, 0 \notin Deals, Throwing \subseteq {"CheckedIn"},
         NEW t \in Tables, NEW k \in DOMAIN chain, NEW s \in Handled(t, chain[k].event), NEW r,
         chain[k].event.name = "Funded" => t.listing[chain[k].event.listing] # "absent",
         NEW d \in Deals, DealShown(t, d, 1 .. k - 1, r)
  PROVE  DealShown(s, d, 1 .. k, r)
  <1> DEFINE e == chain[k].event
             done == 1 .. k - 1
             all == done \cup Coming(done, r)
             next == 1 .. k
             more == next \cup Coming(next, r)
  <1>1. k \in 1 .. Len(chain) /\ next = done \cup {k} /\ k \in next /\ Len(chain) \in Nat
    <2>1. k \in 1 .. Len(chain) /\ Len(chain) \in Nat
      OBVIOUS
    <2> QED
      BY <2>1
  <1>2. Sound(e) /\ (s = t \/ s \in ToSet(handleEvent(t, e)))
    <2>1. Sound(e)
      BY LogsAreSound
    <2> QED
      BY <2>1, HandlersType
  <1>3. e.name \notin Throwing => s \in ToSet(handleEvent(t, e))
    BY <1>2, HandlersType
  <1>4. CASE e.deal # d
    <2>1. s.deal[d] = t.deal[d]
      <3>1. CASE s = t
        BY <3>1
      <3>2. CASE s \in ToSet(handleEvent(t, e))
        <4>1. OnlyDeal(s, t, e.deal)
          BY <1>2, <3>2, HandlersWrite
        <4> QED
          BY <1>4, <4>1 DEF OnlyDeal
      <3> QED
        BY <1>2, <3>1, <3>2
    <2> HIDE DEF done, next
    <2>2. DealShown(s, d, done \cup {k}, r)
      BY <1>4, <2>1, DealUntouched DEF done
    <2> QED
      BY <1>1, <2>2 DEF next
  <1>5. CASE e.deal = d
    <2>1. /\ k \in Its(d) /\ e.name \in DealEvents
          /\ \A j \in Its(d) : j < k =>
               /\ e.name # "Funded" /\ chain[j].event.name # e.name
               /\ chain[j].event.name \notin FinalEvents
          /\ e.name # "Funded" => \E j \in Its(d) : j < k /\ chain[j].event.name = "Funded"
      <3>1. k \in Its(d)
        BY <1>5 DEF Its
      <3>2. /\ e.name \in DealEvents
            /\ e.name # "Funded" => \E j \in Its(d) : j < k /\ chain[j].event.name = "Funded"
            /\ \A j \in Its(d) : j < k =>
                 /\ e.name # "Funded" /\ chain[j].event.name # e.name
                 /\ chain[j].event.name \notin FinalEvents
        BY <3>1, DealCourse
      <3> QED
        BY <3>1, <3>2
    <2>2. \A j \in done : chain[j].event.deal = d => j \in Its(d) /\ j < k
      BY <1>1 DEF Its
    <2>3. \A j \in Its(d) : j < k => j \in done
      BY <1>1 DEF Its
    <2>4. /\ \A name : Was(next, name, d) <=> Was(done, name, d) \/ e.name = name
          /\ \A name : Was(all, name, d) => Was(more, name, d)
          /\ Was(more, e.name, d)
      <3>1. \A name : Was(next, name, d) <=> Was(done, name, d) \/ e.name = name
        BY <1>1, <1>5 DEF Was
      <3>2. all \subseteq more /\ k \in more
        BY <1>1 DEF Coming
      <3> HIDE DEF all, more
      <3>3. \A name : Was(all, name, d) => Was(more, name, d)
        BY <3>2, Zenon DEF Was
      <3>4. Was(more, e.name, d)
        BY <1>5, <3>2, Zenon DEF Was
      <3> QED
        BY <3>1, <3>3, <3>4
    <2>5. \A name \in FinalEvents : Was(next, name, d) => e.name = name
      <3>1. \A name \in FinalEvents : ~ Was(done, name, d)
        BY <2>1, <2>2 DEF Was
      <3> QED
        BY <2>4, <3>1
    <2>6. e.name # "Funded" => Was(done, "Funded", d)
      BY <2>1, <2>3 DEF Was, Its
    <2>7. /\ Was(done, "Funded", d) => t.deal[d].state # "None" /\ t.deal[d].payToken
          /\ t.deal[d].state # "None" \/ t.deal[d].payToken => Was(more, "Funded", d)
          /\ t.deal[d].state = "SellerCheckedIn" \/ t.deal[d].checkedIn => Was(more, "CheckedIn", d)
          /\ t.deal[d].state \in FinalEvents => Was(more, t.deal[d].state, d)
      <3> HIDE DEF more
      <3>1. \A name : Was(all, name, d) => Was(more, name, d)
        BY <2>4
      <3> QED
        BY <3>1, Zenon DEF DealShown
    <2>8. /\ "Funded" \notin FinalEvents /\ "CheckedIn" \notin FinalEvents
          /\ "SellerCheckedIn" \notin FinalEvents /\ "None" \notin FinalEvents
      BY DEF FinalEvents
    <2>9. SUFFICES
            /\ Was(next, "Funded", d) => s.deal[d].state # "None" /\ s.deal[d].payToken
            /\ s.deal[d].state # "None" \/ s.deal[d].payToken => Was(more, "Funded", d)
            /\ s.deal[d].state = "SellerCheckedIn" \/ s.deal[d].checkedIn =>
                 Was(more, "CheckedIn", d)
            /\ s.deal[d].state \in FinalEvents => Was(more, s.deal[d].state, d)
            /\ \A name \in FinalEvents : Was(next, name, d) => s.deal[d].state = name
            /\ Was(next, "CheckedIn", d) /\ "CheckedIn" \notin Throwing =>
                 s.deal[d].state # "Funded"
      <3> QED
        BY Zenon DEF DealShown
    <2> HIDE DEF next, done, more, all
    <2>10. CASE e.name = "Funded"
      <3>1. s \in ToSet(handleEvent(t, e))
        BY <1>3, <2>10
      <3>2. Bought(s, t, d, e.listing)
        BY <1>2, <1>5, <2>10, <3>1, HandlersWrite
      <3>3. /\ s.deal[d].state = IF t.deal[d].state = "None" THEN "Funded" ELSE t.deal[d].state
            /\ s.deal[d].checkedIn = t.deal[d].checkedIn
            /\ s.deal[d].payToken = TRUE
        <4>1. (t.listing[e.listing] # "absent") = TRUE
          BY <2>10
        <4> QED
          BY <3>2, <4>1, Zenon DEF Bought
      <3>4. Was(more, "Funded", d) /\ ~ Was(next, "CheckedIn", d)
        <4>1. ~ Was(done, "CheckedIn", d)
          BY <2>1, <2>2, <2>10 DEF Was
        <4> QED
          BY <2>4, <2>10, <4>1
      <3>5. \A name \in FinalEvents : ~ Was(next, name, d)
        BY <2>5, <2>8, <2>10
      <3>6. s.deal[d].state # "None"
        BY <3>3
      <3>7. s.deal[d].state = "SellerCheckedIn" \/ s.deal[d].checkedIn => Was(more, "CheckedIn", d)
        <4>1. s.deal[d].state = "SellerCheckedIn" => t.deal[d].state = "SellerCheckedIn"
          BY <3>3
        <4> QED
          BY <2>7, <3>3, <4>1, Zenon
      <3>8. s.deal[d].state \in FinalEvents => Was(more, s.deal[d].state, d)
        BY <2>7, <2>8, <3>3
      <3>9. s.deal[d].payToken
        BY <3>3, Zenon
      <3> QED
        BY <3>4, <3>5, <3>6, <3>7, <3>8, <3>9, Zenon
    <2>11. CASE e.name # "Funded" /\ s \in ToSet(handleEvent(t, e))
      <3>1. e.name \in {"CheckedIn"} \cup FinalEvents
        BY <2>1, <2>11 DEF DealEvents
      <3>2. Advanced(s, t, d, Written(e))
        BY <1>2, <1>5, <2>11, <3>1, HandlersWrite
      <3>3. t.deal[d].state # "None" /\ t.deal[d].payToken /\ Was(more, "Funded", d)
        BY <2>6, <2>7, <2>11, Zenon
      <3>4. /\ s.deal[d].state = Written(e)
            /\ s.deal[d].checkedIn => t.deal[d].checkedIn \/ Written(e) = "SellerCheckedIn"
            /\ s.deal[d].payToken
        <4>1. s.deal[d].state = Written(e)
          BY <3>2, <3>3 DEF Advanced
        <4>2. s.deal[d].payToken = t.deal[d].payToken
          BY <3>2, Zenon DEF Advanced
        <4>3. s.deal[d].checkedIn => t.deal[d].checkedIn \/ Written(e) = "SellerCheckedIn"
          BY <3>2, Zenon DEF Advanced
        <4>4. s.deal[d].payToken
          BY <3>3, <4>2, Zenon
        <4> QED
          BY <4>1, <4>3, <4>4, Zenon
      <3>5. /\ Written(e) # "None" /\ Written(e) # "Funded"
            /\ Written(e) = "SellerCheckedIn" => e.name = "CheckedIn"
            /\ Written(e) \in FinalEvents => Written(e) = e.name
            /\ e.name \in FinalEvents => Written(e) = e.name
        BY <2>8, <3>1 DEF Written
      <3>6. Written(e) = "SellerCheckedIn" => Was(more, "CheckedIn", d)
        BY <2>4, <3>5
      <3>7. s.deal[d].state = "SellerCheckedIn" \/ s.deal[d].checkedIn => Was(more, "CheckedIn", d)
        BY <2>7, <3>4, <3>6, Zenon
      <3>8. s.deal[d].state \in FinalEvents => Was(more, s.deal[d].state, d)
        BY <2>4, <3>4, <3>5
      <3>9. \A name \in FinalEvents : Was(next, name, d) => s.deal[d].state = name
        BY <2>5, <3>4, <3>5
      <3>10. s.deal[d].state # "None" /\ s.deal[d].state # "Funded"
        BY <3>4, <3>5
      <3> QED
        BY <3>3, <3>4, <3>7, <3>8, <3>9, <3>10, Zenon
    <2>12. CASE e.name # "Funded" /\ s = t /\ e.name \in Throwing
      <3>1. e.name = "CheckedIn"
        BY <2>12
      <3>2. \A name \in FinalEvents : ~ Was(next, name, d)
        BY <2>5, <2>8, <3>1
      <3>3. Was(done, "Funded", d)
        BY <2>6, <2>12
      <3> QED
        BY <2>7, <2>12, <3>1, <3>2, <3>3, Zenon
    <2> QED
      BY <1>2, <1>3, <2>10, <2>11, <2>12
  <1> QED
    BY <1>4, <1>5

\* Handling the next log makes all the tables show that log too.
LEMMA MirrorStep ==
  ASSUME chain \in Seq(Log), ChainOK, 0 \notin Deals, Throwing \subseteq {"CheckedIn"},
         NEW t \in Tables, NEW k \in DOMAIN chain, NEW s \in Handled(t, chain[k].event), NEW r,
         Mirrors(t, 1 .. k - 1, r)
  PROVE  Mirrors(s, 1 .. k, r)
  <1>1. Sound(chain[k].event)
    BY LogsAreSound
  <1>2. ASSUME chain[k].event.name = "Funded"
        PROVE  t.listing[chain[k].event.listing] # "absent"
    <2>1. Named(1 .. k - 1, {"Listed"}, chain[k].event.listing)
      BY <1>2, ListingCourse
    <2>2. chain[k].event.listing \in Listings
      BY <1>1 DEF Sound, Event
    <2> QED
      BY <2>1, <2>2 DEF Mirrors, ListingShown
  <1>3. \A i \in Listings : ListingShown(s, i, 1 .. k, r)
    BY ListingStep DEF Mirrors
  <1>4. \A d \in Deals : DealShown(s, d, 1 .. k, r)
    BY <1>2, DealStep DEF Mirrors
  <1> QED
    BY <1>3, <1>4 DEF Mirrors

\* A handler that was cut short leaves the rows right for what is to come again, its own log too.
LEMMA MirrorCut ==
  ASSUME chain \in Seq(Log), ChainOK, 0 \notin Deals,
         NEW t \in Tables, NEW k \in DOMAIN chain, NEW s \in ToSet(handleEvent(t, chain[k].event)),
         NEW less, NEW q, k \in Coming(less, q), Mirrors(t, less, q),
         chain[k].event.name = "Funded" => t.listing[chain[k].event.listing] # "absent"
  PROVE  Mirrors(s, less, q)
  <1> DEFINE e == chain[k].event
             all == less \cup Coming(less, q)
  <1>1. Sound(e)
    BY LogsAreSound
  <1>2. /\ OnlyListing(s, t, e.listing) /\ OnlyDeal(s, t, e.deal)
        /\ e.name = "Listed" => s.deal = t.deal /\ s.listing[e.listing] = "active"
        /\ e.name = "ListingCancelled" => s.deal = t.deal /\ Sold(s, t, e.listing)
        /\ e.name = "Funded" =>
             /\ Bought(s, t, e.deal, e.listing)
             /\ s.listing = t.listing \/ Sold(s, t, e.listing)
        /\ e.name \in {"CheckedIn"} \cup FinalEvents =>
             s.listing = t.listing /\ Advanced(s, t, e.deal, Written(e))
    BY <1>1, HandlersWrite
  <1>3. e.name \in EventNames
    BY <1>1 DEF Sound, Event
  <1>4. ASSUME NEW i \in Listings
        PROVE  ListingShown(s, i, less, q)
    <2>1. ListingShown(t, i, less, q)
      BY DEF Mirrors
    <2>2. CASE e.listing # i \/ s.listing = t.listing
      <3>1. s.listing[i] = t.listing[i]
        BY <1>2, <2>2 DEF OnlyListing
      <3> QED
        BY <2>1, <3>1, Zenon DEF ListingShown
    <2>3. CASE e.listing = i /\ s.listing # t.listing
      <3>1. e.name \in OfListing
        BY <1>2, <1>3, <2>3 DEF EventNames, DealEvents, OfListing
      <3>2. Named(Coming(less, q), OfListing, i)
        BY <2>3, <3>1 DEF Named
      <3>3. t.listing[i] # "absent" => s.listing[i] # "absent"
        BY <1>2, <2>3, <3>1 DEF Sold, OfListing
      <3> QED
        BY <2>1, <3>2, <3>3 DEF ListingShown
    <2> QED
      BY <2>2, <2>3
  <1>5. ASSUME NEW d \in Deals
        PROVE  DealShown(s, d, less, q)
    <2>1. DealShown(t, d, less, q)
      BY DEF Mirrors
    <2>2. CASE e.deal # d
      <3>1. s.deal[d] = t.deal[d]
        BY <1>2, <2>2 DEF OnlyDeal
      <3> QED
        BY <2>1, <3>1, Zenon DEF DealShown
    <2>3. CASE e.deal = d
      <3>1. e.name \in {"Funded", "CheckedIn"} \cup FinalEvents
        <4>1. d # 0
          OBVIOUS
        <4>2. e.name # "Listed" /\ e.name # "ListingCancelled"
          BY <2>3, <4>1, Course
        <4> QED
          BY <1>3, <4>2 DEF EventNames, DealEvents
      <3>2. Was(all, e.name, d)
        BY <2>3 DEF Was
      <3>3. /\ Was(less, "Funded", d) => t.deal[d].state # "None" /\ t.deal[d].payToken
            /\ t.deal[d].state # "None" \/ t.deal[d].payToken => Was(all, "Funded", d)
            /\ t.deal[d].state = "SellerCheckedIn" \/ t.deal[d].checkedIn => Was(all, "CheckedIn", d)
            /\ t.deal[d].state \in FinalEvents => Was(all, t.deal[d].state, d)
        BY <2>1, Zenon DEF DealShown
      <3>4. SUFFICES
              /\ Was(less, "Funded", d) => s.deal[d].state # "None" /\ s.deal[d].payToken
              /\ s.deal[d].state # "None" \/ s.deal[d].payToken => Was(all, "Funded", d)
              /\ s.deal[d].state = "SellerCheckedIn" \/ s.deal[d].checkedIn =>
                   Was(all, "CheckedIn", d)
              /\ s.deal[d].state \in FinalEvents => Was(all, s.deal[d].state, d)
        <4>1. ~ \A j \in Coming(less, q) : chain[j].event.deal # d
          BY <2>3
        <4> QED
          BY <4>1, Zenon DEF DealShown
      <3> HIDE DEF all
      <3>5. /\ "Funded" \notin FinalEvents /\ "CheckedIn" \notin FinalEvents
            /\ "SellerCheckedIn" \notin FinalEvents /\ "None" \notin FinalEvents
        BY DEF FinalEvents
      <3>6. CASE e.name = "Funded"
        <4>1. Bought(s, t, d, e.listing)
          BY <1>2, <2>3, <3>6
        <4>2. /\ s.deal[d].state = IF t.deal[d].state = "None" THEN "Funded" ELSE t.deal[d].state
              /\ s.deal[d].checkedIn = t.deal[d].checkedIn
              /\ s.deal[d].payToken = TRUE
          <5>1. (t.listing[e.listing] # "absent") = TRUE
            BY <3>6
          <5> QED
            BY <4>1, <5>1, Zenon DEF Bought
        <4>3. s.deal[d].state # "None" /\ Was(all, "Funded", d)
          BY <3>2, <3>6, <4>2
        <4>4. s.deal[d].state = "SellerCheckedIn" \/ s.deal[d].checkedIn => Was(all, "CheckedIn", d)
          <5>1. s.deal[d].state = "SellerCheckedIn" => t.deal[d].state = "SellerCheckedIn"
            BY <4>2
          <5> QED
            BY <3>3, <4>2, <5>1, Zenon
        <4>5. s.deal[d].state \in FinalEvents => Was(all, s.deal[d].state, d)
          BY <3>3, <3>5, <4>2
        <4>6. s.deal[d].payToken
          BY <4>2, Zenon
        <4> QED
          BY <4>3, <4>4, <4>5, <4>6, Zenon
      <3>7. CASE e.name \in {"CheckedIn"} \cup FinalEvents
        <4>1. Advanced(s, t, d, Written(e))
          BY <1>2, <2>3, <3>7
        <4>2. /\ s.deal[d].state = IF t.deal[d].state = "None" THEN "None" ELSE Written(e)
              /\ s.deal[d].checkedIn => t.deal[d].checkedIn \/ Written(e) = "SellerCheckedIn"
              /\ s.deal[d].payToken = t.deal[d].payToken
          BY <4>1, Zenon DEF Advanced
        <4>3. /\ Written(e) # "None"
              /\ Written(e) = "SellerCheckedIn" => e.name = "CheckedIn"
              /\ Written(e) \in FinalEvents => Written(e) = e.name
          BY <3>5, <3>7 DEF Written
        <4>4. (s.deal[d].state = "None") <=> (t.deal[d].state = "None")
          BY <4>2, <4>3
        <4>5. /\ Was(less, "Funded", d) => s.deal[d].state # "None" /\ s.deal[d].payToken
              /\ s.deal[d].state # "None" \/ s.deal[d].payToken => Was(all, "Funded", d)
          BY <3>3, <4>2, <4>4, Zenon
        <4>6. Written(e) = "SellerCheckedIn" => Was(all, "CheckedIn", d)
          BY <3>2, <4>3
        <4>7. s.deal[d].state = "SellerCheckedIn" => Was(all, "CheckedIn", d)
          BY <4>2, <4>6
        <4>8. s.deal[d].state = "SellerCheckedIn" \/ s.deal[d].checkedIn => Was(all, "CheckedIn", d)
          BY <3>3, <4>2, <4>6, <4>7, Zenon
        <4>9. s.deal[d].state \in FinalEvents => Was(all, s.deal[d].state, d)
          BY <3>2, <3>5, <4>2, <4>3
        <4> QED
          BY <4>5, <4>8, <4>9, Zenon
      <3> QED
        BY <3>1, <3>6, <3>7
    <2> QED
      BY <2>2, <2>3
  <1> QED
    BY <1>4, <1>5 DEF Mirrors

\* The logs that are done after the first k of the chain in a batch up to block to.
DoneAt(k, to) == DoneBy(db.cursor) \cup {j \in DOMAIN chain : j <= k /\ chain[j].block <= to}

\* What a batch of the blocks after the cursor does in front of one of its logs, and elsewhere.
LEMMA DoneInBatch ==
  ASSUME Inv, NEW to \in Int, NEW from \in Nat,
         from = db.cursor + 1 \/ (db.cursor = 0 /\ from = 0), NEW k \in DOMAIN chain
  PROVE  /\ k \in GetLogs(from, to) =>
              DoneAt(k - 1, to) = 1 .. k - 1 /\ DoneAt(k, to) = 1 .. k /\ k \notin DoneBy(db.cursor)
         /\ k \notin GetLogs(from, to) => DoneAt(k, to) = DoneAt(k - 1, to)
  <1>1. /\ chain \in Seq(Log) /\ db.cursor \in Nat /\ DOMAIN chain = 1 .. Len(chain)
        /\ Len(chain) \in Nat /\ k \in 1 .. Len(chain)
    BY DEF Inv, TypeOK, Tables
  <1>2. \A j \in DOMAIN chain : chain[j].block \in Nat \ {0}
    <2>1. \A j \in DOMAIN chain : chain[j] \in Log
      BY <1>1
    <2> QED
      BY <2>1 DEF Log
  <1>3. \A i \in DOMAIN chain, j \in DOMAIN chain : i < j => chain[i].block <= chain[j].block
    BY DEF Inv, ChainOK
  <1>4. k \in GetLogs(from, to) <=> chain[k].block > db.cursor /\ chain[k].block <= to
    BY <1>1, <1>2 DEF GetLogs
  <1>5. ASSUME chain[k].block > db.cursor, chain[k].block <= to
        PROVE  DoneAt(k - 1, to) = 1 .. k - 1 /\ DoneAt(k, to) = 1 .. k /\ k \notin DoneBy(db.cursor)
    <2>1. \A j \in DoneBy(db.cursor) : j \in DOMAIN chain /\ j < k
      <3>1. ASSUME NEW j \in DOMAIN chain, chain[j].block <= db.cursor, ~ (j < k)
            PROVE  FALSE
        <4>1. j = k \/ k < j
          BY <1>1, <3>1
        <4>2. chain[k].block <= chain[j].block
          BY <1>2, <1>3, <4>1
        <4> QED
          BY <1>1, <1>2, <1>5, <3>1, <4>2
      <3> QED
        BY <3>1 DEF DoneBy
    <2>2. \A j \in 1 .. k : j \in DOMAIN chain /\ chain[j].block <= to
      <3>1. ASSUME NEW j \in 1 .. k
            PROVE  j \in DOMAIN chain /\ chain[j].block <= to
        <4>1. j \in DOMAIN chain /\ (j = k \/ j < k)
          BY <1>1
        <4>2. chain[j].block <= chain[k].block
          BY <1>2, <1>3, <4>1
        <4> QED
          BY <1>2, <1>5, <4>1, <4>2
      <3> QED
        BY <3>1
    <2>3. DoneAt(k - 1, to) = 1 .. k - 1
      <3>1. \A j \in DoneAt(k - 1, to) : j \in 1 .. k - 1
        BY <1>1, <2>1 DEF DoneAt
      <3>2. \A j \in 1 .. k - 1 : j \in DoneAt(k - 1, to)
        BY <1>1, <2>2 DEF DoneAt
      <3> QED
        BY <3>1, <3>2
    <2>4. DoneAt(k, to) = 1 .. k
      <3>1. \A j \in DoneAt(k, to) : j \in 1 .. k
        BY <1>1, <2>1 DEF DoneAt
      <3>2. \A j \in 1 .. k : j \in DoneAt(k, to)
        BY <1>1, <2>2 DEF DoneAt
      <3> QED
        BY <3>1, <3>2
    <2>5. k \notin DoneBy(db.cursor)
      BY <1>1, <1>2, <1>5 DEF DoneBy
    <2> QED
      BY <2>3, <2>4, <2>5
  <1>6. ASSUME ~ (chain[k].block > db.cursor /\ chain[k].block <= to)
        PROVE  DoneAt(k, to) = DoneAt(k - 1, to)
    <2>1. chain[k].block <= to => k \in DoneBy(db.cursor)
      BY <1>1, <1>2, <1>6 DEF DoneBy
    <2>2. \A j \in DOMAIN chain : j <= k <=> j <= k - 1 \/ j = k
      BY <1>1
    <2> QED
      BY <2>1, <2>2 DEF DoneAt
  <1> QED
    BY <1>4, <1>5, <1>6

\* Along a batch the tables show the logs that are done, one more after each.
LEMMA MirrorBatch ==
  ASSUME IndexerAssumption, Inv, Throwing \subseteq {"CheckedIn"},
         Mirrors(db, DoneBy(db.cursor), reach), NEW to \in Int, NEW from \in Nat,
         from = db.cursor + 1 \/ (db.cursor = 0 /\ from = 0)
  PROVE  \A k \in 0 .. Len(chain) : \A t \in Applied(from, to)[k] :
           t \in Tables /\ Mirrors(t, DoneAt(k, to), reach)
  <1> DEFINE Set(k) == {t \in Tables : Mirrors(t, DoneAt(k, to), reach)}
             Fine == [k \in 0 .. Len(chain) |-> Set(k)]
  <1>1. /\ chain \in Seq(Log) /\ ChainOK /\ db \in Tables /\ 0 \notin Deals
        /\ \A k \in 1 .. Len(chain) : k \in DOMAIN chain /\ k - 1 \in 0 .. Len(chain)
                                      /\ k \in 0 .. Len(chain)
        /\ 0 \in 0 .. Len(chain) /\ \A j \in DOMAIN chain : ~ (j <= 0)
    BY DEF Inv, TypeOK, IndexerAssumption
  <1>2. db \in Set(0)
    <2>1. DoneAt(0, to) = DoneBy(db.cursor)
      BY <1>1 DEF DoneAt
    <2> QED
      BY <1>1, <2>1
  <1>3. ASSUME NEW k \in 1 .. Len(chain), NEW t \in Set(k - 1)
        PROVE  IF k \in GetLogs(from, to) THEN Handled(t, chain[k].event) \subseteq Set(k)
               ELSE t \in Set(k)
    <2>1. CASE k \in GetLogs(from, to)
      <3>1. k \in DOMAIN chain /\ DoneAt(k - 1, to) = 1 .. k - 1 /\ DoneAt(k, to) = 1 .. k
        BY <1>1, <2>1, DoneInBatch
      <3>2. t \in Tables /\ Mirrors(t, 1 .. k - 1, reach)
        BY <1>3, <3>1
      <3>3. ASSUME NEW s \in Handled(t, chain[k].event)
            PROVE  s \in Set(k)
        <4>1. Mirrors(s, 1 .. k, reach)
          BY <1>1, <3>1, <3>2, MirrorStep
        <4>2. Sound(chain[k].event)
          BY <1>1, <3>1, LogsAreSound
        <4>3. s \in Tables
          BY <3>2, <4>2, HandlersType
        <4> QED
          BY <3>1, <4>1, <4>3
      <3> QED
        BY <2>1, <3>3
    <2>2. CASE k \notin GetLogs(from, to)
      <3>1. DoneAt(k, to) = DoneAt(k - 1, to)
        BY <1>1, <2>2, DoneInBatch
      <3> QED
        BY <2>2, <3>1
    <2> QED
      BY <2>1, <2>2
  <1> HIDE DEF Set
  <1>4. \A k \in 0 .. Len(chain) : Fine[k] = Set(k)
    OBVIOUS
  <1> HIDE DEF Fine
  <1>5. \A k \in 1 .. Len(chain) : \A t \in Fine[k - 1] :
          IF k \in GetLogs(from, to) THEN Handled(t, chain[k].event) \subseteq Fine[k]
          ELSE t \in Fine[k]
    <2>1. ASSUME NEW k \in 1 .. Len(chain), NEW t \in Fine[k - 1]
          PROVE  IF k \in GetLogs(from, to) THEN Handled(t, chain[k].event) \subseteq Fine[k]
                 ELSE t \in Fine[k]
      <3>1. Fine[k - 1] = Set(k - 1) /\ Fine[k] = Set(k)
        BY <1>1, <1>4
      <3>2. t \in Set(k - 1)
        BY <3>1
      <3> QED
        BY <1>3, <3>1, <3>2
    <2> QED
      BY <2>1
  <1>6. db \in Fine[0]
    BY <1>1, <1>2, <1>4
  <1>7. \A k \in 0 .. Len(chain) : Applied(from, to)[k] \subseteq Fine[k]
    BY <1>1, <1>5, <1>6, AllAlong
  <1> QED
    BY <1>4, <1>7 DEF Set

\* At the start nothing has happened, and the tables show nothing.
LEMMA MirrorInit ==
  ASSUME IndexerAssumption, Init
  PROVE  MirrorInv
  <1>1. chain = <<>> /\ DOMAIN chain = {} /\ db = EmptyDb /\ reach = 0
    BY DEF Init
  <1>2. DoneBy(db.cursor) = {} /\ Coming({}, 0) = {}
    BY <1>1 DEF DoneBy, Coming
  <1>3. \A i \in Listings : ListingShown(db, i, {}, 0)
    <2>1. \A i \in Listings : db.listing[i] = "absent"
      BY <1>1 DEF EmptyDb
    <2> QED
      BY <2>1 DEF ListingShown, Named
  <1>4. ASSUME NEW d \in Deals
        PROVE  DealShown(db, d, {}, 0)
    <2>1. db.deal[d].state = "None" /\ ~ db.deal[d].payToken /\ ~ db.deal[d].checkedIn
      BY <1>1, Zenon DEF EmptyDb, NoRow
    <2>2. \A name : ~ Was({}, name, d)
      BY DEF Was
    <2>3. "None" \notin FinalEvents
      BY DEF FinalEvents
    <2>4. db.deal[d].state \notin FinalEvents /\ db.deal[d].state # "SellerCheckedIn"
      BY <2>1, <2>3
    <2> QED
      BY <2>1, <2>2, <2>4, Zenon DEF DealShown
  <1>5. \A b \in Backfills : task[b].at # "head" /\ task[b].at # "logs"
    BY DEF Init, Idle
  <1> QED
    BY <1>1, <1>2, <1>3, <1>4, <1>5 DEF MirrorInv, Mirrors

\* What a batch that is applied to its end leaves, wherever it then moves the cursor.
LEMMA MirrorAtEnd ==
  ASSUME IndexerAssumption, Inv, Throwing \subseteq {"CheckedIn"},
         Mirrors(db, DoneBy(db.cursor), reach), NEW to \in Int, NEW from \in Nat,
         from = db.cursor + 1 \/ (db.cursor = 0 /\ from = 0),
         NEW s \in Applied(from, to)[Len(chain)], NEW t,
         t.listing = s.listing, t.deal = s.deal, NEW q \in Nat, q >= reach,
         t.cursor \in Nat, t.cursor >= Newest(from, to), t.cursor >= db.cursor,
         t.cursor <= to \/ t.cursor <= db.cursor
  PROVE  Mirrors(t, DoneBy(t.cursor), q)
  <1>1. /\ chain \in Seq(Log) /\ db.cursor \in Nat /\ DOMAIN chain = 1 .. Len(chain)
        /\ Len(chain) \in 0 .. Len(chain) /\ reach \in Nat /\ MaxBlocks \in Nat
    BY DEF Inv, TypeOK, Tables, IndexerAssumption
  <1>2. \A j \in DOMAIN chain : chain[j].block \in Nat \ {0}
    <2>1. \A j \in DOMAIN chain : chain[j] \in Log
      BY <1>1
    <2> QED
      BY <2>1 DEF Log
  <1>3. DoneAt(Len(chain), to) = DoneBy(t.cursor)
    <2>1. ASSUME NEW j \in DOMAIN chain
          PROVE  chain[j].block <= t.cursor
                   <=> chain[j].block <= db.cursor \/ chain[j].block <= to
      <3>1. ASSUME chain[j].block <= to, ~ (chain[j].block <= db.cursor)
            PROVE  chain[j].block <= t.cursor
        <4>1. j \in GetLogs(from, to)
          BY <1>1, <1>2, <3>1 DEF GetLogs
        <4>2. Newest(from, to) \in Nat /\ chain[j].block <= Newest(from, to)
          BY <1>1, <4>1, NewestLog
        <4> QED
          BY <1>2, <4>2
      <3>2. chain[j].block <= db.cursor => chain[j].block <= t.cursor
        BY <1>1, <1>2
      <3>3. chain[j].block <= t.cursor => chain[j].block <= db.cursor \/ chain[j].block <= to
        BY <1>1, <1>2
      <3> QED
        BY <3>1, <3>2, <3>3
    <2>2. \A j \in DOMAIN chain : j <= Len(chain)
      BY <1>1
    <2> QED
      BY <2>1, <2>2 DEF DoneAt, DoneBy
  <1>4. Mirrors(s, DoneBy(t.cursor), reach)
    BY <1>1, <1>3, MirrorBatch
  <1>5. Mirrors(t, DoneBy(t.cursor), reach)
    BY <1>4, Zenon DEF Mirrors, ListingShown, DealShown
  <1>6. Coming(DoneBy(t.cursor), reach) \subseteq Coming(DoneBy(t.cursor), q)
    BY <1>1, <1>2 DEF Coming
  <1> QED
    BY <1>5, <1>6, Weaker

\* What a batch leaves that was cut short in the handler of its log k.
LEMMA MirrorAtCut ==
  ASSUME IndexerAssumption, Inv, Throwing \subseteq {"CheckedIn"},
         Mirrors(db, DoneBy(db.cursor), reach), NEW to \in Int, NEW from \in Nat,
         from = db.cursor + 1 \/ (db.cursor = 0 /\ from = 0),
         NEW k \in GetLogs(from, to), NEW t \in Applied(from, to)[k - 1],
         NEW s \in ToSet(handleEvent(t, chain[k].event)),
         NEW q \in Nat, q >= reach, q >= chain[k].block
  PROVE  Mirrors(s, DoneBy(db.cursor), q)
  <1> DEFINE less == DoneBy(db.cursor)
  <1>1. /\ chain \in Seq(Log) /\ ChainOK /\ 0 \notin Deals /\ reach \in Nat
        /\ k \in DOMAIN chain /\ DOMAIN chain = 1 .. Len(chain) /\ Len(chain) \in Nat
    BY DEF Inv, TypeOK, IndexerAssumption, GetLogs
  <1>2. \A j \in DOMAIN chain : chain[j].block \in Nat
    <2>1. \A j \in DOMAIN chain : chain[j] \in Log
      BY <1>1
    <2> QED
      BY <2>1 DEF Log
  <1>3. DoneAt(k - 1, to) = 1 .. k - 1 /\ k \notin less
    BY <1>1, DoneInBatch
  <1>4. k - 1 \in 0 .. Len(chain) /\ k \notin 1 .. k - 1
    BY <1>1
  <1>5. t \in Tables /\ Mirrors(t, 1 .. k - 1, reach)
    BY <1>3, <1>4, MirrorBatch
  <1>6. less \subseteq 1 .. k - 1
    BY <1>3 DEF DoneAt
  <1>7. k \in Coming(less, q)
    BY <1>1, <1>3 DEF Coming
  <1>8. \A j \in 1 .. k - 1 : j \in DOMAIN chain /\ chain[j].block <= q
    <2>1. ASSUME NEW j \in 1 .. k - 1
          PROVE  j \in DOMAIN chain /\ chain[j].block <= q
      <3>1. j \in DOMAIN chain /\ j < k
        BY <1>1
      <3>2. chain[j].block <= chain[k].block
        BY <1>1, <3>1 DEF ChainOK
      <3> QED
        BY <1>1, <1>2, <3>1, <3>2
    <2> QED
      BY <2>1
  <1>9. 1 .. k - 1 \subseteq less \cup Coming(less, q)
    BY <1>8 DEF Coming
  <1>10. Coming(1 .. k - 1, reach) \subseteq Coming(less, q)
    <2>1. ASSUME NEW j \in Coming(1 .. k - 1, reach)
          PROVE  j \in DOMAIN chain /\ j \notin less /\ chain[j].block <= q
      BY <1>1, <1>2, <1>6 DEF Coming
    <2> QED
      BY <2>1 DEF Coming
  <1>11. Mirrors(t, less, q)
    BY <1>5, <1>6, <1>9, <1>10, Weaker
  <1>12. ASSUME chain[k].event.name = "Funded"
         PROVE  t.listing[chain[k].event.listing] # "absent"
    <2>1. Named(1 .. k - 1, {"Listed"}, chain[k].event.listing)
      BY <1>1, <1>12, ListingCourse
    <2>2. chain[k].event.listing \in Listings
      BY <1>1, LogsAreSound DEF Sound, Event
    <2> QED
      BY <1>5, <2>1, <2>2 DEF Mirrors, ListingShown
  <1> QED
    BY <1>1, <1>5, <1>7, <1>11, <1>12, MirrorCut

\* A block takes nothing away and adds nothing that has been done or that is to come again.
LEMMA MirrorStays ==
  ASSUME IndexerAssumption, Inv, Mine, Mirrors(db, DoneBy(db.cursor), reach)
  PROVE  Mirrors(db, DoneBy(db.cursor), reach)'
  <1>1. /\ db' = db /\ reach' = reach /\ db.cursor \in 0 .. height /\ reach \in 0 .. height
    BY DEF Mine, Inv, TypeOK, Tables
  <1>2. /\ \A k \in DOMAIN chain : chain'[k] = chain[k]
        /\ \A c \in 0 .. height : DoneBy(c)' = DoneBy(c)
    BY PlacesStay
  <1> DEFINE done == DoneBy(db.cursor)
             rest == Coming(done, reach)
  <1>3. done \subseteq DOMAIN chain /\ rest \subseteq DOMAIN chain
    BY DEF DoneBy, Coming
  <1>4. DoneBy(db.cursor)' = done
    <2>1. DoneBy(db.cursor)' = {k \in DOMAIN chain' : chain'[k].block <= db.cursor}
      BY <1>1 DEF DoneBy
    <2>2. {k \in DOMAIN chain' : chain'[k].block <= db.cursor} = done
      BY <1>1, <1>2 DEF DoneBy
    <2> QED
      BY <2>1, <2>2
  <1>5. {k \in DOMAIN chain' \ done : chain'[k].block <= reach} = rest
    <2>1. {k \in DOMAIN chain' : chain'[k].block <= reach}
            = {k \in DOMAIN chain : chain[k].block <= reach}
      BY <1>1, <1>2 DEF DoneBy
    <2> QED
      BY <2>1 DEF Coming
  <1>6. Coming(DoneBy(db.cursor), reach)' = rest
    BY <1>1, <1>4, <1>5 DEF Coming
  <1>7. PICK ds, rs : ds = done /\ rs = rest
    OBVIOUS
  <1> HIDE DEF done, rest
  <1>8. ASSUME NEW i \in Listings
        PROVE  ListingShown(db, i, DoneBy(db.cursor), reach)'
    <2>1. ListingShown(db, i, ds, reach) /\ Coming(ds, reach) = rs
      BY <1>7 DEF Mirrors, done, rest
    <2>2. /\ \A names : (\E k \in ds : /\ chain'[k].event.name \in names
                                       /\ chain'[k].event.listing = i) <=> Named(ds, names, i)
          /\ \A names : (\E k \in rs : /\ chain'[k].event.name \in names
                                       /\ chain'[k].event.listing = i) <=> Named(rs, names, i)
      <3>1. ds \subseteq DOMAIN chain /\ rs \subseteq DOMAIN chain
        BY <1>3, <1>7
      <3>2. /\ \A k \in ds : chain'[k] = chain[k]
            /\ \A k \in rs : chain'[k] = chain[k]
        BY <1>2, <3>1
      <3> QED
        BY <3>2, Zenon DEF Named
    <2>3. DoneBy(db.cursor)' = ds /\ Coming(DoneBy(db.cursor), reach)' = rs /\ db' = db
      BY <1>1, <1>4, <1>6, <1>7
    <2>4. /\ \A names : Named(DoneBy(db.cursor), names, i)' <=> Named(ds, names, i)
          /\ \A names : Named(Coming(DoneBy(db.cursor), reach), names, i)' <=> Named(rs, names, i)
      BY <2>2, <2>3 DEF Named
    <2> QED
      BY <2>1, <2>3, <2>4 DEF ListingShown
  <1>9. ASSUME NEW d \in Deals
         PROVE  DealShown(db, d, DoneBy(db.cursor), reach)'
    <2>1. DealShown(db, d, ds, reach) /\ Coming(ds, reach) = rs
      BY <1>7 DEF Mirrors, done, rest
    <2>2. /\ \A name : (\E k \in ds : /\ chain'[k].event.name = name
                                      /\ chain'[k].event.deal = d) <=> Was(ds, name, d)
          /\ \A name : (\E k \in ds \cup rs : /\ chain'[k].event.name = name
                                              /\ chain'[k].event.deal = d) <=> Was(ds \cup rs, name, d)
          /\ (\A k \in rs : chain'[k].event.deal # d) <=> \A k \in rs : chain[k].event.deal # d
      <3>1. ds \subseteq DOMAIN chain /\ rs \subseteq DOMAIN chain
        BY <1>3, <1>7
      <3>2. /\ \A k \in ds : chain'[k] = chain[k]
            /\ \A k \in rs : chain'[k] = chain[k]
            /\ \A k \in ds \cup rs : chain'[k] = chain[k]
        BY <1>2, <3>1
      <3> QED
        BY <3>2, Zenon DEF Was
    <2>3. DoneBy(db.cursor)' = ds /\ Coming(DoneBy(db.cursor), reach)' = rs /\ db' = db
      BY <1>1, <1>4, <1>6, <1>7
    <2>4. /\ \A name : Was(DoneBy(db.cursor), name, d)' <=> Was(ds, name, d)
          /\ \A name : Was(DoneBy(db.cursor) \cup Coming(DoneBy(db.cursor), reach), name, d)'
                         <=> Was(ds \cup rs, name, d)
          /\ (\A k \in Coming(DoneBy(db.cursor), reach) : chain[k].event.deal # d)'
               <=> \A k \in rs : chain[k].event.deal # d
      BY <2>2, <2>3 DEF Was
    <2> QED
      BY <2>1, <2>3, <2>4, Zenon DEF DealShown
  <1> QED
    BY <1>8, <1>9 DEF Mirrors

\* Every step keeps what the tables show, when there is one backfill and no handler but a
\* check-in's may throw.
LEMMA MirrorNext ==
  ASSUME IndexerAssumption, Inv, MirrorInv, [Next]_vars, Throwing \subseteq {"CheckedIn"},
         FromBlock <= 1, \A b, c \in Backfills : b = c
  PROVE  MirrorInv'
  <1>1. /\ FromBlock \in Nat /\ height \in Nat /\ db \in Tables /\ db.cursor \in 0 .. height
        /\ task \in [Backfills -> Tasks] /\ chain \in Seq(Log) /\ reach \in 0 .. height
    BY DEF Inv, TypeOK, IndexerAssumption, Tables, Tasks
  <1>2. /\ Mirrors(db, DoneBy(db.cursor), reach)
        /\ \A b \in Backfills :
             /\ task[b].at = "head" => task[b].cursor = db.cursor
             /\ task[b].at = "logs" =>
                  task[b].from = db.cursor + 1 \/ (db.cursor = 0 /\ task[b].from = 0)
    BY DEF MirrorInv
  <1>3. Idle.at = "idle"
    BY DEF Idle
  <1>4. ASSUME UNCHANGED chain, Mirrors(db', DoneBy(db'.cursor), reach')
        PROVE  Mirrors(db, DoneBy(db.cursor), reach)'
    <2>1. DoneBy(db.cursor)' = DoneBy(db'.cursor)
      BY <1>4 DEF DoneBy
    <2> QED
      BY <1>4, <2>1 DEF Mirrors, ListingShown, DealShown, Named, Was, Coming
  <1>5. ASSUME UNCHANGED <<chain, db, reach>>
        PROVE  Mirrors(db, DoneBy(db.cursor), reach)'
    BY <1>2, <1>4, <1>5
  <1>6. ASSUME NEW b \in Backfills, task[b].at = "logs", NEW to \in Asked(task[b])
        PROVE  /\ task[b].from \in Nat /\ to \in Int
               /\ task[b].from = db.cursor + 1 \/ (db.cursor = 0 /\ task[b].from = 0)
               /\ Scanned(task[b]) <= to \/ Scanned(task[b]) <= db.cursor
               /\ ~ Finishes(task[b]) =>
                    /\ Scanned(task[b]) = WindowEnd(task[b]) /\ to = WindowEnd(task[b])
                    /\ WindowEnd(task[b]) \in Nat /\ WindowEnd(task[b]) >= task[b].from
               /\ Newest(task[b].from, to) <= to \/ Newest(task[b].from, to) = 0
    <2>1. task[b].from = db.cursor + 1 \/ (db.cursor = 0 /\ task[b].from = 0)
      BY <1>2, <1>6
    <2>2. task[b].from <= db.cursor + 1
      BY <1>1, <2>1
    <2> QED
      BY <1>6, <2>1, <2>2, WindowScanned
  <1>7. ASSUME UNCHANGED chain, NEW b \in Backfills, task[b].at = "logs", NEW to \in Asked(task[b]),
               NEW s \in Applied(task[b].from, to)[Len(chain)],
               db'.listing = s.listing, db'.deal = s.deal, reach' \in Nat, reach' >= reach,
               db'.cursor \in Nat, db'.cursor >= Newest(task[b].from, to), db'.cursor >= db.cursor,
               db'.cursor <= to \/ db'.cursor <= db.cursor
        PROVE  Mirrors(db, DoneBy(db.cursor), reach)'
    <2>1. Mirrors(db', DoneBy(db'.cursor), reach')
      BY <1>2, <1>6, <1>7, MirrorAtEnd
    <2> QED
      BY <1>4, <1>7, <2>1
  <1>8. ASSUME NEW t, NEW b \in Backfills, task' = [task EXCEPT ![b] = t],
               Mirrors(db, DoneBy(db.cursor), reach)',
               t.at = "head" => t.cursor = db'.cursor,
               t.at = "logs" => t.from = db'.cursor + 1 \/ (db'.cursor = 0 /\ t.from = 0)
        PROVE  MirrorInv'
    <2>1. \A c \in Backfills : task'[c] = t
      BY <1>1, <1>8
    <2> QED
      BY <1>8, <2>1 DEF MirrorInv
  <1>9. ASSUME Die, Mirrors(db, DoneBy(db.cursor), reach)'
        PROVE  MirrorInv'
    <2>1. \A c \in Backfills : task'[c].at # "logs" /\ task'[c].at # "head"
      BY <1>3, <1>9 DEF Die
    <2> QED
      BY <1>9, <2>1 DEF MirrorInv
  <1>10. CASE Mine
    <2>1. Mirrors(db, DoneBy(db.cursor), reach)'
      BY <1>2, <1>10, MirrorStays
    <2>2. UNCHANGED <<db, task>>
      BY <1>10 DEF Mine
    <2> QED
      BY <1>2, <2>1, <2>2 DEF MirrorInv
  <1>11. CASE Crash
    BY <1>5, <1>9, <1>11 DEF Crash, Die
  <1>12. ASSUME NEW b \in Backfills, Boot(b) \/ Poll(b)
         PROVE  MirrorInv'
    <2>1. PICK f \in BOOLEAN : Begin(b, f)
      BY <1>12 DEF Boot, Poll
    <2>2. UNCHANGED <<chain, db, reach>>
      BY <1>12 DEF Boot, Poll
    <2> DEFINE t == [Idle EXCEPT !.at = "head", !.cursor = db.cursor, !.first = f]
    <2>3. t.at = "head" /\ t.cursor = db.cursor
      BY DEF Idle
    <2>4. task' = [task EXCEPT ![b] = t]
      BY <2>1 DEF Begin
    <2> HIDE DEF t
    <2>5. Mirrors(db, DoneBy(db.cursor), reach)'
      BY <1>5, <2>2
    <2>6. t.at # "logs" /\ t.cursor = db'.cursor
      BY <2>2, <2>3
    <2> QED
      BY <1>8, <2>4, <2>5, <2>6
  <1>13. ASSUME NEW b \in Backfills, NEW head \in 0 .. height, GotHead(b, head)
         PROVE  MirrorInv'
    <2> DEFINE r == Resume(task[b].cursor)
               t == [task[b] EXCEPT !.at = "logs", !.head = head, !.from = r]
    <2>1. /\ task' = [task EXCEPT ![b].at = "logs", ![b].head = head, ![b].from = r]
          /\ UNCHANGED <<chain, db, reach>> /\ task[b].at = "head"
      BY <1>13 DEF GotHead
    <2>2. r = db.cursor + 1 \/ (db.cursor = 0 /\ r = 0)
      <3>1. task[b].cursor = db.cursor /\ db.cursor \in Nat
        BY <1>1, <1>2, <2>1
      <3>2. r = IF db.cursor > 0 THEN db.cursor + 1 ELSE FromBlock
        BY <3>1 DEF Resume
      <3> HIDE DEF r
      <3> QED
        BY <1>1, <3>1, <3>2
    <2> HIDE DEF r
    <2>3. task' = [task EXCEPT ![b] = t] /\ t.from = r /\ t.at = "logs"
      <3>1. task[b] \in Tasks
        BY <1>1
      <3> QED
        BY <1>1, <2>1, <3>1 DEF Tasks
    <2> HIDE DEF t
    <2>4. Mirrors(db, DoneBy(db.cursor), reach)'
      BY <1>5, <2>1
    <2>5. t.at # "head" /\ (t.from = db'.cursor + 1 \/ (db'.cursor = 0 /\ t.from = 0))
      BY <2>1, <2>2, <2>3
    <2> QED
      BY <1>8, <2>3, <2>4, <2>5
  <1>14. ASSUME NEW b \in Backfills, GotLogs(b)
         PROVE  MirrorInv'
    <2>1. task[b].at = "logs" /\ UNCHANGED chain
      BY <1>14 DEF GotLogs
    <2>2. PICK to \in Asked(task[b]) :
            /\ \E s \in Applied(task[b].from, to)[Len(chain)] :
                 /\ s \in Tables /\ s.cursor = db.cursor
                 /\ db' \in Tables /\ db'.listing = s.listing /\ db'.deal = s.deal
                 /\ db'.timeline = s.timeline
            /\ LET top == Newest(task[b].from, to)
                   end == Scanned(task[b])
               IN  /\ top \in 0 .. height /\ end \in 0 .. height
                   /\ db'.cursor \in {db.cursor, top, end} \cap (0 .. height)
                   /\ db'.cursor >= db.cursor /\ db'.cursor >= top /\ db'.cursor >= end
                   /\ reach' \in {reach, top} /\ reach' >= reach /\ reach' >= top
      BY <1>14, LogsType
    <2>3. PICK s \in Applied(task[b].from, to)[Len(chain)] :
            db'.listing = s.listing /\ db'.deal = s.deal
      BY <2>2
    <2>4. PICK top, end : top = Newest(task[b].from, to) /\ end = Scanned(task[b])
      OBVIOUS
    <2>5. /\ task[b].from \in Nat /\ to \in Int
          /\ task[b].from = db.cursor + 1 \/ (db.cursor = 0 /\ task[b].from = 0)
          /\ end <= to \/ end <= db.cursor
          /\ ~ Finishes(task[b]) =>
               /\ end = WindowEnd(task[b]) /\ to = WindowEnd(task[b])
               /\ WindowEnd(task[b]) \in Nat /\ WindowEnd(task[b]) >= task[b].from
          /\ top <= to \/ top = 0
      BY <1>6, <2>1, <2>4
    <2>6. /\ top \in 0 .. height /\ end \in 0 .. height
          /\ db'.cursor \in {db.cursor, top, end} /\ db'.cursor \in Nat
          /\ db'.cursor >= db.cursor /\ db'.cursor >= top /\ db'.cursor >= end
          /\ reach' \in Nat /\ reach' >= reach
      BY <1>1, <2>2, <2>4
    <2>7. db'.cursor <= to \/ db'.cursor <= db.cursor
      BY <1>1, <2>5, <2>6
    <2>8. Mirrors(db, DoneBy(db.cursor), reach)'
      BY <1>7, <2>1, <2>3, <2>4, <2>6, <2>7
    <2>9. ~ Finishes(task[b]) => WindowEnd(task[b]) + 1 = db'.cursor + 1
      BY <1>1, <2>5, <2>6
    <2> DEFINE e == WindowEnd(task[b]) + 1
               t == IF Finishes(task[b]) THEN Idle ELSE [task[b] EXCEPT !.from = e]
    <2>10. task' = [task EXCEPT ![b] = t]
      BY <1>14 DEF GotLogs
    <2>11. t.at # "head" /\ (t.at = "logs" => t.from = db'.cursor + 1)
      <3>1. ~ Finishes(task[b]) => e = db'.cursor + 1
        BY <2>9
      <3> HIDE DEF e
      <3>2. CASE Finishes(task[b])
        BY <1>3, <3>2
      <3>3. CASE ~ Finishes(task[b])
        <4>1. task[b] \in Tasks
          BY <1>1
        <4>2. t.from = e /\ t.at = "logs"
          BY <2>1, <3>3, <4>1 DEF Tasks
        <4> QED
          BY <3>1, <3>3, <4>2
      <3> QED
        BY <3>2, <3>3
    <2> HIDE DEF t
    <2> QED
      BY <1>8, <2>8, <2>10, <2>11
  <1>15. ASSUME NEW b \in Backfills, RpcFails(b)
         PROVE  MirrorInv'
    <2>1. task' = [task EXCEPT ![b] = Idle] /\ UNCHANGED <<chain, db, reach>>
      BY <1>15 DEF RpcFails
    <2>2. Mirrors(db, DoneBy(db.cursor), reach)'
      BY <1>5, <2>1
    <2> QED
      BY <1>3, <1>8, <2>1, <2>2
  <1>16. ASSUME NEW b \in Backfills, CrashInBatch(b)
         PROVE  MirrorInv'
    <2>1. task[b].at = "logs" /\ Die /\ UNCHANGED chain
      BY <1>16 DEF CrashInBatch, Die
    <2>2. PICK to \in Asked(task[b]) :
            \/ \E k \in GetLogs(task[b].from, to) :
                 /\ \E t \in Applied(task[b].from, to)[k - 1] :
                      db' \in ToSet(handleEvent(t, chain[k].event))
                 /\ db' \in Tables /\ db'.cursor = db.cursor
                 /\ reach' \in {reach, chain[k].block} \cap (0 .. height)
                 /\ reach' >= reach /\ reach' >= chain[k].block
            \/ LET top == Newest(task[b].from, to) IN
               /\ \E s \in Applied(task[b].from, to)[Len(chain)] :
                    /\ s \in Tables /\ s.cursor = db.cursor
                    /\ db' \in Tables /\ db'.listing = s.listing /\ db'.deal = s.deal
                    /\ db'.timeline = s.timeline
               /\ top \in 0 .. height
               /\ db'.cursor \in {db.cursor, top} /\ db'.cursor >= db.cursor /\ db'.cursor >= top
               /\ reach' \in {reach, top} /\ reach' >= reach /\ reach' >= top
      BY <1>16, CrashType, Zenon
    <2>3. /\ task[b].from \in Nat /\ to \in Int
          /\ task[b].from = db.cursor + 1 \/ (db.cursor = 0 /\ task[b].from = 0)
          /\ Newest(task[b].from, to) <= to \/ Newest(task[b].from, to) = 0
      BY <1>6, <2>1
    <2>4. ASSUME NEW k \in GetLogs(task[b].from, to),
                 NEW t \in Applied(task[b].from, to)[k - 1],
                 db' \in ToSet(handleEvent(t, chain[k].event)), db'.cursor = db.cursor,
                 reach' \in Nat, reach' >= reach, reach' >= chain[k].block
          PROVE  Mirrors(db, DoneBy(db.cursor), reach)'
      <3>1. Mirrors(db', DoneBy(db.cursor), reach')
        BY <1>2, <2>3, <2>4, MirrorAtCut
      <3> QED
        BY <1>4, <2>1, <2>4, <3>1
    <2>5. ASSUME NEW s \in Applied(task[b].from, to)[Len(chain)], NEW top \in 0 .. height,
                 top = Newest(task[b].from, to), db'.listing = s.listing, db'.deal = s.deal,
                 db'.cursor \in {db.cursor, top}, db'.cursor >= db.cursor, db'.cursor >= top,
                 reach' \in {reach, top}, reach' >= reach
          PROVE  Mirrors(db, DoneBy(db.cursor), reach)'
      <3>1. /\ db'.cursor \in Nat /\ reach' \in Nat
            /\ db'.cursor <= to \/ db'.cursor <= db.cursor
        BY <1>1, <2>3, <2>5
      <3> QED
        BY <1>7, <2>1, <2>5, <3>1
    <2>6. ASSUME NEW k \in GetLogs(task[b].from, to),
                 \E t \in Applied(task[b].from, to)[k - 1] :
                   db' \in ToSet(handleEvent(t, chain[k].event)),
                 db'.cursor = db.cursor, reach' \in {reach, chain[k].block} \cap (0 .. height),
                 reach' >= reach, reach' >= chain[k].block
          PROVE  Mirrors(db, DoneBy(db.cursor), reach)'
      <3>1. reach' \in Nat
        BY <1>1, <2>6
      <3>2. PICK t \in Applied(task[b].from, to)[k - 1] :
              db' \in ToSet(handleEvent(t, chain[k].event))
        BY <2>6
      <3> QED
        BY <2>4, <2>6, <3>1, <3>2
    <2>7. Mirrors(db, DoneBy(db.cursor), reach)'
      BY <2>2, <2>5, <2>6
    <2> QED
      BY <1>9, <2>1, <2>7
  <1>17. CASE UNCHANGED vars
    <2>1. Mirrors(db, DoneBy(db.cursor), reach)' /\ UNCHANGED <<db, task>>
      BY <1>5, <1>17 DEF vars
    <2> QED
      BY <1>2, <2>1 DEF MirrorInv
  <1> QED
    BY <1>10, <1>11, <1>12, <1>13, <1>14, <1>15, <1>16, <1>17 DEF Next

EndsAs(events, d, state) == \A e \in events : e.name \in FinalEvents /\ e.deal = d => e.name = state

\* When one event of a deal ended it, that is its state.
LEMMA StateOfEnd ==
  ASSUME NEW events, NEW d, NEW state, Happened(events, FinalEvents, d),
         EndsAs(events, d, state)
  PROVE  TrueState(events, d) = state
  <1> DEFINE end == CHOOSE e \in events : e.name \in FinalEvents /\ e.deal = d
  <1>1. \E e \in events : e.name \in FinalEvents /\ e.deal = d
    BY DEF Happened
  <1>2. end \in events /\ end.name \in FinalEvents /\ end.deal = d
    BY <1>1
  <1>3. end.name = state
    BY <1>2 DEF EndsAs
  <1> QED
    BY <1>3 DEF TrueState

\* A deal's row is what the chain's own account says at the cursor, when nothing is to come again.
LEMMA DealTells ==
  ASSUME IndexerAssumption, Inv, Throwing \subseteq {"CheckedIn"}, NEW d \in Deals,
         DealShown(db, d, DoneBy(db.cursor), reach), Coming(DoneBy(db.cursor), reach) = {}
  PROVE  \E events \in Accounts(db.cursor) :
           /\ db.deal[d].state = TrueState(events, d)
           /\ db.deal[d].payToken = Happened(events, {"Funded"}, d)
           /\ db.deal[d].checkedIn => Happened(EventsUpTo(db.cursor), {"CheckedIn"}, d)
  <1> DEFINE done == DoneBy(db.cursor)
             all == EventsUpTo(db.cursor)
             kept == {e \in all : e.name \notin Throwing}
             row == db.deal[d]
  <1>1. /\ chain \in Seq(Log) /\ ChainOK /\ 0 \notin Deals /\ db.cursor \in Nat
        /\ row.state \in {"None", "Funded", "SellerCheckedIn"} \cup FinalEvents
    <2>1. db \in Tables /\ chain \in Seq(Log) /\ ChainOK /\ 0 \notin Deals
      BY DEF Inv, TypeOK, IndexerAssumption
    <2>2. row \in Row /\ db.cursor \in Nat
      BY <2>1 DEF Tables
    <2> QED
      BY <2>1, <2>2 DEF Row
  <1>2. row.payToken \in BOOLEAN
    <2>1. db \in Tables
      BY DEF Inv, TypeOK
    <2>2. row \in Row
      BY <2>1 DEF Tables
    <2> QED
      BY <2>2, Zenon DEF Row
  <1>3. /\ Was(done, "Funded", d) => row.state # "None" /\ row.payToken
        /\ row.state # "None" \/ row.payToken => Was(done, "Funded", d)
        /\ row.state = "SellerCheckedIn" \/ row.checkedIn => Was(done, "CheckedIn", d)
        /\ row.state \in FinalEvents => Was(done, row.state, d)
        /\ \A name \in FinalEvents : Was(done, name, d) => row.state = name
        /\ Was(done, "CheckedIn", d) /\ "CheckedIn" \notin Throwing => row.state # "Funded"
    <2>1. done \cup Coming(done, reach) = done /\ \A k \in Coming(done, reach) : FALSE
      OBVIOUS
    <2> HIDE DEF done
    <2>2. DealShown(db, d, done, reach)
      BY DEF done
    <2> QED
      BY <2>1, <2>2, Zenon DEF DealShown
  <1>4. all = {chain[k].event : k \in done}
    BY <1>1 DEF EventsUpTo, DoneBy, ToSet
  <1>5. \A names : Happened(all, names, d) <=> \E name \in names : Was(done, name, d)
    <2>1. \A names : Happened(all, names, d)
                       <=> \E k \in done : chain[k].event.name \in names /\ chain[k].event.deal = d
      BY <1>4 DEF Happened
    <2> HIDE DEF all, done
    <2> QED
      BY <2>1 DEF Was
  <1>6. Happened(kept, {"Funded"}, d) <=> Happened(all, {"Funded"}, d)
    BY DEF Happened
  <1>7. "CheckedIn" \in Throwing => ~ Happened(kept, {"CheckedIn"}, d)
    BY DEF Happened
  <1>8. Was(done, "CheckedIn", d) => Was(done, "Funded", d)
    <2>1. ASSUME NEW k \in done, chain[k].event.name = "CheckedIn", chain[k].event.deal = d
          PROVE  Was(done, "Funded", d)
      <3>1. k \in Its(d) /\ k \in DOMAIN chain /\ chain[k].block <= db.cursor
        BY <2>1 DEF Its, DoneBy
      <3>2. PICK j \in Its(d) : j < k /\ chain[j].event.name = "Funded"
        BY <1>1, <2>1, <3>1, DealCourse
      <3>3. j \in DOMAIN chain /\ chain[j].event.deal = d
        BY DEF Its
      <3>4. chain[j].block <= chain[k].block
        BY <3>1, <3>2, <3>3 DEF Inv, ChainOK
      <3>5. chain[j] \in Log /\ chain[k] \in Log
        BY <1>1, <3>1, <3>3
      <3>6. chain[j].block <= db.cursor
        BY <1>1, <3>1, <3>4, <3>5 DEF Log
      <3> QED
        BY <3>2, <3>3, <3>6 DEF Was, DoneBy
    <2> QED
      BY <2>1 DEF Was
  <1>9. all \in Accounts(db.cursor) /\ kept \in Accounts(db.cursor)
    BY DEF Accounts
  <1>10. /\ EndsAs(all, d, row.state)
         /\ Happened(kept, FinalEvents, d) => Happened(all, FinalEvents, d)
    <2>1. \A e \in all : e.name \in FinalEvents /\ e.deal = d => Was(done, e.name, d)
      BY <1>4 DEF Was
    <2> QED
      BY <1>3, <2>1 DEF Happened, EndsAs
  <1> HIDE DEF kept, all, done, row
  <1>11. /\ row.payToken <=> Happened(all, {"Funded"}, d)
         /\ row.checkedIn => Happened(all, {"CheckedIn"}, d)
    BY <1>3, <1>5
  <1>12. row.payToken = Happened(all, {"Funded"}, d) /\ row.payToken = Happened(kept, {"Funded"}, d)
    BY <1>2, <1>6, <1>11, Zenon DEF Happened
  <1>13. Happened(all, FinalEvents, d) => row.state \in FinalEvents
    BY <1>3, <1>5
  <1>14. /\ "Funded" \notin FinalEvents /\ "SellerCheckedIn" \notin FinalEvents
         /\ "None" \notin FinalEvents
    BY DEF FinalEvents
  <1>15. row.state = TrueState(all, d) \/ row.state = TrueState(kept, d)
    <2>1. CASE row.state \in FinalEvents
      <3>1. Happened(all, FinalEvents, d)
        BY <1>3, <1>5, <2>1
      <3> QED
        BY <1>10, <3>1, StateOfEnd
    <2>2. CASE row.state = "SellerCheckedIn"
      <3>1. ~ Happened(all, FinalEvents, d) /\ Happened(all, {"CheckedIn"}, d)
        BY <1>3, <1>5, <1>13, <1>14, <2>2
      <3> QED
        BY <2>2, <3>1 DEF TrueState
    <2>3. CASE row.state = "Funded" /\ Was(done, "CheckedIn", d)
      <3>1. "CheckedIn" \in Throwing
        BY <1>3, <2>3
      <3>2. ~ Happened(kept, FinalEvents, d) /\ ~ Happened(kept, {"CheckedIn"}, d)
        BY <1>7, <1>10, <1>13, <1>14, <2>3, <3>1
      <3>3. Happened(kept, {"Funded"}, d)
        BY <1>3, <1>5, <1>6, <2>3
      <3> QED
        BY <2>3, <3>2, <3>3 DEF TrueState
    <2>4. CASE row.state = "Funded" /\ ~ Was(done, "CheckedIn", d)
      <3>1. ~ Happened(all, FinalEvents, d) /\ ~ Happened(all, {"CheckedIn"}, d)
        BY <1>5, <1>13, <1>14, <2>4
      <3>2. Happened(all, {"Funded"}, d)
        BY <1>3, <1>5, <2>4
      <3> QED
        BY <2>4, <3>1, <3>2 DEF TrueState
    <2>5. CASE row.state = "None"
      <3>1. ~ Was(done, "Funded", d) /\ ~ Was(done, "CheckedIn", d)
        BY <1>3, <1>8, <2>5
      <3>2. /\ ~ Happened(all, FinalEvents, d) /\ ~ Happened(all, {"CheckedIn"}, d)
            /\ ~ Happened(all, {"Funded"}, d)
        BY <1>5, <1>13, <1>14, <2>5, <3>1
      <3> QED
        BY <2>5, <3>2 DEF TrueState
    <2> QED
      BY <1>1, <2>1, <2>2, <2>3, <2>4, <2>5 DEF row
  <1> QED
    BY <1>9, <1>11, <1>12, <1>15 DEF row, all

\* When no log is to come again, the tables are the chain's own account at the cursor.
LEMMA MirrorShows ==
  ASSUME IndexerAssumption, Inv, MirrorInv, Throwing \subseteq {"CheckedIn"}
  PROVE  MirrorFollowsChain
  <1> SUFFICES ASSUME db.cursor >= reach
               PROVE  Shows(db.cursor)
    BY DEF MirrorFollowsChain
  <1>1. chain \in Seq(Log) /\ db.cursor \in Nat /\ reach \in Nat
    BY DEF Inv, TypeOK, Tables
  <1>2. \A k \in DOMAIN chain : chain[k].block \in Nat
    <2>1. \A k \in DOMAIN chain : chain[k] \in Log
      BY <1>1
    <2> QED
      BY <2>1 DEF Log
  <1>3. Coming(DoneBy(db.cursor), reach) = {}
    BY <1>1, <1>2 DEF Coming, DoneBy
  <1>4. Mirrors(db, DoneBy(db.cursor), reach)
    BY DEF MirrorInv
  <1>5. ASSUME NEW i \in Listings
        PROVE  db.listing[i] = TrueListing(EventsUpTo(db.cursor), i)
    <2>1. EventsUpTo(db.cursor) = {chain[k].event : k \in DoneBy(db.cursor)}
      BY <1>1 DEF EventsUpTo, DoneBy, ToSet
    <2>2. \A names : (\E e \in EventsUpTo(db.cursor) : e.name \in names /\ e.listing = i)
                       <=> Named(DoneBy(db.cursor), names, i)
      BY <2>1 DEF Named
    <2>3. ListingShown(db, i, DoneBy(db.cursor), reach)
      BY <1>4 DEF Mirrors
    <2>4. ~ Named(Coming(DoneBy(db.cursor), reach), OfListing, i)
      BY <1>3 DEF Named
    <2>5. db.listing[i] = IF ~ Named(DoneBy(db.cursor), {"Listed"}, i) THEN "absent"
                          ELSE IF Named(DoneBy(db.cursor), {"ListingCancelled", "Funded"}, i)
                               THEN "inactive" ELSE "active"
      BY <2>3, <2>4, Zenon DEF ListingShown
    <2> QED
      BY <2>2, <2>5, Zenon DEF TrueListing
  <1>6. \A d \in Deals : DealShown(db, d, DoneBy(db.cursor), reach)
    BY <1>4 DEF Mirrors
  <1>7. \A d \in Deals :
          \E events \in Accounts(db.cursor) :
            /\ db.deal[d].state = TrueState(events, d)
            /\ db.deal[d].payToken = Happened(events, {"Funded"}, d)
            /\ db.deal[d].checkedIn => Happened(EventsUpTo(db.cursor), {"CheckedIn"}, d)
    BY <1>3, <1>6, DealTells
  <1> QED
    BY <1>5, <1>7, Zenon DEF Shows

\* What the tables show stays as described, for one backfill at a time.
THEOREM MirrorInvariance ==
  ASSUME Throwing \subseteq {"CheckedIn"}, FromBlock <= 1, \A b, c \in Backfills : b = c
  PROVE  Spec => []MirrorInv
  <1>1. Init => MirrorInv
    BY IndexerAssumption, MirrorInit
  <1>2. Inv /\ MirrorInv /\ [Next]_vars => MirrorInv'
    BY IndexerAssumption, MirrorNext
  <1> QED
    BY <1>1, <1>2, Invariance, PTL DEF Spec

\* Whenever the cursor has caught up with what was ever applied, the tables are the chain's own account
\* at the cursor, whatever crashes, fails and lags, with one backfill at a time; a check-in whose
\* handler throws spoils nothing but its own state.
THEOREM MirrorsFollowChain ==
  ASSUME Throwing \subseteq {"CheckedIn"}, FromBlock <= 1, \A b, c \in Backfills : b = c
  PROVE  Spec => []MirrorFollowsChain
  <1>1. Inv /\ MirrorInv => MirrorFollowsChain
    BY IndexerAssumption, MirrorShows
  <1> QED
    BY <1>1, Invariance, MirrorInvariance, PTL

=============================================================================
