---------------------------- MODULE MarketProofs ----------------------------
(***************************************************************************)
(* Proofs about Market for any set of tabs, names and listings, and any    *)
(* number of requests and transactions that nobody waits for.              *)
(***************************************************************************)
EXTENDS Market, TotalsProofs, FiniteSetTheorems

----------------------------------------------------------------------------
(* The inductive invariant. *)

Types ==
  /\ chain \in [Ids -> States]
  /\ typed \in [Ids -> Titles \cup {Null}]
  /\ rows \in [Ids -> States]
  /\ meta \in [0 .. MaxListings -> Patch]
  /\ sent \subseteq Message
  /\ tab \in [Tabs -> Page]

\* The indexer's copy is behind the chain and never ahead of it.
RowsFollow ==
  \A i \in Ids : /\ rows[i] = "active" => chain[i] # "absent"
                 /\ rows[i] = "inactive" => chain[i] = "inactive"

\* A name on its way to a row, or in it, is one of the listing with that number.
IsOf(i, title) == i \in Ids => chain[i] # "absent" /\ title \in {typed[i], Edited, Null}

DetailsAreOfIt == \A i \in Ids : meta[i] # NoMeta => IsOf(i, meta[i].title)

\* What is on its way keeps to its form: a request to relist says nothing else.
MessageOK(m) ==
  /\ IsOf(m.id, m.patch.title)
  /\ m.kind = "list" => m.patch = [NoMeta EXCEPT !.title = m.patch.title] /\ m.patch.title \in Titles
  /\ m.kind = "cancel" => m.id \in Ids
  /\ m.patch.archived = FALSE => m.patch = [NoMeta EXCEPT !.archived = FALSE]

\* The listing can be managed and has a name.
InMyListings(i) == meta[i].owned = TRUE /\ meta[i].title # Null

\* A page is about the listing its number says, from the receipt to the last of its requests.
PageOK(p) ==
  /\ p.at \in {"listing", "listed"} => p.page = "sell"
  /\ p.at \in {"cancelling", "cancelled", "editing"} => p.page = "mine"
  /\ p.page = "sell" /\ p.at # "idle" => p.title \in Titles
  /\ p.page = "sell" /\ p.at \in {"listed", "saving"} =>
       p.id \in 0 .. MaxListings /\ IsOf(p.id, p.title)
  /\ p.page = "mine" /\ p.at # "idle" => p.id \in Ids /\ chain[p.id] # "absent"
  /\ p.at = "editing" => IsOf(p.id, p.title)
  /\ p.page = "sell" /\ p.at = "idle" /\ p.id \in Ids /\ ~p.warn => InMyListings(p.id)

\* The message a page waits for is the one it sent.
Answers(p, m) ==
  \/ m.kind = "list" /\ p.at = "listing" /\ m.patch.title = p.title
  \/ m.kind = "cancel" /\ p.at = "cancelling" /\ m.id = p.id
  \/ /\ m.kind = "meta" /\ p.at = "saving" /\ m.id = p.id
     /\ p.page = "sell" => m.patch.owned = TRUE /\ m.patch.title = p.title

Waits(p) == p.at \in {"listing", "cancelling", "saving"}

OneAnswerEach ==
  /\ \A m \in sent : m.waited => Answers(tab[m.tab], m)
  /\ \A m \in sent, n \in sent : m.waited /\ n.waited /\ m.tab = n.tab => m = n
  /\ \A t \in Tabs : Waits(tab[t]) => \E m \in sent : m.waited /\ m.tab = t

\* There is a number left for every listing that may still be made.
Lists == {m \in sent : m.kind = "list"}
Absent == {i \in Ids : chain[i] = "absent"}

RoomForAll == IsFiniteSet(sent) /\ Cardinality(Lists) <= Cardinality(Absent)

Inv ==
  /\ Types
  /\ RowsFollow
  /\ DetailsAreOfIt
  /\ \A m \in sent : MessageOK(m)
  /\ \A t \in Tabs : PageOK(tab[t])
  /\ OneAnswerEach
  /\ RoomForAll

\* So many that they can be counted.
LEMMA AbsentIsFinite == IsFiniteSet(Absent) /\ Cardinality(Absent) \in Nat
  <1>1. MaxListings \in Nat /\ Absent \in SUBSET (1 .. MaxListings)
    BY MarketAssumption DEF Absent, Ids
  <1>2. IsFiniteSet(1 .. MaxListings)
    BY <1>1, FS_Interval
  <1>3. IsFiniteSet(Absent)
    BY <1>1, <1>2, FS_Subset
  <1> QED
    BY <1>3, FS_CardinalityType

\* The seller starts with nothing listed, nothing sent and empty forms.
LEMMA InitInv == Init => Inv
  <1> SUFFICES ASSUME Init PROVE Inv
    OBVIOUS
  <1> USE MarketAssumption DEF Init
  <1>1. NoMeta \in Patch /\ Blank \in Page
    BY DEF NoMeta, Patch, Archived, Blank, Page
  <1>2. Types
    BY <1>1 DEF Types, States
  <1>3. RowsFollow /\ DetailsAreOfIt /\ OneAnswerEach
    BY DEF RowsFollow, DetailsAreOfIt, OneAnswerEach, Waits, Blank, Ids
  <1>4. \A t \in Tabs : PageOK(tab[t])
    BY DEF PageOK, Blank, Ids
  <1>5. RoomForAll
    <2>1. Lists = {}
      BY DEF Lists
    <2>2. IsFiniteSet(Absent) /\ Cardinality(Absent) \in Nat
      BY AbsentIsFinite
    <2> QED
      BY <2>1, <2>2, FS_EmptySet DEF RoomForAll
  <1> QED
    BY <1>2, <1>3, <1>4, <1>5 DEF Inv

----------------------------------------------------------------------------
(* What no step takes back. *)

\* The chain, the indexer and the server keep the listings that are made, their names, and their
\* place among the seller's.
GoesOn ==
  /\ chain' \in [Ids -> States]
  /\ typed' \in [Ids -> Titles \cup {Null}]
  /\ rows' \in [Ids -> States]
  /\ meta' \in [0 .. MaxListings -> Patch]
  /\ RowsFollow'
  /\ DetailsAreOfIt'
  /\ \A i \in Ids :
       /\ chain[i] # "absent" => chain'[i] # "absent" /\ typed'[i] = typed[i]
       /\ InMyListings(i) => InMyListings(i)'

\* Nothing is taken back when nothing happens there.
LEMMA NothingNew ==
  ASSUME Inv, UNCHANGED <<chain, typed, rows, meta>>
  PROVE  GoesOn
  BY DEF Inv, Types, GoesOn, RowsFollow, DetailsAreOfIt, IsOf, InMyListings

\* A name stays that of its listing.
LEMMA NameStays ==
  ASSUME GoesOn, NEW i, NEW title, IsOf(i, title)
  PROVE  IsOf(i, title)'
  BY DEF GoesOn, IsOf

\* What is on its way stays in order.
LEMMA MessageStays ==
  ASSUME GoesOn, NEW m, MessageOK(m)
  PROVE  MessageOK(m)'
  BY NameStays DEF MessageOK

\* So does a page that does nothing.
LEMMA PageStays ==
  ASSUME GoesOn, NEW p, PageOK(p)
  PROVE  PageOK(p)'
  <1>1. p.id \in Ids /\ chain[p.id] # "absent" => chain'[p.id] # "absent"
    BY DEF GoesOn
  <1>2. p.id \in Ids /\ InMyListings(p.id) => InMyListings(p.id)'
    BY DEF GoesOn
  <1>3. IsOf(p.id, p.title) => IsOf(p.id, p.title)'
    BY NameStays
  <1> QED
    BY <1>1, <1>2, <1>3 DEF PageOK

----------------------------------------------------------------------------
(* What a step may do with pages and messages, and why that keeps the invariant. *)

\* The parts of the invariant that are about the pages and what they sent.
PagesOK ==
  /\ tab \in [Tabs -> Page]
  /\ sent \subseteq Message
  /\ \A m \in sent : MessageOK(m)
  /\ \A t \in Tabs : PageOK(tab[t])
  /\ OneAnswerEach

\* A page that waits for nothing becomes another that waits for nothing.
LEMMA PageTurns ==
  ASSUME Inv, GoesOn, NEW t \in Tabs, NEW p \in Page, ~Waits(tab[t]), ~Waits(p), PageOK(p)',
         tab' = [tab EXCEPT ![t] = p], sent' = sent
  PROVE  PagesOK'
  <1>1. tab' \in [Tabs -> Page] /\ sent' \subseteq Message
    BY DEF Inv, Types
  <1>2. \A m \in sent : MessageOK(m)'
    BY MessageStays DEF Inv
  <1>3. (\A u \in Tabs : PageOK(tab[u]))'
    BY PageStays DEF Inv, Types
  <1>4. OneAnswerEach'
    BY DEF Inv, Types, Message, OneAnswerEach, Answers, Waits
  <1> QED
    BY <1>1, <1>2, <1>3, <1>4 DEF PagesOK

\* A page that waits for nothing sends a message and waits for the answer.
LEMMA PageSends ==
  ASSUME Inv, GoesOn, NEW t \in Tabs, NEW p \in Page, ~Waits(tab[t]), Waits(p), PageOK(p)',
         NEW kind \in {"list", "cancel", "meta"}, NEW i \in 0 .. MaxListings, NEW patch \in Patch,
         NEW m, m = [tab |-> t, waited |-> TRUE, kind |-> kind, id |-> i, patch |-> patch],
         MessageOK(m)', Answers(p, m),
         tab' = [tab EXCEPT ![t] = p], SendOut(t, kind, i, patch)
  PROVE  PagesOK' /\ sent' = sent \cup {m}
  <1>1. sent' = sent \cup {m} /\ m \in Message
    BY DEF SendOut, Message
  <1>2. tab' \in [Tabs -> Page] /\ sent' \subseteq Message
    BY <1>1 DEF Inv, Types
  <1>3. \A n \in sent' : MessageOK(n)'
    BY <1>1, MessageStays DEF Inv
  <1>4. (\A u \in Tabs : PageOK(tab[u]))'
    BY PageStays DEF Inv, Types
  <1>5. \A n \in sent : n.waited => n.tab # t /\ n.tab \in Tabs
    BY DEF Inv, Types, Message, OneAnswerEach, Answers, Waits
  <1>6. OneAnswerEach'
    <2>1. m.tab = t /\ m.waited
      OBVIOUS
    <2>2. \A n \in sent' : n.waited => Answers(tab'[n.tab], n)
      <3>1. tab'[t] = p /\ \A n \in sent : n.waited => tab'[n.tab] = tab[n.tab]
        BY <1>5 DEF Inv, Types
      <3>2. \A n \in sent : n.waited => Answers(tab'[n.tab], n)
        BY <3>1 DEF Inv, OneAnswerEach
      <3> QED
        BY <1>1, <2>1, <3>1, <3>2
    <2>3. \A n \in sent', o \in sent' : n.waited /\ o.waited /\ n.tab = o.tab => n = o
      <3>1. \A n \in sent, o \in sent : n.waited /\ o.waited /\ n.tab = o.tab => n = o
        BY DEF Inv, OneAnswerEach
      <3> SUFFICES ASSUME NEW n \in sent', NEW o \in sent', n.waited, o.waited, n.tab = o.tab
                   PROVE  n = o
        OBVIOUS
      <3>2. CASE n \in sent /\ o \in sent
        BY <3>1, <3>2
      <3>3. CASE n = m \/ o = m
        BY <1>1, <1>5, <2>1, <3>3, Zenon
      <3> QED
        BY <1>1, <3>2, <3>3
    <2>4. \A u \in Tabs : Waits(tab'[u]) => \E n \in sent' : n.waited /\ n.tab = u
      BY <1>1, <2>1 DEF Inv, Types, OneAnswerEach
    <2> QED
      BY <2>2, <2>3, <2>4 DEF OneAnswerEach
  <1> QED
    BY <1>1, <1>2, <1>3, <1>4, <1>6 DEF PagesOK

\* A page gives up, and what it sent goes on.
Forgotten(m, t) == [m EXCEPT !.waited = @ /\ m.tab # t]

LEMMA ForgottenIs ==
  ASSUME NEW m \in Message, NEW t
  PROVE  /\ Forgotten(m, t) \in Message
         /\ Forgotten(m, t).waited <=> m.waited /\ m.tab # t
         /\ Forgotten(m, t).waited => Forgotten(m, t) = m
         /\ Forgotten(m, t).tab = m.tab /\ Forgotten(m, t).kind = m.kind
         /\ Forgotten(m, t).id = m.id /\ Forgotten(m, t).patch = m.patch
  BY DEF Forgotten, Message

LEMMA PageForgets ==
  ASSUME Inv, GoesOn, NEW t \in Tabs, NEW p \in Page, ~Waits(p), PageOK(p)',
         tab' = [tab EXCEPT ![t] = p], Unwaited(t)
  PROVE  PagesOK' /\ sent' = {Forgotten(m, t) : m \in sent}
  <1>1. sent' = {Forgotten(m, t) : m \in sent}
    BY DEF Unwaited, Forgotten
  <1>2. tab' \in [Tabs -> Page] /\ sent' \subseteq Message
    BY <1>1, ForgottenIs DEF Inv, Types
  <1>3. \A n \in sent' : MessageOK(n)'
    <2> SUFFICES ASSUME NEW m \in sent PROVE MessageOK(Forgotten(m, t))'
      BY <1>1
    <2>1. MessageOK(m)'
      BY MessageStays DEF Inv
    <2>2. m \in Message
      BY DEF Inv, Types
    <2> QED
      BY <2>1, <2>2, ForgottenIs DEF MessageOK
  <1>4. (\A u \in Tabs : PageOK(tab[u]))'
    BY PageStays DEF Inv, Types
  <1>5. \A n \in sent' : n.waited => n \in sent /\ n.tab # t /\ n.tab \in Tabs
    BY <1>1, ForgottenIs DEF Inv, Types, Message
  <1>6. OneAnswerEach'
    <2>1. \A n \in sent' : n.waited => Answers(tab'[n.tab], n)
      BY <1>5 DEF Inv, Types, OneAnswerEach
    <2>2. \A n \in sent', o \in sent' : n.waited /\ o.waited /\ n.tab = o.tab => n = o
      BY <1>5 DEF Inv, OneAnswerEach
    <2>3. ASSUME NEW u \in Tabs, Waits(tab'[u])
          PROVE  \E n \in sent' : n.waited /\ n.tab = u
      <3>1. u # t /\ tab'[u] = tab[u]
        BY <2>3 DEF Inv, Types
      <3>2. PICK m \in sent : m.waited /\ m.tab = u
        BY <2>3, <3>1 DEF Inv, OneAnswerEach
      <3>3. Forgotten(m, t) \in sent' /\ m \in Message
        BY <1>1 DEF Inv, Types
      <3> QED
        BY <3>1, <3>2, <3>3, ForgottenIs
    <2> QED
      BY <2>1, <2>2, <2>3 DEF OneAnswerEach
  <1> QED
    BY <1>1, <1>2, <1>3, <1>4, <1>6 DEF PagesOK

\* A message is dealt with, and the page that waits for it goes on with what it brings.
LEMMA PageHears ==
  ASSUME Inv, GoesOn, NEW m \in sent, sent' = sent \ {m}, NEW p,
         m.waited => p \in Page /\ ~Waits(p) /\ PageOK(p)',
         tab' = IF m.waited THEN [tab EXCEPT ![m.tab] = p] ELSE tab
  PROVE  PagesOK'
  <1>1. m \in Message /\ m.tab \in Tabs
    BY DEF Inv, Types, Message
  <1>2. tab' \in [Tabs -> Page] /\ sent' \subseteq Message
    BY <1>1 DEF Inv, Types
  <1>3. \A n \in sent' : MessageOK(n)'
    BY MessageStays DEF Inv
  <1>4. (\A u \in Tabs : PageOK(tab[u]))'
    BY <1>1, PageStays DEF Inv, Types
  <1>5. OneAnswerEach'
    <2>1. \A n \in sent' : n.waited => Answers(tab'[n.tab], n)
      BY <1>1 DEF Inv, Types, OneAnswerEach
    <2>2. \A n \in sent', o \in sent' : n.waited /\ o.waited /\ n.tab = o.tab => n = o
      BY DEF Inv, OneAnswerEach
    <2>3. ASSUME NEW u \in Tabs, Waits(tab'[u])
          PROVE  \E n \in sent' : n.waited /\ n.tab = u
      <3>1. tab'[u] = tab[u] /\ (m.waited => u # m.tab)
        BY <1>1, <2>3 DEF Inv, Types
      <3>2. PICK n \in sent : n.waited /\ n.tab = u
        BY <2>3, <3>1 DEF Inv, OneAnswerEach
      <3> QED
        BY <3>1, <3>2
    <2> QED
      BY <2>1, <2>2, <2>3 DEF OneAnswerEach
  <1> QED
    BY <1>2, <1>3, <1>4, <1>5 DEF PagesOK

----------------------------------------------------------------------------
(* Room for what may still be listed. *)

\* Sending anything but a new listing leaves the room it was.
LEMMA RoomWhenSent ==
  ASSUME Inv, NEW m, m.kind # "list", sent' = sent \cup {m}, chain' = chain
  PROVE  RoomForAll'
  <1>1. IsFiniteSet(sent')
    BY FS_AddElement DEF Inv, RoomForAll
  <1>2. Lists' = Lists /\ Absent' = Absent
    BY DEF Lists, Absent
  <1> QED
    BY <1>1, <1>2 DEF Inv, RoomForAll

\* Forgetting leaves at most as many listings to be made as there were.
LEMMA RoomWhenForgotten ==
  ASSUME Inv, NEW t, sent' = {Forgotten(m, t) : m \in sent}, chain' = chain
  PROVE  RoomForAll'
  <1>1. IsFiniteSet(sent) /\ IsFiniteSet(Lists)
    BY FS_Subset DEF Inv, RoomForAll, Lists
  <1>2. IsFiniteSet(sent')
    <2> DEFINE f == [m \in sent |-> Forgotten(m, t)]
    <2>1. f \in Surjection(sent, sent')
      BY DEF Surjection
    <2> QED
      BY <1>1, <2>1, FS_Surjection
  <1>3. Cardinality(Lists') <= Cardinality(Lists)
    <2> DEFINE f == [m \in Lists |-> Forgotten(m, t)]
    <2>1. \A m \in sent : Forgotten(m, t).kind = m.kind
      BY ForgottenIs DEF Inv, Types
    <2>2. Lists' = {Forgotten(m, t) : m \in Lists}
      BY <2>1 DEF Lists
    <2>3. f \in Surjection(Lists, Lists')
      BY <2>2 DEF Surjection
    <2> QED
      BY <1>1, <2>3, FS_Surjection
  <1>4. Absent' = Absent
    BY DEF Absent
  <1>5. IsFiniteSet(Lists')
    BY <1>2, FS_Subset DEF Lists
  <1>6. Cardinality(Lists) \in Nat /\ Cardinality(Lists') \in Nat /\ Cardinality(Absent) \in Nat
    BY <1>1, <1>5, AbsentIsFinite, FS_CardinalityType
  <1> QED
    BY <1>2, <1>3, <1>4, <1>6 DEF Inv, RoomForAll

\* So does dealing with a message that makes no listing.
LEMMA RoomWhenHeard ==
  ASSUME Inv, NEW m, sent' = sent \ {m}, Absent' = Absent
  PROVE  RoomForAll'
  <1>1. IsFiniteSet(sent) /\ IsFiniteSet(Lists)
    BY FS_Subset DEF Inv, RoomForAll, Lists
  <1>2. IsFiniteSet(sent')
    BY <1>1, FS_RemoveElement
  <1>3. Lists' \in SUBSET Lists
    BY DEF Lists
  <1>4. IsFiniteSet(Lists') /\ Cardinality(Lists') <= Cardinality(Lists)
    BY <1>1, <1>3, FS_Subset
  <1>5. Cardinality(Lists) \in Nat /\ Cardinality(Lists') \in Nat /\ Cardinality(Absent) \in Nat
    BY <1>1, <1>4, AbsentIsFinite, FS_CardinalityType
  <1> QED
    BY <1>2, <1>4, <1>5 DEF Inv, RoomForAll

\* A listing that is made has a number that none had.
LEMMA NextIdIsFree ==
  ASSUME Inv, NEW m \in sent, m.kind = "list"
  PROVE  NextId \in Absent
  <1>1. IsFiniteSet(Lists) /\ Lists # {}
    BY FS_Subset DEF Inv, RoomForAll, Lists
  <1>2. Cardinality(Lists) \in Nat /\ Cardinality(Lists) # 0
    BY <1>1, FS_EmptySet, FS_CardinalityType
  <1>3. Cardinality(Absent) # 0
    BY <1>2, AbsentIsFinite DEF Inv, RoomForAll
  <1>4. Absent # {}
    BY <1>3, FS_EmptySet
  <1>5. Absent \in SUBSET Nat /\ Absent \subseteq Ids
    BY DEF Absent, Ids
  <1>6. PICK i \in Absent : \A j \in Absent : i <= j
    BY <1>4, <1>5, Least
  <1>7. i \in Ids /\ chain[i] = "absent" /\ \A j \in Ids : j < i => chain[j] # "absent"
    BY <1>6 DEF Absent, Ids
  <1> QED
    BY <1>7 DEF NextId, Absent

\* It takes one place of those that were left.
LEMMA RoomWhenListed ==
  ASSUME Inv, NEW m \in sent, m.kind = "list", sent' = sent \ {m},
         chain' = [chain EXCEPT ![NextId] = "active"]
  PROVE  RoomForAll'
  <1>1. IsFiniteSet(sent) /\ IsFiniteSet(Lists)
    BY FS_Subset DEF Inv, RoomForAll, Lists
  <1>2. IsFiniteSet(sent')
    BY <1>1, FS_RemoveElement
  <1>3. Lists' = Lists \ {m} /\ m \in Lists
    BY DEF Lists
  <1>4. Cardinality(Lists') = Cardinality(Lists) - 1
    BY <1>1, <1>3, FS_RemoveElement
  <1>5. NextId \in Absent /\ Absent' = Absent \ {NextId}
    BY NextIdIsFree DEF Absent, Inv, Types
  <1>6. Cardinality(Absent') = Cardinality(Absent) - 1
    BY <1>5, AbsentIsFinite, FS_RemoveElement
  <1>7. Cardinality(Lists) \in Nat /\ Cardinality(Absent) \in Nat
    BY <1>1, AbsentIsFinite, FS_CardinalityType
  <1> QED
    BY <1>2, <1>4, <1>6, <1>7 DEF Inv, RoomForAll

----------------------------------------------------------------------------
(* The steps of the pages. *)

\* The parts make the invariant.
LEMMA Together ==
  ASSUME GoesOn, PagesOK', RoomForAll'
  PROVE  Inv'
  BY DEF GoesOn, PagesOK, Inv, Types

\* The empty form and the seller's own list are pages about no listing.
LEMMA EmptyPages ==
  /\ Blank \in Page /\ PageOK(Blank) /\ ~Waits(Blank)
  /\ MyPage \in Page /\ PageOK(MyPage) /\ ~Waits(MyPage)
  <1>1. Null \notin Ids
    BY MarketAssumption DEF Ids
  <1> QED
    BY <1>1 DEF Blank, MyPage, Page, PageOK, Waits

\* A patch with one field is a patch.
LEMMA Patches ==
  /\ NoMeta \in Patch
  /\ \A title \in Titles \cup {Edited, Null} : [NoMeta EXCEPT !.title = title] \in Patch
  /\ \A archived \in Archived : [NoMeta EXCEPT !.archived = archived] \in Patch
  BY DEF NoMeta, Patch, Archived

\* Going to another page.
LEMMA OpenKeeps ==
  ASSUME Inv, NEW t \in Tabs, Open(t, Blank) \/ Open(t, MyPage)
  PROVE  Inv'
  <1>1. PICK page \in {Blank, MyPage} : Open(t, page)
    OBVIOUS
  <1>2. GoesOn
    BY <1>1, NothingNew DEF Open
  <1>3. page \in Page /\ PageOK(page) /\ ~Waits(page)
    BY EmptyPages
  <1>4. PageOK(page)'
    BY <1>2, <1>3, PageStays
  <1>5. ~Waits(tab[t])
    BY <1>1 DEF Open, Waits
  <1>6. PagesOK'
    BY <1>1, <1>2, <1>3, <1>4, <1>5, PageTurns DEF Open
  <1>7. RoomForAll'
    BY <1>1 DEF Open, Inv, RoomForAll, Lists, Absent
  <1> QED
    BY <1>2, <1>6, <1>7, Together

\* A new item is submitted only while there is room for one more listing.
LEMMA SubmitKeeps ==
  ASSUME Inv, NEW t \in Tabs, NEW title \in Titles, Submit(t, title)
  PROVE  Inv'
  <1> DEFINE p == [Blank EXCEPT !.at = "listing", !.title = title]
  <1> DEFINE patch == [NoMeta EXCEPT !.title = title]
  <1> DEFINE m == [tab |-> t, waited |-> TRUE, kind |-> "list", id |-> 0, patch |-> patch]
  <1>1. GoesOn
    BY NothingNew DEF Submit
  <1>2. p \in Page /\ Waits(p) /\ ~Waits(tab[t])
    BY DEF Submit, Blank, Page, Waits
  <1>3. PageOK(p)
    BY DEF PageOK, Blank
  <1>4. PageOK(p)'
    BY <1>1, <1>3, PageStays
  <1>5. patch \in Patch /\ 0 \in 0 .. MaxListings
    BY Patches, MarketAssumption
  <1>6. MessageOK(m)
    <2>1. 0 \notin Ids
      BY MarketAssumption DEF Ids
    <2>2. patch.title = title /\ patch.archived = Null
      BY DEF NoMeta
    <2> QED
      BY <2>1, <2>2, MarketAssumption DEF MessageOK, IsOf
  <1>7. MessageOK(m)'
    BY <1>1, <1>6, MessageStays
  <1>8. Answers(p, m)
    BY DEF Answers, Blank, NoMeta
  <1>9. tab' = [tab EXCEPT ![t] = p] /\ SendOut(t, "list", 0, patch)
    BY DEF Submit
  <1>10. PagesOK' /\ sent' = sent \cup {m}
    <2> HIDE DEF p, patch
    <2> QED
      BY <1>1, <1>2, <1>4, <1>5, <1>7, <1>8, <1>9, PageSends
  <1>11. RoomForAll'
    <2>1. Lists' = Lists \cup {m} /\ Absent' = Absent
      BY <1>10 DEF Lists, Absent, Submit
    <2>2. IsFiniteSet(sent) /\ IsFiniteSet(Lists)
      BY FS_Subset DEF Inv, RoomForAll, Lists
    <2> HIDE DEF m
    <2>3. IsFiniteSet(sent')
      BY <1>10, <2>2, FS_AddElement
    <2>4. Cardinality(Lists) \in Nat /\ Cardinality(Absent) \in Nat
      BY <2>2, AbsentIsFinite, FS_CardinalityType
    <2>5. Cardinality(Lists \cup {m}) <= Cardinality(Lists) + 1
      <3>1. Cardinality(Lists \cup {m}) = IF m \in Lists THEN Cardinality(Lists)
                                          ELSE Cardinality(Lists) + 1
        BY <2>2, FS_AddElement
      <3> QED
        BY <2>4, <3>1
    <2>6. Cardinality(Lists \cup {m}) \in Nat
      BY <2>2, FS_AddElement, FS_CardinalityType
    <2>7. Cardinality(Lists) < Cardinality(Absent)
      BY DEF Submit, Lists, Absent
    <2> QED
      BY <2>1, <2>3, <2>4, <2>5, <2>6, <2>7 DEF RoomForAll
  <1> QED
    BY <1>1, <1>10, <1>11, Together

\* A listing on the seller's own page exists.
LEMMA CardExists ==
  ASSUME Inv, NEW t \in Tabs, NEW i, Card(t, i)
  PROVE  /\ i \in Ids /\ chain[i] # "absent" /\ i \in 0 .. MaxListings
         /\ meta[i].title \in {typed[i], Edited, Null}
         /\ tab[t] = MyPage
  <1>1. tab[t] = MyPage /\ i \in getSellerListings /\ i \in Managed
    BY Zenon DEF Card
  <1>2. meta[i].owned = TRUE
    BY <1>1, Zenon DEF getSellerListings
  <1>3. i \in Ids /\ i \in 0 .. MaxListings
    BY <1>1, MarketAssumption DEF Ids
  <1>4. NoMeta.owned = Null /\ Null # TRUE
    BY MarketAssumption, Zenon DEF NoMeta
  <1>5. meta[i] # NoMeta
    BY <1>2, <1>4, Zenon
  <1> QED
    BY <1>1, <1>3, <1>5 DEF Inv, DetailsAreOfIt, IsOf

\* A seller's page that asks for something about a listing that exists, and nothing new happens.
LEMMA Asks ==
  ASSUME Inv, UNCHANGED <<chain, typed, rows, meta>>, NEW t \in Tabs, NEW p \in Page,
         ~Waits(tab[t]), Waits(p), PageOK(p),
         NEW kind \in {"cancel", "meta"}, NEW i \in 0 .. MaxListings, NEW patch \in Patch,
         NEW m, m = [tab |-> t, waited |-> TRUE, kind |-> kind, id |-> i, patch |-> patch],
         MessageOK(m), Answers(p, m),
         tab' = [tab EXCEPT ![t] = p], SendOut(t, kind, i, patch)
  PROVE  Inv'
  <1>1. GoesOn
    BY NothingNew
  <1>2. PageOK(p)' /\ MessageOK(m)'
    BY <1>1, PageStays, MessageStays
  <1>3. kind \in {"list", "cancel", "meta"} /\ m.kind # "list"
    OBVIOUS
  <1>4. PagesOK' /\ sent' = sent \cup {m}
    BY <1>1, <1>2, <1>3, PageSends, Zenon
  <1>5. RoomForAll'
    BY <1>3, <1>4, RoomWhenSent
  <1> QED
    BY <1>1, <1>4, <1>5, Together

\* Delisting.
LEMMA DelistKeeps ==
  ASSUME Inv, NEW t \in Tabs, NEW i, delistOnChain(t, i)
  PROVE  Inv'
  <1> DEFINE p == [MyPage EXCEPT !.at = "cancelling", !.id = i]
  <1> DEFINE m == [tab |-> t, waited |-> TRUE, kind |-> "cancel", id |-> i, patch |-> NoMeta]
  <1>1. i \in Ids /\ chain[i] # "absent" /\ i \in 0 .. MaxListings /\ tab[t] = MyPage
    BY CardExists DEF delistOnChain
  <1>2. p \in Page /\ Waits(p) /\ ~Waits(tab[t]) /\ PageOK(p)
    BY <1>1 DEF MyPage, Blank, Page, Waits, PageOK
  <1>3. NoMeta \in Patch /\ MessageOK(m) /\ Answers(p, m)
    BY <1>1, Patches, MarketAssumption DEF MessageOK, IsOf, Answers, NoMeta, MyPage, Blank
  <1>4. tab' = [tab EXCEPT ![t] = p]
    BY <1>1 DEF delistOnChain, Inv, Types
  <1>5. SendOut(t, "cancel", i, NoMeta) /\ UNCHANGED <<chain, typed, rows, meta>>
    BY DEF delistOnChain
  <1> HIDE DEF p
  <1> QED
    BY <1>1, <1>2, <1>3, <1>4, <1>5, Asks

\* Hiding and relisting.
LEMMA ToggleKeeps ==
  ASSUME Inv, NEW t \in Tabs, NEW i, NEW archived \in BOOLEAN, toggleArchived(t, i, archived)
  PROVE  Inv'
  <1> DEFINE p == [MyPage EXCEPT !.at = "saving", !.id = i]
  <1> DEFINE patch == [NoMeta EXCEPT !.archived = archived]
  <1> DEFINE m == [tab |-> t, waited |-> TRUE, kind |-> "meta", id |-> i, patch |-> patch]
  <1>1. i \in Ids /\ chain[i] # "absent" /\ i \in 0 .. MaxListings /\ tab[t] = MyPage
    BY CardExists DEF toggleArchived
  <1>2. p \in Page /\ Waits(p) /\ ~Waits(tab[t]) /\ PageOK(p)
    BY <1>1 DEF MyPage, Blank, Page, Waits, PageOK
  <1>3. patch \in Patch
    BY Patches DEF Archived
  <1>4. MessageOK(m) /\ Answers(p, m)
    BY <1>1 DEF MessageOK, IsOf, Answers, NoMeta, MyPage, Blank
  <1>5. tab' = [tab EXCEPT ![t] = p]
    BY <1>1 DEF toggleArchived, Inv, Types
  <1>6. SendOut(t, "meta", i, patch) /\ UNCHANGED <<chain, typed, rows, meta>>
    BY DEF toggleArchived
  <1> HIDE DEF p, patch
  <1> QED
    BY <1>1, <1>2, <1>3, <1>4, <1>5, <1>6, Asks

\* Opening the edit form.
LEMMA OpenEditKeeps ==
  ASSUME Inv, NEW t \in Tabs, NEW i, OpenEdit(t, i)
  PROVE  Inv'
  <1>1. PICK title \in {meta[i].title, Null} :
          tab' = [tab EXCEPT ![t].at = "editing", ![t].id = i, ![t].title = title]
    BY DEF OpenEdit
  <1> DEFINE p == [MyPage EXCEPT !.at = "editing", !.id = i, !.title = title]
  <1>2. /\ i \in Ids /\ chain[i] # "absent" /\ i \in 0 .. MaxListings /\ tab[t] = MyPage
        /\ meta[i].title \in {typed[i], Edited, Null}
    BY CardExists DEF OpenEdit
  <1>3. title \in Titles \cup {Edited, Null}
    BY <1>2 DEF Inv, Types
  <1>4. p \in Page /\ ~Waits(p) /\ ~Waits(tab[t]) /\ PageOK(p)
    BY <1>2, <1>3 DEF MyPage, Blank, Page, Waits, PageOK, IsOf
  <1>5. tab' = [tab EXCEPT ![t] = p] /\ sent' = sent
    BY <1>1, <1>2 DEF OpenEdit, Inv, Types
  <1>6. GoesOn
    BY NothingNew DEF OpenEdit
  <1> HIDE DEF p
  <1>7. PageOK(p)'
    BY <1>4, <1>6, PageStays
  <1>8. PagesOK'
    BY <1>4, <1>5, <1>6, <1>7, PageTurns
  <1>9. RoomForAll'
    BY DEF OpenEdit, Inv, RoomForAll, Lists, Absent
  <1> QED
    BY <1>6, <1>8, <1>9, Together

\* Saving what the form has, the seller's words or those it was opened with.
LEMMA SaveEditKeeps ==
  ASSUME Inv, NEW t \in Tabs, SaveEdit(t)
  PROVE  Inv'
  <1>1. PICK title \in {Edited, tab[t].title} : SendOut(t, "meta", tab[t].id, EditPatch(title))
    BY DEF SaveEdit
  <1> DEFINE p == [tab[t] EXCEPT !.at = "saving"]
  <1> DEFINE m == [tab |-> t, waited |-> TRUE, kind |-> "meta", id |-> tab[t].id,
                   patch |-> EditPatch(title)]
  <1>2. tab[t] \in Page /\ tab[t].at = "editing" /\ PageOK(tab[t])
    BY DEF SaveEdit, Inv, Types
  <1>3. /\ tab[t].page = "mine" /\ tab[t].id \in Ids /\ chain[tab[t].id] # "absent"
        /\ IsOf(tab[t].id, tab[t].title) /\ tab[t].id \in 0 .. MaxListings
    BY <1>2 DEF PageOK, Ids
  <1>4. title \in Titles \cup {Edited, Null} /\ IsOf(tab[t].id, title)
    BY <1>2, <1>3 DEF Page, IsOf
  <1>5. p \in Page /\ Waits(p) /\ ~Waits(tab[t]) /\ PageOK(p)
    BY <1>2, <1>3 DEF Page, Waits, PageOK
  <1>6. EditPatch(title) \in Patch
    BY <1>4, Patches DEF EditPatch
  <1>7. MessageOK(m) /\ Answers(p, m)
    <2>1. EditPatch(title).title = title /\ EditPatch(title).archived = Null
      BY DEF EditPatch, NoMeta
    <2> QED
      BY <1>2, <1>3, <1>4, <2>1, MarketAssumption DEF MessageOK, Answers, Page
  <1>8. tab' = [tab EXCEPT ![t] = p] /\ UNCHANGED <<chain, typed, rows, meta>>
    BY DEF SaveEdit, Goto
  <1> HIDE DEF p
  <1> QED
    BY <1>1, <1>3, <1>5, <1>6, <1>7, <1>8, Asks

\* The description of the new listing, for the number its receipt gave.
LEMMA SaveMetaKeeps ==
  ASSUME Inv, NEW t \in Tabs, SaveMeta(t)
  PROVE  Inv'
  <1> DEFINE p == [tab[t] EXCEPT !.at = "saving"]
  <1> DEFINE patch == [title |-> tab[t].title, owned |-> TRUE, archived |-> Null]
  <1> DEFINE m == [tab |-> t, waited |-> TRUE, kind |-> "meta", id |-> tab[t].id, patch |-> patch]
  <1>1. tab[t] \in Page /\ tab[t].at = "listed" /\ PageOK(tab[t])
    BY DEF SaveMeta, Inv, Types
  <1>2. /\ tab[t].page = "sell" /\ tab[t].title \in Titles /\ tab[t].id \in 0 .. MaxListings
        /\ IsOf(tab[t].id, tab[t].title)
    BY <1>1 DEF PageOK
  <1>3. p \in Page /\ Waits(p) /\ ~Waits(tab[t]) /\ PageOK(p)
    BY <1>1, <1>2 DEF Page, Waits, PageOK
  <1>4. patch \in Patch
    BY <1>2 DEF Patch, Archived
  <1>5. MessageOK(m) /\ Answers(p, m)
    BY <1>1, <1>2, MarketAssumption DEF MessageOK, Answers, Page
  <1>6. /\ tab' = [tab EXCEPT ![t] = p] /\ SendOut(t, "meta", tab[t].id, patch)
        /\ UNCHANGED <<chain, typed, rows, meta>>
    BY DEF SaveMeta, Goto
  <1> HIDE DEF p, patch
  <1> QED
    BY <1>2, <1>3, <1>4, <1>5, <1>6, Asks

\* The mark of withdrawal.
LEMMA MarkWithdrawnKeeps ==
  ASSUME Inv, NEW t \in Tabs, MarkWithdrawn(t)
  PROVE  Inv'
  <1> DEFINE p == [tab[t] EXCEPT !.at = "saving"]
  <1> DEFINE patch == [NoMeta EXCEPT !.archived = TRUE]
  <1> DEFINE m == [tab |-> t, waited |-> TRUE, kind |-> "meta", id |-> tab[t].id, patch |-> patch]
  <1>1. tab[t] \in Page /\ tab[t].at = "cancelled" /\ PageOK(tab[t])
    BY DEF MarkWithdrawn, Inv, Types
  <1>2. /\ tab[t].page = "mine" /\ tab[t].id \in Ids /\ chain[tab[t].id] # "absent"
        /\ tab[t].id \in 0 .. MaxListings
    BY <1>1 DEF PageOK, Ids
  <1>3. p \in Page /\ Waits(p) /\ ~Waits(tab[t]) /\ PageOK(p)
    BY <1>1, <1>2 DEF Page, Waits, PageOK
  <1>4. patch \in Patch
    BY Patches DEF Archived
  <1>5. MessageOK(m) /\ Answers(p, m)
    BY <1>1, <1>2, MarketAssumption DEF MessageOK, IsOf, Answers, Page, NoMeta
  <1>6. /\ tab' = [tab EXCEPT ![t] = p] /\ SendOut(t, "meta", tab[t].id, patch)
        /\ UNCHANGED <<chain, typed, rows, meta>>
    BY DEF MarkWithdrawn, Goto
  <1> HIDE DEF p, patch
  <1> QED
    BY <1>2, <1>3, <1>4, <1>5, <1>6, Asks

\* A page that gives up, whichever page it becomes.
LEMMA GivesUp ==
  ASSUME Inv, UNCHANGED <<chain, typed, rows, meta>>, NEW t \in Tabs, Unwaited(t),
         NEW p \in Page, ~Waits(p), PageOK(p)', tab' = [tab EXCEPT ![t] = p]
  PROVE  Inv'
  <1>1. GoesOn
    BY NothingNew
  <1>2. PagesOK' /\ sent' = {Forgotten(m, t) : m \in sent}
    BY <1>1, PageForgets
  <1>3. RoomForAll'
    BY <1>2, RoomWhenForgotten
  <1> QED
    BY <1>1, <1>2, <1>3, Together

\* The page a save ends on, with the warning unless the description is there.
Ended(p, ok) == IF p.page = "mine" THEN MyPage ELSE [p EXCEPT !.at = "idle", !.warn = ~ok]

\* It may be shown: with the warning whatever was saved, without it if the listing can be managed.
LEMMA EndedOK ==
  ASSUME NEW p \in Page, PageOK(p)', p.at = "saving", NEW ok \in BOOLEAN,
         ok /\ p.page = "sell" /\ p.id \in Ids => InMyListings(p.id)'
  PROVE  Ended(p, ok) \in Page /\ ~Waits(Ended(p, ok)) /\ PageOK(Ended(p, ok))'
  <1>1. CASE p.page = "mine"
    <2>1. Ended(p, ok) = MyPage
      BY <1>1 DEF Ended
    <2>2. PageOK(MyPage)'
      BY DEF PageOK, MyPage, Blank
    <2> QED
      BY <2>1, <2>2, EmptyPages
  <1>2. CASE p.page = "sell"
    BY <1>2 DEF Ended, Page, Waits, PageOK
  <1> QED
    BY <1>1, <1>2 DEF Page

\* A wallet, a receipt or a fetch that fails.
LEMMA RejectsKeeps ==
  ASSUME Inv, NEW t \in Tabs, Rejects(t)
  PROVE  Inv'
  <1>1. Unwaited(t) /\ UNCHANGED <<chain, typed, rows, meta>>
    BY DEF Rejects
  <1>2. GoesOn
    BY <1>1, NothingNew
  <1>3. CASE tab[t].at = "saving" /\ Saved(t, FALSE)
    <2>1. PICK p \in Page : p = tab[t]
      BY DEF Inv, Types
    <2>2. tab' = [tab EXCEPT ![t] = Ended(p, FALSE)]
      BY <1>3, <2>1 DEF Saved, Ended
    <2>3. PageOK(p)'
      BY <1>2, <2>1, PageStays DEF Inv
    <2>4. Ended(p, FALSE) \in Page /\ ~Waits(Ended(p, FALSE)) /\ PageOK(Ended(p, FALSE))'
      BY <1>3, <2>1, <2>3, EndedOK
    <2> QED
      BY <1>1, <2>2, <2>4, GivesUp
  <1>4. PageOK(MyPage)' /\ PageOK(Blank)'
    BY <1>2, EmptyPages, PageStays
  <1>5. CASE tab' = [tab EXCEPT ![t] = MyPage]
    BY <1>1, <1>4, <1>5, EmptyPages, GivesUp
  <1>6. CASE tab' = [tab EXCEPT ![t] = Blank]
    BY <1>1, <1>4, <1>6, EmptyPages, GivesUp
  <1> QED
    BY <1>3, <1>5, <1>6 DEF Rejects

\* A page that is closed or reloaded.
LEMMA CloseKeeps ==
  ASSUME Inv, NEW t \in Tabs, Close(t)
  PROVE  Inv'
  <1>1. GoesOn
    BY NothingNew DEF Close
  <1>2. PageOK(MyPage)'
    BY <1>1, EmptyPages, PageStays
  <1> QED
    BY <1>2, EmptyPages, GivesUp DEF Close

----------------------------------------------------------------------------
(* The steps of the chain, the indexer and the server. *)

\* A new listing has the next number; until then nothing was about that number.
LEMMA ListedKeeps ==
  ASSUME Inv, NEW m \in sent, Listed(m)
  PROVE  Inv'
  <1>1. m.kind = "list" /\ sent' = sent \ {m} /\ m \in Message /\ UNCHANGED <<rows, meta>>
    BY DEF Listed, Take, Inv, Types
  <1>2. MessageOK(m) /\ m.patch.title \in Titles
    BY <1>1 DEF Inv, MessageOK
  <1>3. m.waited => /\ tab[m.tab] \in Page /\ tab[m.tab].at = "listing"
                    /\ tab[m.tab].page = "sell" /\ tab[m.tab].title = m.patch.title
    BY <1>1 DEF Inv, Types, Message, OneAnswerEach, Answers, PageOK
  <1>4. CASE /\ chain' = [chain EXCEPT ![NextId] = "active"]
             /\ typed' = [typed EXCEPT ![NextId] = m.patch.title]
             /\ Take(m, "listed", NextId)
    <2>1. PICK i \in Ids : i = NextId /\ chain[i] = "absent"
      BY <1>1, NextIdIsFree DEF Absent
    <2>2. /\ chain' = [chain EXCEPT ![i] = "active"]
          /\ typed' = [typed EXCEPT ![i] = m.patch.title]
      BY <1>4, <2>1
    <2>3. GoesOn
      <3>1. /\ chain' \in [Ids -> States] /\ typed' \in [Ids -> Titles \cup {Null}]
            /\ rows' \in [Ids -> States] /\ meta' \in [0 .. MaxListings -> Patch]
        BY <1>1, <1>2, <2>2 DEF Inv, Types, States
      <3>2. \A j \in Ids : chain[j] # "absent" => chain'[j] = chain[j] /\ typed'[j] = typed[j]
        BY <2>1, <2>2 DEF Inv, Types
      <3>3. RowsFollow'
        BY <1>1, <2>1, <2>2 DEF Inv, Types, RowsFollow, States
      <3>4. DetailsAreOfIt'
        BY <1>1, <3>2 DEF Inv, DetailsAreOfIt, IsOf
      <3>5. \A j \in Ids : InMyListings(j) => InMyListings(j)'
        BY <1>1 DEF InMyListings
      <3> QED
        BY <3>1, <3>2, <3>3, <3>4, <3>5 DEF GoesOn
    <2>4. PICK p : p = [tab[m.tab] EXCEPT !.at = "listed", !.id = i]
      OBVIOUS
    <2>5. tab' = IF m.waited THEN [tab EXCEPT ![m.tab] = p] ELSE tab
      BY <1>4, <2>1, <2>4 DEF Take
    <2>6. IsOf(i, m.patch.title)'
      BY <1>2, <2>2 DEF IsOf, Inv, Types
    <2>7. ASSUME m.waited PROVE p \in Page /\ ~Waits(p) /\ PageOK(p)'
      <3>1. i \in 0 .. MaxListings
        BY <2>1 DEF Ids
      <3>2. /\ p \in Page /\ p.at = "listed" /\ p.page = "sell" /\ p.id = i
            /\ p.title = m.patch.title
        BY <1>3, <2>4, <2>7, <3>1 DEF Page
      <3>3. PageOK(p)'
        BY <1>2, <2>6, <3>1, <3>2 DEF PageOK
      <3> QED
        BY <3>2, <3>3 DEF Waits
    <2>8. PagesOK'
      BY <1>1, <2>3, <2>5, <2>7, PageHears
    <2>9. RoomForAll'
      BY <1>1, <1>4, RoomWhenListed
    <2> QED
      BY <2>3, <2>8, <2>9, Together
  <1>5. CASE Take(m, "listed", 0) /\ UNCHANGED <<chain, typed>>
    <2>1. GoesOn
      BY <1>1, <1>5, NothingNew
    <2>2. PICK p : p = [tab[m.tab] EXCEPT !.at = "listed", !.id = 0]
      OBVIOUS
    <2>3. tab' = IF m.waited THEN [tab EXCEPT ![m.tab] = p] ELSE tab
      BY <1>5, <2>2 DEF Take
    <2>4. 0 \notin Ids /\ 0 \in 0 .. MaxListings
      BY MarketAssumption DEF Ids
    <2>5. ASSUME m.waited PROVE p \in Page /\ ~Waits(p) /\ PageOK(p)
      <3>1. /\ p \in Page /\ p.at = "listed" /\ p.page = "sell" /\ p.id = 0
            /\ p.title = m.patch.title
        BY <1>3, <2>2, <2>4, <2>5 DEF Page
      <3> QED
        BY <1>2, <2>4, <3>1 DEF PageOK, IsOf, Waits
    <2>6. m.waited => PageOK(p)'
      BY <2>1, <2>5, PageStays
    <2>7. PagesOK'
      BY <1>1, <2>1, <2>3, <2>5, <2>6, PageHears
    <2>8. RoomForAll'
      BY <1>1, <1>5, RoomWhenHeard DEF Absent
    <2> QED
      BY <2>1, <2>7, <2>8, Together
  <1> QED
    BY <1>4, <1>5 DEF Listed

\* A cancellation, of a listing that is there or of one already sold or withdrawn.
LEMMA CancelledKeeps ==
  ASSUME Inv, NEW m \in sent, Cancelled(m)
  PROVE  Inv'
  <1>1. /\ m.kind = "cancel" /\ sent' = sent \ {m} /\ m \in Message
        /\ UNCHANGED <<typed, rows, meta>> /\ chain' = [chain EXCEPT ![m.id] = "inactive"]
    BY DEF Cancelled, Take, Inv, Types
  <1>2. m.id \in Ids /\ chain[m.id] # "absent" /\ m.id \in 0 .. MaxListings
    BY <1>1 DEF Inv, MessageOK, IsOf, Message
  <1>3. m.waited => tab[m.tab] \in Page /\ tab[m.tab].at = "cancelling" /\ tab[m.tab].page = "mine"
    BY <1>1 DEF Inv, Types, Message, OneAnswerEach, Answers, PageOK
  <1>4. GoesOn
    <2>1. /\ chain' \in [Ids -> States] /\ typed' \in [Ids -> Titles \cup {Null}]
          /\ rows' \in [Ids -> States] /\ meta' \in [0 .. MaxListings -> Patch]
      BY <1>1 DEF Inv, Types, States
    <2>2. \A j \in Ids : chain[j] # "absent" => chain'[j] # "absent" /\ typed'[j] = typed[j]
      BY <1>1 DEF Inv, Types
    <2>3. RowsFollow'
      BY <1>1 DEF Inv, Types, RowsFollow, States
    <2>4. DetailsAreOfIt'
      BY <1>1, <2>2 DEF Inv, DetailsAreOfIt, IsOf
    <2>5. \A j \in Ids : InMyListings(j) => InMyListings(j)'
      BY <1>1 DEF InMyListings
    <2> QED
      BY <2>1, <2>2, <2>3, <2>4, <2>5 DEF GoesOn
  <1>5. PICK p : p = [tab[m.tab] EXCEPT !.at = "cancelled", !.id = m.id]
    OBVIOUS
  <1>6. tab' = IF m.waited THEN [tab EXCEPT ![m.tab] = p] ELSE tab
    BY <1>5 DEF Cancelled, Take
  <1>7. ASSUME m.waited PROVE p \in Page /\ ~Waits(p) /\ PageOK(p)'
    <2>1. p \in Page /\ p.at = "cancelled" /\ p.page = "mine" /\ p.id = m.id
      BY <1>2, <1>3, <1>5, <1>7 DEF Page
    <2>2. chain'[m.id] # "absent"
      BY <1>2, <1>4 DEF GoesOn
    <2> QED
      BY <1>2, <2>1, <2>2 DEF PageOK, Waits
  <1>8. PagesOK'
    BY <1>1, <1>4, <1>6, <1>7, PageHears
  <1>9. Absent' = Absent
    BY <1>1, <1>2 DEF Absent, Inv, Types
  <1>10. RoomForAll'
    BY <1>1, <1>9, RoomWhenHeard
  <1> QED
    BY <1>4, <1>8, <1>10, Together

\* The indexer catches up with the chain.
LEMMA IndexKeeps ==
  ASSUME Inv, NEW i \in Ids, Index(i)
  PROVE  Inv'
  <1>1. /\ chain' \in [Ids -> States] /\ typed' \in [Ids -> Titles \cup {Null}]
        /\ rows' \in [Ids -> States] /\ meta' \in [0 .. MaxListings -> Patch]
    BY DEF Index, Inv, Types, States
  <1>2. RowsFollow'
    BY DEF Index, Inv, Types, RowsFollow
  <1>3. DetailsAreOfIt' /\ \A j \in Ids : InMyListings(j) => InMyListings(j)'
    BY DEF Index, Inv, DetailsAreOfIt, IsOf, InMyListings
  <1>4. GoesOn
    BY <1>1, <1>2, <1>3 DEF GoesOn, Index
  <1>5. (\A m \in sent : MessageOK(m))' /\ (\A t \in Tabs : PageOK(tab[t]))'
    BY <1>4, MessageStays, PageStays DEF Index, Inv
  <1>6. PagesOK'
    BY <1>5 DEF PagesOK, Index, Inv, Types, OneAnswerEach
  <1>7. RoomForAll'
    BY DEF Index, Inv, RoomForAll, Lists, Absent
  <1> QED
    BY <1>4, <1>6, <1>7, Together

\* What an upsert leaves in a row: each column the new value, or the old one where there is none.
LEMMA Upserted ==
  ASSUME Inv, NEW i \in 0 .. MaxListings, NEW patch \in Patch, upsertListingMeta(i, patch)
  PROVE  /\ meta' \in [0 .. MaxListings -> Patch]
         /\ \A j \in 0 .. MaxListings : j # i => meta'[j] = meta[j]
         /\ meta'[i].title = COALESCE(patch.title, meta[i].title)
         /\ meta'[i].owned = COALESCE(patch.owned, meta[i].owned)
         /\ meta'[i].archived = COALESCE(patch.archived, meta[i].archived)
  <1> DEFINE row == [title |-> COALESCE(patch.title, meta[i].title),
                     owned |-> COALESCE(patch.owned, meta[i].owned),
                     archived |-> COALESCE(patch.archived, meta[i].archived)]
  <1>1. meta[i] \in Patch
    BY DEF Inv, Types
  <1>2. DOMAIN NoMeta = {"title", "owned", "archived"}
    BY DEF NoMeta
  <1>3. [f \in DOMAIN NoMeta |-> COALESCE(patch[f], meta[i][f])] = row
    BY <1>1, <1>2 DEF Patch
  <1>4. row \in Patch
    BY <1>1 DEF Patch, COALESCE
  <1>5. meta' = [meta EXCEPT ![i] = row]
    BY <1>3 DEF upsertListingMeta
  <1> QED
    BY <1>4, <1>5 DEF Inv, Types

\* A description that is stored is one of that listing, and no field is lost.
LEMMA StoredGoesOn ==
  ASSUME Inv, NEW m \in sent, Stored(m)
  PROVE  /\ GoesOn
         /\ m.id \in Ids /\ m.patch.owned = TRUE /\ m.patch.title # Null => InMyListings(m.id)'
  <1>1. /\ m \in Message /\ MessageOK(m) /\ UNCHANGED <<chain, typed, rows>>
        /\ upsertListingMeta(m.id, m.patch)
    BY DEF Stored, Inv, Types
  <1>2. m.id \in 0 .. MaxListings /\ m.patch \in Patch
    BY <1>1 DEF Message
  <1>3. /\ meta' \in [0 .. MaxListings -> Patch]
        /\ \A j \in 0 .. MaxListings : j # m.id => meta'[j] = meta[j]
        /\ meta'[m.id].title = COALESCE(m.patch.title, meta[m.id].title)
        /\ meta'[m.id].owned = COALESCE(m.patch.owned, meta[m.id].owned)
    BY <1>1, <1>2, Upserted
  <1>4. RowsFollow'
    BY <1>1 DEF Inv, RowsFollow
  <1>5. DetailsAreOfIt'
    <2> SUFFICES ASSUME NEW j \in Ids, meta'[j] # NoMeta
                 PROVE  chain[j] # "absent" /\ meta'[j].title \in {typed[j], Edited, Null}
      BY <1>1 DEF DetailsAreOfIt, IsOf
    <2>1. CASE j # m.id
      BY <1>3, <2>1 DEF Inv, DetailsAreOfIt, IsOf, Ids
    <2>2. CASE j = m.id
      <3>1. chain[j] # "absent" /\ m.patch.title \in {typed[j], Edited, Null}
        BY <1>1, <2>2 DEF MessageOK, IsOf
      <3>2. meta[j].title \in {typed[j], Edited, Null}
        BY DEF Inv, DetailsAreOfIt, IsOf, NoMeta
      <3> QED
        BY <1>3, <2>2, <3>1, <3>2 DEF COALESCE
    <2> QED
      BY <2>1, <2>2
  <1>6. m.patch.owned = TRUE /\ m.patch.title # Null => InMyListings(m.id)'
    BY <1>3, MarketAssumption DEF InMyListings, COALESCE
  <1>7. \A j \in Ids : InMyListings(j) => InMyListings(j)'
    <2> SUFFICES ASSUME NEW j \in Ids, InMyListings(j)
                 PROVE  InMyListings(j)'
      OBVIOUS
    <2>1. CASE j # m.id
      BY <1>3, <2>1 DEF InMyListings, Ids
    <2>2. CASE j = m.id
      <3>1. m.patch.owned \in {Null, TRUE}
        BY <1>2 DEF Patch
      <3> QED
        BY <1>3, <2>2, <3>1, MarketAssumption DEF InMyListings, COALESCE
    <2> QED
      BY <2>1, <2>2
  <1> QED
    BY <1>1, <1>3, <1>4, <1>5, <1>6, <1>7 DEF GoesOn, Inv, Types

\* The server's answer: the page ends with the warning, or with what it described in its place.
LEMMA AnsweredKeeps ==
  ASSUME Inv, NEW m \in sent, Stored(m) \/ Refused(m)
  PROVE  Inv'
  <1>1. m.kind = "meta" /\ sent' = sent \ {m} /\ m \in Message /\ chain' = chain
    BY DEF Stored, Refused, Inv, Types
  <1>2. PICK ok \in BOOLEAN : /\ ok => Stored(m)
                              /\ m.waited => Saved(m.tab, ok)
                              /\ ~m.waited => tab' = tab
    BY Zenon DEF Stored, Refused
  <1>3. GoesOn
    BY StoredGoesOn, NothingNew DEF Refused
  <1>4. PICK p : p = tab[m.tab]
    OBVIOUS
  <1>5. tab' = IF m.waited THEN [tab EXCEPT ![m.tab] = Ended(p, ok)] ELSE tab
    BY <1>2, <1>4 DEF Saved, Ended
  <1>6. ASSUME m.waited
        PROVE  Ended(p, ok) \in Page /\ ~Waits(Ended(p, ok)) /\ PageOK(Ended(p, ok))'
    <2>1. /\ p \in Page /\ PageOK(p) /\ p.at = "saving" /\ m.id = p.id
          /\ p.page = "sell" => m.patch.owned = TRUE /\ m.patch.title = p.title
      BY <1>1, <1>4, <1>6 DEF Inv, Types, Message, OneAnswerEach, Answers
    <2>2. PageOK(p)'
      BY <1>3, <2>1, PageStays
    <2>3. p.page = "sell" => m.patch.title # Null
      BY <2>1, MarketAssumption DEF PageOK
    <2>4. ok /\ p.page = "sell" /\ p.id \in Ids => InMyListings(p.id)'
      BY <1>2, <2>1, <2>3, StoredGoesOn
    <2> QED
      BY <2>1, <2>2, <2>4, EndedOK
  <1>7. PagesOK'
    BY <1>1, <1>3, <1>5, <1>6, PageHears
  <1>8. RoomForAll'
    BY <1>1, RoomWhenHeard DEF Absent
  <1> QED
    BY <1>3, <1>7, <1>8, Together

----------------------------------------------------------------------------
(* The theorems. *)

\* A step of any page, or of what lies behind the pages, keeps the invariant.
LEMMA StepKeepsInv ==
  ASSUME Inv, [Next]_vars
  PROVE  Inv'
  <1>1. CASE UNCHANGED vars
    BY <1>1 DEF vars, Inv, Types, RowsFollow, DetailsAreOfIt, IsOf, MessageOK, PageOK, InMyListings,
       OneAnswerEach, RoomForAll, Lists, Absent
  <1>2. ASSUME NEW t \in Tabs, OnPage(t)
        PROVE  Inv'
    <2>1. CASE Open(t, Blank) \/ Open(t, MyPage)
      BY <2>1, OpenKeeps
    <2>2. ASSUME NEW title \in Titles, Submit(t, title) PROVE Inv'
      BY <2>2, SubmitKeeps
    <2>3. ASSUME NEW i \in Managed, delistOnChain(t, i) PROVE Inv'
      BY <2>3, DelistKeeps
    <2>4. ASSUME NEW i \in Managed, OpenEdit(t, i) PROVE Inv'
      BY <2>4, OpenEditKeeps
    <2>5. ASSUME NEW i \in Managed, NEW archived \in BOOLEAN, toggleArchived(t, i, archived)
          PROVE  Inv'
      BY <2>5, ToggleKeeps
    <2>6. CASE SaveEdit(t)
      BY <2>6, SaveEditKeeps
    <2>7. CASE SaveMeta(t)
      BY <2>7, SaveMetaKeeps
    <2>8. CASE MarkWithdrawn(t)
      BY <2>8, MarkWithdrawnKeeps
    <2>9. CASE Rejects(t)
      BY <2>9, RejectsKeeps
    <2>10. CASE Close(t)
      BY <2>10, CloseKeeps
    <2> QED
      BY <1>2, <2>1, <2>2, <2>3, <2>4, <2>5, <2>6, <2>7, <2>8, <2>9, <2>10 DEF OnPage
  <1>3. ASSUME NEW m \in sent, Listed(m) \/ Cancelled(m) \/ Stored(m) \/ Refused(m)
        PROVE  Inv'
    BY <1>3, ListedKeeps, CancelledKeeps, AnsweredKeeps
  <1>4. ASSUME NEW i \in Ids, Index(i)
        PROVE  Inv'
    BY <1>4, IndexKeeps
  <1> QED
    BY <1>1, <1>2, <1>3, <1>4 DEF Next

\* Whatever the tabs do, in whatever order their messages arrive, the invariant holds.
THEOREM Invariance == Spec => []Inv
  BY InitInv, StepKeepsInv, PTL DEF Spec

\* Every tab waits for exactly the one message it sent, or for none: a wait that is over is not
\* ended again by an answer that comes late.
THEOREM TypeCorrect == Spec => []TypeOK
  <1>1. ASSUME Inv PROVE TypeOK
    <2>1. ASSUME NEW t \in Tabs
          PROVE  Cardinality({m \in sent : m.tab = t /\ m.waited}) =
                   IF tab[t].at \in {"listing", "cancelling", "saving"} THEN 1 ELSE 0
      <3> DEFINE W == {m \in sent : m.tab = t /\ m.waited}
      <3>1. CASE Waits(tab[t])
        <4>1. PICK m \in sent : m.waited /\ m.tab = t
          BY <1>1, <3>1 DEF Inv, OneAnswerEach
        <4>2. W = {m}
          BY <1>1, <4>1 DEF Inv, OneAnswerEach
        <4> QED
          BY <3>1, <4>2, FS_Singleton DEF Waits
      <3>2. CASE ~Waits(tab[t])
        <4>1. W = {}
          BY <1>1, <3>2 DEF Inv, OneAnswerEach, Answers, Waits
        <4> QED
          BY <3>2, <4>1, FS_EmptySet DEF Waits
      <3> QED
        BY <3>1, <3>2
    <2> QED
      BY <1>1, <2>1 DEF Inv, Types, TypeOK
  <1> QED
    BY <1>1, Invariance, PTL

\* A buyer reads of a listing what was typed for it, however many are posted at once.
THEOREM DetailsAreTheirs == Spec => []DetailsOfTheirListing
  <1>1. Inv => DetailsOfTheirListing
    <2> SUFFICES ASSUME Inv, NEW i \in Ids
                 PROVE  /\ meta[i].title \in {typed[i], Edited, Null}
                        /\ meta[i] # NoMeta => chain[i] # "absent"
      BY DEF DetailsOfTheirListing
    <2>1. CASE meta[i] = NoMeta
      BY <2>1 DEF NoMeta
    <2>2. CASE meta[i] # NoMeta
      BY <2>2 DEF Inv, DetailsAreOfIt, IsOf
    <2> QED
      BY <2>1, <2>2
  <1> QED
    BY <1>1, Invariance, PTL

\* A listing announced without the warning is one the seller can manage, for good.
THEOREM PostedCanBeManaged == Spec => []PostedIsManaged
  <1>1. Inv => PostedIsManaged
    <2> SUFFICES ASSUME Inv, NEW t \in Tabs, tab[t].page = "sell", tab[t].at = "idle",
                        tab[t].id \in Ids, ~tab[t].warn
                 PROVE  tab[t].id \in getSellerListings /\ meta[tab[t].id].title # Null
      BY DEF PostedIsManaged
    <2>1. InMyListings(tab[t].id)
      BY DEF Inv, PageOK
    <2>2. tab[t].id \in DOMAIN meta
      BY DEF Inv, Types, Ids
    <2> QED
      BY <2>1, <2>2, Zenon DEF InMyListings, getSellerListings
  <1> QED
    BY <1>1, Invariance, PTL

\* A step that brings a listing before the buyers is the indexer's, of one that is not stored as
\* withdrawn, or the arrival of a request to relist it.
LEMMA OnlyRelistReveals ==
  ASSUME Inv, Next, NEW i \in getActiveListings' \ getActiveListings
  PROVE  \/ rows[i] # "active" /\ meta[i].archived # TRUE
         \/ \E m \in sent : m.id = i /\ m.patch = [NoMeta EXCEPT !.archived = FALSE]
  <1>1. i \in Ids /\ rows'[i] = "active" /\ COALESCE(meta'[i].archived, FALSE) = FALSE
    BY Zenon DEF getActiveListings, Ids
  <1>2. rows[i] # "active" \/ COALESCE(meta[i].archived, FALSE) # FALSE
    BY <1>1, Zenon DEF getActiveListings
  <1>3. CASE UNCHANGED <<rows, meta>>
    BY <1>1, <1>2, <1>3
  <1>4. ASSUME NEW j \in Ids, Index(j)
        PROVE  rows[i] # "active" /\ meta[i].archived # TRUE
    <2>1. meta' = meta
      BY <1>4 DEF Index
    <2>2. TRUE # Null
      BY MarketAssumption
    <2> QED
      BY <1>1, <1>2, <2>1, <2>2, Zenon DEF COALESCE
  <1>5. ASSUME NEW m \in sent, Stored(m)
        PROVE  m.id = i /\ m.patch = [NoMeta EXCEPT !.archived = FALSE]
    <2>1. /\ m \in Message /\ MessageOK(m) /\ rows' = rows /\ upsertListingMeta(m.id, m.patch)
      BY <1>5 DEF Stored, Inv, Types
    <2>2. m.id \in 0 .. MaxListings /\ m.patch \in Patch
      BY <2>1 DEF Message
    <2>3. /\ \A j \in 0 .. MaxListings : j # m.id => meta'[j] = meta[j]
          /\ meta'[m.id].archived = COALESCE(m.patch.archived, meta[m.id].archived)
      BY <2>1, <2>2, Upserted
    <2>4. rows[i] = "active"
      BY <1>1, <2>1
    <2>5. COALESCE(meta[i].archived, FALSE) # COALESCE(meta'[i].archived, FALSE)
      BY <1>1, <1>2, <2>4, Zenon
    <2>6. i \in 0 .. MaxListings
      BY <1>1 DEF Ids
    <2>7. i = m.id
      BY <2>3, <2>5, <2>6, Zenon
    <2>8. m.patch.archived # Null
      BY <2>3, <2>5, <2>7, Zenon DEF COALESCE
    <2>9. COALESCE(m.patch.archived, FALSE) = FALSE
      BY <1>1, <2>3, <2>7, <2>8, Zenon DEF COALESCE
    <2>10. m.patch.archived = FALSE
      BY <2>8, <2>9, Zenon DEF COALESCE
    <2> QED
      BY <2>1, <2>7, <2>10, Zenon DEF MessageOK
  <1>6. \/ UNCHANGED <<rows, meta>>
        \/ \E j \in Ids : Index(j)
        \/ \E m \in sent : Stored(m)
    BY DEF Next, OnPage, Open, Submit, delistOnChain, OpenEdit, toggleArchived, SaveEdit, SaveMeta,
       MarkWithdrawn, Rejects, Close, Listed, Cancelled, Refused
  <1> QED
    BY <1>3, <1>4, <1>5, <1>6

\* What is stored as withdrawn is not brought back by an old edit, a late description or the indexer.
THEOREM NothingReturnsUnasked == Spec => WithdrawnStaysWithdrawn
  <1>1. ASSUME Inv, [Next]_vars
        PROVE  [\A i \in getActiveListings' \ getActiveListings :
                  \/ rows[i] # "active" /\ meta[i].archived # TRUE
                  \/ \E m \in sent : m.id = i /\ m.patch = [NoMeta EXCEPT !.archived = FALSE]]_vars
    BY <1>1, OnlyRelistReveals
  <1> QED
    BY <1>1, Invariance, PTL DEF Spec, WithdrawnStaysWithdrawn
=============================================================================
