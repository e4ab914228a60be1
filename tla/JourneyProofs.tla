--------------------------- MODULE JourneyProofs ---------------------------
(***************************************************************************)
(* Proofs about Journey, for any prices and lengths of a conversation, any *)
(* free window and expiry, any horizon, and any number of actions and      *)
(* shares in progress.                                                     *)
(***************************************************************************)
EXTENDS Journey, FiniteSetTheorems, WellFoundedInduction, TLAPS

----------------------------------------------------------------------------
(* What a step of the deal may do. *)

\* A deal that is funded stays funded, its terms and a check-in stay, and what has ended is over.
DealMovesOn ==
  /\ now' \in 0 .. MaxNow /\ now' >= now
  /\ phase' \in [Deals -> {"None", "Open", "Paid", "Returned", "Forfeited"}]
  /\ terms' = terms
  /\ met' \in [Deals -> BOOLEAN]
  /\ award' \in [Deals -> Awards]
  /\ phase[deal] # "None" => phase'[deal] # "None"
  /\ phase[deal] \notin {"None", "Open"} => phase'[deal] = phase[deal]
  /\ met[deal] => met'[deal]

\* Ending the deal is such a step, and leaves the check-in alone.
LEMMA EndMovesOn ==
  ASSUME RoomTypeOK, NEW final \in {"Paid", "Returned", "Forfeited"}, NEW a, End(deal, final, a)
  PROVE  DealMovesOn /\ phase'[deal] = final /\ UNCHANGED <<now, met>>
  BY RoomAssumption DEF End, DealMovesOn, RoomTypeOK

\* A full refund returns everything, a forfeit needs a check-in and the end of the free window.
LEMMA RefundMovesOn ==
  ASSUME RoomTypeOK, NEW bondTo, FullRefund(bondTo)
  PROVE  DealMovesOn /\ phase'[deal] = "Returned"
  BY EndMovesOn DEF FullRefund, Return

LEMMA ForfeitMovesOn ==
  ASSUME RoomTypeOK, Forfeit
  PROVE  DealMovesOn /\ phase'[deal] = "Forfeited"
  BY EndMovesOn DEF Forfeit, Keep

\* An included transaction is such a step; afterwards what it was sent for is done, cannot be done
\* any more, or was refused by a hook while its page waits for it.
Decided(k) == ~Open \/ (k = "checkIn" /\ met[deal])

LEMMA IncludeMovesOn ==
  ASSUME RoomTypeOK, NEW k \in Actions, Include(k)
  PROVE  /\ DealMovesOn /\ refused \subseteq refused' /\ refused' \subseteq Actions
         /\ Decided(k)' \/ k \in refused' \/ jobs[k] = "idle"
  <1>0. CASE HookReverts(k) /\ refused' = refused \cup ({k} \ Idle) /\ UNCHANGED handoffVars
    <2>1. k \in refused' \/ jobs[k] = "idle"
      BY <1>0 DEF Idle
    <2>2. refused \subseteq refused' /\ refused' \subseteq Actions
      BY <1>0 DEF RoomTypeOK
    <2>3. DealMovesOn
      BY <1>0, RoomAssumption DEF handoffVars, DealMovesOn, RoomTypeOK
    <2> QED
      BY <2>1, <2>2, <2>3
  <1>6. SUFFICES ASSUME Executes(k) \/ (Reverts(k) /\ UNCHANGED handoffVars), refused' = refused
                 PROVE  DealMovesOn /\ Decided(k)'
    BY <1>0 DEF Include, RoomTypeOK
  <1>1. CASE Reverts(k) /\ UNCHANGED handoffVars
    BY <1>1, RoomAssumption DEF Reverts, handoffVars, DealMovesOn, RoomTypeOK, Decided, Open
  <1>2. CASE k = "checkIn" /\ Meet(deal)
    BY <1>2, RoomAssumption DEF Meet, DealMovesOn, RoomTypeOK, Decided, Open
  <1>3. CASE FullRefund("seller") \/ FullRefund("buyer")
    BY <1>3, RefundMovesOn DEF Decided, Open
  <1>4. CASE Pay(deal, [seller |-> 1, bondTo |-> "seller"])
    BY <1>4, EndMovesOn DEF Pay, Decided, Open
  <1>5. CASE Forfeit
    BY <1>5, ForfeitMovesOn DEF Decided, Open
  <1> QED
    BY <1>1, <1>2, <1>3, <1>4, <1>5, <1>6 DEF Executes

----------------------------------------------------------------------------
(* The inductive invariant of the deal page. *)

\* A page has seen a check-in only if there is one, and an end only as it came.
SeenIsPast == \A p \in Pages : view[p] = "CheckedIn" => met[deal]

\* The buyer's page is drawn by a clock that is no further off than MaxSkew.
ClockFits(isEarly, at) ==
  /\ isEarly => at - MaxSkew < terms[deal].freeUntil
  /\ ~isEarly => terms[deal].freeUntil <= at + MaxSkew

DrawnByClock == Live(view["buyer"]) => ClockFits(early, drawn)

\* What the buyer was promised rests on what the page knew.
PromiseFits ==
  "buyerCancel" \in txs =>
    /\ said.full = (said.early \/ ~said.met)
    /\ said.met => met[deal]
    /\ ClockFits(said.early, said.at)

\* An action that waits for its receipt has its transaction on its way, or its matter is decided, or
\* a hook has refused it.
AwaitedIsDecided ==
  \A k \in Actions : jobs[k] = "receipt" => k \in txs \/ Decided(k) \/ k \in refused

RoomInv ==
  /\ RoomTypeOK
  /\ phase[deal] # "None"
  /\ SeenIsPast
  /\ DrawnByClock
  /\ PromiseFits
  /\ AwaitedIsDecided
  /\ ReleaseAfterCheckIn
  /\ FlashMeansDone

\* Whatever was decided stays so.
LEMMA DecidedStays ==
  ASSUME DealMovesOn, RoomTypeOK, phase[deal] # "None", NEW k, Decided(k)
  PROVE  Decided(k)'
  BY RoomAssumption DEF DealMovesOn, RoomTypeOK, Decided, Open

\* A step of the deal that leaves the pages alone, but for transactions, keeps the invariant.
LEMMA DealInv ==
  ASSUME RoomInv, DealMovesOn, UNCHANGED <<view, early, drawn, jobs, scan, shown>>,
         \/ UNCHANGED <<txs, refused, said>>
         \/ \E k \in Actions : /\ txs' = txs \ {k}
                               /\ refused \subseteq refused' /\ refused' \subseteq Actions
                               /\ Decided(k)' \/ k \in refused' \/ jobs[k] = "idle"
                               /\ said' = IF k = "buyerCancel" THEN NoPromise ELSE said
  PROVE  RoomInv'
  <1> USE DEF RoomInv
  <1>1. now \in Nat /\ now' \in Nat /\ MaxNow \in Nat
        /\ terms' = terms /\ terms[deal].freeUntil \in Nat
    BY RoomAssumption DEF DealMovesOn, RoomTypeOK, HandoffTerms
  <1>2. RoomTypeOK'
    <2>0. now' \in 0 .. MaxNow /\ now' >= now
      BY DEF DealMovesOn
    <2>1. /\ txs' \subseteq Actions /\ refused' \subseteq Actions /\ drawn' \in 0 .. now'
          /\ said' \in [full : BOOLEAN, early : BOOLEAN, met : BOOLEAN, at : 0 .. now']
      <3>1. NoPromise \in [full : BOOLEAN, early : BOOLEAN, met : BOOLEAN, at : 0 .. now']
        BY <1>1, <2>0 DEF NoPromise
      <3>2. /\ txs \subseteq Actions /\ refused \subseteq Actions /\ drawn \in 0 .. now
            /\ said \in [full : BOOLEAN, early : BOOLEAN, met : BOOLEAN, at : 0 .. now]
        BY DEF RoomTypeOK
      <3>3. 0 .. now \subseteq 0 .. now'
        BY <1>1, <2>0
      <3>4. said \in [full : BOOLEAN, early : BOOLEAN, met : BOOLEAN, at : 0 .. now']
        BY <3>2, <3>3
      <3>5. said' = NoPromise \/ said' = said
        OBVIOUS
      <3>6. txs' \subseteq Actions /\ refused' \subseteq Actions /\ drawn' = drawn
        BY <3>2
      <3> QED
        BY <3>1, <3>2, <3>3, <3>4, <3>5, <3>6
    <2>2. /\ now' \in 0 .. MaxNow
          /\ phase' \in [Deals -> {"None", "Open", "Paid", "Returned", "Forfeited"}]
          /\ terms' \in [Deals -> HandoffTerms] /\ met' \in [Deals -> BOOLEAN]
          /\ award' \in [Deals -> Awards]
      BY DEF DealMovesOn, RoomTypeOK
    <2> QED
      BY <2>1, <2>2 DEF RoomTypeOK
  <1>3. phase'[deal] # "None" /\ (met[deal] => met'[deal]) /\ now' >= now
    BY DEF DealMovesOn
  <1>4. SeenIsPast' /\ ReleaseAfterCheckIn'
    BY <1>3 DEF SeenIsPast, ReleaseAfterCheckIn
  <1>5. DrawnByClock'
    BY <1>1 DEF DrawnByClock, ClockFits, Live
  <1>6. PromiseFits'
    <2>1. CASE "buyerCancel" \in txs'
      <3>1. "buyerCancel" \in txs /\ said' = said
        BY <2>1 DEF Actions
      <3> QED
        BY <1>1, <1>3, <3>1 DEF PromiseFits, ClockFits
    <2> QED
      BY <2>1 DEF PromiseFits
  <1>7. AwaitedIsDecided'
    BY DecidedStays DEF AwaitedIsDecided
  <1>8. FlashMeansDone'
    BY DecidedStays DEF FlashMeansDone, Decided
  <1> QED
    BY <1>2, <1>3, <1>4, <1>5, <1>6, <1>7, <1>8

\* Showing what the deal is, was, or nothing, keeps it; an action may be over with that.
LEMMA ShowInv ==
  ASSUME RoomInv, NEW p \in Pages, NEW s \in States, Show(p, s),
         s = "CheckedIn" => met[deal],
         UNCHANGED <<handoffVars, txs, said>>,
         \/ UNCHANGED <<jobs, refused>>
         \/ \E k \in Actions : jobs' = [jobs EXCEPT ![k] = "idle"] /\ refused' = refused \ {k}
  PROVE  RoomInv'
  <1> USE DEF RoomInv, handoffVars
  <1>1. jobs' \in [Actions -> {"idle", "receipt", "flash"}]
        /\ refused' \subseteq Actions
        /\ \A k \in Actions : jobs'[k] # "idle" =>
             jobs'[k] = jobs[k] /\ (k \in refused => k \in refused')
    BY DEF RoomTypeOK
  <1>2. RoomTypeOK'
    <2>1. drawn' \in 0 .. now /\ early' \in BOOLEAN
      <3>1. 0 \in 0 .. now /\ now \in 0 .. now /\ drawn \in 0 .. now /\ early \in BOOLEAN
        BY RoomAssumption DEF RoomTypeOK
      <3>2. \A at : inFreeWindow(at) \in BOOLEAN
        BY DEF inFreeWindow
      <3>3. early' \in BOOLEAN
        BY <3>1, <3>2, Zenon DEF Show
      <3>4. drawn' \in {0, now, drawn}
        BY DEF Show
      <3> QED
        BY <3>1, <3>3, <3>4
    <2>2. view' \in [Pages -> States] /\ scan' \in {"armed", "handled", "scanned"}
      BY DEF RoomTypeOK, Show
    <2>3. shown' \in BOOLEAN
      BY DEF RoomTypeOK, Show, ShowsCode
    <2> QED
      BY <1>1, <2>1, <2>2, <2>3 DEF RoomTypeOK
  <1>3. view' = [view EXCEPT ![p] = s] /\ view \in [Pages -> States]
    BY DEF Show, RoomTypeOK
  <1>4. SeenIsPast'
    BY <1>3 DEF SeenIsPast
  <1>5. DrawnByClock'
    <2>1. now \in Nat /\ MaxSkew \in Nat /\ terms[deal].freeUntil \in Nat
      BY RoomAssumption DEF RoomTypeOK, HandoffTerms
    <2>2. CASE p = "buyer" /\ Live(s)
      <3>1. drawn' = now /\ UNCHANGED terms
        BY <2>2 DEF Show
      <3>2. PICK at \in nowSec : early' = inFreeWindow(at)
        BY <2>2 DEF Show
      <3>3. at \in Int /\ now - MaxSkew <= at /\ at <= now + MaxSkew
        BY <2>1 DEF nowSec
      <3>4. early' <=> at < terms[deal].freeUntil
        BY <3>2, Zenon DEF inFreeWindow
      <3>5. (at < terms[deal].freeUntil => now - MaxSkew < terms[deal].freeUntil)
            /\ (~(at < terms[deal].freeUntil) => terms[deal].freeUntil <= now + MaxSkew)
        BY <2>1, <3>3
      <3> QED
        BY <3>1, <3>4, <3>5, Zenon DEF DrawnByClock, ClockFits
    <2>3. CASE p = "buyer" /\ ~Live(s)
      <3>1. view'["buyer"] = s
        BY <1>3, <2>3 DEF Pages
      <3> QED
        BY <2>3, <3>1 DEF DrawnByClock, Live
    <2>4. CASE p # "buyer"
      <3>1. view'["buyer"] = view["buyer"] /\ UNCHANGED <<early, drawn, terms>>
        BY <1>3, <2>4 DEF Show, Pages
      <3> QED
        BY <3>1 DEF DrawnByClock, ClockFits, Live
    <2> QED
      BY <2>2, <2>3, <2>4
  <1>6. PromiseFits'
    BY DEF PromiseFits, ClockFits
  <1>7. AwaitedIsDecided' /\ FlashMeansDone'
    BY <1>1 DEF AwaitedIsDecided, FlashMeansDone, Decided, Open
  <1>8. ReleaseAfterCheckIn'
    BY DEF ReleaseAfterCheckIn, Show, ShowsCode
  <1> QED
    BY <1>2, <1>4, <1>5, <1>6, <1>7, <1>8

LEMMA PageStepInv ==
  ASSUME RoomInv, NEW p \in Pages, PageStep(p)
  PROVE  RoomInv'
  <1> USE DEF RoomInv
  <1>1. DealState \in States /\ (DealState = "CheckedIn" => met[deal])
    BY RoomAssumption DEF DealState, States, RoomTypeOK
  <1>2. CASE refresh(p)
    BY <1>1, <1>2, ShowInv DEF refresh
  <1>3. CASE RefreshFails(p)
    BY <1>3, ShowInv DEF RefreshFails, States
  <1>4. CASE LateAnswer(p)
    BY <1>4, ShowInv DEF LateAnswer, States
  <1> QED
    BY <1>2, <1>3, <1>4 DEF PageStep

\* What a page asks for, waits for and announces.
LEMMA JobStepInv ==
  ASSUME RoomInv, NEW k \in Actions, JobStep(k)
  PROVE  RoomInv'
  <1> USE DEF RoomInv, handoffVars
  <1>0. jobs \in [Actions -> {"idle", "receipt", "flash"}] /\ txs \subseteq Actions
    BY DEF RoomTypeOK
  <1>1. CASE Press(k)
    <2>0. /\ jobs' = [jobs EXCEPT ![k] = "receipt"] /\ txs' = txs \cup {k}
          /\ said' = IF k = "buyerCancel" THEN buyerCancelOutcome ELSE said
          /\ UNCHANGED <<now, phase, terms, met, award, view, early, drawn, refused, scan, shown>>
      BY <1>1 DEF Press, Send
    <2>1. RoomTypeOK'
      BY <2>0 DEF RoomTypeOK, buyerCancelOutcome
    <2>2. SeenIsPast' /\ DrawnByClock' /\ ReleaseAfterCheckIn'
      BY <2>0 DEF SeenIsPast, DrawnByClock, ClockFits, ReleaseAfterCheckIn, Live
    <2>3. PromiseFits'
      <3>1. CASE k = "buyerCancel"
        <4>1. Live(view["buyer"]) /\ early \in BOOLEAN
          BY <1>1, <3>1 DEF Press, SellerActions, BuyerActions, RoomTypeOK
        <4>2. said' = [full |-> early \/ ~(view["buyer"] = "CheckedIn"), early |-> early,
                       met |-> view["buyer"] = "CheckedIn", at |-> drawn]
          BY <2>0, <3>1 DEF buyerCancelOutcome
        <4>3. /\ said'.full = (said'.early \/ ~said'.met) /\ (said'.early <=> early)
              /\ (said'.met <=> view["buyer"] = "CheckedIn") /\ said'.at = drawn
          BY <4>1, <4>2
        <4>4. ClockFits(early, drawn)
          BY <4>1 DEF DrawnByClock
        <4>5. ClockFits(said.early, said.at)'
          BY <2>0, <4>3, <4>4 DEF ClockFits
        <4>6. said'.met => met'[deal]
          BY <2>0, <4>3 DEF SeenIsPast, Pages
        <4> QED
          BY <4>3, <4>5, <4>6, Zenon DEF PromiseFits
      <3>2. CASE k # "buyerCancel"
        BY <2>0, <3>2 DEF PromiseFits, ClockFits
      <3> QED
        BY <3>1, <3>2
    <2>4. AwaitedIsDecided' /\ FlashMeansDone'
      BY <1>0, <2>0 DEF AwaitedIsDecided, FlashMeansDone, Decided, Open
    <2> QED
      BY <2>0, <2>1, <2>2, <2>3, <2>4
  <1>2. CASE GotReceipt(k)
    BY <1>0, <1>2 DEF GotReceipt, RoomTypeOK, SeenIsPast, DrawnByClock, ClockFits, Live, PromiseFits,
                      AwaitedIsDecided, Decided, Open, ReleaseAfterCheckIn, FlashMeansDone
  <1>3. CASE Done(k)
    <2>1. DealState \in States /\ (DealState = "CheckedIn" => met[deal])
      BY RoomAssumption DEF DealState, States, RoomTypeOK
    <2>2. Page(k) \in Pages
      BY DEF Page, Pages
    <2> QED
      BY <1>3, <2>1, <2>2, ShowInv DEF Done, States
  <1>4. CASE Fails(k)
    <2>1. /\ jobs' = [jobs EXCEPT ![k] = "idle"] /\ (txs' = txs \/ txs' = txs \ {k})
          /\ refused' = refused \ {k}
          /\ UNCHANGED <<now, phase, terms, met, award, view, early, drawn, said, scan, shown>>
      BY <1>4 DEF Fails
    <2>2. RoomTypeOK'
      BY <2>1 DEF RoomTypeOK
    <2>3. AwaitedIsDecided' /\ FlashMeansDone'
      BY <1>0, <2>1 DEF AwaitedIsDecided, FlashMeansDone, Decided, Open
    <2>4. SeenIsPast' /\ DrawnByClock' /\ ReleaseAfterCheckIn' /\ PromiseFits'
      BY <2>1 DEF SeenIsPast, DrawnByClock, ClockFits, ReleaseAfterCheckIn, Live, PromiseFits
    <2> QED
      BY <2>1, <2>2, <2>3, <2>4
  <1> QED
    BY <1>1, <1>2, <1>3, <1>4 DEF JobStep

\* What a scanner reads: the code of this deal only after the seller's page has drawn it.
LEMMA ScanInv ==
  ASSUME RoomInv, startCamera \/ \E raw \in Codes : accept(raw)
  PROVE  RoomInv'
  <1> USE DEF RoomInv, handoffVars
  <1>1. /\ scan' \in {"armed", "handled", "scanned"}
        /\ scan' = "scanned" => scan = "scanned" \/ shown
        /\ UNCHANGED <<handoffVars, view, early, drawn, jobs, txs, refused, said, shown>>
    BY DEF startCamera, accept, Codes, decodeHandoff, RoomTypeOK
  <1> QED
    BY <1>1 DEF RoomTypeOK, SeenIsPast, DrawnByClock, ClockFits, Live, PromiseFits,
                AwaitedIsDecided, Decided, Open, ReleaseAfterCheckIn, FlashMeansDone

LEMMA RoomStepInv ==
  ASSUME RoomInv, RoomNext
  PROVE  RoomInv'
  <1> USE DEF RoomInv
  <1>1. CASE \E k \in Actions : Include(k)
    <2>1. PICK k \in Actions : Include(k)
      BY <1>1
    <2>2. /\ DealMovesOn /\ refused \subseteq refused' /\ refused' \subseteq Actions
          /\ Decided(k)' \/ k \in refused' \/ jobs[k] = "idle"
      BY <2>1, IncludeMovesOn
    <2>3. /\ txs' = txs \ {k} /\ said' = IF k = "buyerCancel" THEN NoPromise ELSE said
          /\ UNCHANGED <<view, early, drawn, jobs, scan, shown>>
      BY <2>1 DEF Include
    <2> QED
      BY <2>2, <2>3, DealInv
  <1>2. CASE reclaimExpired
    <2>1. DealMovesOn
      BY <1>2, RefundMovesOn, ForfeitMovesOn DEF reclaimExpired
    <2> QED
      BY <1>2, <2>1, DealInv DEF reclaimExpired, pageVars
  <1>3. CASE Tick
    <2>1. DealMovesOn
      BY <1>3, RoomAssumption DEF Tick, Advance, DealMovesOn, RoomTypeOK
    <2> QED
      BY <1>3, <2>1, DealInv DEF Tick, pageVars
  <1> QED
    BY <1>1, <1>2, <1>3, PageStepInv, JobStepInv, ScanInv DEF RoomNext

----------------------------------------------------------------------------
(* The conversation and the meetup card. *)

\* The offer that a page shows as open is one of its rows.
LEMMA OpenOfferIsShown ==
  ASSUME NEW rs \in Seq(Row), openOffer(rs) # 0
  PROVE  openOffer(rs) \in DOMAIN rs /\ rs[openOffer(rs)].kind = "offer"
  <1> DEFINE offers == {n \in DOMAIN rs : rs[n].kind = "offer"}
  <1>1. PICK n \in offers : \A k \in n + 1 .. Len(rs) : rs[k].kind = "text"
    BY DEF openOffer
  <1>2. DOMAIN rs = 1 .. Len(rs) /\ Len(rs) \in Nat
    OBVIOUS
  <1>3. \A k \in offers : k <= n
    BY <1>1, <1>2
  <1>4. openOffer(rs) = CHOOSE m \in offers : \A k \in offers : k <= m
    BY <1>1 DEF openOffer
  <1>5. openOffer(rs) \in offers
    BY <1>3, <1>4
  <1> QED
    BY <1>5

\* What a page shows is the beginning of the thread.
LEMMA ShownIsThread ==
  ASSUME ChatTypeOK, NEW r \in Roles
  PROVE  /\ Shown(r) \in Seq(Row)
         /\ DOMAIN Shown(r) = 1 .. seen[r] /\ DOMAIN Shown(r) \subseteq DOMAIN thread
         /\ \A n \in 1 .. seen[r] : Shown(r)[n] = thread[n]
  <1>1. thread \in Seq(Row) /\ seen[r] \in 0 .. Len(thread) /\ Len(thread) \in Nat
    BY DEF ChatTypeOK
  <1>2. Shown(r) = SubSeq(thread, 1, seen[r])
    BY DEF Shown
  <1>3. /\ SubSeq(thread, 1, seen[r]) \in Seq(Row)
        /\ Len(SubSeq(thread, 1, seen[r])) = seen[r]
        /\ \A n \in 1 .. seen[r] : SubSeq(thread, 1, seen[r])[n] = thread[n]
    BY <1>1
  <1> QED
    BY <1>1, <1>2, <1>3

\* A message on its way: an acceptance is the seller's, of a price that the buyer has offered.
Honest(row, rs) ==
  /\ row.kind = "offer" => row.sender = "buyer" /\ row.price # 0
  /\ row.kind = "accept" =>
       /\ row.sender = "seller"
       /\ \E n \in DOMAIN rs : rs[n].kind = "offer" /\ rs[n].price = row.price

\* Every row was such a message when it was added, and every message on its way is one now.
ChatInv ==
  /\ ChatTypeOK
  /\ \A p \in posts : Honest(p.row, thread)
  /\ \A k \in DOMAIN thread :
       /\ thread[k].kind = "offer" => thread[k].sender = "buyer" /\ thread[k].price # 0
       /\ thread[k].kind = "accept" =>
            /\ thread[k].sender = "seller"
            /\ \E n \in 1 .. k - 1 : thread[n].kind = "offer" /\ thread[n].price = thread[k].price

LEMMA SendInv ==
  ASSUME ChatInv, NEW r \in Roles, NEW kind \in {"text", "offer", "accept", "decline"},
         NEW price \in Prices \cup {0}, send(r, kind, price),
         Honest([sender |-> r, kind |-> kind, price |-> price], thread)
  PROVE  ChatInv'
  <1> DEFINE row == [sender |-> r, kind |-> kind, price |-> price]
  <1> DEFINE p == [row |-> row, waited |-> TRUE]
  <1>1. row \in Row /\ p \in Post
    BY DEF Row, Post
  <1>2. /\ posts' = posts \cup {p} /\ UNCHANGED <<thread, seen, indexed, sel>>
        /\ busy' \in [Roles -> BOOLEAN]
    BY DEF send, ChatInv, ChatTypeOK
  <1>3. ChatTypeOK'
    BY <1>1, <1>2 DEF ChatInv, ChatTypeOK
  <1>4. \A q \in posts' : Honest(q.row, thread)
    BY <1>2 DEF ChatInv
  <1> QED
    BY <1>2, <1>3, <1>4 DEF ChatInv, Honest

\* A message changes place: to the thread, or to those nobody waits for.
LEMMA PostInv ==
  ASSUME ChatInv, NEW p \in posts, Posted(p) \/ PostRejects(p)
  PROVE  ChatInv'
  <1>0. /\ thread \in Seq(Row) /\ p.row \in Row /\ p \in Post
        /\ DOMAIN thread = 1 .. Len(thread) /\ Len(thread) \in Nat
    BY DEF ChatInv, ChatTypeOK, Post
  <1>5. busy' \in [Roles -> BOOLEAN]
    BY DEF Posted, PostRejects, ButtonsOn, ChatInv, ChatTypeOK
  <1>1. CASE UNCHANGED <<thread, seen, indexed, sel>> /\ \A q \in posts' : q \in Post /\ \E o \in posts : q.row = o.row
    <2>1. ChatTypeOK'
      BY <1>5, <1>1 DEF ChatInv, ChatTypeOK
    <2>2. \A q \in posts' : Honest(q.row, thread)
      BY <1>1 DEF ChatInv
    <2> QED
      BY <1>1, <2>1, <2>2 DEF ChatInv, Honest
  <1>2. CASE thread' = Append(thread, p.row) /\ posts' = posts \ {p} /\ UNCHANGED <<seen, indexed, sel>>
    <2>1. /\ thread' \in Seq(Row) /\ Len(thread') = Len(thread) + 1
          /\ DOMAIN thread' = 1 .. Len(thread) + 1
          /\ \A k \in DOMAIN thread : thread'[k] = thread[k]
          /\ thread'[Len(thread) + 1] = p.row
      BY <1>0, <1>2
    <2>2. ChatTypeOK'
      BY <1>0, <1>5, <1>2, <2>1 DEF ChatInv, ChatTypeOK
    <2>3. \A q \in posts' : Honest(q.row, thread')
      BY <1>0, <1>2, <2>1 DEF ChatInv, Honest
    <2>4. ASSUME NEW k \in DOMAIN thread'
          PROVE  /\ thread'[k].kind = "offer" => thread'[k].sender = "buyer" /\ thread'[k].price # 0
                 /\ thread'[k].kind = "accept" =>
                      /\ thread'[k].sender = "seller"
                      /\ \E n \in 1 .. k - 1 :
                           thread'[n].kind = "offer" /\ thread'[n].price = thread'[k].price
      <3>1. CASE k \in DOMAIN thread
        BY <1>0, <2>1, <3>1 DEF ChatInv
      <3>2. CASE k = Len(thread) + 1
        BY <1>0, <2>1, <3>2 DEF ChatInv, Honest
      <3> QED
        BY <1>0, <2>1, <3>1, <3>2
    <2> QED
      BY <2>2, <2>3, <2>4 DEF ChatInv, Honest
  <1>3. CASE Posted(p)
    BY <1>0, <1>1, <1>2, <1>3 DEF Posted, addMessage, ChatInv, ChatTypeOK
  <1>4. CASE PostRejects(p)
    <2>1. [p EXCEPT !.waited = FALSE] \in Post /\ [p EXCEPT !.waited = FALSE].row = p.row
      BY <1>0 DEF Post
    <2>2. \A q \in posts' : q \in posts \/ q = [p EXCEPT !.waited = FALSE]
      BY <1>4 DEF PostRejects
    <2>3. \A q \in posts' : q \in Post /\ \E o \in posts : q.row = o.row
      BY <2>1, <2>2 DEF ChatInv, ChatTypeOK
    <2> QED
      BY <1>1, <1>4, <2>3 DEF PostRejects
  <1> QED
    BY <1>3, <1>4

LEMMA ChatStepInv ==
  ASSUME ChatInv, ChatNext
  PROVE  ChatInv'
  <1>0. thread \in Seq(Row) /\ Len(thread) \in Nat /\ posts \subseteq Post
        /\ DOMAIN thread = 1 .. Len(thread) /\ seen \in [Roles -> 0 .. Len(thread)]
    BY DEF ChatInv, ChatTypeOK
  <1>1. CASE \E r \in Roles : sendText(r)
    BY <1>1, SendInv DEF sendText, Honest
  <1>2. CASE makeOffer
    BY <1>2, SendInv, OffersAssumption DEF makeOffer, Honest, Roles
  <1>3. CASE Accept
    <2> DEFINE n == openOffer(Shown("seller"))
    <2>1. n # 0 /\ send("seller", "accept", thread[n].price)
      BY <1>3 DEF Accept
    <2>2. ChatTypeOK /\ "seller" \in Roles
      BY DEF ChatInv, Roles
    <2>3. n \in DOMAIN thread /\ thread[n].kind = "offer"
      BY <2>1, <2>2, ShownIsThread, OpenOfferIsShown
    <2>4. thread[n].price \in Prices \cup {0}
      <3>1. thread[n] \in Row
        BY <1>0, <2>3
      <3> QED
        BY <3>1 DEF Row
    <2> QED
      BY <2>1, <2>2, <2>3, <2>4, SendInv DEF Honest
  <1>4. CASE Decline
    BY <1>4, SendInv DEF Decline, Honest, Roles
  <1>5. CASE \E p \in posts : Posted(p) \/ PostRejects(p)
    BY <1>5, PostInv
  <1>6. CASE IndexListing \/ \E r \in Roles : reload(r)
    <2>1. UNCHANGED <<thread, posts, busy>> /\ seen' \in [Roles -> 0 .. Len(thread)]
          /\ (indexed' = TRUE \/ indexed' = indexed) /\ sel' = sel
      BY <1>0, <1>6 DEF IndexListing, reload
    <2> QED
      BY <2>1 DEF ChatInv, ChatTypeOK, Honest
  <1>7. CASE \E r \in Roles : Mount(r)
    <2>1. PICK r \in Roles : Mount(r)
      BY <1>7
    <2>2. \A q \in posts' : q \in Post /\ \E o \in posts : q.row = o.row
      BY <1>0, <2>1 DEF Mount, Post
    <2>3. thread' = thread /\ indexed' = indexed /\ sel' \in BOOLEAN
          /\ seen' \in [Roles -> 0 .. Len(thread)] /\ busy' \in [Roles -> BOOLEAN]
      BY <1>0, <2>1 DEF Mount, ChatInv, ChatTypeOK
    <2>4. ChatTypeOK'
      BY <2>2, <2>3 DEF ChatInv, ChatTypeOK
    <2>5. \A q \in posts' : Honest(q.row, thread)
      BY <2>2 DEF ChatInv
    <2> QED
      BY <2>3, <2>4, <2>5 DEF ChatInv, Honest
  <1> QED
    BY <1>1, <1>2, <1>3, <1>4, <1>5, <1>6, <1>7 DEF ChatNext

\* Of some places up to n one is the last: its successors among them are the fewest.
LEMMA LastPlace ==
  ASSUME NEW n \in Nat, NEW S \in SUBSET (1 .. n), S # {}
  PROVE  \E m \in S : \A k \in S : k <= m
  <1> DEFINE From(m) == {k \in S : m <= k}
  <1> DEFINE T == {From(m) : m \in S}
  <1> DEFINE R == StrictSubsetOrdering(S)
  <1>1. IsFiniteSet(S)
    <2>1. IsFiniteSet(1 .. n)
      BY FS_Interval
    <2> QED
      BY <2>1, FS_Subset
  <1>2. \A m \in S : From(m) \in SUBSET S /\ From(m) \in FiniteSubsetsOf(S)
    BY <1>1, FS_Subset DEF FiniteSubsetsOf
  <1>3. T \subseteq FiniteSubsetsOf(S) /\ T # {}
    BY <1>2
  <1>4. IsWellFoundedOn(R, FiniteSubsetsOf(S))
    BY FS_StrictSubsetOrderingWellFounded
  <1> HIDE DEF T, R
  <1>5. PICK U \in T : \A V \in T : <<V, U>> \notin R
    BY <1>3, <1>4, WFMin
  <1>6. PICK m \in S : U = From(m)
    BY DEF T
  <1>7. ASSUME NEW k \in S, ~(k <= m)
        PROVE  FALSE
    <2>1. From(k) \in T
      BY DEF T
    <2>2. From(k) \subseteq From(m) /\ m \in From(m) /\ m \notin From(k)
      <3>1. k \in Nat /\ m \in Nat /\ m < k
        BY <1>7
      <3>2. \A j \in S : j \in Nat /\ (k <= j => m <= j)
        BY <3>1
      <3>3. From(k) \subseteq From(m)
        BY <3>2
      <3>4. m \in From(m) /\ m \notin From(k)
        BY <3>1
      <3> QED
        BY <3>3, <3>4
    <2>3. <<From(k), From(m)>> \in R
      BY <1>2, <2>2 DEF R, StrictSubsetOrdering
    <2> QED
      BY <1>5, <1>6, <2>1, <2>3
  <1> QED
    BY <1>7

LEMMA AgreedFollows ==
  ASSUME ChatInv
  PROVE  AgreedWasOffered
  <1> SUFFICES ASSUME NEW r \in Roles, acceptedPrice(Shown(r)) # 0
               PROVE  \E n, k \in DOMAIN thread :
                        /\ n < k
                        /\ thread[n].kind = "offer" /\ thread[n].sender = "buyer"
                        /\ thread[k].kind = "accept" /\ thread[k].sender = "seller"
                        /\ thread[n].price = acceptedPrice(Shown(r))
                        /\ thread[k].price = thread[n].price
    BY DEF AgreedWasOffered
  <1> DEFINE rs == Shown(r)
  <1> DEFINE accepts == {n \in DOMAIN rs : rs[n].kind = "accept"}
  <1>1. /\ DOMAIN rs = 1 .. seen[r] /\ DOMAIN rs \subseteq DOMAIN thread
        /\ \A n \in 1 .. seen[r] : rs[n] = thread[n]
        /\ seen[r] \in Nat /\ DOMAIN thread = 1 .. Len(thread) /\ Len(thread) \in Nat
    BY ShownIsThread DEF ChatInv, ChatTypeOK
  <1>2. /\ accepts # {}
        /\ acceptedPrice(rs) = rs[CHOOSE n \in accepts : \A k \in accepts : k <= n].price
    BY DEF acceptedPrice
  <1>3. \E n \in accepts : \A k \in accepts : k <= n
    BY <1>1, <1>2, LastPlace
  <1>4. PICK k \in accepts : acceptedPrice(rs) = rs[k].price
    BY <1>2, <1>3
  <1>5. k \in DOMAIN thread /\ thread[k].kind = "accept" /\ thread[k].price = acceptedPrice(rs)
    BY <1>1, <1>4
  <1>6. PICK n \in 1 .. k - 1 : thread[n].kind = "offer" /\ thread[n].price = thread[k].price
    BY <1>5 DEF ChatInv
  <1>7. n \in DOMAIN thread /\ n < k
    BY <1>1, <1>5
  <1> QED
    BY <1>5, <1>6, <1>7 DEF ChatInv

\* What is on its way, and what is stored, of a party is its own word; of the seller also the
\* listing's.
MeetInv ==
  /\ MeetTypeOK
  /\ \A share \in shares : share.from = share.role \/ (share.role = "seller" /\ share.from = "listing")
  /\ \A r \in Parts, f \in Fields :
       rows[r][f] \in {"none", r} \cup (IF r = "seller" THEN {"listing"} ELSE {})

LEMMA ShareInv ==
  ASSUME MeetInv, NEW r \in Parts, NEW fields \in SUBSET Fields,
         NEW button \in {"loc", "contact", "note"},
         pressed' = [pressed EXCEPT ![r] = button], shareCoordination(r, fields, button)
  PROVE  MeetInv' /\ UNCHANGED <<rows, linked>>
  <1>1. [role |-> r, fields |-> fields, from |-> r, button |-> button] \in Share
    BY DEF Share
  <1> QED
    BY <1>1 DEF MeetInv, MeetTypeOK, shareCoordination

LEMMA MeetStepInv ==
  ASSUME MeetInv, MeetNext
  PROVE  /\ MeetInv'
         /\ linked => linked'
         /\ \A r \in Parts, f \in Fields : rows[r][f] # "none" => rows'[r][f] # "none"
  <1>1. CASE \E r \in Parts : shareLocation(r) \/ shareContact(r) \/ propose(r)
    BY <1>1, ShareInv DEF shareLocation, shareContact, propose, Fields
  <1>2. CASE \E share \in shares : Answered(share)
    <2>1. PICK share \in shares : Answered(share)
      BY <1>2
    <2>2. /\ share \in Share /\ shares' = shares \ {share}
          /\ pressed' \in [Parts -> {"loc", "contact", "note", "no"}]
      BY <2>1 DEF MeetInv, MeetTypeOK, Answered, Share
    <2>3. CASE UNCHANGED <<rows, linked>>
      BY <2>2, <2>3 DEF MeetInv, MeetTypeOK
    <2>4. CASE upsertCoordination(share)
      <3>1. /\ rows' = [rows EXCEPT ![share.role] =
                          [f \in Fields |-> IF f \in share.fields /\ share.from # "none"
                                            THEN share.from ELSE rows[share.role][f]]]
            /\ linked' = (linked \/ share.from = "listing")
        BY <2>4 DEF upsertCoordination, COALESCE, Patch
      <3>2. rows' \in [Parts -> [Fields -> Sources]] /\ linked' \in BOOLEAN
        BY <2>2, <3>1 DEF MeetInv, MeetTypeOK, Share, Sources
      <3>3. \A r \in Parts, f \in Fields :
              rows'[r][f] = IF r = share.role /\ f \in share.fields /\ share.from # "none"
                            THEN share.from ELSE rows[r][f]
        BY <2>2, <3>1 DEF MeetInv, MeetTypeOK, Share
      <3>4. share.from = share.role \/ (share.role = "seller" /\ share.from = "listing")
        BY DEF MeetInv
      <3>5. MeetInv'
        BY <2>2, <3>2, <3>3, <3>4 DEF MeetInv, MeetTypeOK
      <3>6. linked => linked'
        BY <3>1
      <3> QED
        BY <3>3, <3>5, <3>6
    <2> QED
      BY <2>1, <2>3, <2>4 DEF Answered
  <1>3. CASE \E share \in shares : ShareRejects(share)
    <2>1. PICK share \in shares : ShareRejects(share)
      BY <1>3
    <2>2. share \in Share
      BY DEF MeetInv, MeetTypeOK
    <2>3. /\ [share EXCEPT !.button = "no"] \in Share
          /\ [share EXCEPT !.button = "no"].from = share.from
          /\ [share EXCEPT !.button = "no"].role = share.role
      BY <2>2 DEF Share
    <2> QED
      BY <2>1, <2>3 DEF ShareRejects, MeetInv, MeetTypeOK
  <1> QED
    BY <1>1, <1>2, <1>3 DEF MeetNext

----------------------------------------------------------------------------
(* The journey. *)

\* Nothing has happened on the deal page yet.
Fresh ==
  /\ phase[deal] = "None"
  /\ \A p \in Pages : view[p] = "none"
  /\ \A k \in Actions : jobs[k] = "idle"
  /\ txs = {} /\ scan = "armed" /\ ~shown

JourneyInv ==
  /\ part \in {"chat", "room", "meetup"}
  /\ ChatInv
  /\ MeetInv
  /\ RoomTypeOK
  /\ IF part = "chat" THEN Fresh ELSE RoomInv

LEMMA JourneyInit ==
  ASSUME Init
  PROVE  JourneyInv
  <1> USE DEF Init
  <1>1. ChatInv
    <2>1. thread = <<>> /\ posts = {} /\ seen = [r \in Roles |-> 0] /\ ~indexed /\ ~sel
          /\ busy \in [Roles -> BOOLEAN]
          /\ indexed \in BOOLEAN /\ sel \in BOOLEAN
      BY DEF ChatInit
    <2>2. thread \in Seq(Row) /\ Len(thread) = 0 /\ DOMAIN thread = {}
      BY <2>1
    <2> QED
      BY <2>1, <2>2 DEF ChatInv, ChatTypeOK
  <1>2. MeetInv
    BY DEF MeetInit, MeetInv, MeetTypeOK, Sources
  <1>3. RoomTypeOK
    <2>1. /\ now \in 0 .. MaxNow
          /\ phase \in [Deals -> {"None", "Open", "Paid", "Returned", "Forfeited"}]
          /\ terms \in [Deals -> HandoffTerms] /\ met \in [Deals -> BOOLEAN] /\ award \in [Deals -> Awards]
      BY RoomAssumption DEF RoomInit, HandoffInit, HandoffTerms, Awards, NoTerms, NoAward
    <2>2. /\ view \in [Pages -> States] /\ jobs \in [Actions -> {"idle", "receipt", "flash"}]
          /\ txs = {} /\ refused = {} /\ drawn = 0 /\ now = 0
          /\ scan = "armed" /\ early = FALSE /\ shown = FALSE
          /\ said \in [full : BOOLEAN, early : BOOLEAN, met : BOOLEAN, at : 0 .. 0]
      BY DEF RoomInit, HandoffInit, States, NoPromise
    <2>3. said \in [full : BOOLEAN, early : BOOLEAN, met : BOOLEAN, at : 0 .. now] /\ drawn \in 0 .. now
      BY <2>2
    <2> QED
      BY <2>1, <2>2, <2>3 DEF RoomTypeOK
  <1>4. Fresh
    BY RoomAssumption DEF RoomInit, HandoffInit, Fresh
  <1> QED
    BY <1>1, <1>2, <1>3, <1>4 DEF JourneyInv

\* Funding opens the deal on pages that have not shown it yet.
LEMMA FundInv ==
  ASSUME JourneyInv, Fund
  PROVE  JourneyInv' /\ UNCHANGED <<rows, linked>>
  <1> DEFINE t == [locked |-> 2, freeUntil |-> now + FreeWindow, expiry |-> now + Ttl]
  <1>1. /\ phase' = [phase EXCEPT ![deal] = "Open"] /\ terms' = [terms EXCEPT ![deal] = t]
        /\ t \in HandoffTerms
        /\ UNCHANGED <<now, met, award, view, early, drawn, jobs, txs, refused, said, scan, shown>>
        /\ UNCHANGED <<rows, linked, pressed>>
        /\ part' \in {"room", "meetup"} /\ Fresh /\ RoomTypeOK
    BY DEF Fund, Lock, pageVars, JourneyInv
  <1>2. RoomTypeOK' /\ phase'[deal] # "None"
    BY <1>1, RoomAssumption DEF RoomTypeOK
  <1>3. RoomInv'
    BY <1>1, <1>2 DEF Fresh, RoomInv, SeenIsPast, DrawnByClock, ClockFits, Live, PromiseFits, AwaitedIsDecided,
                      ReleaseAfterCheckIn, FlashMeansDone, Pages
  <1>4. ChatInv'
    <2>1. /\ thread' = <<>> /\ posts' = {} /\ seen' = [r \in Roles |-> 0]
          /\ busy' \in [Roles -> BOOLEAN] /\ indexed' \in BOOLEAN /\ sel' \in BOOLEAN
      BY DEF Fund
    <2>2. thread' \in Seq(Row) /\ Len(thread') = 0 /\ DOMAIN thread' = {}
      BY <2>1
    <2>3. ChatTypeOK'
      BY <2>1, <2>2 DEF ChatTypeOK
    <2> QED
      BY <2>1, <2>2, <2>3 DEF ChatInv
  <1>5. MeetInv'
    <2>1. shares' \subseteq Share
          /\ \A share \in shares' :
               share.from = share.role \/ (share.role = "seller" /\ share.from = "listing")
      <3>1. Seeds \subseteq Share
            /\ \A share \in Seeds :
                 share.from = share.role \/ (share.role = "seller" /\ share.from = "listing")
        BY MeetupAssumption DEF Seeds, Share, Parts, Fields
      <3> QED
        BY <3>1 DEF Fund
    <2> QED
      BY <1>1, <2>1 DEF JourneyInv, MeetInv, MeetTypeOK
  <1> QED
    BY <1>1, <1>2, <1>3, <1>4, <1>5 DEF JourneyInv

LEMMA RoomKept ==
  ASSUME JourneyInv, UNCHANGED roomVars, part' = part
  PROVE  RoomTypeOK' /\ (IF part' = "chat" THEN Fresh' ELSE RoomInv')
  <1>1. UNCHANGED <<now, phase, terms, met, award, view, early, drawn, jobs, txs, refused, said, scan, shown>>
    BY DEF roomVars, handoffVars, pageVars
  <1>2. RoomTypeOK'
    BY <1>1 DEF RoomTypeOK, JourneyInv
  <1>3. Fresh => Fresh'
    BY <1>1 DEF Fresh
  <1>4. RoomInv => RoomInv'
    BY <1>1, <1>2 DEF RoomInv, SeenIsPast, DrawnByClock, ClockFits, Live, PromiseFits, AwaitedIsDecided, Decided,
                      Open, ReleaseAfterCheckIn, FlashMeansDone
  <1> QED
    BY <1>2, <1>3, <1>4 DEF JourneyInv

LEMMA ChatKept ==
  ASSUME ChatInv, UNCHANGED chatVars
  PROVE  ChatInv'
  BY DEF chatVars, ChatInv, ChatTypeOK, Honest

LEMMA MeetKept ==
  ASSUME MeetInv, UNCHANGED meetVars
  PROVE  MeetInv' /\ UNCHANGED <<rows, linked>>
  BY DEF meetVars, MeetInv, MeetTypeOK

LEMMA JourneyStep ==
  ASSUME JourneyInv, [Next]_vars
  PROVE  JourneyInv'
  <1> USE DEF JourneyInv
  <1>1. CASE InChat(ChatNext)
    BY <1>1, ChatStepInv, MeetKept, RoomKept DEF InChat
  <1>2. CASE InRoom(RoomNext)
    <2>1. RoomInv'
      BY <1>2, RoomStepInv DEF InRoom
    <2> QED
      BY <1>2, <2>1, ChatKept, MeetKept DEF InRoom, RoomInv
  <1>3. CASE AtMeetup(MeetNext)
    BY <1>3, MeetStepInv, ChatKept, RoomKept DEF AtMeetup
  <1>4. CASE UNCHANGED vars
    BY <1>4, ChatKept, MeetKept, RoomKept DEF vars
  <1> QED
    BY <1>1, <1>2, <1>3, <1>4, FundInv DEF Next

\* The inductive invariant holds throughout.
THEOREM Invariance == Spec => []JourneyInv
  BY JourneyInit, JourneyStep, PTL DEF Spec

----------------------------------------------------------------------------
(* The theorems. *)

\* Journey's variables keep their types: the conversation, the deal page and the meetup card.
THEOREM TypeCorrect == Spec => []TypeOK
  <1>1. JourneyInv => TypeOK
    BY DEF JourneyInv, ChatInv, MeetInv, TypeOK
  <1> QED
    BY <1>1, Invariance, PTL

\* A price shown as agreed was offered by the buyer and then accepted by the seller, for any prices
\* and any number of messages, on their way or stored.
THEOREM AgreementsAreOffered == Spec => []AgreedWasOffered
  <1>1. JourneyInv => AgreedWasOffered
    BY AgreedFollows DEF JourneyInv
  <1> QED
    BY <1>1, Invariance, PTL

\* The release button is unlocked only when the check-in is on chain.
THEOREM ReleaseComesLast == Spec => []ReleaseAfterCheckIn
  <1>1. JourneyInv => ReleaseAfterCheckIn
    BY DEF JourneyInv, Fresh, RoomInv, ReleaseAfterCheckIn
  <1> QED
    BY <1>1, Invariance, PTL

\* An announced success has happened or can no longer happen, unless a hook refused it, for any
\* number of actions in progress.
THEOREM AnnouncementsAreDecided == Spec => []FlashMeansDone
  <1>1. JourneyInv => FlashMeansDone
    BY DEF JourneyInv, Fresh, RoomInv, FlashMeansDone
  <1> QED
    BY <1>1, Invariance, PTL

\* A cancellation that ends the deal ends it as promised, unless the promise was stale or drawn by
\* a clock that is off.
LEMMA CancelKeepsPromise ==
  ASSUME RoomInv, "buyerCancel" \in txs, Open, phase'[deal] # "Open", Include("buyerCancel")
  PROVE  \/ phase'[deal] = IF said.full THEN "Returned" ELSE "Forfeited"
         \/ said.full /\ met[deal] /\ ~said.met
         \/ said.full /\ said.early /\ now >= terms[deal].freeUntil
              /\ said.at - MaxSkew < terms[deal].freeUntil
         \/ ~said.full /\ now < terms[deal].freeUntil /\ terms[deal].freeUntil <= said.at + MaxSkew
  <1>0. /\ said.full = (said.early \/ ~said.met) /\ (said.met => met[deal])
        /\ ClockFits(said.early, said.at)
        /\ said.full \in BOOLEAN /\ said.early \in BOOLEAN /\ said.met \in BOOLEAN
        /\ now \in Nat /\ terms[deal].freeUntil \in Nat
    BY RoomAssumption DEF RoomInv, PromiseFits, RoomTypeOK, HandoffTerms
  <1>1. Executes("buyerCancel")
    BY DEF Include, Reverts, HookReverts, Open, handoffVars
  <1>2. CASE now < terms[deal].freeUntil /\ FullRefund("seller")
    <2>1. phase'[deal] = "Returned" /\ now < terms[deal].freeUntil
      BY <1>2, RefundMovesOn DEF RoomInv
    <2>2. ~said.full => terms[deal].freeUntil <= said.at + MaxSkew
      BY <1>0, Zenon DEF ClockFits
    <2> QED
      BY <2>1, <2>2, Zenon
  <1>3. CASE ~met[deal] /\ FullRefund("buyer")
    <2>1. phase'[deal] = "Returned" /\ said.full
      BY <1>0, <1>3, RefundMovesOn DEF RoomInv
    <2> QED
      BY <2>1
  <1>4. CASE now >= terms[deal].freeUntil /\ met[deal] /\ Forfeit
    <2>1. phase'[deal] = "Forfeited"
      BY <1>4, ForfeitMovesOn DEF RoomInv
    <2>2. said.early => said.at - MaxSkew < terms[deal].freeUntil
      BY <1>0 DEF ClockFits
    <2>3. said.full => said.early \/ ~said.met
      BY <1>0
    <2> QED
      BY <1>4, <2>1, <2>2, <2>3, Zenon
  <1> QED
    BY <1>1, <1>2, <1>3, <1>4 DEF Executes

\* The buyer's cancellation ends as the page said when it was pressed, staleness and clocks excepted.
THEOREM PromisesAreKept == Spec => PromiseKept
  <1> DEFINE Kept == "buyerCancel" \in txs \ txs' /\ Open /\ phase'[deal] # "Open"
                       => LET freeUntil == terms[deal].freeUntil IN
                          \/ phase'[deal] = IF said.full THEN "Returned" ELSE "Forfeited"
                          \/ said.full /\ met[deal] /\ ~said.met
                          \/ said.full /\ said.early /\ now >= freeUntil /\ said.at - MaxSkew < freeUntil
                          \/ ~said.full /\ now < freeUntil /\ freeUntil <= said.at + MaxSkew
  <1>1. ASSUME JourneyInv, [Next]_vars
        PROVE  [Kept]_roomVars
    <2> SUFFICES ASSUME "buyerCancel" \in txs, "buyerCancel" \notin txs',
                        Open, phase'[deal] # "Open"
                 PROVE  Kept
      OBVIOUS
    <2>1. InRoom(RoomNext)
      BY <1>1 DEF Next, Fund, InChat, AtMeetup, roomVars, pageVars, vars
    <2>2. RoomInv
      BY <1>1, <2>1 DEF JourneyInv, InRoom
    <2>3. Include("buyerCancel")
      <3>1. \A k \in Actions : Include(k) => txs' = txs \ {k}
        BY DEF Include
      <3>2. (\A k \in Actions : ~JobStep(k))
        BY DEF JobStep, Press, Send, GotReceipt, Done, Fails, Open, handoffVars
      <3>3. ~reclaimExpired /\ ~Tick /\ ~startCamera
        BY DEF reclaimExpired, Tick, startCamera, pageVars
      <3>4. (\A p \in Pages : ~PageStep(p)) /\ (\A raw \in Codes : ~accept(raw))
        BY DEF PageStep, refresh, RefreshFails, LateAnswer, accept
      <3> QED
        BY <2>1, <3>1, <3>2, <3>3, <3>4 DEF InRoom, RoomNext
    <2> QED
      BY <2>2, <2>3, CancelKeepsPromise
  <1> QED
    BY <1>1, Invariance, PTL DEF Spec, PromiseKept

\* Whatever arrives in whatever order, what a party was shown of the other stays, and is the other's.
THEOREM SharesStay == Spec => SharedStaysShared
  <1> DEFINE Stays(r, f) ==
        /\ Theirs(r, f) # "none" => Theirs(r, f)' # "none"
        /\ Theirs(r, f)' \in {"none", Other(r)} \cup (IF r = "buyer" THEN {"listing"} ELSE {})
  <1>1. ASSUME JourneyInv, [Next]_vars
        PROVE  \A r \in Parts, f \in Fields : Stays(r, f)
    <2>1. /\ linked => linked'
          /\ \A r \in Parts, f \in Fields : rows[r][f] # "none" => rows'[r][f] # "none"
      <3>1. CASE AtMeetup(MeetNext)
        BY <1>1, <3>1, MeetStepInv DEF AtMeetup, JourneyInv
      <3>2. CASE Fund
        BY <1>1, <3>2, FundInv
      <3>3. CASE UNCHANGED meetVars
        BY <1>1, <3>3, MeetKept DEF JourneyInv
      <3> QED
        BY <1>1, <3>1, <3>2, <3>3 DEF Next, InChat, InRoom, vars, meetVars
    <2>2. JourneyInv'
      BY <1>1, JourneyStep
    <2>3. \A r \in Parts : Other(r) \in Parts /\ (r = "buyer" <=> Other(r) = "seller")
      BY DEF Parts, Other
    <2>4. ASSUME NEW r \in Parts, NEW f \in Fields
          PROVE  Stays(r, f)
      BY <2>1, <2>2, <2>3, <2>4 DEF Theirs, JourneyInv, MeetInv
    <2> QED
      BY <2>4
  <1> QED
    BY <1>1, Invariance, PTL DEF Spec, SharedStaysShared

=============================================================================
