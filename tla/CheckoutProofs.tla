--------------------------- MODULE CheckoutProofs ---------------------------
(***************************************************************************)
(* Proofs about Checkout for any wallets, pages, owners and terms, any     *)
(* balances to begin with, any faucet, and any number of transactions that *)
(* nobody waits for.                                                       *)
(***************************************************************************)
EXTENDS Checkout, TotalsProofs, FiniteSetTheorems

----------------------------------------------------------------------------
(* Units. *)

\* A sum converted at once is at most one unit more than its parts converted one by one.
LEMMA OneUnitMore ==
  ASSUME NEW a \in Nat, NEW b \in Nat
  PROVE  /\ a \div 100 \in Nat /\ b \div 100 \in Nat /\ (a + b) \div 100 \in Nat
         /\ a \div 100 + b \div 100 <= (a + b) \div 100
         /\ (a + b) \div 100 <= a \div 100 + b \div 100 + 1
  BY SMT

\* The page asks for enough, and for at most one unit too much.
LEMMA QuoteCovers ==
  ASSUME NEW t \in Terms \cup {NoTerms}
  PROVE  /\ Quote(t) \in Nat /\ Required(t) \in Nat
         /\ Required(t) <= Quote(t) /\ Quote(t) <= Required(t) + 1
  <1>1. t.price \in Nat /\ t.bps \in Nat
    <2>1. t \in TermsType
      BY CheckoutAssumption
    <2>2. BPS_DENOMINATOR \in Nat
      BY DEF BPS_DENOMINATOR
    <2> QED
      BY <2>1, <2>2 DEF TermsType
  <1>2. depositUsd1e8(t.price, t.bps) \in Nat
    <2>1. \A a \in Nat, b \in Nat : a * b \in Nat
      BY SMT
    <2>2. \A c \in Nat : c \div BPS_DENOMINATOR \in Nat
      BY SMT DEF BPS_DENOMINATOR
    <2> QED
      BY <1>1, <2>1, <2>2 DEF depositUsd1e8
  <1>3. PICK a \in Nat, b \in Nat : a = t.price /\ b = depositUsd1e8(t.price, t.bps)
    BY <1>1, <1>2
  <1>4. Quote(t) = (a + b) \div 100 /\ Required(t) = a \div 100 + b \div 100
    BY <1>3 DEF Quote, Required, totalUsd1e8, usd1e8ToUsdc
  <1>5. /\ a \div 100 \in Nat /\ b \div 100 \in Nat /\ (a + b) \div 100 \in Nat
        /\ a \div 100 + b \div 100 <= (a + b) \div 100
        /\ (a + b) \div 100 <= a \div 100 + b \div 100 + 1
    BY <1>3, OneUnitMore
  <1> QED
    BY <1>4, <1>5

----------------------------------------------------------------------------
(* The inductive invariant. *)

\* The listing was made.
Made(i) == i \in ListingIds /\ listings[i].state # "absent"

Quoted(i) == Quote(listings[i].terms)

\* A call is for a listing that was made, with the amount its terms ask for, and a receipt it has
\* read is that of its own transaction.
CallOK(t, p) ==
  /\ p.at = "idle" <=> p.kind = "none"
  /\ p.kind = "fund" => Made(p.listing) /\ p.need = Quoted(p.listing)
  /\ p.kind = "list" => p.terms \in Terms /\ p.need = p.terms.bond
  /\ p.kind = "cancel" => Made(p.listing) /\ p.need = 0 /\ p.at \in {"send", "waiting", "mined"}
  /\ p.at = "listing" => p.kind = "fund"
  /\ p.at = "mined" /\ p.got # 0 =>
       \/ /\ p.kind = "fund" /\ p.got \in DealIds
          /\ deals[p.got].buyer = owner[t] /\ deals[p.got].listing = p.listing
       \/ /\ p.kind = "list" /\ Made(p.got)
          /\ listings[p.got].seller = owner[t] /\ listings[p.got].terms = p.terms

\* What a page shows is its wallet's own.
PageOK(t, g) ==
  g.shown # 0 =>
    \/ /\ g.listing # 0 /\ g.shown \in DealIds
       /\ deals[g.shown].buyer = owner[t] /\ deals[g.shown].listing = g.listing
    \/ /\ g.listing = 0 /\ Made(g.shown)
       /\ listings[g.shown].seller = owner[t] /\ listings[g.shown].terms = g.terms

\* A page is about what its call is for, unless it was left: then it shows nothing.
Matches(p, g) ==
  /\ p.kind = "fund" => g.listing = p.listing
  /\ p.kind = "list" => g.listing = 0 /\ g.terms = p.terms

Matched(t) == IF t \in left THEN job[t].at # "idle" /\ page[t] = NoPage ELSE Matches(job[t], page[t])

AllMatched == left \subseteq Tabs /\ \A t \in Tabs : Matched(t)

\* A transaction was signed in its wallet, for what the listing asks.
TxOK(w, x) ==
  /\ owner[x.tab] = w
  /\ x.kind = "fund" => Made(x.listing) /\ x.amount = Quoted(x.listing)
  /\ x.kind = "list" => x.terms \in Terms
  /\ x.kind = "cancel" => Made(x.listing)

\* The call p waits for transaction x.
Awaits(p, x) ==
  /\ x.amount = p.need
  /\ \/ x.kind = "approve" /\ p.at = "approving"
     \/ /\ p.at = "waiting" /\ x.kind = p.kind
        /\ x.listing = p.listing /\ x.terms = p.terms

AwaitsTx(p) == p.at \in {"approving", "waiting"}

\* A transaction in the mempool is awaited by the call that sent it, or its page gave up.
SentOK(w, n) ==
  LET x == mempool[w][n] IN
  /\ TxOK(w, x)
  /\ x.awaited => Awaits(job[x.tab], x)
  /\ ~x.awaited => x.tab \in gaveUp

\* A call awaits one transaction at a time.
OneAtATime ==
  \A w \in Wallets, v \in Wallets : \A m \in DOMAIN mempool[w], n \in DOMAIN mempool[v] :
    mempool[w][m].awaited /\ mempool[v][n].awaited /\ mempool[w][m].tab = mempool[v][n].tab =>
      w = v /\ m = n

\* A deal is of a listing, for the amount quoted, and the page that funded it is told, unless it
\* gave up or is just about to be.
AboutToTell(p, d) == p.at = "mined" /\ p.kind = "fund" /\ p.got = d

DealOK(d) ==
  /\ Made(deals[d].listing) /\ deals[d].amount = Quoted(deals[d].listing)
  /\ d \notin told /\ deals[d].tab \notin gaveUp => AboutToTell(job[deals[d].tab], d)

\* The only page of its wallet, which has waited for everything it sent.
Sole(t) == t \notin gaveUp /\ \A u \in Tabs \ {t} : owner[u] # owner[t]

\* What was checked before the signature still holds when the transaction is included.
Funded(t, p) ==
  /\ p.at \in {"allowance", "approving", "send", "waiting"} => balance[owner[t]] >= p.need
  /\ p.at \in {"send", "waiting"} => allowance[owner[t]] >= p.need

\* The faucet's books.
FaucetOK ==
  /\ balance \in [Wallets -> Nat]
  /\ reading \in [Wallets -> Nat] /\ minting \in [Wallets -> Nat]
  /\ \A w \in Wallets : reading[w] + minting[w] <= MaxRequests
  /\ FaucetBounded

Types ==
  /\ owner \in [Tabs -> Wallets]
  /\ listings \in [ListingIds -> ListingType]
  /\ deals \in Seq(DealType)
  /\ allowance \in [Wallets -> Nat]
  /\ mempool \in [Wallets -> Seq(Tx)]
  /\ job \in [Tabs -> JobType]
  /\ page \in [Tabs -> PageType]
  /\ told \subseteq DealIds
  /\ gaveUp \subseteq Tabs

Inv ==
  /\ Types
  /\ FaucetOK
  /\ \A t \in Tabs : CallOK(t, job[t]) /\ PageOK(t, page[t])
  /\ \A w \in Wallets : \A n \in DOMAIN mempool[w] : SentOK(w, n)
  /\ OneAtATime
  /\ \A d \in DealIds : DealOK(d)
  /\ \A t \in Tabs : Sole(t) => Funded(t, job[t])
  /\ IsFiniteSet(Orphans) /\ Cardinality(Orphans) <= MaxOrphans

----------------------------------------------------------------------------
(* What no step takes back. *)

\* Listings and deals are made once and keep what they were made with; wallets stay connected, and
\* a page that gave up once has given up.
GoesOn ==
  /\ owner' = owner
  /\ listings' \in [ListingIds -> ListingType]
  /\ deals' \in Seq(DealType)
  /\ \A i \in ListingIds :
       listings[i].state # "absent" =>
         /\ listings'[i].state # "absent"
         /\ listings'[i].seller = listings[i].seller /\ listings'[i].terms = listings[i].terms
  /\ Len(deals) <= Len(deals')
  /\ \A d \in DealIds : deals'[d] = deals[d]
  /\ gaveUp \subseteq gaveUp' /\ gaveUp' \subseteq Tabs

\* Nothing is taken back when the chain stays as it is.
LEMMA NothingNew ==
  ASSUME Inv, UNCHANGED <<owner, listings, deals>>, gaveUp \subseteq gaveUp', gaveUp' \subseteq Tabs
  PROVE  GoesOn
  BY DEF Inv, Types, GoesOn

\* A listing that was made stays made, with its seller and its terms.
LEMMA MadeStays ==
  ASSUME GoesOn, NEW i, Made(i)
  PROVE  /\ Made(i)' /\ Quoted(i)' = Quoted(i)
         /\ listings'[i].seller = listings[i].seller /\ listings'[i].terms = listings[i].terms
  BY DEF GoesOn, Made, Quoted

\* So does a deal.
LEMMA DealStays ==
  ASSUME Inv, GoesOn, NEW d \in DealIds
  PROVE  d \in DealIds' /\ deals'[d] = deals[d]
  BY DEF GoesOn, Inv, Types, DealIds

\* A call that is in order stays in order.
LEMMA CallStays ==
  ASSUME Inv, GoesOn, NEW t, NEW p, CallOK(t, p)
  PROVE  CallOK(t, p)'
  <1>1. \A i : Made(i) => /\ Made(i)' /\ Quoted(i)' = Quoted(i)
                          /\ listings'[i].seller = listings[i].seller
                          /\ listings'[i].terms = listings[i].terms
    BY MadeStays
  <1>2. \A d \in DealIds : d \in DealIds' /\ deals'[d] = deals[d]
    BY DealStays
  <1>3. owner' = owner
    BY DEF GoesOn
  <1> QED
    BY <1>1, <1>2, <1>3 DEF CallOK

\* So does a page.
LEMMA PageStays ==
  ASSUME Inv, GoesOn, NEW t, NEW g, PageOK(t, g)
  PROVE  PageOK(t, g)'
  <1>1. \A i : Made(i) => /\ Made(i)' /\ listings'[i].seller = listings[i].seller
                          /\ listings'[i].terms = listings[i].terms
    BY MadeStays
  <1>2. \A d \in DealIds : d \in DealIds' /\ deals'[d] = deals[d]
    BY DealStays
  <1>3. owner' = owner
    BY DEF GoesOn
  <1> QED
    BY <1>1, <1>2, <1>3 DEF PageOK

\* So does a transaction.
LEMMA TxStays ==
  ASSUME Inv, GoesOn, NEW w, NEW x, TxOK(w, x)
  PROVE  TxOK(w, x)'
  <1>1. \A i : Made(i) => Made(i)' /\ Quoted(i)' = Quoted(i)
    BY MadeStays
  <1>2. owner' = owner
    BY DEF GoesOn
  <1> QED
    BY <1>1, <1>2 DEF TxOK

\* A page that is alone with its wallet was so before.
LEMMA SoleBefore ==
  ASSUME GoesOn, NEW t, Sole(t)'
  PROVE  Sole(t)
  BY DEF GoesOn, Sole

\* A page that waits for no transaction has none in the mempool that it still awaits.
LEMMA NoneAwaited ==
  ASSUME Inv, NEW t, ~AwaitsTx(job[t])
  PROVE  \A w \in Wallets : \A n \in DOMAIN mempool[w] :
           mempool[w][n].awaited => mempool[w][n].tab # t
  BY DEF Inv, SentOK, Awaits, AwaitsTx

\* A step of one page that sends nothing.
LEMMA TabMoves ==
  ASSUME Inv, FaucetOK', UNCHANGED <<owner, chainVars, balance>>,
         gaveUp \subseteq gaveUp', gaveUp' \subseteq Tabs,
         NEW t \in Tabs, NEW p \in JobType, NEW g \in PageType,
         ~AwaitsTx(job[t]), ~AwaitsTx(p), CallOK(t, p), PageOK(t, g),
         Sole(t) => Funded(t, p),
         told \subseteq told', told' \subseteq DealIds,
         \A d \in DealIds : d \notin told' /\ t \notin gaveUp' /\ deals[d].tab = t => AboutToTell(p, d),
         job' = [job EXCEPT ![t] = p], page' = [page EXCEPT ![t] = g]
  PROVE  Inv'
  <1>1. GoesOn /\ UNCHANGED <<owner, listings, deals, allowance, mempool, balance>>
    BY NothingNew DEF chainVars, Inv, Types
  <1>2. Types'
    BY <1>1 DEF Inv, Types, DealIds
  <1>3. (\A u \in Tabs : CallOK(u, job[u]) /\ PageOK(u, page[u]))'
    <2>1. CallOK(t, p)' /\ PageOK(t, g)'
      BY <1>1, CallStays, PageStays
    <2>2. ASSUME NEW u \in Tabs, NEW q, NEW h, q = job[u], h = page[u]
          PROVE  CallOK(u, q)' /\ PageOK(u, h)'
      BY <1>1, <2>2, CallStays, PageStays DEF Inv
    <2>3. ASSUME NEW u \in Tabs
          PROVE  (CallOK(u, job[u]) /\ PageOK(u, page[u]))'
      <3>1. CASE u = t
        BY <2>1, <3>1 DEF Inv, Types
      <3>2. CASE u # t
        BY <2>2, <3>2 DEF Inv, Types
      <3> QED
        BY <3>1, <3>2
    <2> QED
      BY <2>3
  <1>4. (\A w \in Wallets : \A n \in DOMAIN mempool[w] : SentOK(w, n))'
    <2> SUFFICES ASSUME NEW w \in Wallets, NEW n \in DOMAIN mempool[w]
                 PROVE  SentOK(w, n)'
      BY <1>1
    <2>1. PICK x : x = mempool[w][n]
      OBVIOUS
    <2>2. TxOK(w, x)'
      BY <1>1, <2>1, TxStays DEF Inv, SentOK
    <2>3. x.awaited => x.tab # t
      BY <2>1, NoneAwaited
    <2>4. x.awaited => Awaits(job'[x.tab], x)
      BY <2>1, <2>3 DEF Inv, Types, SentOK
    <2>5. ~x.awaited => x.tab \in gaveUp'
      BY <2>1 DEF Inv, SentOK
    <2> QED
      BY <1>1, <2>1, <2>2, <2>4, <2>5 DEF SentOK
  <1>5. OneAtATime'
    BY <1>1 DEF Inv, OneAtATime
  <1>6. (\A d \in DealIds : DealOK(d))'
    <2> SUFFICES ASSUME NEW d \in DealIds PROVE DealOK(d)'
      BY <1>1 DEF DealIds
    <2>1. (Made(deals[d].listing) /\ deals[d].amount = Quoted(deals[d].listing))'
      BY <1>1 DEF Inv, DealOK, Made, Quoted
    <2>2. d \notin told' /\ deals[d].tab \notin gaveUp' => AboutToTell(job'[deals[d].tab], d)
      BY DEF Inv, Types, DealOK
    <2> QED
      BY <1>1, <2>1, <2>2 DEF DealOK
  <1>7. (\A u \in Tabs : Sole(u) => Funded(u, job[u]))'
    BY <1>1, SoleBefore DEF Inv, Types, Funded
  <1>8. (IsFiniteSet(Orphans) /\ Cardinality(Orphans) <= MaxOrphans)'
    BY <1>1 DEF Inv, Orphans
  <1> QED
    BY <1>2, <1>3, <1>4, <1>5, <1>6, <1>7, <1>8 DEF Inv

\* The transactions nobody waits for.
LEMMA OrphansAre ==
  /\ \A w \in Wallets : \A n \in DOMAIN mempool[w] : ~mempool[w][n].awaited => <<w, n>> \in Orphans
  /\ \A r \in Orphans : \E w \in Wallets : \E n \in DOMAIN mempool[w] :
       r = <<w, n>> /\ ~mempool[w][n].awaited
  BY DEF Orphans

\* A step of one page that signs a transaction and waits for it.
LEMMA TabSigns ==
  ASSUME Inv, UNCHANGED <<faucetVars, owner, listings, deals, allowance, page, told, gaveUp>>,
         NEW t \in Tabs, NEW p \in JobType, NEW x \in Tx,
         ~AwaitsTx(job[t]), job[t].at # "mined", CallOK(t, p),
         Sole(t) => Funded(t, p),
         x.tab = t, x.awaited, TxOK(owner[t], x), Awaits(p, x),
         job' = [job EXCEPT ![t] = p],
         mempool' = [mempool EXCEPT ![owner[t]] = Append(@, x)]
  PROVE  Inv'
  <1>1. /\ GoesOn
        /\ UNCHANGED <<owner, listings, deals, allowance, page, told, gaveUp, balance, reading, minting>>
    BY NothingNew DEF faucetVars, Inv, Types
  <1>2. Types'
    BY <1>1 DEF Inv, Types, DealIds
  <1>3. FaucetOK'
    BY <1>1 DEF Inv, FaucetOK, FaucetBounded, Refunds
  <1>4. (\A u \in Tabs : CallOK(u, job[u]) /\ PageOK(u, page[u]))'
    <2>2. CallOK(t, p)'
      BY <1>1, CallStays
    <2>3. ASSUME NEW u \in Tabs, NEW q, NEW h, q = job[u], h = page[u]
          PROVE  CallOK(u, q)' /\ PageOK(u, h)'
      BY <1>1, <2>3, CallStays, PageStays DEF Inv
    <2>4. ASSUME NEW u \in Tabs
          PROVE  (CallOK(u, job[u]) /\ PageOK(u, page[u]))'
      <3>1. CASE u = t
        BY <1>1, <2>2, <2>3, <3>1 DEF Inv, Types
      <3>2. CASE u # t
        BY <1>1, <2>3, <3>2 DEF Inv, Types
      <3> QED
        BY <3>1, <3>2
    <2> QED
      BY <2>4
  <1>5. /\ owner[t] \in Wallets /\ mempool[owner[t]] \in Seq(Tx)
        /\ \A w \in Wallets : w # owner[t] => mempool'[w] = mempool[w]
        /\ mempool'[owner[t]] = Append(mempool[owner[t]], x)
    BY DEF Inv, Types
  <1>6. \A w \in Wallets : \A n \in DOMAIN mempool'[w] :
          \/ n \in DOMAIN mempool[w] /\ mempool'[w][n] = mempool[w][n]
          \/ w = owner[t] /\ n = Len(mempool[w]) + 1 /\ mempool'[w][n] = x
    BY <1>5
  <1>7. \A w \in Wallets : \A n \in DOMAIN mempool[w] :
          n \in DOMAIN mempool'[w] /\ mempool'[w][n] = mempool[w][n]
    BY <1>5
  <1>8. (\A w \in Wallets : \A n \in DOMAIN mempool[w] : SentOK(w, n))'
    <2> SUFFICES ASSUME NEW w \in Wallets, NEW n \in (DOMAIN mempool[w])'
                 PROVE  SentOK(w, n)'
      OBVIOUS
    <2>1. CASE w = owner[t] /\ mempool'[w][n] = x
      <3>1. TxOK(w, x)'
        BY <1>1, <2>1, TxStays
      <3>2. Awaits(job'[t], x)
        BY DEF Inv, Types
      <3> QED
        BY <2>1, <3>1, <3>2 DEF SentOK
    <2>2. CASE n \in DOMAIN mempool[w] /\ mempool'[w][n] = mempool[w][n]
      <3>1. PICK y : y = mempool[w][n]
        OBVIOUS
      <3>2. TxOK(w, y)'
        BY <1>1, <2>2, <3>1, TxStays DEF Inv, SentOK
      <3>3. y.awaited => y.tab # t
        BY <2>2, <3>1, NoneAwaited
      <3>4. y.awaited => Awaits(job'[y.tab], y)
        BY <2>2, <3>1, <3>3 DEF Inv, Types, SentOK
      <3>5. ~y.awaited => y.tab \in gaveUp
        BY <2>2, <3>1 DEF Inv, SentOK
      <3> QED
        BY <1>1, <2>2, <3>1, <3>2, <3>4, <3>5 DEF SentOK
    <2> QED
      BY <1>6, <2>1, <2>2
  <1>9. OneAtATime'
    <2> SUFFICES ASSUME NEW w \in Wallets, NEW v \in Wallets,
                        NEW m \in DOMAIN mempool'[w], NEW n \in DOMAIN mempool'[v],
                        mempool'[w][m].awaited, mempool'[v][n].awaited,
                        mempool'[w][m].tab = mempool'[v][n].tab
                 PROVE  w = v /\ m = n
      BY DEF OneAtATime
    <2>1. \A u \in Wallets : \A k \in DOMAIN mempool[u] :
            mempool[u][k].awaited => mempool[u][k].tab # t
      BY NoneAwaited
    <2>2. CASE m \in DOMAIN mempool[w] /\ mempool'[w][m] = mempool[w][m]
      <3>1. n \in DOMAIN mempool[v] /\ mempool'[v][n] = mempool[v][n]
        BY <1>6, <2>1, <2>2
      <3> QED
        BY <2>2, <3>1 DEF Inv, OneAtATime
    <2>3. CASE w = owner[t] /\ m = Len(mempool[w]) + 1 /\ mempool'[w][m] = x
      BY <1>6, <2>1, <2>3
    <2> QED
      BY <1>6, <2>2, <2>3
  <1>10. (\A d \in DealIds : DealOK(d))'
    <2> SUFFICES ASSUME NEW d \in DealIds PROVE DealOK(d)'
      BY <1>1 DEF DealIds
    <2>1. (Made(deals[d].listing) /\ deals[d].amount = Quoted(deals[d].listing))'
      BY <1>1 DEF Inv, DealOK, Made, Quoted
    <2>2. d \notin told /\ deals[d].tab \notin gaveUp => AboutToTell(job'[deals[d].tab], d)
      BY DEF Inv, Types, DealOK, AboutToTell
    <2> QED
      BY <1>1, <2>1, <2>2 DEF DealOK
  <1>11. (\A u \in Tabs : Sole(u) => Funded(u, job[u]))'
    BY <1>1, SoleBefore DEF Inv, Types, Funded
  <1>12. Orphans' = Orphans
    <2>1. ASSUME NEW w \in Wallets
          PROVE  {n \in DOMAIN mempool'[w] : ~mempool'[w][n].awaited} =
                   {n \in DOMAIN mempool[w] : ~mempool[w][n].awaited}
      BY <1>6, <1>7
    <2> QED
      BY <2>1 DEF Orphans
  <1> QED
    BY <1>2, <1>3, <1>4, <1>8, <1>9, <1>10, <1>11, <1>12 DEF Inv

\* What leaving makes of a transaction.
Left(x, t) == [x EXCEPT !.awaited = @ /\ x.tab # t]

LEMMA LeftIs ==
  ASSUME NEW x \in Tx, NEW t
  PROVE  /\ Left(x, t) \in Tx
         /\ Left(x, t).awaited <=> x.awaited /\ x.tab # t
         /\ Left(x, t).awaited => Left(x, t) = x
         /\ Left(x, t).tab = x.tab /\ Left(x, t).kind = x.kind
         /\ Left(x, t).listing = x.listing /\ Left(x, t).terms = x.terms
         /\ Left(x, t).amount = x.amount
  BY DEF Left, Tx

\* A transaction that nobody waits for any more is as good as it was.
LEMMA LeftOK ==
  ASSUME NEW x \in Tx, NEW t, NEW w, TxOK(w, x)'
  PROVE  TxOK(w, Left(x, t))'
  BY LeftIs DEF TxOK

\* Idle calls are in order.
LEMMA NoJobOK ==
  ASSUME NEW t
  PROVE  NoJob \in JobType /\ CallOK(t, NoJob) /\ ~AwaitsTx(NoJob) /\ Funded(t, NoJob)
  <1>1. NoJob \in JobType
    BY CheckoutAssumption DEF NoJob, JobType
  <1> QED
    BY <1>1 DEF NoJob, CallOK, AwaitsTx, Funded

\* A page that stops waiting: what it sent goes on, and it is known to have given up.
LEMMA TabLeaves ==
  ASSUME Inv, UNCHANGED <<faucetVars, owner, listings, deals, allowance, told>>,
         NEW t \in Tabs, NEW g \in PageType, PageOK(t, g), Unawaited(t), Abandoned(t),
         job' = [job EXCEPT ![t] = NoJob], page' = [page EXCEPT ![t] = g]
  PROVE  Inv'
  <1>1. gaveUp \subseteq gaveUp' /\ gaveUp' \subseteq Tabs
    BY DEF Abandoned, Inv, Types
  <1>2. AwaitsTx(job[t]) \/ job[t].at = "mined" => t \in gaveUp'
    BY DEF Abandoned, AwaitsTx
  <1>3. GoesOn /\ UNCHANGED <<owner, listings, deals, allowance, told, balance, reading, minting>>
    BY <1>1, NothingNew DEF faucetVars
  <1>4. /\ owner[t] \in Wallets /\ mempool[owner[t]] \in Seq(Tx)
        /\ \A w \in Wallets : w # owner[t] => mempool'[w] = mempool[w]
        /\ mempool'[owner[t]] = [n \in DOMAIN mempool[owner[t]] |-> Left(mempool[owner[t]][n], t)]
        /\ DOMAIN mempool' = Wallets
    BY DEF Inv, Types, Unawaited, Left
  <1>5. /\ mempool'[owner[t]] \in Seq(Tx)
        /\ DOMAIN mempool'[owner[t]] = DOMAIN mempool[owner[t]]
        /\ \A n \in DOMAIN mempool[owner[t]] : mempool'[owner[t]][n] = Left(mempool[owner[t]][n], t)
    <2> DEFINE s == mempool[owner[t]]
    <2>1. s \in Seq(Tx) /\ mempool'[owner[t]] = [n \in DOMAIN s |-> Left(s[n], t)]
      BY <1>4
    <2> HIDE DEF s
    <2>2. DOMAIN s = 1 .. Len(s) /\ Len(s) \in Nat
      BY <2>1
    <2>3. \A n \in 1 .. Len(s) : Left(s[n], t) \in Tx
      BY <2>1, LeftIs
    <2>4. [n \in 1 .. Len(s) |-> Left(s[n], t)] \in Seq(Tx)
      BY <2>2, <2>3
    <2>5. /\ mempool'[owner[t]] \in Seq(Tx) /\ DOMAIN mempool'[owner[t]] = DOMAIN s
          /\ \A n \in DOMAIN s : mempool'[owner[t]][n] = Left(s[n], t)
      BY <2>1, <2>2, <2>4
    <2> QED
      BY <2>5 DEF s
  <1>6. mempool' \in [Wallets -> Seq(Tx)]
    <2>1. \A w \in Wallets : mempool'[w] \in Seq(Tx)
      BY <1>4, <1>5 DEF Inv, Types
    <2>2. mempool' = [w \in Wallets |-> mempool'[w]]
      BY <1>4 DEF Inv, Types, Unawaited
    <2> QED
      BY <2>1, <2>2
  <1>7. NoJob \in JobType /\ ~AwaitsTx(NoJob)
    BY NoJobOK
  <1>8. Types'
    BY <1>1, <1>3, <1>6, <1>7 DEF Inv, Types, DealIds
  <1>9. FaucetOK'
    BY <1>3 DEF Inv, FaucetOK, FaucetBounded, Refunds
  <1>10. (\A u \in Tabs : CallOK(u, job[u]) /\ PageOK(u, page[u]))'
    <2>1. CallOK(t, NoJob)' /\ PageOK(t, g)'
      <3>1. CallOK(t, NoJob)
        BY NoJobOK
      <3> QED
        BY <1>3, <3>1, CallStays, PageStays
    <2>2. ASSUME NEW u \in Tabs, NEW q, NEW h, q = job[u], h = page[u]
          PROVE  CallOK(u, q)' /\ PageOK(u, h)'
      BY <1>3, <2>2, CallStays, PageStays DEF Inv
    <2>3. ASSUME NEW u \in Tabs
          PROVE  (CallOK(u, job[u]) /\ PageOK(u, page[u]))'
      <3>1. CASE u = t
        BY <2>1, <3>1 DEF Inv, Types
      <3>2. CASE u # t
        BY <2>2, <3>2 DEF Inv, Types
      <3> QED
        BY <3>1, <3>2
    <2> QED
      BY <2>3
  <1>11. \A w \in Wallets : \A n \in DOMAIN mempool'[w] :
           /\ n \in DOMAIN mempool[w] /\ mempool[w][n] \in Tx
           /\ mempool[w][n].tab # t => mempool'[w][n] = mempool[w][n]
           /\ mempool[w][n].tab = t => mempool'[w][n] = Left(mempool[w][n], t)
    <2> SUFFICES ASSUME NEW w \in Wallets, NEW n \in DOMAIN mempool'[w]
                 PROVE  /\ n \in DOMAIN mempool[w] /\ mempool[w][n] \in Tx
                        /\ mempool[w][n].tab # t => mempool'[w][n] = mempool[w][n]
                        /\ mempool[w][n].tab = t => mempool'[w][n] = Left(mempool[w][n], t)
      OBVIOUS
    <2>1. n \in DOMAIN mempool[w]
      BY <1>4, <1>5
    <2>2. mempool[w][n] \in Tx
      BY <2>1 DEF Inv, Types
    <2>3. owner[mempool[w][n].tab] = w
      BY <2>1 DEF Inv, SentOK, TxOK
    <2>4. CASE w # owner[t]
      BY <1>4, <2>1, <2>2, <2>3, <2>4
    <2>5. CASE w = owner[t]
      <3>1. mempool'[w][n] = Left(mempool[w][n], t)
        BY <1>5, <2>1, <2>5
      <3>2. mempool[w][n].tab # t => Left(mempool[w][n], t) = mempool[w][n]
        BY <2>2 DEF Left, Tx
      <3> QED
        BY <2>1, <2>2, <3>1, <3>2
    <2> QED
      BY <2>4, <2>5
  <1>12. (\A w \in Wallets : \A n \in DOMAIN mempool[w] : SentOK(w, n))'
    <2> SUFFICES ASSUME NEW w \in Wallets, NEW n \in (DOMAIN mempool[w])'
                 PROVE  SentOK(w, n)'
      OBVIOUS
    <2>1. PICK y : y = mempool[w][n]
      OBVIOUS
    <2>2. n \in DOMAIN mempool[w] /\ y \in Tx
      BY <1>11, <2>1
    <2>3. TxOK(w, y)'
      BY <1>3, <2>1, <2>2, TxStays DEF Inv, SentOK
    <2>4. CASE y.tab # t
      <3>1. mempool'[w][n] = y
        BY <1>11, <2>1, <2>4
      <3>2. y.awaited => Awaits(job'[y.tab], y)
        BY <2>1, <2>2, <2>4 DEF Inv, Types, SentOK
      <3>3. ~y.awaited => y.tab \in gaveUp'
        BY <1>1, <2>1, <2>2 DEF Inv, SentOK
      <3> QED
        BY <2>3, <3>1, <3>2, <3>3 DEF SentOK
    <2>5. CASE y.tab = t
      <3>1. PICK z : z = Left(y, t)
        OBVIOUS
      <3>2. mempool'[w][n] = z
        BY <1>11, <2>1, <2>5, <3>1
      <3>3. TxOK(w, z)'
        BY <2>2, <2>3, <3>1, LeftOK
      <3>4. ~z.awaited /\ z.tab = t
        BY <2>2, <2>5, <3>1, LeftIs
      <3>5. t \in gaveUp'
        BY <1>1, <1>2, <2>1, <2>2, <2>5 DEF Inv, SentOK, Awaits, AwaitsTx
      <3> QED
        BY <3>2, <3>3, <3>4, <3>5 DEF SentOK
    <2> QED
      BY <2>4, <2>5
  <1>13. OneAtATime'
    <2>1. \A w \in Wallets : \A n \in DOMAIN mempool'[w] :
            mempool'[w][n].awaited =>
              n \in DOMAIN mempool[w] /\ mempool'[w][n] = mempool[w][n]
      BY <1>11, LeftIs
    <2> QED
      BY <2>1 DEF Inv, OneAtATime
  <1>14. (\A d \in DealIds : DealOK(d))'
    <2> SUFFICES ASSUME NEW d \in DealIds PROVE DealOK(d)'
      BY <1>3 DEF DealIds
    <2>1. (Made(deals[d].listing) /\ deals[d].amount = Quoted(deals[d].listing))'
      BY <1>3 DEF Inv, DealOK, Made, Quoted
    <2>2. d \notin told /\ deals[d].tab \notin gaveUp' => AboutToTell(job'[deals[d].tab], d)
      BY <1>1, <1>2 DEF Inv, Types, DealOK, AboutToTell
    <2> QED
      BY <1>3, <2>1, <2>2 DEF DealOK
  <1>15. (\A u \in Tabs : Sole(u) => Funded(u, job[u]))'
    <2> SUFFICES ASSUME NEW u \in Tabs, Sole(u)' PROVE Funded(u, job[u])'
      OBVIOUS
    <2>1. CASE u = t
      <3>1. job'[u] = NoJob
        BY <2>1 DEF Inv, Types
      <3> QED
        BY <3>1 DEF Funded, NoJob
    <2>2. CASE u # t
      BY <1>3, <2>2, SoleBefore DEF Inv, Types, Funded
    <2> QED
      BY <2>1, <2>2
  <1>16. (IsFiniteSet(Orphans) /\ Cardinality(Orphans) <= MaxOrphans)'
    <2>1. \A r \in Orphans' :
            r \in Orphans
            \/ \E n \in DOMAIN mempool[owner[t]] :
                 /\ r = <<owner[t], n>> /\ mempool[owner[t]][n].awaited
                 /\ mempool[owner[t]][n].tab = t
      <3> SUFFICES ASSUME NEW w \in Wallets, NEW n \in DOMAIN mempool'[w], ~mempool'[w][n].awaited
                   PROVE  \/ <<w, n>> \in Orphans
                          \/ w = owner[t] /\ /\ n \in DOMAIN mempool[w] /\ mempool[w][n].awaited
                                             /\ mempool[w][n].tab = t
        BY DEF Orphans
      <3>1. CASE mempool[w][n].tab = t /\ mempool[w][n].awaited
        BY <1>11, <3>1 DEF Inv, SentOK, TxOK
      <3>2. CASE mempool[w][n].tab # t
        BY <1>11, <3>2, OrphansAre
      <3>3. CASE ~mempool[w][n].awaited
        BY <1>11, <3>3, OrphansAre
      <3> QED
        BY <3>1, <3>2, <3>3
    <2>2. CASE ~AwaitsTx(job[t])
      <3>1. Orphans' \in SUBSET Orphans
        BY <1>4, <2>1, <2>2, NoneAwaited
      <3>2. IsFiniteSet(Orphans') /\ Cardinality(Orphans') <= Cardinality(Orphans)
        BY <3>1, FS_Subset DEF Inv
      <3>3. Cardinality(Orphans') \in Nat /\ Cardinality(Orphans) \in Nat /\ MaxOrphans \in Nat
        BY <3>2, FS_CardinalityType, CheckoutAssumption DEF Inv
      <3> QED
        BY <3>2, <3>3 DEF Inv
    <2>3. CASE AwaitsTx(job[t])
      <3>1. \E e : Orphans' \subseteq Orphans \cup {e}
        <4>1. CASE \E n \in DOMAIN mempool[owner[t]] :
                     mempool[owner[t]][n].awaited /\ mempool[owner[t]][n].tab = t
          <5>1. PICK k \in DOMAIN mempool[owner[t]] :
                       mempool[owner[t]][k].awaited /\ mempool[owner[t]][k].tab = t
            BY <4>1
          <5>2. \A n \in DOMAIN mempool[owner[t]] :
                  mempool[owner[t]][n].awaited /\ mempool[owner[t]][n].tab = t => n = k
            BY <1>4, <5>1 DEF Inv, OneAtATime
          <5>3. Orphans' \subseteq Orphans \cup {<<owner[t], k>>}
            BY <2>1, <5>2
          <5> QED
            BY <5>3
        <4>2. CASE ~ \E n \in DOMAIN mempool[owner[t]] :
                       mempool[owner[t]][n].awaited /\ mempool[owner[t]][n].tab = t
          <5>1. Orphans' \subseteq Orphans
            BY <2>1, <4>2
          <5> QED
            BY <5>1
        <4> QED
          BY <4>1, <4>2
      <3>2. PICK e : Orphans' \subseteq Orphans \cup {e}
        BY <3>1
      <3>3. IsFiniteSet(Orphans) /\ Cardinality(Orphans) < MaxOrphans
        BY <2>3 DEF Unawaited, AwaitsTx, Inv
      <3>4. Cardinality(Orphans) \in Nat /\ MaxOrphans \in Nat
        BY <3>3, FS_CardinalityType, CheckoutAssumption
      <3>5. /\ IsFiniteSet(Orphans \cup {e})
            /\ Cardinality(Orphans \cup {e}) = IF e \in Orphans THEN Cardinality(Orphans)
                                               ELSE Cardinality(Orphans) + 1
        BY <3>3, FS_AddElement
      <3>6. /\ IsFiniteSet(Orphans') /\ Cardinality(Orphans') \in Nat
            /\ Cardinality(Orphans') <= Cardinality(Orphans \cup {e})
        BY <3>2, <3>5, FS_Subset, FS_CardinalityType
      <3> QED
        BY <3>3, <3>4, <3>5, <3>6
    <2> QED
      BY <2>2, <2>3
  <1> QED
    BY <1>8, <1>9, <1>10, <1>12, <1>13, <1>14, <1>15, <1>16 DEF Inv

----------------------------------------------------------------------------
(* A block. *)

\* The number of the next listing, when there is room for it, is of none yet.
LEMMA NextIsFree ==
  ASSUME NextListing \in ListingIds
  PROVE  listings[NextListing].state = "absent"
  <1> DEFINE Free(i) == /\ i \in ListingIds => listings[i].state = "absent"
                        /\ \A j \in 1 .. i - 1 : listings[j].state # "absent"
             T == {i \in 1 .. MaxListings + 1 : i \in ListingIds => listings[i].state = "absent"}
  <1>1. MaxListings \in Nat
    BY CheckoutAssumption
  <1>2. MaxListings + 1 \in T /\ T \in SUBSET Nat
    BY <1>1 DEF ListingIds
  <1>3. PICK m \in T : \A k \in T : m <= k
    <2> HIDE DEF T
    <2> QED
      BY <1>2, Least
  <1>4. m \in 1 .. MaxListings + 1 /\ Free(m)
    BY <1>1, <1>3 DEF ListingIds
  <1>5. NextListing = CHOOSE i \in 1 .. MaxListings + 1 : Free(i)
    BY DEF NextListing
  <1>6. Free(NextListing)
    <2> HIDE DEF Free
    <2> QED
      BY <1>4, <1>5
  <1> QED
    BY <1>6

\* What a transaction that succeeds does to the chain.
LEMMA Executed ==
  ASSUME Inv, NEW w \in Wallets, NEW x \in Tx, TxOK(w, x), Succeeds(w, x), Execute(w, x),
         UNCHANGED <<owner, gaveUp>>
  PROVE  /\ GoesOn
         /\ allowance' \in [Wallets -> Nat] /\ balance' \in [Wallets -> Nat]
         /\ \A v \in Wallets \ {w} : balance'[v] = balance[v] /\ allowance'[v] = allowance[v]
         /\ x.kind = "approve" => balance' = balance /\ allowance'[w] = x.amount
         /\ x.kind # "fund" => deals' = deals
         /\ x.kind = "fund" =>
              deals' = Append(deals, [listing |-> x.listing, buyer |-> w, amount |-> x.amount,
                                      tab |-> x.tab])
         /\ x.kind = "list" => \E i \in ListingIds : /\ i = NextListing /\ Made(i)'
                                                    /\ listings'[i].seller = w
                                                    /\ listings'[i].terms = x.terms
  <1>1. /\ owner' = owner /\ gaveUp \subseteq gaveUp' /\ gaveUp' \subseteq Tabs
        /\ deals \in Seq(DealType) /\ listings \in [ListingIds -> ListingType]
        /\ balance \in [Wallets -> Nat] /\ allowance \in [Wallets -> Nat]
    BY DEF Inv, Types, FaucetOK
  <1>2. /\ x.kind \in {"approve", "fund", "list", "cancel"}
        /\ x.amount \in Nat /\ x.tab \in Tabs
    BY DEF Tx
  <1>3. CASE x.kind = "approve"
    <2>1. allowance' = [allowance EXCEPT ![w] = x.amount] /\ UNCHANGED <<balance, listings, deals>>
      BY <1>3 DEF Execute
    <2> QED
      BY <1>1, <1>2, <1>3, <2>1, NothingNew
  <1>4. CASE x.kind = "fund"
    <2>1. /\ x.amount <= allowance[w] /\ x.amount <= balance[w]
          /\ x.listing \in ListingIds /\ listings[x.listing].state = "active"
      BY <1>4 DEF Succeeds, CanPull, TxOK, Made
    <2>2. /\ balance' = [balance EXCEPT ![w] = @ - x.amount]
          /\ allowance' = [allowance EXCEPT ![w] = @ - x.amount]
          /\ listings' = [listings EXCEPT ![x.listing].state = "sold"]
          /\ deals' = Append(deals, [listing |-> x.listing, buyer |-> w, amount |-> x.amount,
                                     tab |-> x.tab])
      BY <1>4 DEF Execute, Pull
    <2>3. balance' \in [Wallets -> Nat] /\ allowance' \in [Wallets -> Nat]
      BY <1>1, <1>2, <2>1, <2>2
    <2>4. [listing |-> x.listing, buyer |-> w, amount |-> x.amount, tab |-> x.tab] \in DealType
      BY <1>2, <2>1 DEF DealType
    <2>5. listings' \in [ListingIds -> ListingType]
      BY <1>1, <2>1, <2>2 DEF ListingType
    <2>6. deals' \in Seq(DealType) /\ Len(deals) <= Len(deals') /\ \A d \in DealIds : deals'[d] = deals[d]
      BY <1>1, <2>2, <2>4 DEF DealIds
    <2>7. GoesOn
      BY <1>1, <2>1, <2>2, <2>5, <2>6 DEF GoesOn, ListingType
    <2> QED
      BY <1>1, <1>4, <2>2, <2>3, <2>7
  <1>5. CASE x.kind = "list"
    <2>1. /\ NextListing \in ListingIds
          /\ x.terms.bond <= allowance[w] /\ x.terms.bond <= balance[w]
      BY <1>5 DEF Succeeds, CanPull
    <2>2. PICK n : n = NextListing
      OBVIOUS
    <2>3. n \in ListingIds /\ listings[n].state = "absent"
      BY <2>1, <2>2, NextIsFree
    <2>4. /\ balance' = [balance EXCEPT ![w] = @ - x.terms.bond]
          /\ allowance' = [allowance EXCEPT ![w] = @ - x.terms.bond]
          /\ listings' = [listings EXCEPT ![n] = [seller |-> w, terms |-> x.terms, state |-> "active"]]
          /\ deals' = deals
      BY <1>5, <2>2 DEF Execute, Pull
    <2>5. x.terms \in Terms /\ x.terms.bond \in Nat
      BY <1>5, CheckoutAssumption DEF TxOK, TermsType
    <2>6. balance' \in [Wallets -> Nat] /\ allowance' \in [Wallets -> Nat]
      BY <1>1, <2>1, <2>4, <2>5
    <2>7. listings' \in [ListingIds -> ListingType]
      BY <1>1, <2>3, <2>4, <2>5 DEF ListingType
    <2>8. GoesOn
      BY <1>1, <2>3, <2>4, <2>7 DEF GoesOn, DealIds
    <2>9. /\ listings'[n].state # "absent" /\ listings'[n].seller = w
          /\ listings'[n].terms = x.terms
      BY <1>1, <2>3, <2>4
    <2>10. \A v \in Wallets \ {w} : balance'[v] = balance[v] /\ allowance'[v] = allowance[v]
      BY <1>1, <2>4
    <2>11. Made(n)'
      BY <2>3, <2>9 DEF Made
    <2>12. \E i \in ListingIds : /\ i = NextListing /\ Made(i)'
                                /\ listings'[i].seller = w /\ listings'[i].terms = x.terms
      BY <2>2, <2>3, <2>9, <2>11
    <2> QED
      BY <1>5, <2>4, <2>6, <2>8, <2>10, <2>12
  <1>6. CASE x.kind = "cancel"
    <2>1. x.listing \in ListingIds /\ listings[x.listing].state = "active"
      BY <1>6 DEF Succeeds, TxOK, Made
    <2>2. /\ listings' = [listings EXCEPT ![x.listing].state = "cancelled"]
          /\ balance' = [balance EXCEPT ![w] = @ + listings[x.listing].terms.bond]
          /\ UNCHANGED <<deals, allowance>>
      BY <1>6 DEF Execute
    <2>3. listings[x.listing].terms.bond \in Nat
      BY <1>1, <2>1, CheckoutAssumption DEF ListingType, TermsType
    <2>4. balance' \in [Wallets -> Nat]
      BY <1>1, <2>2, <2>3
    <2>5. listings' \in [ListingIds -> ListingType]
      BY <1>1, <2>1, <2>2 DEF ListingType
    <2>6. GoesOn
      BY <1>1, <2>1, <2>2, <2>5 DEF GoesOn, ListingType, DealIds
    <2> QED
      BY <1>1, <1>6, <2>2, <2>4, <2>6
  <1> QED
    BY <1>2, <1>3, <1>4, <1>5, <1>6

\* The refunds are amounts.
LEMMA RefundsAre ==
  ASSUME Types, NEW w
  PROVE  /\ \A i \in ListingIds : listings[i].terms.bond \in Nat
         /\ Refunds(w) \in [1 .. MaxListings -> Nat] /\ Total(Refunds(w), MaxListings) \in Nat
  <1>1. MaxListings \in Nat
    BY CheckoutAssumption
  <1>2. \A i \in ListingIds : listings[i].terms.bond \in Nat
    BY CheckoutAssumption DEF Types, ListingType, TermsType
  <1>3. Refunds(w) \in [1 .. MaxListings -> Nat]
    BY <1>2 DEF Refunds, ListingIds
  <1> QED
    BY <1>1, <1>2, <1>3, TotalNat

\* What a wallet may come with is an amount.
LEMMA PursesHold ==
  ASSUME NEW w \in Wallets
  PROVE  InitialBalances(w) \subseteq Nat
  <1>1. \A purse \in Purses : purse[w] \in Nat
    BY CheckoutAssumption
  <1> QED
    BY <1>1 DEF InitialBalances

\* The bound on a balance survives whatever takes from the balance and cancels no listing.
LEMMA StillBounded ==
  ASSUME FaucetBounded, NEW w \in Wallets, balance'[w] + minting'[w] * GRANT <= balance[w] + minting[w] * GRANT,
         balance'[w] + minting'[w] * GRANT \in Int, balance[w] + minting[w] * GRANT \in Int,
         Types, Refunds(w)' = Refunds(w)
  PROVE  \E enough \in InitialBalances(w) \cup {TARGET} :
           balance'[w] + minting'[w] * GRANT <=
             enough + MaxRequests * GRANT + Total(Refunds(w), MaxListings)'
  <1>1. PICK enough \in InitialBalances(w) \cup {TARGET} :
               balance[w] + minting[w] * GRANT <=
                 enough + MaxRequests * GRANT + Total(Refunds(w), MaxListings)
    BY DEF FaucetBounded
  <1>2. PICK c \in Int : c = MaxRequests * GRANT
    BY FaucetAssumption
  <1>3. enough \in Int /\ Total(Refunds(w), MaxListings) \in Int
    BY RefundsAre, PursesHold, FaucetAssumption
  <1>4. PICK a \in Int, b \in Int : a = balance'[w] + minting'[w] * GRANT /\ b = balance[w] + minting[w] * GRANT
    OBVIOUS
  <1>5. a <= enough + c + Total(Refunds(w), MaxListings)
    BY <1>1, <1>2, <1>3, <1>4
  <1>6. Total(Refunds(w), MaxListings)' = Total(Refunds(w), MaxListings)
    OBVIOUS
  <1> QED
    BY <1>2, <1>4, <1>5, <1>6

\* A transaction keeps the faucet's bound: the bond of a cancelled listing comes back to its seller.
LEMMA ExecutedBounded ==
  ASSUME Inv, NEW w \in Wallets, NEW x \in Tx, TxOK(w, x), Succeeds(w, x), Execute(w, x),
         UNCHANGED <<owner, gaveUp, reading, minting>>
  PROVE  FaucetOK'
  <1>1. /\ x.kind \in {"approve", "fund", "list", "cancel"} /\ x.amount \in Nat
        /\ Types /\ FaucetBounded
        /\ balance \in [Wallets -> Nat] /\ balance' \in [Wallets -> Nat]
        /\ minting \in [Wallets -> Nat]
        /\ minting' = minting /\ reading' = reading
    BY Executed DEF Tx, Inv, FaucetOK
  <1>2. \A v \in Wallets : minting[v] * GRANT \in Int
    BY <1>1, FaucetAssumption
  <1>3. /\ \A v \in Wallets : balance[v] + minting[v] * GRANT \in Int
        /\ \A v \in Wallets : balance'[v] + minting'[v] * GRANT \in Int
    BY <1>1, <1>2
  <1>4. CASE x.kind # "cancel"
    <2>1. \A v \in Wallets : balance'[v] <= balance[v]
      <3>1. CASE x.kind = "approve"
        BY <1>1, <3>1 DEF Execute
      <3>2. CASE x.kind = "fund"
        <4>1. balance' = [balance EXCEPT ![w] = @ - x.amount]
          BY <3>2 DEF Execute, Pull
        <4> QED
          BY <1>1, <4>1
      <3>3. CASE x.kind = "list"
        <4>1. x.terms.bond \in Nat
          BY <3>3, CheckoutAssumption DEF TxOK, TermsType
        <4>2. balance' = [balance EXCEPT ![w] = @ - x.terms.bond]
          BY <3>3 DEF Execute, Pull
        <4> QED
          BY <1>1, <4>1, <4>2
      <3> QED
        BY <1>1, <1>4, <3>1, <3>2, <3>3
    <2>2. \A v : Refunds(v)' = Refunds(v)
      <3>1. CASE x.kind = "approve"
        BY <3>1 DEF Execute, Refunds
      <3>2. CASE x.kind = "fund"
        <4>1. /\ listings[x.listing].state = "active" /\ x.listing \in ListingIds
              /\ listings' = [listings EXCEPT ![x.listing].state = "sold"]
          BY <3>2 DEF Succeeds, Execute, TxOK, Made
        <4>2. \A i \in ListingIds : i # x.listing => listings'[i] = listings[i]
          BY <4>1
        <4>3. listings'[x.listing].state = "sold"
          BY <1>1, <4>1 DEF Types, ListingType
        <4> QED
          BY <4>1, <4>2, <4>3 DEF Refunds
      <3>3. CASE x.kind = "list"
        <4>1. PICK n : n = NextListing
          OBVIOUS
        <4>2. /\ n \in ListingIds /\ listings[n].state = "absent"
              /\ listings' = [listings EXCEPT ![n] = [seller |-> w, terms |-> x.terms, state |-> "active"]]
          BY <3>3, <4>1, NextIsFree DEF Succeeds, Execute
        <4>3. \A i \in ListingIds : i # n => listings'[i] = listings[i]
          BY <4>2
        <4>4. listings'[n].state = "active"
          BY <1>1, <4>2 DEF Types
        <4> QED
          BY <4>2, <4>3, <4>4 DEF Refunds
      <3> QED
        BY <1>1, <1>4, <3>1, <3>2, <3>3
    <2>3. \A v \in Wallets : balance'[v] + minting'[v] * GRANT <= balance[v] + minting[v] * GRANT
      BY <1>1, <1>2, <2>1
    <2>4. FaucetBounded'
      BY <1>1, <1>3, <2>2, <2>3, StillBounded DEF FaucetBounded
    <2> QED
      BY <1>1, <2>4 DEF Inv, FaucetOK
  <1>5. CASE x.kind = "cancel"
    <2>1. PICK i : i = x.listing
      OBVIOUS
    <2>2. /\ i \in ListingIds /\ listings[i].state = "active" /\ listings[i].seller = w
          /\ listings' = [listings EXCEPT ![i].state = "cancelled"]
          /\ balance' = [balance EXCEPT ![w] = @ + listings[i].terms.bond]
      BY <1>5, <2>1 DEF Succeeds, Execute, TxOK, Made
    <2>3. /\ \A k \in ListingIds : k # i => listings'[k] = listings[k]
          /\ listings'[i].state = "cancelled" /\ listings'[i].seller = w
          /\ listings'[i].terms = listings[i].terms
      BY <1>1, <2>2 DEF Types, ListingType
    <2>4. ASSUME NEW v \in Wallets, v # w
          PROVE  balance'[v] = balance[v] /\ Refunds(v)' = Refunds(v)
      BY <1>1, <2>2, <2>3, <2>4 DEF Refunds
    <2>5. \E enough \in InitialBalances(w) \cup {TARGET} :
            balance'[w] + minting'[w] * GRANT <=
              enough + MaxRequests * GRANT + Total(Refunds(w), MaxListings)'
      <3>1. PICK enough \in InitialBalances(w) \cup {TARGET} :
                   balance[w] + minting[w] * GRANT <=
                     enough + MaxRequests * GRANT + Total(Refunds(w), MaxListings)
        BY <1>1 DEF FaucetBounded
      <3>2. PICK old, new : old = Refunds(w) /\ new = Refunds(w)'
        OBVIOUS
      <3>3. old \in [1 .. MaxListings -> Int] /\ Total(old, MaxListings) \in Int
        BY <1>1, <3>2, RefundsAre
      <3>4. /\ \A k \in 1 .. MaxListings : k # i => new[k] = old[k]
            /\ old[i] = 0 /\ new[i] = listings[i].terms.bond /\ i \in 1 .. MaxListings
        BY <2>2, <2>3, <3>2 DEF Refunds, ListingIds
      <3>5. listings[i].terms.bond \in Nat
        BY <1>1, <2>2, RefundsAre
      <3>6. new \in [1 .. MaxListings -> Int]
        <4>1. DOMAIN new = 1 .. MaxListings /\ new = [k \in 1 .. MaxListings |-> new[k]]
          BY <3>2 DEF Refunds, ListingIds
        <4>2. \A k \in 1 .. MaxListings : new[k] \in Int
          BY <3>3, <3>4, <3>5
        <4> QED
          BY <4>1, <4>2
      <3>7. Total(new, MaxListings) = Total(old, MaxListings) + listings[i].terms.bond
        <4>1. Total(new, MaxListings) = Total(old, MaxListings) - old[i] + new[i]
          BY <3>3, <3>4, <3>6, CheckoutAssumption, TotalChanges
        <4> QED
          BY <3>3, <3>4, <3>5, <4>1
      <3>8. enough \in Int /\ MaxRequests * GRANT \in Int
        BY PursesHold, FaucetAssumption
      <3>9. balance'[w] = balance[w] + listings[i].terms.bond
        BY <1>1, <2>2
      <3>10. Total(Refunds(w), MaxListings)' = Total(new, MaxListings)
        BY <3>2
      <3>11. PICK b \in Int, m \in Int, c \in Int, r \in Int, d \in Int :
                    /\ b = balance[w] /\ m = minting[w] * GRANT /\ c = MaxRequests * GRANT
                    /\ r = Total(old, MaxListings) /\ d = listings[i].terms.bond
        <4>1. /\ balance[w] \in Int /\ minting[w] * GRANT \in Int /\ MaxRequests * GRANT \in Int
              /\ Total(old, MaxListings) \in Int /\ listings[i].terms.bond \in Int
          BY <1>1, <1>2, <3>3, <3>5, <3>8
        <4> QED
          BY ONLY <4>1, Zenon
      <3>12. b + m <= enough + c + r
        BY <3>1, <3>2, <3>11
      <3>13. b + d + m <= enough + c + (r + d)
        BY <3>8, <3>11, <3>12
      <3> QED
        BY <1>1, <3>7, <3>9, <3>10, <3>11, <3>13
    <2>6. ASSUME NEW v \in Wallets
          PROVE  \E enough \in InitialBalances(v) \cup {TARGET} :
                   balance'[v] + minting'[v] * GRANT <=
                     enough + MaxRequests * GRANT + Total(Refunds(v), MaxListings)'
      <3>1. CASE v = w
        BY <2>5, <3>1
      <3>2. CASE v # w
        <4>1. balance'[v] + minting'[v] * GRANT <= balance[v] + minting[v] * GRANT
          BY <1>1, <1>3, <2>4, <3>2
        <4> QED
          BY <1>1, <1>3, <2>4, <3>2, <4>1, StillBounded
      <3> QED
        BY <3>1, <3>2
    <2> QED
      BY <1>1, <2>6 DEF Inv, FaucetOK, FaucetBounded
  <1> QED
    BY <1>4, <1>5

\* When the oldest transaction of a wallet is included, the others move up.
LEMMA MovesUp ==
  ASSUME Inv, NEW w \in Wallets, mempool[w] # <<>>,
         mempool' = [mempool EXCEPT ![w] = Tail(@)]
  PROVE  /\ mempool' \in [Wallets -> Seq(Tx)]
         /\ 1 \in DOMAIN mempool[w] /\ Head(mempool[w]) = mempool[w][1]
         /\ \A v \in Wallets : \A n \in DOMAIN mempool'[v] :
              /\ v = w => n \in Nat /\ n + 1 \in DOMAIN mempool[w] /\ n + 1 # 1
                          /\ mempool'[w][n] = mempool[w][n + 1]
              /\ v # w => n \in DOMAIN mempool[v] /\ mempool'[v][n] = mempool[v][n]
  <1>1. PICK q \in Seq(Tx) : q = mempool[w] /\ q # <<>>
    BY DEF Inv, Types
  <1>2. /\ Tail(q) \in Seq(Tx) /\ 1 \in DOMAIN q /\ Head(q) = q[1]
        /\ \A n \in DOMAIN Tail(q) : n \in Nat /\ n + 1 \in DOMAIN q /\ n + 1 # 1 /\ Tail(q)[n] = q[n + 1]
    BY <1>1
  <1>3. /\ mempool' \in [Wallets -> Seq(Tx)] /\ mempool'[w] = Tail(q)
        /\ \A v \in Wallets : v # w => mempool'[v] = mempool[v]
    BY <1>1, <1>2 DEF Inv, Types
  <1> QED
    BY <1>1, <1>2, <1>3

\* No more transactions are without a page than before.
LEMMA NoMoreOrphans ==
  ASSUME Inv, NEW w \in Wallets, mempool[w] # <<>>,
         mempool' = [mempool EXCEPT ![w] = Tail(@)]
  PROVE  (IsFiniteSet(Orphans) /\ Cardinality(Orphans) <= MaxOrphans)'
  <1> DEFINE f == [r \in Orphans' |-> IF r[1] = w THEN <<w, r[2] + 1>> ELSE r]
  <1>1. ASSUME NEW r \in Orphans'
        PROVE  \E v \in Wallets : \E n \in DOMAIN mempool'[v] :
                 r = <<v, n>> /\ ~mempool'[v][n].awaited
    BY DEF Orphans
  <1>2. ASSUME NEW r \in Orphans'
        PROVE  (r[1] = w => r[2] \in Nat /\ r = <<w, r[2]>>) /\ f[r] \in Orphans
    <2>1. PICK v \in Wallets : \E n \in DOMAIN mempool'[v] : r = <<v, n>> /\ ~mempool'[v][n].awaited
      BY <1>1
    <2>2. PICK n \in DOMAIN mempool'[v] : r = <<v, n>> /\ ~mempool'[v][n].awaited
      BY <2>1
    <2>3. CASE v = w
      <3>1. n \in Nat /\ n + 1 \in DOMAIN mempool[w] /\ mempool'[w][n] = mempool[w][n + 1]
        BY <2>3, MovesUp
      <3>2. <<w, n + 1>> \in Orphans
        BY <2>2, <2>3, <3>1, OrphansAre
      <3> QED
        BY <2>2, <2>3, <3>1, <3>2
    <2>4. CASE v # w
      <3>1. n \in DOMAIN mempool[v] /\ mempool'[v][n] = mempool[v][n]
        BY <2>4, MovesUp
      <3>2. <<v, n>> \in Orphans
        BY <2>2, <3>1, OrphansAre
      <3> QED
        BY <2>2, <2>4, <3>2
    <2> QED
      BY <2>3, <2>4
  <1>3. ASSUME NEW r \in Orphans', NEW s \in Orphans', f[r] = f[s]
        PROVE  r = s
    <2>1. CASE r[1] = w /\ s[1] = w
      <3>1. PICK m \in Nat, n \in Nat : r = <<w, m>> /\ s = <<w, n>>
        BY <1>2, <2>1
      <3>2. <<w, m + 1>> = <<w, n + 1>>
        BY <1>3, <3>1
      <3> QED
        BY <3>1, <3>2
    <2>2. CASE r[1] = w /\ s[1] # w
      <3>1. f[r] = <<w, r[2] + 1>> /\ f[s] = s
        BY <2>2
      <3> QED
        BY <1>3, <2>2, <3>1
    <2>3. CASE r[1] # w /\ s[1] = w
      <3>1. f[s] = <<w, s[2] + 1>> /\ f[r] = r
        BY <2>3
      <3> QED
        BY <1>3, <2>3, <3>1
    <2>4. CASE r[1] # w /\ s[1] # w
      BY <1>3, <2>4
    <2> QED
      BY <2>1, <2>2, <2>3, <2>4
  <1>4. f \in Injection(Orphans', Orphans)
    <2>1. f \in [Orphans' -> Orphans]
      BY <1>2
    <2> HIDE DEF f
    <2> QED
      BY <1>3, <2>1 DEF Injection, IsInjective
  <1> HIDE DEF f
  <1>5. IsFiniteSet(Orphans') /\ Cardinality(Orphans') <= Cardinality(Orphans)
    BY <1>4, FS_Injection DEF Inv
  <1>6. Cardinality(Orphans') \in Nat /\ Cardinality(Orphans) \in Nat /\ MaxOrphans \in Nat
    BY <1>5, FS_CardinalityType, CheckoutAssumption DEF Inv
  <1> QED
    BY <1>5, <1>6 DEF Inv

\* The id e that the receipt of transaction x carries is that of the deal or listing it made; a
\* receipt without an id made no deal.
EventSays(w, x, e) ==
  \/ /\ deals' = deals
     /\ e # 0 => /\ x.kind = "list" /\ e \in ListingIds /\ Made(e)'
                 /\ listings'[e].seller = w /\ listings'[e].terms = x.terms
  \/ /\ x.kind = "fund" /\ e = Len(deals) + 1
     /\ deals' = Append(deals, [listing |-> x.listing, buyer |-> w, amount |-> x.amount,
                                tab |-> x.tab])

\* What a block does with the oldest transaction of a wallet, and what its receipt says.
LEMMA InBlock ==
  ASSUME Inv, NEW w \in Wallets, NEW x \in Tx, NEW e, TxOK(w, x), e = EventId(w, x),
         \/ Succeeds(w, x) /\ Execute(w, x)
         \/ ~Succeeds(w, x) /\ UNCHANGED <<balance, listings, deals, allowance>>,
         UNCHANGED <<owner, gaveUp, reading, minting>>
  PROVE  /\ GoesOn /\ FaucetOK' /\ allowance' \in [Wallets -> Nat] /\ e \in Nat
         /\ \A v \in Wallets \ {w} : balance'[v] = balance[v] /\ allowance'[v] = allowance[v]
         /\ x.kind = "approve" => balance' = balance /\ allowance'[w] = x.amount /\ e = 0
         /\ EventSays(w, x, e)
  <1>1. CASE ~Succeeds(w, x)
    <2>1. UNCHANGED <<balance, listings, deals, allowance, owner, gaveUp, reading, minting>>
      BY <1>1
    <2>2. e = 0
      BY <1>1 DEF EventId
    <2>3. x.kind # "approve"
      BY <1>1 DEF Succeeds
    <2>4. GoesOn
      BY <2>1, NothingNew DEF Inv, Types
    <2>5. FaucetOK'
      BY <2>1 DEF Inv, FaucetOK, FaucetBounded, Refunds
    <2> QED
      BY <2>1, <2>2, <2>3, <2>4, <2>5 DEF Inv, Types, EventSays
  <1>2. CASE Succeeds(w, x)
    <2>1. Execute(w, x)
      BY <1>2
    <2>2. FaucetOK'
      BY <1>2, <2>1, ExecutedBounded
    <2>3. /\ GoesOn /\ allowance' \in [Wallets -> Nat]
          /\ \A v \in Wallets \ {w} : balance'[v] = balance[v] /\ allowance'[v] = allowance[v]
          /\ x.kind = "approve" => balance' = balance /\ allowance'[w] = x.amount
          /\ x.kind # "fund" => deals' = deals
          /\ x.kind = "fund" =>
               deals' = Append(deals, [listing |-> x.listing, buyer |-> w, amount |-> x.amount,
                                       tab |-> x.tab])
          /\ x.kind = "list" => \E i \in ListingIds : /\ i = NextListing /\ Made(i)'
                                                     /\ listings'[i].seller = w
                                                     /\ listings'[i].terms = x.terms
      BY <1>2, <2>1, Executed
    <2>4. x.kind \in {"approve", "fund", "list", "cancel"}
      BY DEF Tx
    <2>5. CASE x.kind = "fund"
      <3>1. e = Len(deals) + 1 /\ Len(deals) \in Nat
        BY <1>2, <2>5 DEF EventId, Inv, Types
      <3> QED
        BY <2>2, <2>3, <2>5, <3>1 DEF EventSays
    <2>6. CASE x.kind = "list"
      <3>1. e = NextListing
        BY <1>2, <2>6 DEF EventId
      <3>2. e \in ListingIds /\ Made(e)' /\ listings'[e].seller = w /\ listings'[e].terms = x.terms
        BY <2>3, <2>6, <3>1
      <3>3. e \in Nat
        BY <3>2 DEF ListingIds
      <3> QED
        BY <2>2, <2>3, <2>6, <3>2, <3>3 DEF EventSays
    <2>7. CASE x.kind \in {"approve", "cancel"}
      <3>1. e = 0
        BY <1>2, <2>7 DEF EventId
      <3> QED
        BY <2>2, <2>3, <2>7, <3>1 DEF EventSays
    <2> QED
      BY <2>4, <2>5, <2>6, <2>7
  <1> QED
    BY <1>1, <1>2

\* What the receipt of transaction x, with id e, makes of the call that waits for it.
WithReceipt(p, x, e) ==
  [p EXCEPT !.at = IF x.kind = "approve" THEN "send" ELSE "mined", !.got = e]

\* The call that waits for a receipt and gets it goes on as it should.
LEMMA ReceiptRead ==
  ASSUME Inv, NEW w \in Wallets, NEW x \in Tx, NEW e \in Nat, TxOK(w, x), GoesOn,
         NEW u \in Tabs, u = x.tab, Awaits(job[u], x),
         x.kind = "approve" => e = 0,
         EventSays(w, x, e),
         NEW p, p = WithReceipt(job[u], x, e)
  PROVE  /\ p \in JobType /\ CallOK(u, p)'
         /\ p.kind = job[u].kind /\ p.listing = job[u].listing /\ p.terms = job[u].terms
         /\ p.need = job[u].need /\ p.got = e
         /\ p.at = IF x.kind = "approve" THEN "send" ELSE "mined"
  <1>1. PICK old : old = job[u]
    OBVIOUS
  <1>2. old \in JobType /\ CallOK(u, old) /\ Awaits(old, x)
    BY <1>1 DEF Inv, Types
  <1>3. p = [old EXCEPT !.at = IF x.kind = "approve" THEN "send" ELSE "mined", !.got = e]
    BY <1>1 DEF WithReceipt
  <1>4. /\ p \in JobType
        /\ p.kind = old.kind /\ p.listing = old.listing /\ p.terms = old.terms
        /\ p.need = old.need /\ p.got = e
        /\ p.at = IF x.kind = "approve" THEN "send" ELSE "mined"
    BY <1>2, <1>3 DEF JobType
  <1>5. CallOK(u, old)'
    BY <1>2, CallStays
  <1>6. owner'[u] = w
    BY DEF TxOK, GoesOn
  <1>7. ASSUME p.at = "mined", e # 0
        PROVE  \/ /\ p.kind = "fund" /\ e \in DealIds'
                  /\ deals'[e].buyer = owner'[u] /\ deals'[e].listing = p.listing
               \/ /\ p.kind = "list" /\ Made(e)'
                  /\ listings'[e].seller = owner'[u] /\ listings'[e].terms = p.terms
    <2>1. CASE x.kind = "list" /\ Made(e)' /\ listings'[e].seller = w /\ listings'[e].terms = x.terms
      BY <1>2, <1>4, <1>6, <2>1 DEF Awaits
    <2>2. CASE x.kind = "fund" /\ e = Len(deals) + 1
               /\ deals' = Append(deals, [listing |-> x.listing, buyer |-> w, amount |-> x.amount,
                                          tab |-> x.tab])
      <3>1. e \in DealIds' /\ deals'[e].buyer = w /\ deals'[e].listing = x.listing
        BY <2>2 DEF DealIds, Inv, Types
      <3> QED
        BY <1>2, <1>4, <1>6, <2>2, <3>1 DEF Awaits
    <2> QED
      BY <1>7, <2>1, <2>2 DEF EventSays
  <1>8. old.at # "idle" /\ (x.kind = "approve" => old.kind # "cancel")
    BY <1>2 DEF Awaits, CallOK
  <1>9. CallOK(u, p)'
    BY <1>4, <1>5, <1>7, <1>8, <1>2 DEF CallOK, Awaits
  <1> QED
    BY <1>1, <1>4, <1>9

\* A block keeps the invariant.
LEMMA Included ==
  ASSUME Inv, NEW w \in Wallets, Include(w)
  PROVE  Inv'
  <1>1. /\ mempool[w] # <<>> /\ mempool' = [mempool EXCEPT ![w] = Tail(@)]
        /\ UNCHANGED <<reading, minting, owner, page, told, gaveUp>>
    BY DEF Include
  <1>2. PICK x : x = mempool[w][1]
    OBVIOUS
  <1>3. /\ x = Head(mempool[w]) /\ x \in Tx /\ 1 \in DOMAIN mempool[w] /\ TxOK(w, x)
        /\ x.awaited => Awaits(job[x.tab], x)
        /\ ~x.awaited => x.tab \in gaveUp
    BY <1>1, <1>2, MovesUp DEF Inv, Types, SentOK
  <1>4. PICK e : e = EventId(w, x)
    OBVIOUS
  <1>5. PICK u : u = x.tab
    OBVIOUS
  <1>6. PICK p : p = WithReceipt(job[u], x, e)
    OBVIOUS
  <1>7. /\ \/ Succeeds(w, x) /\ Execute(w, x)
           \/ ~Succeeds(w, x) /\ UNCHANGED <<balance, listings, deals, allowance>>
        /\ job' = IF ~x.awaited THEN job
                  ELSE [job EXCEPT ![u].at = IF x.kind = "approve" THEN "send" ELSE "mined",
                                   ![u].got = e]
    BY <1>3, <1>4, <1>5 DEF Include
  <1>8. /\ GoesOn /\ FaucetOK' /\ allowance' \in [Wallets -> Nat] /\ e \in Nat
        /\ \A v \in Wallets \ {w} : balance'[v] = balance[v] /\ allowance'[v] = allowance[v]
        /\ x.kind = "approve" => balance' = balance /\ allowance'[w] = x.amount /\ e = 0
        /\ EventSays(w, x, e)
    BY <1>1, <1>3, <1>4, <1>7, InBlock
  <1>9. u \in Tabs /\ owner[u] = w
    BY <1>3, <1>5 DEF Tx, TxOK
  <1>10. ASSUME x.awaited
         PROVE  /\ p \in JobType /\ job' = [job EXCEPT ![u] = p]
                /\ p.kind = job[u].kind /\ p.listing = job[u].listing /\ p.terms = job[u].terms
                /\ p.need = job[u].need /\ p.got = e
                /\ p.at = IF x.kind = "approve" THEN "send" ELSE "mined"
    <2>2. Awaits(job[u], x)
      BY <1>3, <1>5, <1>10
    <2>3. job' = [job EXCEPT ![u] = p]
      BY <1>6, <1>7, <1>9, <1>10 DEF Inv, Types, WithReceipt
    <2> QED
      BY <1>3, <1>5, <1>6, <1>8, <1>9, <2>2, <2>3, ReceiptRead
  <1>11. ~x.awaited => job' = job
    BY <1>7
  <1>12. mempool' \in [Wallets -> Seq(Tx)]
    BY <1>1, MovesUp
  <1>13. Types'
    <2>1. job' \in [Tabs -> JobType]
      BY <1>9, <1>10, <1>11 DEF Inv, Types
    <2>2. told' \subseteq DealIds'
      BY <1>1, <1>8, DealStays DEF Inv, Types
    <2> QED
      BY <1>1, <1>8, <1>12, <2>1, <2>2 DEF Inv, Types, GoesOn
  <1>14. (\A t \in Tabs : CallOK(t, job[t]) /\ PageOK(t, page[t]))'
    <2>1. ASSUME NEW t \in Tabs, NEW q, NEW g, q = job[t], g = page[t]
          PROVE  CallOK(t, q)' /\ PageOK(t, g)'
      BY <1>8, <2>1, CallStays, PageStays DEF Inv
    <2>2. ASSUME x.awaited
          PROVE  CallOK(u, p)'
      <3>1. Awaits(job[u], x)
        BY <1>3, <1>5, <2>2
      <3> QED
        BY <1>3, <1>5, <1>6, <1>8, <1>9, <2>2, <3>1, ReceiptRead
    <2>3. ASSUME NEW t \in Tabs
          PROVE  (CallOK(t, job[t]) /\ PageOK(t, page[t]))'
      <3>1. CASE t = u /\ x.awaited
        <4>1. job'[u] = p
          BY <1>9, <1>10, <3>1 DEF Inv, Types
        <4> QED
          BY <1>1, <2>1, <2>2, <3>1, <4>1
      <3>2. CASE ~(t = u /\ x.awaited)
        <4>1. job'[t] = job[t]
          BY <1>10, <1>11, <3>2 DEF Inv, Types
        <4> QED
          BY <1>1, <2>1, <4>1
      <3> QED
        BY <3>1, <3>2
    <2> QED
      BY <2>3
  <1>15. ASSUME NEW v \in Wallets, NEW n \in DOMAIN mempool'[v]
         PROVE  \E k \in DOMAIN mempool[v] :
                  /\ mempool'[v][n] = mempool[v][k] /\ k = (IF v = w THEN n + 1 ELSE n)
                  /\ x.awaited /\ mempool[v][k].awaited => mempool[v][k].tab # u
    <2>1. PICK k \in DOMAIN mempool[v] :
                 /\ mempool'[v][n] = mempool[v][k] /\ k = (IF v = w THEN n + 1 ELSE n)
                 /\ v = w => k # 1
      <3>1. CASE v = w
        <4>1. /\ n \in Nat /\ n + 1 \in DOMAIN mempool[w] /\ n + 1 # 1
              /\ mempool'[w][n] = mempool[w][n + 1]
          BY <1>1, <3>1, MovesUp
        <4> QED
          BY <3>1, <4>1
      <3>2. CASE v # w
        <4>1. n \in DOMAIN mempool[v] /\ mempool'[v][n] = mempool[v][n]
          BY <1>1, <3>2, MovesUp
        <4> QED
          BY <3>2, <4>1
      <3> QED
        BY <3>1, <3>2
    <2>2. x.awaited /\ mempool[v][k].awaited => mempool[v][k].tab # u
      BY <1>2, <1>3, <1>5, <2>1 DEF Inv, OneAtATime
    <2> QED
      BY <2>1, <2>2
  <1>16. (\A v \in Wallets : \A n \in DOMAIN mempool[v] : SentOK(v, n))'
    <2> SUFFICES ASSUME NEW v \in Wallets, NEW n \in (DOMAIN mempool[v])'
                 PROVE  SentOK(v, n)'
      OBVIOUS
    <2>1. PICK k \in DOMAIN mempool[v] :
                 /\ mempool'[v][n] = mempool[v][k]
                 /\ x.awaited /\ mempool[v][k].awaited => mempool[v][k].tab # u
      BY <1>15
    <2>2. PICK y : y = mempool[v][k]
      OBVIOUS
    <2>3. TxOK(v, y) /\ y \in Tx
      BY <2>2 DEF Inv, Types, SentOK
    <2>4. TxOK(v, y)'
      BY <1>8, <2>3, TxStays
    <2>5. y.awaited => Awaits(job'[y.tab], y)
      <3>1. y.awaited => job'[y.tab] = job[y.tab]
        BY <1>9, <1>10, <1>11, <2>1, <2>2, <2>3 DEF Inv, Types, Tx
      <3> QED
        BY <2>2, <3>1 DEF Inv, SentOK
    <2>6. ~y.awaited => y.tab \in gaveUp
      BY <2>2 DEF Inv, SentOK
    <2> QED
      BY <1>1, <2>1, <2>2, <2>4, <2>5, <2>6 DEF SentOK
  <1>17. OneAtATime'
    <2> SUFFICES ASSUME NEW v \in Wallets, NEW z \in Wallets,
                        NEW m \in DOMAIN mempool'[v], NEW n \in DOMAIN mempool'[z],
                        mempool'[v][m].awaited, mempool'[z][n].awaited,
                        mempool'[v][m].tab = mempool'[z][n].tab
                 PROVE  v = z /\ m = n
      BY DEF OneAtATime
    <2>1. PICK j \in DOMAIN mempool[v] :
                 mempool'[v][m] = mempool[v][j] /\ j = (IF v = w THEN m + 1 ELSE m)
      BY <1>15
    <2>2. PICK k \in DOMAIN mempool[z] :
                 mempool'[z][n] = mempool[z][k] /\ k = (IF z = w THEN n + 1 ELSE n)
      BY <1>15
    <2>3. v = z /\ j = k
      BY <2>1, <2>2 DEF Inv, OneAtATime
    <2>4. m \in Nat /\ n \in Nat
      <3>1. mempool'[v] \in Seq(Tx) /\ mempool'[z] \in Seq(Tx)
        BY <1>12
      <3> QED
        BY <3>1
    <2> QED
      BY <2>1, <2>2, <2>3, <2>4
  <1>18. (\A d \in DealIds : DealOK(d))'
    <2> SUFFICES ASSUME NEW d \in DealIds' PROVE DealOK(d)'
      OBVIOUS
    <2>1. CASE d \in DealIds
      <3>1. DealOK(d) /\ deals'[d] = deals[d]
        BY <1>8, <2>1, DealStays DEF Inv
      <3>2. PICK i : i = deals[d].listing
        OBVIOUS
      <3>3. Made(i) /\ deals[d].amount = Quoted(i)
        BY <3>1, <3>2 DEF DealOK
      <3>4. Made(i)' /\ Quoted(i)' = Quoted(i)
        BY <1>8, <3>3, MadeStays
      <3>5. deals[d].tab \in Tabs
        <4>1. deals[d] \in DealType
          BY <2>1 DEF Inv, Types, DealIds
        <4> QED
          BY <4>1 DEF DealType
      <3>6. d \notin told /\ deals[d].tab \notin gaveUp => AboutToTell(job'[deals[d].tab], d)
        <4>1. CASE x.awaited /\ deals[d].tab = u
          BY <1>3, <1>5, <3>1, <4>1 DEF DealOK, AboutToTell, Awaits
        <4>2. CASE ~(x.awaited /\ deals[d].tab = u)
          <5>1. job'[deals[d].tab] = job[deals[d].tab]
            BY <1>9, <1>10, <1>11, <3>5, <4>2 DEF Inv, Types
          <5> QED
            BY <3>1, <5>1 DEF DealOK
        <4> QED
          BY <4>1, <4>2
      <3> QED
        BY <1>1, <3>1, <3>2, <3>3, <3>4, <3>6 DEF DealOK
    <2>2. CASE d \notin DealIds
      <3>1. /\ x.kind = "fund" /\ e = Len(deals) + 1 /\ d = e
            /\ deals'[d] = [listing |-> x.listing, buyer |-> w, amount |-> x.amount, tab |-> x.tab]
        BY <1>8, <2>2 DEF DealIds, Inv, Types, EventSays
      <3>2. Made(x.listing) /\ x.amount = Quoted(x.listing)
        BY <1>3, <3>1 DEF TxOK
      <3>3. Made(x.listing)' /\ Quoted(x.listing)' = Quoted(x.listing)
        BY <1>8, <3>2, MadeStays
      <3>4. x.tab \notin gaveUp => AboutToTell(job'[x.tab], d)
        <4>1. x.tab \notin gaveUp => x.awaited
          BY <1>3
        <4>2. ASSUME x.awaited
              PROVE  AboutToTell(job'[x.tab], d)
          <5>1. job[u].kind = "fund"
            BY <1>3, <1>5, <3>1, <4>2 DEF Awaits
          <5>2. job'[u] = p
            BY <1>9, <1>10, <4>2 DEF Inv, Types
          <5>3. p.at = "mined" /\ p.kind = "fund" /\ p.got = d
            BY <1>10, <3>1, <4>2, <5>1
          <5> QED
            BY <1>5, <5>2, <5>3 DEF AboutToTell
        <4> QED
          BY <4>1, <4>2
      <3> QED
        BY <1>1, <3>1, <3>2, <3>3, <3>4 DEF DealOK
    <2> QED
      BY <2>1, <2>2
  <1>19. (\A t \in Tabs : Sole(t) => Funded(t, job[t]))'
    <2> SUFFICES ASSUME NEW t \in Tabs, Sole(t)' PROVE Funded(t, job[t])'
      OBVIOUS
    <2>1. Sole(t) /\ Funded(t, job[t])
      BY <1>8, SoleBefore DEF Inv
    <2>2. CASE t = u
      <3>1. x.awaited /\ Awaits(job[u], x)
        BY <1>3, <1>5, <2>1, <2>2 DEF Sole
      <3>2. job'[u] = p
        BY <1>9, <1>10, <3>1 DEF Inv, Types
      <3>3. CASE x.kind = "approve"
        <4>1. p.at = "send" /\ p.need = job[u].need /\ x.amount = job[u].need
              /\ job[u].at = "approving"
          BY <1>9, <1>10, <3>1, <3>3 DEF Awaits, Inv, Types, JobType
        <4>2. balance[w] >= p.need
          BY <1>9, <2>1, <2>2, <4>1 DEF Funded
        <4>3. allowance'[w] >= p.need
          <5>1. x.amount \in Nat
            BY <1>3 DEF Tx
          <5> QED
            BY <1>8, <3>3, <4>1, <5>1
        <4> QED
          BY <1>1, <1>8, <1>9, <2>2, <3>2, <3>3, <4>1, <4>2, <4>3 DEF Funded
      <3>4. CASE x.kind # "approve"
        <4>1. p.at = "mined"
          BY <1>10, <3>1, <3>4
        <4> QED
          BY <2>2, <3>2, <4>1 DEF Funded
      <3> QED
        BY <3>3, <3>4
    <2>3. CASE t # u
      <3>1. owner[t] # w /\ owner[t] \in Wallets
        BY <1>9, <2>1, <2>3 DEF Sole, Inv, Types
      <3>2. job'[t] = job[t]
        BY <1>10, <1>11, <2>3 DEF Inv, Types
      <3> QED
        BY <1>1, <1>8, <2>1, <3>1, <3>2 DEF Funded
    <2> QED
      BY <2>2, <2>3
  <1>20. (IsFiniteSet(Orphans) /\ Cardinality(Orphans) <= MaxOrphans)'
    BY <1>1, NoMoreOrphans
  <1> QED
    BY <1>8, <1>13, <1>14, <1>16, <1>17, <1>18, <1>19, <1>20 DEF Inv

----------------------------------------------------------------------------
(* The faucet. *)

\* Grants come in multiples.
LEMMA Grants ==
  ASSUME NEW m \in Nat, NEW n \in Nat, NEW g \in Nat
  PROVE  m * g \in Nat /\ (m + 1) * g = m * g + g /\ (m <= n => m * g <= n * g)
  BY SMT

\* As long as the server takes another request, it has less than the most for any wallet.
LEMMA RoomForAnother ==
  ASSUME FaucetOK, NEW w \in Wallets, InFlight < MaxRequests
  PROVE  reading[w] + minting[w] < MaxRequests
  <1> DEFINE All == Wallets \X (1 .. MaxRequests)
             S == {r \in All : r[2] <= reading[r[1]] + minting[r[1]]}
             Mine == {w} \X (1 .. MaxRequests)
  <1>1. /\ MaxRequests \in Nat /\ IsFiniteSet(Wallets)
        /\ reading[w] + minting[w] \in Nat
    BY FaucetAssumption DEF FaucetOK
  <1>2. IsFiniteSet(1 .. MaxRequests) /\ Cardinality(1 .. MaxRequests) = MaxRequests
    BY <1>1, FS_Interval
  <1>3. IsFiniteSet(All)
    BY <1>1, <1>2, FS_Product
  <1>4. IsFiniteSet(S)
    <2>1. S \in SUBSET All
      OBVIOUS
    <2> HIDE DEF S, All
    <2> QED
      BY <1>3, <2>1, FS_Subset
  <1>5. IsFiniteSet({w}) /\ Cardinality({w}) = 1
    BY FS_Singleton
  <1>6. IsFiniteSet(Mine) /\ Cardinality(Mine) = MaxRequests
    <2>1. IsFiniteSet(Mine) /\ Cardinality(Mine) = Cardinality({w}) * Cardinality(1 .. MaxRequests)
      BY <1>2, <1>5, FS_Product
    <2> QED
      BY <1>1, <1>2, <1>5, <2>1
  <1>7. SUFFICES ASSUME reading[w] + minting[w] >= MaxRequests PROVE FALSE
    BY <1>1
  <1>8. Mine \in SUBSET S
    BY <1>1, <1>7
  <1>9. Cardinality(Mine) <= Cardinality(S)
    <2> HIDE DEF S, Mine
    <2> QED
      BY <1>4, <1>8, FS_Subset
  <1>10. Cardinality(S) < MaxRequests /\ Cardinality(S) \in Nat
    <2>1. InFlight = Cardinality(S)
      BY DEF InFlight
    <2> HIDE DEF S
    <2> QED
      BY <1>4, <2>1, FS_CardinalityType
  <1> QED
    BY <1>1, <1>6, <1>9, <1>10

\* What the faucet does to its books, when nothing is cancelled meanwhile.
LEMMA BooksKept ==
  ASSUME Inv, UNCHANGED listings, NEW w \in Wallets,
         balance' \in [Wallets -> Nat], reading' \in [Wallets -> Nat], minting' \in [Wallets -> Nat],
         \A v \in Wallets \ {w} : /\ balance'[v] = balance[v] /\ reading'[v] = reading[v]
                                  /\ minting'[v] = minting[v],
         reading'[w] + minting'[w] <= MaxRequests,
         \/ balance'[w] + minting'[w] * GRANT = balance[w] + minting[w] * GRANT
         \/ balance'[w] < TARGET
  PROVE  FaucetOK'
  <1>1. /\ Types /\ FaucetBounded
        /\ balance \in [Wallets -> Nat] /\ minting \in [Wallets -> Nat] /\ reading \in [Wallets -> Nat]
        /\ \A v \in Wallets : reading[v] + minting[v] <= MaxRequests
        /\ GRANT \in Nat /\ TARGET \in Nat /\ MaxRequests \in Nat
    BY FaucetAssumption DEF Inv, FaucetOK
  <1>2. \A v \in Wallets : minting[v] * GRANT \in Nat /\ minting'[v] * GRANT \in Nat
    BY <1>1, Grants
  <1>3. \A v \in Wallets : Refunds(v)' = Refunds(v)
    BY DEF Refunds
  <1>4. \A v \in Wallets : /\ balance[v] + minting[v] * GRANT \in Int
                           /\ balance'[v] + minting'[v] * GRANT \in Int
    BY <1>1, <1>2
  <1>5. ASSUME NEW v \in Wallets
        PROVE  \E enough \in InitialBalances(v) \cup {TARGET} :
                 balance'[v] + minting'[v] * GRANT <=
                   enough + MaxRequests * GRANT + Total(Refunds(v), MaxListings)'
    <2>1. CASE balance'[v] + minting'[v] * GRANT = balance[v] + minting[v] * GRANT
      <3>1. balance'[v] + minting'[v] * GRANT <= balance[v] + minting[v] * GRANT
        BY <1>4, <2>1
      <3> QED
        BY <1>1, <1>3, <1>4, <3>1, StillBounded
    <2>2. CASE v = w /\ balance'[w] < TARGET
      <3>1. PICK m \in Nat, r \in Nat : m = minting'[w] /\ r = reading'[w]
        OBVIOUS
      <3>2. m <= MaxRequests
        BY <1>1, <3>1
      <3>3. m * GRANT \in Nat /\ MaxRequests * GRANT \in Nat /\ m * GRANT <= MaxRequests * GRANT
        BY <1>1, <3>2, Grants
      <3>4. Total(Refunds(w), MaxListings)' \in Nat
        BY <1>1, <1>3, RefundsAre
      <3>5. balance'[w] \in Nat
        OBVIOUS
      <3>6. PICK a \in Nat, b \in Nat, c \in Nat, d \in Nat :
                   /\ a = balance'[w] /\ b = m * GRANT /\ c = MaxRequests * GRANT
                   /\ d = Total(Refunds(w), MaxListings)'
        BY <3>3, <3>4, <3>5
      <3>7. a + b <= TARGET + c + d
        BY <1>1, <2>2, <3>3, <3>6
      <3> QED
        BY <2>2, <3>1, <3>6, <3>7
    <2>3. CASE v # w
      BY <2>1, <2>3
    <2> QED
      BY <2>1, <2>2, <2>3
  <1>6. \A v \in Wallets : reading'[v] + minting'[v] <= MaxRequests
    BY <1>1
  <1> QED
    BY <1>5, <1>6 DEF FaucetOK, FaucetBounded

\* The faucet only ever adds to a balance.
LEMMA FaucetStep ==
  ASSUME Inv, FaucetNext, UNCHANGED <<owner, chainVars, tabVars>>
  PROVE  Inv'
  <1>1. UNCHANGED <<owner, listings, deals, allowance, mempool, job, page, told, gaveUp>>
    BY DEF chainVars, tabVars
  <1>2. /\ balance \in [Wallets -> Nat] /\ minting \in [Wallets -> Nat] /\ reading \in [Wallets -> Nat]
        /\ \A v \in Wallets : reading[v] + minting[v] <= MaxRequests
        /\ GRANT \in Nat /\ TARGET \in Nat /\ MaxRequests \in Nat
    BY FaucetAssumption DEF Inv, FaucetOK
  <1>3. PICK w \in Wallets : ReadBalance(w) \/ DripFails(w) \/ Mint(w)
    BY DEF FaucetNext
  <1>4. FaucetOK' /\ \A v \in Wallets : balance'[v] >= balance[v]
    <2>1. CASE ReadBalance(w)
      <3>1. /\ reading[w] > 0 /\ reading' = [reading EXCEPT ![w] = @ - 1] /\ balance' = balance
            /\ minting' = IF balance[w] < TARGET THEN [minting EXCEPT ![w] = @ + 1] ELSE minting
        BY <2>1 DEF ReadBalance
      <3>2. /\ reading' \in [Wallets -> Nat] /\ minting' \in [Wallets -> Nat]
            /\ reading'[w] + minting'[w] <= MaxRequests
            /\ \A v \in Wallets \ {w} : reading'[v] = reading[v] /\ minting'[v] = minting[v]
        BY <1>2, <3>1
      <3>3. minting'[w] = minting[w] \/ balance'[w] < TARGET
        BY <3>1
      <3> QED
        BY <1>1, <1>2, <3>1, <3>2, <3>3, BooksKept
    <2>2. CASE DripFails(w)
      <3>1. /\ reading[w] > 0 /\ reading' = [reading EXCEPT ![w] = @ - 1]
            /\ balance' = balance /\ minting' = minting
        BY <2>2 DEF DripFails
      <3>2. /\ reading' \in [Wallets -> Nat]
            /\ reading'[w] + minting'[w] <= MaxRequests
            /\ \A v \in Wallets \ {w} : reading'[v] = reading[v]
        BY <1>2, <3>1
      <3> QED
        BY <1>1, <1>2, <3>1, <3>2, BooksKept
    <2>3. CASE Mint(w)
      <3>1. /\ minting[w] > 0 /\ minting' = [minting EXCEPT ![w] = @ - 1]
            /\ reading' = reading /\ balance' = [balance EXCEPT ![w] = @ + GRANT]
        BY <2>3 DEF Mint
      <3>2. /\ minting' \in [Wallets -> Nat] /\ balance' \in [Wallets -> Nat]
            /\ reading'[w] + minting'[w] <= MaxRequests
            /\ \A v \in Wallets \ {w} : minting'[v] = minting[v] /\ balance'[v] = balance[v]
            /\ minting[w] = minting'[w] + 1 /\ balance'[w] = balance[w] + GRANT
        BY <1>2, <3>1
      <3>3. PICK m \in Nat, b \in Nat : m = minting'[w] /\ b = balance[w]
        BY <1>2, <3>2
      <3>4. m * GRANT \in Nat /\ (m + 1) * GRANT = m * GRANT + GRANT
        BY <1>2, Grants
      <3>5. balance'[w] + minting'[w] * GRANT = balance[w] + minting[w] * GRANT
        BY <1>2, <3>2, <3>3, <3>4
      <3>6. FaucetOK'
        BY <1>1, <1>2, <3>1, <3>2, <3>5, BooksKept
      <3> QED
        BY <1>2, <3>2, <3>6
    <2> QED
      BY <1>3, <2>1, <2>2, <2>3
  <1>5. Types'
    BY <1>1 DEF Inv, Types, DealIds
  <1>6. (\A t \in Tabs : CallOK(t, job[t]) /\ PageOK(t, page[t]))'
    BY <1>1 DEF Inv, CallOK, PageOK, Made, Quoted, DealIds
  <1>7. (\A v \in Wallets : \A n \in DOMAIN mempool[v] : SentOK(v, n))'
    BY <1>1 DEF Inv, SentOK, TxOK, Made, Quoted
  <1>8. OneAtATime'
    BY <1>1 DEF Inv, OneAtATime
  <1>9. (\A d \in DealIds : DealOK(d))'
    BY <1>1 DEF Inv, DealOK, Made, Quoted, DealIds
  <1>10. (\A t \in Tabs : Sole(t) => Funded(t, job[t]))'
    <2> SUFFICES ASSUME NEW t \in Tabs, Sole(t)' PROVE Funded(t, job[t])'
      OBVIOUS
    <2>1. Sole(t) /\ owner[t] \in Wallets /\ job[t] \in JobType
      BY <1>1 DEF Sole, Inv, Types
    <2>2. /\ balance'[owner[t]] \in Nat /\ balance[owner[t]] \in Nat /\ job[t].need \in Nat
          /\ balance'[owner[t]] >= balance[owner[t]]
      BY <1>2, <1>4, <2>1 DEF JobType, FaucetOK
    <2>3. Funded(t, job[t])
      BY <2>1 DEF Inv
    <2> QED
      BY <1>1, <2>2, <2>3 DEF Funded
  <1>11. (IsFiniteSet(Orphans) /\ Cardinality(Orphans) <= MaxOrphans)'
    BY <1>1 DEF Inv, Orphans
  <1> QED
    BY <1>4, <1>5, <1>6, <1>7, <1>8, <1>9, <1>10, <1>11 DEF Inv

\* A request keeps the books: there are never more than the server works on at once.
LEMMA AskKept ==
  ASSUME Inv, NEW w \in Wallets, Ask(w), UNCHANGED <<balance, minting, listings>>
  PROVE  FaucetOK'
  <1>1. /\ balance \in [Wallets -> Nat] /\ minting \in [Wallets -> Nat] /\ reading \in [Wallets -> Nat]
        /\ \A v \in Wallets : reading[v] + minting[v] <= MaxRequests
        /\ MaxRequests \in Nat /\ FaucetOK
    BY FaucetAssumption DEF Inv, FaucetOK
  <1>2. CASE UNCHANGED reading
    BY <1>1, <1>2, BooksKept
  <1>3. CASE w \in Served /\ InFlight < MaxRequests /\ reading' = [reading EXCEPT ![w] = @ + 1]
    <2>1. reading[w] + minting[w] < MaxRequests
      BY <1>1, <1>3, RoomForAnother
    <2>2. /\ reading' \in [Wallets -> Nat] /\ reading'[w] + minting'[w] <= MaxRequests
          /\ \A v \in Wallets \ {w} : reading'[v] = reading[v]
      BY <1>1, <1>3, <2>1
    <2> QED
      BY <1>1, <2>2, BooksKept
  <1> QED
    BY <1>2, <1>3 DEF Ask

----------------------------------------------------------------------------
(* The pages' steps. *)

\* What a page funded was told, or is in the receipt it is about to read.
LEMMA NothingUntold ==
  ASSUME Inv, NEW t \in Tabs, NEW d \in DealIds, d \notin told, t \notin gaveUp, deals[d].tab = t
  PROVE  AboutToTell(job[t], d)
  BY DEF Inv, DealOK

\* A page goes to another place of its call.
LEMMA TabGoes ==
  ASSUME Inv, FaucetOK', NEW t \in Tabs, NEW place,
         place \in {"balance", "poll", "allowance", "send"}, Goto(t, place),
         UNCHANGED <<balance, owner, chainVars, page, told, gaveUp>>,
         ~AwaitsTx(job[t]), job[t].at \notin {"idle", "mined"}, job[t].kind # "cancel",
         place \in {"allowance", "send"} => balance[owner[t]] >= job[t].need \/ ~Sole(t),
         place = "send" => allowance[owner[t]] >= job[t].need
  PROVE  Inv'
  <1>1. PICK p : p = [job[t] EXCEPT !.at = place]
    OBVIOUS
  <1>2. PICK g : g = page[t]
    OBVIOUS
  <1>3. PICK old : old = job[t]
    OBVIOUS
  <1>4. old \in JobType /\ g \in PageType /\ CallOK(t, old) /\ PageOK(t, g)
    BY <1>2, <1>3 DEF Inv, Types
  <1>5. /\ p \in JobType /\ p.at = place /\ p.kind = old.kind /\ p.listing = old.listing
        /\ p.terms = old.terms /\ p.need = old.need
    BY <1>1, <1>3, <1>4 DEF JobType
  <1>6. CallOK(t, p)
    BY <1>3, <1>4, <1>5 DEF CallOK
  <1>7. Sole(t) => Funded(t, p)
    BY <1>3, <1>5 DEF Funded
  <1>8. job' = [job EXCEPT ![t] = p] /\ page' = [page EXCEPT ![t] = g]
    BY <1>1, <1>2 DEF Goto, Inv, Types
  <1>9. ~AwaitsTx(p)
    BY <1>5 DEF AwaitsTx
  <1>10. \A d \in DealIds : d \notin told' /\ t \notin gaveUp' /\ deals[d].tab = t => AboutToTell(p, d)
    BY NothingUntold DEF AboutToTell
  <1>11. told \subseteq told' /\ told' \subseteq DealIds
    BY DEF Inv, Types
  <1>12. UNCHANGED <<owner, chainVars, balance>> /\ gaveUp \subseteq gaveUp' /\ gaveUp' \subseteq Tabs
    BY DEF Inv, Types
  <1> QED
    BY <1>4, <1>5, <1>6, <1>7, <1>8, <1>9, <1>10, <1>11, <1>12, TabMoves

\* What a page shows in the end, unless it was left.
Ending(t, g) == IF t \in left THEN page[t] ELSE g

LEMMA PageAtEnd ==
  ASSUME Inv, NEW t \in Tabs, NEW g, Shows(t, g),
         t \notin left => g \in PageType /\ PageOK(t, g)
  PROVE  /\ page' = [page EXCEPT ![t] = Ending(t, g)]
         /\ Ending(t, g) \in PageType /\ PageOK(t, Ending(t, g))
  BY DEF Shows, Ending, Inv, Types

\* An error on a page changes nothing else on it.
LEMMA ErrorShown ==
  ASSUME Inv, NEW t \in Tabs, NEW failed \in BOOLEAN, NEW g, g = [page[t] EXCEPT !.error = failed]
  PROVE  g \in PageType /\ PageOK(t, g)
  <1>1. page[t] \in PageType /\ PageOK(t, page[t])
    BY DEF Inv, Types
  <1>2. /\ g \in PageType /\ g.shown = page[t].shown /\ g.listing = page[t].listing
        /\ g.terms = page[t].terms
    BY <1>1 DEF PageType
  <1> QED
    BY <1>1, <1>2 DEF PageOK

\* A call that is not waiting for a transaction, and has no deal to tell of, ends with an error.
LEMMA TabThrows ==
  ASSUME Inv, NEW t \in Tabs, Throw(t), UNCHANGED <<faucetVars, owner, chainVars, told, gaveUp>>,
         ~AwaitsTx(job[t]), job[t].at = "mined" => job[t].got = 0
  PROVE  Inv'
  <1>1. PICK g : g = [page[t] EXCEPT !.error = (job[t].kind = "fund")]
    OBVIOUS
  <1>2. g \in PageType /\ PageOK(t, g)
    BY <1>1, ErrorShown
  <1>3. Shows(t, g) /\ job' = [job EXCEPT ![t] = NoJob]
    BY <1>1 DEF Throw, Ends
  <1>4. PICK h : h = Ending(t, g)
    OBVIOUS
  <1>5. h \in PageType /\ PageOK(t, h) /\ page' = [page EXCEPT ![t] = h]
    BY <1>2, <1>3, <1>4, PageAtEnd
  <1>6. NoJob \in JobType /\ CallOK(t, NoJob) /\ ~AwaitsTx(NoJob) /\ Funded(t, NoJob)
    BY NoJobOK
  <1>7. FaucetOK'
    BY DEF Inv, FaucetOK, FaucetBounded, Refunds, faucetVars, chainVars
  <1>8. \A d \in DealIds : ~(d \notin told' /\ t \notin gaveUp' /\ deals[d].tab = t)
    BY NothingUntold DEF AboutToTell, DealIds
  <1>9. told \subseteq told' /\ told' \subseteq DealIds
    BY DEF Inv, Types
  <1>10. UNCHANGED <<owner, chainVars, balance>> /\ gaveUp \subseteq gaveUp' /\ gaveUp' \subseteq Tabs
    BY DEF faucetVars, Inv, Types
  <1> QED
    BY <1>3, <1>5, <1>6, <1>7, <1>8, <1>9, <1>10, TabMoves

\* A click starts a call, and has the page it is made on.
LEMMA TabStarts ==
  ASSUME Inv, NEW t \in Tabs, NEW p \in JobType, NEW g \in PageType, Start(t, p),
         page' = [page EXCEPT ![t] = g], ~AwaitsTx(p), CallOK(t, p), PageOK(t, g), Funded(t, p)
  PROVE  Inv'
  <1>1. /\ ~AwaitsTx(job[t]) /\ job[t].at # "mined"
        /\ job' = [job EXCEPT ![t] = p]
        /\ UNCHANGED <<owner, chainVars, balance, gaveUp, told, faucetVars>>
    BY DEF Start, Busy, AwaitsTx, faucetVars
  <1>2. FaucetOK'
    BY <1>1 DEF Inv, FaucetOK, FaucetBounded, Refunds, faucetVars, chainVars
  <1>3. \A d \in DealIds : ~(d \notin told' /\ t \notin gaveUp' /\ deals[d].tab = t)
    BY <1>1, NothingUntold DEF AboutToTell
  <1>4. /\ told \subseteq told' /\ told' \subseteq DealIds
        /\ gaveUp \subseteq gaveUp' /\ gaveUp' \subseteq Tabs
    BY <1>1 DEF Inv, Types
  <1> QED
    BY <1>1, <1>2, <1>3, <1>4, TabMoves

\* An empty page is in order.
LEMMA NoPageOK ==
  ASSUME NEW t
  PROVE  NoPage \in PageType /\ PageOK(t, NoPage)
  <1>1. NoPage.shown = 0
    BY DEF NoPage
  <1>2. 0 \in 0 .. MaxListings /\ NoTerms \in Terms \cup {NoTerms}
    BY CheckoutAssumption
  <1>3. NoPage \in PageType
    BY <1>2 DEF NoPage, PageType
  <1> QED
    BY <1>1, <1>3 DEF PageOK

\* The button of a buy page.
LEMMA FundClicked ==
  ASSUME Inv, NEW t \in Tabs, NEW i \in ListingIds, ClickFund(t, i)
  PROVE  Inv'
  <1>1. PICK g : g = IF page[t].listing = i THEN page[t] ELSE [NoPage EXCEPT !.listing = i]
    OBVIOUS
  <1>2. PICK p : p = [NoJob EXCEPT !.at = "listing", !.kind = "fund", !.listing = i,
                                   !.need = Quote(listings[i].terms)]
    OBVIOUS
  <1>3. Made(i) /\ Quote(listings[i].terms) \in Nat /\ Quoted(i) = Quote(listings[i].terms)
    BY QuoteCovers DEF ClickFund, Made, Quoted, Inv, Types, ListingType
  <1>4. MaxListings \in Nat /\ i \in 0 .. MaxListings /\ NoTerms \in Terms \cup {NoTerms}
    BY CheckoutAssumption DEF ListingIds
  <1>5. /\ p \in JobType /\ p.at = "listing" /\ p.kind = "fund" /\ p.listing = i
        /\ p.need = Quoted(i)
    BY <1>2, <1>3, <1>4 DEF NoJob, JobType
  <1>6. /\ page[t] \in PageType /\ PageOK(t, page[t])
    BY DEF Inv, Types
  <1>7. g \in PageType /\ g.listing = i /\ PageOK(t, g)
    <2>1. CASE page[t].listing = i
      BY <1>1, <1>6, <2>1
    <2>2. CASE page[t].listing # i
      BY <1>1, <1>4, <2>2 DEF NoPage, PageType, PageOK
    <2> QED
      BY <2>1, <2>2
  <1>8. CallOK(t, p) /\ ~AwaitsTx(p) /\ Funded(t, p)
    BY <1>3, <1>5, <1>7 DEF CallOK, AwaitsTx, Funded
  <1>9. page' = [page EXCEPT ![t] = g] /\ Start(t, p)
    BY <1>1, <1>2 DEF ClickFund, Inv, Types
  <1> QED
    BY <1>5, <1>7, <1>8, <1>9, TabStarts

\* The button of the sell page.
LEMMA ListClicked ==
  ASSUME Inv, NEW t \in Tabs, NEW terms \in Terms, ClickList(t, terms)
  PROVE  Inv'
  <1>1. PICK p : p = [NoJob EXCEPT !.at = IF terms.bond > 0 THEN "balance" ELSE "send",
                                   !.kind = "list", !.terms = terms, !.need = terms.bond]
    OBVIOUS
  <1>2. MaxListings \in Nat /\ terms.bond \in Nat
    BY CheckoutAssumption DEF TermsType
  <1>3. /\ p \in JobType /\ p.at = (IF terms.bond > 0 THEN "balance" ELSE "send")
        /\ p.kind = "list" /\ p.terms = terms /\ p.need = terms.bond
    <2>1. PICK first : first = IF terms.bond > 0 THEN "balance" ELSE "send"
      OBVIOUS
    <2>2. first \in {"balance", "send"}
      BY <2>1
    <2>3. p = [NoJob EXCEPT !.at = first, !.kind = "list", !.terms = terms, !.need = terms.bond]
      BY <1>1, <2>1
    <2>4. p = [at |-> first, kind |-> "list", listing |-> 0, terms |-> terms,
               need |-> terms.bond, got |-> 0]
      BY <2>3 DEF NoJob
    <2>5. p \in JobType
      BY <1>2, <2>2, <2>4 DEF JobType
    <2>6. p.at = first /\ p.kind = "list" /\ p.terms = terms /\ p.need = terms.bond
      BY <2>4
    <2> QED
      BY <2>1, <2>5, <2>6
  <1>4. PICK g : g = [NoPage EXCEPT !.terms = terms]
    OBVIOUS
  <1>5. g \in PageType /\ PageOK(t, g) /\ CallOK(t, p) /\ ~AwaitsTx(p)
    <2>1. g = [listing |-> 0, terms |-> terms, shown |-> 0, error |-> FALSE]
      BY <1>4 DEF NoPage
    <2>2. g \in PageType /\ g.shown = 0
      BY <1>2, <2>1 DEF PageType
    <2> QED
      BY <1>3, <2>2 DEF PageOK, CallOK, AwaitsTx
  <1>6. Funded(t, p)
    <2>1. balance[owner[t]] \in Nat /\ allowance[owner[t]] \in Nat
      BY DEF Inv, Types, FaucetOK
    <2> QED
      BY <1>2, <1>3, <2>1 DEF Funded
  <1>7. page' = [page EXCEPT ![t] = g] /\ Start(t, p)
    BY <1>1, <1>4 DEF ClickList
  <1> QED
    BY <1>3, <1>5, <1>6, <1>7, TabStarts

\* The button that takes a listing back.
LEMMA CancelClicked ==
  ASSUME Inv, NEW t \in Tabs, NEW i \in ListingIds, ClickCancel(t, i)
  PROVE  Inv'
  <1>1. PICK p : p = [NoJob EXCEPT !.at = "send", !.kind = "cancel", !.listing = i]
    OBVIOUS
  <1>2. MaxListings \in Nat /\ i \in 0 .. MaxListings /\ Made(i)
    BY CheckoutAssumption DEF ListingIds, ClickCancel, Made
  <1>3. p \in JobType /\ p.at = "send" /\ p.kind = "cancel" /\ p.listing = i /\ p.need = 0
    BY <1>1, <1>2 DEF NoJob, JobType
  <1>4. NoPage \in PageType /\ PageOK(t, NoPage)
    BY NoPageOK
  <1>5. CallOK(t, p) /\ ~AwaitsTx(p)
    BY <1>2, <1>3 DEF CallOK, AwaitsTx
  <1>6. Funded(t, p)
    <2>1. balance[owner[t]] \in Nat /\ allowance[owner[t]] \in Nat
      BY DEF Inv, Types, FaucetOK
    <2> QED
      BY <1>3, <2>1 DEF Funded
  <1>7. page' = [page EXCEPT ![t] = NoPage] /\ Start(t, p)
    BY <1>1 DEF ClickCancel
  <1> QED
    BY <1>3, <1>4, <1>5, <1>6, <1>7, TabStarts

\* The call reads the listing.
LEMMA ListingRead ==
  ASSUME Inv, NEW t \in Tabs, GotListing(t)
  PROVE  Inv'
  <1>1. /\ job[t].at = "listing" /\ job[t].kind = "fund" /\ ~AwaitsTx(job[t])
        /\ UNCHANGED <<balance, faucetVars, owner, chainVars, told, gaveUp>>
    BY DEF GotListing, At, AwaitsTx, faucetVars, Inv, CallOK
  <1>2. CASE Goto(t, "balance") /\ UNCHANGED page
    <2>1. FaucetOK'
      BY <1>1 DEF Inv, FaucetOK, FaucetBounded, Refunds, faucetVars, chainVars
    <2> QED
      BY <1>1, <1>2, <2>1, TabGoes
  <1>3. CASE Throw(t)
    BY <1>1, <1>3, TabThrows
  <1> QED
    BY <1>2, <1>3 DEF GotListing

\* The call reads the balance, and may ask the faucet.
LEMMA BalanceRead ==
  ASSUME Inv, NEW t \in Tabs, GotBalance(t)
  PROVE  Inv'
  <1>1. /\ job[t].at = "balance" /\ ~AwaitsTx(job[t]) /\ job[t].kind # "cancel"
        /\ UNCHANGED <<balance, minting, owner, chainVars, page, told, gaveUp>>
        /\ UNCHANGED listings
    BY DEF GotBalance, At, AwaitsTx, chainVars, Inv, CallOK
  <1>2. CASE balance[owner[t]] >= job[t].need /\ Goto(t, "allowance") /\ UNCHANGED reading
    <2>1. FaucetOK'
      BY <1>1, <1>2 DEF Inv, FaucetOK, FaucetBounded, Refunds
    <2> QED
      BY <1>1, <1>2, <2>1, TabGoes
  <1>3. CASE Goto(t, "poll") /\ Ask(owner[t])
    <2>1. owner[t] \in Wallets
      BY DEF Inv, Types
    <2>2. FaucetOK'
      BY <1>1, <1>3, <2>1, AskKept
    <2> QED
      BY <1>1, <1>3, <2>2, TabGoes
  <1> QED
    BY <1>2, <1>3 DEF GotBalance

\* The call reads the balance again.
LEMMA BalancePolled ==
  ASSUME Inv, NEW t \in Tabs, Polled(t)
  PROVE  Inv'
  <1>1. /\ job[t].at = "poll" /\ ~AwaitsTx(job[t]) /\ job[t].kind # "cancel"
        /\ UNCHANGED <<balance, faucetVars, owner, chainVars, told, gaveUp>>
    BY DEF Polled, At, AwaitsTx, faucetVars, Inv, CallOK
  <1>2. CASE balance[owner[t]] >= job[t].need /\ Goto(t, "allowance") /\ UNCHANGED page
    <2>1. FaucetOK'
      BY <1>1 DEF Inv, FaucetOK, FaucetBounded, Refunds, faucetVars, chainVars
    <2> QED
      BY <1>1, <1>2, <2>1, TabGoes
  <1>3. CASE Throw(t)
    BY <1>1, <1>3, TabThrows
  <1> QED
    BY <1>2, <1>3 DEF Polled

\* The call signs a transaction, for itself and for what it needs.
LEMMA TabSends ==
  ASSUME Inv, NEW t \in Tabs, NEW kind \in {"approve", "fund", "list", "cancel"},
         NEW place \in {"approving", "waiting"}, Goto(t, place), Sign(t, kind, job[t].need),
         ~AwaitsTx(job[t]), job[t].at \notin {"idle", "mined", "listing"},
         \/ place = "approving" /\ kind = "approve" /\ job[t].kind # "cancel"
         \/ place = "waiting" /\ kind = job[t].kind,
         Sole(t) => balance[owner[t]] >= job[t].need,
         Sole(t) /\ place = "waiting" => allowance[owner[t]] >= job[t].need
  PROVE  Inv'
  <1>1. PICK old : old = job[t]
    OBVIOUS
  <1>2. old \in JobType /\ CallOK(t, old)
    BY <1>1 DEF Inv, Types
  <1>3. PICK p : p = [old EXCEPT !.at = place]
    OBVIOUS
  <1>4. PICK x : x = [tab |-> t, kind |-> kind, listing |-> old.listing,
                      terms |-> old.terms, amount |-> old.need, awaited |-> TRUE]
    OBVIOUS
  <1>5. /\ p \in JobType /\ p.at = place /\ p.kind = old.kind /\ p.listing = old.listing
        /\ p.terms = old.terms /\ p.need = old.need
    BY <1>2, <1>3 DEF JobType
  <1>6. /\ x \in Tx /\ x.tab = t /\ x.kind = kind /\ x.listing = old.listing
        /\ x.terms = old.terms /\ x.amount = old.need /\ x.awaited
    BY <1>2, <1>4 DEF JobType, Tx
  <1>7. CallOK(t, p)
    BY <1>1, <1>2, <1>5 DEF CallOK
  <1>8. TxOK(owner[t], x)
    BY <1>1, <1>2, <1>6 DEF TxOK, CallOK, JobType
  <1>9. Awaits(p, x)
    BY <1>1, <1>5, <1>6 DEF Awaits
  <1>10. Sole(t) => Funded(t, p)
    BY <1>1, <1>5 DEF Funded
  <1>11. /\ job' = [job EXCEPT ![t] = p]
         /\ mempool' = [mempool EXCEPT ![owner[t]] = Append(@, x)]
         /\ UNCHANGED <<faucetVars, owner, listings, deals, allowance, page, told, gaveUp>>
    BY <1>1, <1>3, <1>4 DEF Goto, Sign, Inv, Types
  <1> QED
    BY <1>5, <1>6, <1>7, <1>8, <1>9, <1>10, <1>11, TabSigns

\* The call reads what the escrow may pull, and approves if that is too little.
LEMMA AllowanceRead ==
  ASSUME Inv, NEW t \in Tabs, GotAllowance(t)
  PROVE  Inv'
  <1>1. /\ job[t].at = "allowance" /\ ~AwaitsTx(job[t]) /\ job[t].kind # "cancel"
        /\ Sole(t) => balance[owner[t]] >= job[t].need
    BY DEF GotAllowance, At, AwaitsTx, Inv, CallOK, Funded
  <1>2. CASE allowance[owner[t]] >= job[t].need /\ Goto(t, "send")
             /\ UNCHANGED <<faucetVars, owner, chainVars, page, told, gaveUp>>
    <2>1. FaucetOK' /\ UNCHANGED balance
      BY <1>2 DEF Inv, FaucetOK, FaucetBounded, Refunds, faucetVars, chainVars
    <2> QED
      BY <1>1, <1>2, <2>1, TabGoes
  <1>3. CASE Goto(t, "approving") /\ Sign(t, "approve", job[t].need)
    BY <1>1, <1>3, TabSends
  <1> QED
    BY <1>2, <1>3 DEF GotAllowance

\* The call sends its transaction.
LEMMA Sent ==
  ASSUME Inv, NEW t \in Tabs, Send(t)
  PROVE  Inv'
  <1>1. /\ job[t].at = "send" /\ ~AwaitsTx(job[t])
        /\ Sole(t) => balance[owner[t]] >= job[t].need /\ allowance[owner[t]] >= job[t].need
        /\ Goto(t, "waiting") /\ Sign(t, job[t].kind, job[t].need)
    BY DEF Send, At, AwaitsTx, Inv, Funded
  <1>2. job[t].kind \in {"fund", "list", "cancel"}
    BY <1>1 DEF Inv, Types, CallOK, JobType
  <1> QED
    BY <1>1, <1>2, TabSends

\* The call reads its receipt.
LEMMA ReceiptShown ==
  ASSUME Inv, AllMatched, NEW t \in Tabs, GotReceipt(t)
  PROVE  Inv'
  <1>1. /\ job[t].at = "mined" /\ ~AwaitsTx(job[t])
        /\ UNCHANGED <<faucetVars, owner, chainVars, balance>>
    BY DEF GotReceipt, At, AwaitsTx, faucetVars
  <1>2. CASE job[t].kind = "fund" /\ job[t].got = 0
    <2>1. Throw(t) /\ UNCHANGED <<told, gaveUp>>
      BY <1>2 DEF GotReceipt
    <2> QED
      BY <1>1, <1>2, <2>1, TabThrows
  <1>3. CASE ~(job[t].kind = "fund" /\ job[t].got = 0)
    <2>1. PICK old : old = job[t]
      OBVIOUS
    <2>2. Show(t, old.got)
      BY <1>3, <2>1 DEF GotReceipt
    <2>3. /\ old \in JobType /\ CallOK(t, old) /\ page[t] \in PageType
      BY <2>1 DEF Inv, Types
    <2>4. PICK g : g = [page[t] EXCEPT !.shown = old.got]
      OBVIOUS
    <2>5. /\ g \in PageType /\ g.shown = old.got /\ g.listing = page[t].listing
          /\ g.terms = page[t].terms
      BY <2>3, <2>4 DEF PageType, JobType
    <2>6. t \notin left => PageOK(t, g)
      <3>1. t \notin left => Matches(old, page[t])
        BY <2>1 DEF AllMatched, Matched
      <3>2. old.kind = "fund" => Made(old.listing) /\ old.listing # 0
        BY <2>3 DEF CallOK, Made, ListingIds
      <3>3. old.at = "mined" /\ old.got # 0 =>
              \/ /\ old.kind = "fund" /\ old.got \in DealIds
                 /\ deals[old.got].buyer = owner[t] /\ deals[old.got].listing = old.listing
              \/ /\ old.kind = "list" /\ Made(old.got)
                 /\ listings[old.got].seller = owner[t] /\ listings[old.got].terms = old.terms
        BY <2>3 DEF CallOK
      <3> QED
        BY <1>1, <2>1, <2>5, <3>1, <3>2, <3>3 DEF PageOK, Matches
    <2>7. NoJob \in JobType /\ CallOK(t, NoJob) /\ ~AwaitsTx(NoJob) /\ Funded(t, NoJob)
      BY NoJobOK
    <2>8. /\ job' = [job EXCEPT ![t] = NoJob] /\ Shows(t, g)
          /\ told' = told \cup {d \in {old.got} : old.kind = "fund" /\ t \notin left}
          /\ gaveUp' = gaveUp \cup {u \in {t} \cap left : job[u].kind = "fund"}
      BY <2>1, <2>2, <2>4 DEF Show, Ends
    <2>9. PICK h : h = Ending(t, g)
      OBVIOUS
    <2>10. h \in PageType /\ PageOK(t, h) /\ page' = [page EXCEPT ![t] = h]
      BY <2>5, <2>6, <2>8, <2>9, PageAtEnd
    <2>11. old.kind = "fund" => old.got \in DealIds
      BY <1>1, <1>3, <2>1, <2>3 DEF CallOK
    <2>12. /\ told \subseteq told' /\ told' \subseteq DealIds
           /\ gaveUp \subseteq gaveUp' /\ gaveUp' \subseteq Tabs
      BY <2>8, <2>11 DEF Inv, Types
    <2>13. \A d \in DealIds : ~(d \notin told' /\ t \notin gaveUp' /\ deals[d].tab = t)
      <3> SUFFICES ASSUME NEW d \in DealIds, d \notin told', t \notin gaveUp', deals[d].tab = t
                   PROVE  FALSE
        OBVIOUS
      <3>1. d \notin told /\ t \notin gaveUp
        BY <2>12
      <3>2. old.kind = "fund" /\ old.got = d
        BY <2>1, <3>1, NothingUntold DEF AboutToTell
      <3> QED
        BY <2>1, <2>8, <3>2
    <2>14. FaucetOK'
      BY <1>1 DEF Inv, FaucetOK, FaucetBounded, Refunds, faucetVars, chainVars
    <2> QED
      BY <1>1, <2>7, <2>8, <2>10, <2>12, <2>13, <2>14, TabMoves
  <1> QED
    BY <1>2, <1>3

\* An await rejects.
LEMMA Rejected ==
  ASSUME Inv, NEW t \in Tabs, Rejects(t)
  PROVE  Inv'
  <1>1. PICK g : g = [page[t] EXCEPT !.error = (job[t].kind = "fund")]
    OBVIOUS
  <1>2. g \in PageType /\ PageOK(t, g)
    BY <1>1, ErrorShown
  <1>3. PICK h : h = Ending(t, g)
    OBVIOUS
  <1>4. /\ job' = [job EXCEPT ![t] = NoJob] /\ Shows(t, g)
        /\ Unawaited(t) /\ Abandoned(t)
        /\ UNCHANGED <<faucetVars, owner, listings, deals, allowance, told>>
    BY <1>1 DEF Rejects, Throw, Ends
  <1>5. h \in PageType /\ PageOK(t, h) /\ page' = [page EXCEPT ![t] = h]
    BY <1>2, <1>3, <1>4, PageAtEnd
  <1> QED
    BY <1>4, <1>5, TabLeaves

\* The tab is reloaded or closed.
LEMMA Reloaded ==
  ASSUME Inv, NEW t \in Tabs, Reload(t)
  PROVE  Inv'
  <1>1. NoPage \in PageType /\ PageOK(t, NoPage)
    BY NoPageOK
  <1>2. /\ job' = [job EXCEPT ![t] = NoJob] /\ page' = [page EXCEPT ![t] = NoPage]
        /\ Unawaited(t) /\ Abandoned(t)
        /\ UNCHANGED <<faucetVars, owner, listings, deals, allowance, told>>
    BY DEF Reload, Ends
  <1> QED
    BY <1>1, <1>2, TabLeaves

\* The page is left by a link: its call is none the worse.
LEMMA LinkFollowed ==
  ASSUME Inv, NEW t \in Tabs, Leave(t)
  PROVE  Inv'
  <1>1. /\ page' = [page EXCEPT ![t] = NoPage]
        /\ UNCHANGED <<balance, reading, minting, owner, listings, deals, allowance, mempool, job,
                       told, gaveUp>>
    BY DEF Leave, faucetVars, chainVars
  <1>2. NoPage \in PageType /\ PageOK(t, NoPage)
    BY NoPageOK
  <1>3. Types'
    BY <1>1, <1>2 DEF Inv, Types, DealIds
  <1>4. (\A u \in Tabs : CallOK(u, job[u]) /\ PageOK(u, page[u]))'
    <2> SUFFICES ASSUME NEW u \in Tabs PROVE (CallOK(u, job[u]) /\ PageOK(u, page[u]))'
      OBVIOUS
    <2>1. PICK h : h = IF u = t THEN NoPage ELSE page[u]
      OBVIOUS
    <2>2. PageOK(u, h) /\ page'[u] = h
      BY <1>1, <2>1, NoPageOK DEF Inv, Types
    <2>3. PageOK(u, h)'
      BY <1>1, <2>2 DEF PageOK, Made, DealIds
    <2>4. CallOK(u, job[u])'
      BY <1>1 DEF Inv, CallOK, Made, Quoted, DealIds
    <2> QED
      BY <2>2, <2>3, <2>4
  <1>5. FaucetOK'
    BY <1>1 DEF Inv, FaucetOK, FaucetBounded, Refunds
  <1>6. (\A w \in Wallets : \A n \in DOMAIN mempool[w] : SentOK(w, n))'
    BY <1>1 DEF Inv, SentOK, TxOK, Made, Quoted
  <1>7. OneAtATime' /\ (IsFiniteSet(Orphans) /\ Cardinality(Orphans) <= MaxOrphans)'
    BY <1>1 DEF Inv, OneAtATime, Orphans
  <1>8. (\A d \in DealIds : DealOK(d))'
    BY <1>1 DEF Inv, DealOK, Made, Quoted, DealIds
  <1>9. (\A u \in Tabs : Sole(u) => Funded(u, job[u]))'
    BY <1>1 DEF Inv, Sole, Funded
  <1> QED
    BY <1>3, <1>4, <1>5, <1>6, <1>7, <1>8, <1>9 DEF Inv

----------------------------------------------------------------------------
(* Pages and their calls. *)

\* What the call of a page is for, which it keeps to its end.
SameCall(t) ==
  /\ job'[t].kind = job[t].kind /\ job'[t].listing = job[t].listing
  /\ job'[t].terms = job[t].terms /\ (job[t].at # "idle" => job'[t].at # "idle")

\* As long as a call goes on, its page is about it or was left.
LEMMA StillMatched ==
  ASSUME NEW t, Matched(t), SameCall(t), page'[t] = page[t], t \in left' <=> t \in left
  PROVE  Matched(t)'
  BY DEF Matched, SameCall, Matches

\* A place that a call goes to is no end of it.
LEMMA GoesOnMatched ==
  ASSUME Inv, AllMatched, NEW t \in Tabs, NEW place, place # "idle", Goto(t, place),
         UNCHANGED <<page, left>>
  PROVE  AllMatched'
  <1>1. \A u \in Tabs : SameCall(u)
    BY DEF Goto, SameCall, Inv, Types, JobType
  <1> QED
    BY <1>1, StillMatched DEF AllMatched

\* The end of a call leaves a page that shows what it showed, or more.
LEMMA EndMatched ==
  ASSUME Inv, AllMatched, NEW t \in Tabs, Ends(t), \A u \in Tabs \ {t} : page'[u] = page[u]
  PROVE  AllMatched'
  <1>1. job' = [job EXCEPT ![t] = NoJob] /\ left' = left \ {t}
    BY DEF Ends
  <1>2. Matched(t)'
    <2>1. job'[t] = NoJob /\ t \notin left'
      BY <1>1 DEF Inv, Types
    <2>2. Matches(NoJob, page'[t])
      BY DEF Matches, NoJob
    <2> QED
      BY <2>1, <2>2 DEF Matched
  <1>3. \A u \in Tabs \ {t} : job'[u] = job[u] /\ (u \in left' <=> u \in left)
    BY <1>1 DEF Inv, Types
  <1>4. \A u \in Tabs \ {t} : Matched(u)'
    BY <1>3 DEF AllMatched, Matched
  <1> QED
    BY <1>1, <1>2, <1>4 DEF AllMatched

\* A call starts on a page that is about it.
LEMMA StartMatched ==
  ASSUME Inv, AllMatched, NEW t \in Tabs, NEW p, NEW g, Start(t, p), Matches(p, g),
         page' = [page EXCEPT ![t] = g]
  PROVE  AllMatched'
  <1>1. job[t].at = "idle" /\ job' = [job EXCEPT ![t] = p] /\ left' = left
    BY DEF Start, Busy
  <1>2. t \notin left
    BY <1>1 DEF AllMatched, Matched
  <1>3. job'[t] = p /\ page'[t] = g
    BY <1>1 DEF Inv, Types
  <1>4. Matched(t)'
    BY <1>1, <1>2, <1>3 DEF Matched
  <1>5. \A u \in Tabs \ {t} : Matched(u)'
    BY <1>1 DEF AllMatched, Matched, Inv, Types
  <1> QED
    BY <1>1, <1>4, <1>5 DEF AllMatched

\* Every step keeps pages and calls together.
LEMMA StepKeepsMatched ==
  ASSUME Inv, AllMatched, [Next]_vars
  PROVE  AllMatched'
  <1>1. CASE UNCHANGED <<job, page, left>>
    BY <1>1 DEF AllMatched, Matched
  <1>2. ASSUME NEW t \in Tabs, Throw(t)
        PROVE  AllMatched'
    <2>1. Ends(t) /\ \A u \in Tabs \ {t} : page'[u] = page[u]
      BY <1>2 DEF Throw, Shows
    <2> QED
      BY <2>1, EndMatched
  <1>3. ASSUME NEW t \in Tabs, NEW i \in ListingIds, ClickFund(t, i)
        PROVE  AllMatched'
    <2>1. PICK g : g = IF page[t].listing = i THEN page[t] ELSE [NoPage EXCEPT !.listing = i]
      OBVIOUS
    <2>2. PICK p : p = [NoJob EXCEPT !.at = "listing", !.kind = "fund", !.listing = i,
                                     !.need = Quote(listings[i].terms)]
      OBVIOUS
    <2>3. g.listing = i
      BY <2>1 DEF NoPage
    <2>4. Matches(p, g)
      BY <2>2, <2>3 DEF Matches, NoJob
    <2>5. page' = [page EXCEPT ![t] = g] /\ Start(t, p)
      BY <1>3, <2>1, <2>2 DEF ClickFund, Inv, Types
    <2> QED
      BY <2>4, <2>5, StartMatched
  <1>4. ASSUME NEW t \in Tabs, NEW terms \in Terms, ClickList(t, terms)
        PROVE  AllMatched'
    <2>1. PICK g : g = [NoPage EXCEPT !.terms = terms]
      OBVIOUS
    <2>2. PICK p : p = [NoJob EXCEPT !.at = IF terms.bond > 0 THEN "balance" ELSE "send",
                                     !.kind = "list", !.terms = terms, !.need = terms.bond]
      OBVIOUS
    <2>3. Matches(p, g)
      BY <2>1, <2>2 DEF Matches, NoJob, NoPage
    <2>4. page' = [page EXCEPT ![t] = g] /\ Start(t, p)
      BY <1>4, <2>1, <2>2 DEF ClickList
    <2> QED
      BY <2>3, <2>4, StartMatched
  <1>5. ASSUME NEW t \in Tabs, NEW i \in ListingIds, ClickCancel(t, i)
        PROVE  AllMatched'
    <2>1. PICK p : p = [NoJob EXCEPT !.at = "send", !.kind = "cancel", !.listing = i]
      OBVIOUS
    <2>2. Matches(p, NoPage)
      BY <2>1 DEF Matches, NoJob
    <2> QED
      BY <1>5, <2>1, <2>2, StartMatched DEF ClickCancel
  <1>6. ASSUME NEW t \in Tabs, Step(t)
        PROVE  AllMatched'
    <2>1. CASE GotListing(t)
      BY <1>2, <2>1, GoesOnMatched DEF GotListing
    <2>2. CASE GotBalance(t)
      BY <2>2, GoesOnMatched DEF GotBalance
    <2>3. CASE Polled(t)
      BY <1>2, <2>3, GoesOnMatched DEF Polled
    <2>4. CASE GotAllowance(t)
      BY <2>4, GoesOnMatched DEF GotAllowance, Sign
    <2>5. CASE Send(t)
      BY <2>5, GoesOnMatched DEF Send, Sign
    <2>6. CASE GotReceipt(t)
      <3>1. CASE Throw(t)
        BY <1>2, <3>1
      <3>2. CASE Show(t, job[t].got)
        <4>1. Ends(t) /\ \A u \in Tabs \ {t} : page'[u] = page[u]
          BY <3>2 DEF Show, Shows
        <4> QED
          BY <4>1, EndMatched
      <3> QED
        BY <2>6, <3>1, <3>2 DEF GotReceipt
    <2> QED
      BY <1>6, <2>1, <2>2, <2>3, <2>4, <2>5, <2>6 DEF Step
  <1>7. ASSUME NEW t \in Tabs, Reload(t)
        PROVE  AllMatched'
    <2>1. Ends(t) /\ \A u \in Tabs \ {t} : page'[u] = page[u]
      BY <1>7 DEF Reload
    <2> QED
      BY <2>1, EndMatched
  <1>8. ASSUME NEW t \in Tabs, Leave(t)
        PROVE  AllMatched'
    <2>1. /\ t \notin left /\ page' = [page EXCEPT ![t] = NoPage] /\ job' = job
          /\ left' = left \cup {u \in {t} : job[u].at # "idle"}
      BY <1>8 DEF Leave, Busy
    <2>2. \A u \in Tabs \ {t} : Matched(u)'
      BY <2>1 DEF AllMatched, Matched, Inv, Types
    <2>3. Matched(t)'
      <3>1. page'[t] = NoPage
        BY <2>1 DEF Inv, Types
      <3>2. CASE job[t].at # "idle"
        BY <2>1, <3>1, <3>2 DEF Matched
      <3>3. CASE job[t].at = "idle"
        <4>1. job[t].kind = "none" /\ t \notin left'
          BY <2>1, <3>3 DEF Inv, CallOK
        <4> QED
          BY <2>1, <4>1 DEF Matched, Matches
      <3> QED
        BY <3>2, <3>3
    <2> QED
      BY <2>1, <2>2, <2>3 DEF AllMatched
  <1>9. ASSUME NEW w \in Wallets, Include(w)
        PROVE  AllMatched'
    <2>1. UNCHANGED <<page, left>>
      BY <1>9 DEF Include
    <2>2. \A u \in Tabs : SameCall(u)
      <3>1. CASE job' = job
        BY <3>1 DEF SameCall
      <3>2. CASE job' # job
        <4>1. PICK v, place, e : place = (IF Head(mempool[w]).kind = "approve" THEN "send" ELSE "mined")
                                 /\ job' = [job EXCEPT ![v].at = place, ![v].got = e]
          BY <1>9, <3>2 DEF Include
        <4>2. place # "idle"
          BY <4>1
        <4>3. \A u \in Tabs : job[u] \in JobType /\ DOMAIN job = Tabs
          BY DEF Inv, Types
        <4>4. ASSUME NEW u \in Tabs
              PROVE  job'[u] = job[u] \/ job'[u] = [job[u] EXCEPT !.at = place, !.got = e]
          BY <4>1, <4>3
        <4>5. ASSUME NEW u \in Tabs, NEW p, p = job[u], NEW q, q = job'[u]
              PROVE  /\ q.kind = p.kind /\ q.listing = p.listing /\ q.terms = p.terms
                     /\ p.at # "idle" => q.at # "idle"
          <5>1. p \in JobType
            BY <4>3, <4>5
          <5>2. q = p \/ q = [p EXCEPT !.at = place, !.got = e]
            BY <4>4, <4>5
          <5> QED
            BY <4>2, <5>1, <5>2 DEF JobType
        <4> QED
          BY <4>5 DEF SameCall
      <3> QED
        BY <3>1, <3>2
    <2> QED
      BY <2>1, <2>2, StillMatched DEF AllMatched
  <1>10. CASE FaucetNext /\ UNCHANGED <<owner, chainVars, tabVars>>
    BY <1>1, <1>10 DEF tabVars
  <1>11. CASE UNCHANGED vars
    BY <1>1, <1>11 DEF vars, tabVars
  <1>12. ASSUME NEW t \in Tabs, Click(t) \/ Rejects(t)
         PROVE  AllMatched'
    BY <1>2, <1>3, <1>4, <1>5, <1>12 DEF Click, Rejects
  <1> QED
    BY <1>6, <1>7, <1>8, <1>9, <1>10, <1>11, <1>12 DEF Next

----------------------------------------------------------------------------
(* The theorems. *)

\* In the beginning no call runs, no page shows anything, and a wallet holds what it came with.
LEMMA InitInv ==
  ASSUME Init
  PROVE  Inv /\ AllMatched
  <1>1. /\ balance \in Purses /\ balance \in [Wallets -> Nat]
        /\ reading = [w \in Wallets |-> 0] /\ minting = [w \in Wallets |-> 0]
        /\ owner \in [Tabs -> Wallets]
        /\ listings = [i \in ListingIds |-> Unlisted(CHOOSE w \in Wallets : TRUE)]
        /\ deals = <<>> /\ allowance = [w \in Wallets |-> 0]
        /\ mempool = [w \in Wallets |-> <<>>]
        /\ job = [t \in Tabs |-> NoJob] /\ page = [t \in Tabs |-> NoPage]
        /\ left = {} /\ told = {} /\ gaveUp = {}
    BY CheckoutAssumption DEF Init, FaucetInit
  <1>2. (CHOOSE w \in Wallets : TRUE) \in Wallets
    BY CheckoutAssumption
  <1>3. /\ NoJob \in JobType /\ NoPage \in PageType
        /\ \A t : CallOK(t, NoJob) /\ PageOK(t, NoPage) /\ Funded(t, NoJob)
    BY NoJobOK, NoPageOK
  <1>4. Types
    <2>1. listings \in [ListingIds -> ListingType]
      BY <1>1, <1>2 DEF Unlisted, ListingType
    <2> QED
      BY <1>1, <1>3, <2>1 DEF Types
  <1>5. FaucetOK
    <2>1. MaxRequests \in Nat /\ GRANT \in Nat /\ MaxListings \in Nat
      BY FaucetAssumption, CheckoutAssumption
    <2>2. ASSUME NEW w \in Wallets
          PROVE  \E enough \in InitialBalances(w) \cup {TARGET} :
                   balance[w] + minting[w] * GRANT <=
                     enough + MaxRequests * GRANT + Total(Refunds(w), MaxListings)
      <3>1. PICK b \in Nat : b = balance[w] /\ b \in InitialBalances(w)
        BY <1>1 DEF InitialBalances
      <3>2. PICK r \in Nat : r = Total(Refunds(w), MaxListings)
        BY <1>4, RefundsAre
      <3>3. PICK c \in Nat : c = MaxRequests * GRANT
        BY <2>1, Grants
      <3>4. minting[w] * GRANT = 0
        BY <1>1, <2>1
      <3>5. balance[w] + minting[w] * GRANT <= b + c + r
        BY <3>1, <3>2, <3>3, <3>4
      <3> QED
        BY <3>1, <3>2, <3>3, <3>5
    <2> QED
      BY <1>1, <2>1, <2>2 DEF FaucetOK, FaucetBounded
  <1>6. \A w \in Wallets : DOMAIN mempool[w] = {}
    BY <1>1
  <1>7. \A t \in Tabs : job[t] = NoJob /\ page[t] = NoPage
    BY <1>1
  <1>8. DealIds = {}
    BY <1>1 DEF DealIds
  <1>9. IsFiniteSet(Orphans) /\ Cardinality(Orphans) <= MaxOrphans
    <2>1. Orphans = {}
      BY <1>6 DEF Orphans
    <2> QED
      BY <2>1, FS_EmptySet, CheckoutAssumption
  <1>10. AllMatched
    <2>1. Matches(NoJob, NoPage)
      BY DEF Matches, NoJob
    <2> QED
      BY <1>1, <1>7, <2>1 DEF AllMatched, Matched
  <1> QED
    BY <1>3, <1>4, <1>5, <1>6, <1>7, <1>8, <1>9, <1>10 DEF Inv, OneAtATime

\* Every step keeps the invariant.
LEMMA StepKeepsInv ==
  ASSUME Inv, AllMatched, [Next]_vars
  PROVE  Inv'
  <1>1. CASE UNCHANGED vars
    <2>1. UNCHANGED <<balance, reading, minting, owner, listings, deals, allowance, mempool, job,
                      page, told, gaveUp>>
      BY <1>1 DEF vars, faucetVars, chainVars, tabVars
    <2>2. (\A w \in Wallets : \A n \in DOMAIN mempool[w] : SentOK(w, n))'
      BY <2>1 DEF Inv, SentOK, TxOK, Made, Quoted
    <2>3. (\A t \in Tabs : CallOK(t, job[t]) /\ PageOK(t, page[t]))'
      BY <2>1 DEF Inv, CallOK, PageOK, Made, Quoted, DealIds
    <2>4. Types' /\ FaucetOK'
      BY <2>1 DEF Inv, Types, DealIds, FaucetOK, FaucetBounded, Refunds
    <2>5. OneAtATime' /\ (IsFiniteSet(Orphans) /\ Cardinality(Orphans) <= MaxOrphans)'
      BY <2>1 DEF Inv, OneAtATime, Orphans
    <2>6. (\A d \in DealIds : DealOK(d))'
      BY <2>1 DEF Inv, DealOK, Made, Quoted, DealIds
    <2>7. (\A t \in Tabs : Sole(t) => Funded(t, job[t]))'
      BY <2>1 DEF Inv, Sole, Funded
    <2> QED
      BY <2>2, <2>3, <2>4, <2>5, <2>6, <2>7 DEF Inv
  <1>2. ASSUME NEW t \in Tabs, Click(t)
        PROVE  Inv'
    BY <1>2, CheckoutAssumption, FundClicked, ListClicked, CancelClicked DEF Click
  <1>3. ASSUME NEW t \in Tabs, Step(t)
        PROVE  Inv'
    BY <1>3, ListingRead, BalanceRead, BalancePolled, AllowanceRead, Sent, ReceiptShown DEF Step
  <1>4. ASSUME NEW t \in Tabs, Rejects(t) \/ Leave(t) \/ Reload(t)
        PROVE  Inv'
    BY <1>4, Rejected, LinkFollowed, Reloaded
  <1>5. ASSUME NEW w \in Wallets, Include(w)
        PROVE  Inv'
    BY <1>5, Included
  <1>6. CASE FaucetNext /\ UNCHANGED <<owner, chainVars, tabVars>>
    BY <1>6, FaucetStep
  <1> QED
    BY <1>1, <1>2, <1>3, <1>4, <1>5, <1>6 DEF Next

\* Calls, pages, transactions and deals stay in order.
THEOREM Invariance == Spec => [](Inv /\ AllMatched)
  <1>1. Init => Inv /\ AllMatched
    BY InitInv
  <1>2. Inv /\ AllMatched /\ [Next]_vars => (Inv /\ AllMatched)'
    BY StepKeepsInv, StepKeepsMatched
  <1> QED
    BY <1>1, <1>2, PTL DEF Spec

\* The variables keep their types: in particular a receipt's number is that of a deal that exists,
\* and the server never works on more requests than it can.
THEOREM TypeCorrect == Spec => []TypeOK
  <1>1. Inv /\ AllMatched => TypeOK
    <2> SUFFICES ASSUME Inv, AllMatched PROVE TypeOK
      OBVIOUS
    <2>1. reading \in [Wallets -> 0 .. MaxRequests] /\ minting \in [Wallets -> 0 .. MaxRequests]
      BY FaucetAssumption DEF Inv, FaucetOK
    <2> QED
      BY <2>1 DEF Inv, AllMatched, Types, FaucetOK, FaucetTypeOK, TypeOK
  <1> QED
    BY <1>1, Invariance, PTL

\* A deal number on a page is of a deal of this listing and wallet, and a listing number of a listing
\* of this wallet with the terms chosen on the page: the receipt is found by its transaction, not by
\* the order of events, and a call whose page was left shows nothing on a later one.
THEOREM NumbersShownAreOwn == Spec => []ShownIsOwn
  <1>1. Inv => ShownIsOwn
    BY DEF Inv, PageOK, Made, ShownIsOwn
  <1> QED
    BY <1>1, Invariance, PTL

\* A buyer who is told that the purchase failed has not paid on any of the wallet's pages, except one
\* that is reading its receipt, gave up its wait, or had been left when the number came.
THEOREM ErrorsAreHonest == Spec => []ErrorIsHonest
  <1>1. Inv => ErrorIsHonest
    <2> SUFFICES ASSUME Inv, NEW d \in DealIds \ told, deals[d].tab \notin gaveUp
                 PROVE  At(deals[d].tab, "mined")
      BY DEF ErrorIsHonest
    <2>1. AboutToTell(job[deals[d].tab], d)
      BY DEF Inv, DealOK
    <2> QED
      BY <2>1 DEF AboutToTell, At
  <1> QED
    BY <1>1, Invariance, PTL

\* However requests overlap, no wallet is granted more than the server's limit of requests at once
\* allows, beyond what it came with or the target, and what its cancelled listings gave back.
THEOREM GrantsAreBounded == Spec => []FaucetBounded
  <1>1. Inv => FaucetBounded
    BY DEF Inv, FaucetOK
  <1> QED
    BY <1>1, Invariance, PTL

\* A buyer signs for what fund will require, and pays at most one token unit more: for every price,
\* share and unit the two roundings can meet in.
THEOREM PaysRequired == Spec => []PaysWhatItTakes
  <1>1. Inv => PaysWhatItTakes
    <2> SUFFICES ASSUME Inv PROVE PaysWhatItTakes
      OBVIOUS
    <2>1. ASSUME NEW i \in ListingIds
          PROVE  /\ Quoted(i) \in Nat /\ Required(listings[i].terms) \in Nat
                 /\ Required(listings[i].terms) <= Quoted(i)
                 /\ Quoted(i) <= Required(listings[i].terms) + 1
      BY QuoteCovers DEF Inv, Types, ListingType, Quoted
    <2>2. ASSUME NEW w \in Wallets, NEW n \in DOMAIN mempool[w], mempool[w][n].kind = "fund"
          PROVE  mempool[w][n].amount >= Required(listings[mempool[w][n].listing].terms)
      <3>1. PICK x : x = mempool[w][n]
        OBVIOUS
      <3>2. x.listing \in ListingIds /\ x.amount = Quoted(x.listing)
        BY <2>2, <3>1 DEF Inv, SentOK, TxOK, Made
      <3> QED
        BY <2>1, <3>1, <3>2
    <2>3. ASSUME NEW d \in DealIds
          PROVE  deals[d].amount <= Required(listings[deals[d].listing].terms) + 1
      <3>1. deals[d].listing \in ListingIds /\ deals[d].amount = Quoted(deals[d].listing)
        BY DEF Inv, DealOK, Made
      <3> QED
        BY <2>1, <3>1
    <2> QED
      BY <2>2, <2>3 DEF PaysWhatItTakes
  <1> QED
    BY <1>1, Invariance, PTL

\* A wallet that runs one call at a time and has waited for everything it sent has what its funding
\* needs when the funding is included: the balance and the allowance read before the signature still
\* hold.
THEOREM OnlyRacesRevert == Spec => []RevertsOnlyForRaces
  <1>1. Inv => RevertsOnlyForRaces
    <2> SUFFICES ASSUME Inv, NEW t \in Tabs, Sole(t), mempool[owner[t]] # <<>>,
                        Head(mempool[owner[t]]).kind = "fund",
                        listings[Head(mempool[owner[t]]).listing].state = "active",
                        Quote(listings[Head(mempool[owner[t]]).listing].terms) > 0
                 PROVE  Succeeds(owner[t], Head(mempool[owner[t]]))
      BY DEF RevertsOnlyForRaces, Sole
    <2>1. PICK w \in Wallets : w = owner[t]
      BY DEF Inv, Types
    <2>2. PICK x : x = mempool[w][1]
      OBVIOUS
    <2>3. mempool[w] \in Seq(Tx) /\ mempool[w] # <<>>
      BY <2>1 DEF Inv, Types
    <2>4. 1 \in DOMAIN mempool[w] /\ x = Head(mempool[w]) /\ x \in Tx
      BY <2>2, <2>3
    <2>5. /\ TxOK(w, x) /\ (x.awaited => Awaits(job[x.tab], x))
          /\ (~x.awaited => x.tab \in gaveUp)
      BY <2>2, <2>4 DEF Inv, SentOK
    <2>6. x.tab = t
      BY <2>1, <2>4, <2>5 DEF TxOK, Sole, Tx
    <2>7. x.awaited /\ Awaits(job[t], x)
      BY <2>5, <2>6 DEF Sole
    <2>8. job[t].at = "waiting" /\ x.amount = job[t].need /\ x.kind = "fund"
      BY <2>1, <2>4, <2>7 DEF Awaits
    <2>9. balance[w] >= x.amount /\ allowance[w] >= x.amount
      BY <2>1, <2>8 DEF Inv, Funded
    <2>10. x.listing \in ListingIds /\ x.amount = Quoted(x.listing)
      BY <2>5, <2>8 DEF TxOK, Made
    <2>11. /\ Quoted(x.listing) \in Nat /\ Required(listings[x.listing].terms) \in Nat
           /\ Required(listings[x.listing].terms) <= Quoted(x.listing)
      BY <2>10, QuoteCovers DEF Inv, Types, ListingType, Quoted
    <2>12. listings[x.listing].state = "active" /\ Quoted(x.listing) > 0
      BY <2>1, <2>4 DEF Quoted
    <2>13. balance[w] \in Nat /\ allowance[w] \in Nat
      BY DEF Inv, Types, FaucetOK
    <2>14. Succeeds(w, x)
      BY <2>8, <2>9, <2>10, <2>11, <2>12, <2>13 DEF Succeeds, CanPull
    <2> QED
      BY <2>1, <2>4, <2>14
  <1> QED
    BY <1>1, Invariance, PTL
=============================================================================
