------------------------------ MODULE Checkout ------------------------------
(***************************************************************************)
(* Buying and listing from the browser: fund() and FundButton of           *)
(* packages/funding, listItem and cancelListing of apps/web/lib/tx.ts, and *)
(* what the pages then show.  Each is a chain of awaits (read, read, sign, *)
(* wait, sign, wait) run for a page against other pages, of the same       *)
(* wallet or of others, the faucet, and a chain that includes a wallet's   *)
(* transactions in nonce order, some of them after nobody waits any more.  *)
(* A page that is left by a link is gone, but its call goes on and signs,  *)
(* beside the calls of the wallet's later pages.                           *)
(***************************************************************************)
EXTENDS Faucet, Totals, Sequences

CONSTANTS
  Tabs,                \* pages, each with the call it started; a browser tab may have left several
  Owners,              \* whose pages they may be: functions from pages to wallets
  Terms,               \* what a seller may list: price (100 is one token unit), bps, bond
  NoTerms,             \* the terms of a listing that was not made
  Purses,              \* what the wallets may hold when they arrive: functions to amounts
  Sellers,             \* bound: the pages from which somebody lists
  Stock,               \* bound: wallet -> the terms it lists, each once
  Impatient,           \* bound: wallets that give up on transactions they have sent
  MaxListings,         \* bound: listings made
  MaxOrphans           \* bound: transactions in the mempool that nobody waits for

BPS_DENOMINATOR == 10000

TermsType == [price : Nat, bps : 0 .. BPS_DENOMINATOR, bond : Nat]

ASSUME CheckoutAssumption ==
  /\ Wallets # {} /\ Owners \subseteq [Tabs -> Wallets]
  /\ Terms \subseteq TermsType /\ NoTerms \in TermsType
  /\ Purses \subseteq [Wallets -> Nat]
  /\ Sellers \subseteq Tabs
  /\ Stock \in [Wallets -> SUBSET Terms]
  /\ Impatient \subseteq Wallets
  /\ {MaxListings, MaxOrphans} \subseteq Nat

VARIABLES
  owner,               \* page -> the wallet connected in it
  listings,            \* listing id -> seller, terms, state on chain
  deals,               \* the deals funded so far
  allowance,           \* wallet -> what the escrow may pull
  mempool,             \* wallet -> its transactions in nonce order, none included yet
  job,                 \* page -> the call that is running, and where it waits
  page,                \* page -> what it shows
  left,                \* the pages left by a link while their call was running
  told,                \* the deals whose number was shown on the page that funded them
  gaveUp               \* pages that stopped waiting for a transaction they had sent, or had been
                       \* left when the number of what they bought came

chainVars == <<listings, deals, allowance, mempool>>
tabVars == <<job, page, left, told, gaveUp>>
vars == <<faucetVars, owner, chainVars, tabVars>>

ListingIds == 1 .. MaxListings
DealIds == 1 .. Len(deals)

InitialBalances(w) == {purse[w] : purse \in Purses}

----------------------------------------------------------------------------
(* Units: lib/format.ts against what fund requires. *)

depositUsd1e8(price, bps) == (price * bps) \div BPS_DENOMINATOR
totalUsd1e8(price, bps) == price + depositUsd1e8(price, bps)
usd1e8ToUsdc(v) == v \div 100

\* tokenAmount of the buy page for the stable token.
Quote_PerPart(t) == usd1e8ToUsdc(t.price)

Quote(t) == usd1e8ToUsdc(totalUsd1e8(t.price, t.bps))

\* The contract converts price and deposit one by one.
Required(t) == usd1e8ToUsdc(t.price) + usd1e8ToUsdc(depositUsd1e8(t.price, t.bps))

----------------------------------------------------------------------------
(* The chain. *)

Tx == [tab : Tabs, kind : {"approve", "fund", "list", "cancel"}, listing : 0 .. MaxListings,
       terms : Terms \cup {NoTerms}, amount : Nat, awaited : BOOLEAN]

Unlisted(w) == [seller |-> w, terms |-> NoTerms, state |-> "absent"]

\* What a transaction of wallet w would answer: the id it makes, 0 if it reverts or makes none.
NextListing == CHOOSE i \in 1 .. MaxListings + 1 :
                 /\ i \in ListingIds => listings[i].state = "absent"
                 /\ \A j \in 1 .. i - 1 : listings[j].state # "absent"

CanPull(w, amount) == amount <= allowance[w] /\ amount <= balance[w]

Pull(w, amount) ==
  /\ balance' = [balance EXCEPT ![w] = @ - amount]
  /\ allowance' = [allowance EXCEPT ![w] = @ - amount]

Succeeds(w, tx) ==
  CASE tx.kind = "approve" -> TRUE
    [] tx.kind = "fund" -> /\ listings[tx.listing].state = "active"
                           /\ tx.amount > 0
                           /\ tx.amount >= Required(listings[tx.listing].terms)
                           /\ CanPull(w, tx.amount)
    [] tx.kind = "list" -> NextListing \in ListingIds /\ CanPull(w, tx.terms.bond)
    [] tx.kind = "cancel" -> listings[tx.listing].state = "active" /\ listings[tx.listing].seller = w

Execute(w, tx) ==
  \/ /\ tx.kind = "approve"
     /\ allowance' = [allowance EXCEPT ![w] = tx.amount]
     /\ UNCHANGED <<balance, listings, deals>>
  \/ /\ tx.kind = "fund"
     /\ Pull(w, tx.amount)
     /\ listings' = [listings EXCEPT ![tx.listing].state = "sold"]
     /\ deals' = Append(deals, [listing |-> tx.listing, buyer |-> w, amount |-> tx.amount,
                                tab |-> tx.tab])
  \/ /\ tx.kind = "list"
     /\ Pull(w, tx.terms.bond)
     /\ listings' = [listings EXCEPT ![NextListing] =
                       [seller |-> w, terms |-> tx.terms, state |-> "active"]]
     /\ UNCHANGED deals
  \/ /\ tx.kind = "cancel"
     /\ listings' = [listings EXCEPT ![tx.listing].state = "cancelled"]
     /\ balance' = [balance EXCEPT ![w] = @ + listings[tx.listing].terms.bond]
     /\ UNCHANGED <<deals, allowance>>

\* The id in the event that the receipt carries; a reverted transaction has no events.
EventId(w, tx) ==
  IF ~Succeeds(w, tx) THEN 0
  ELSE CASE tx.kind = "fund" -> Len(deals) + 1
         [] tx.kind = "list" -> NextListing
         [] OTHER -> 0

\* A block includes the oldest transaction of a wallet, and its receipt reaches the call that still
\* waits for it.  A receipt of an approval is not looked at.
Include(w) ==
  /\ mempool[w] # <<>>
  /\ LET tx == Head(mempool[w]) IN
     /\ \/ Succeeds(w, tx) /\ Execute(w, tx)
        \/ ~Succeeds(w, tx) /\ UNCHANGED <<balance, listings, deals, allowance>>
     /\ job' = IF ~tx.awaited THEN job
               ELSE [job EXCEPT ![tx.tab].at = IF tx.kind = "approve" THEN "send" ELSE "mined",
                                ![tx.tab].got = EventId(w, tx)]
  /\ mempool' = [mempool EXCEPT ![w] = Tail(@)]
  /\ UNCHANGED <<reading, minting, owner, page, left, told, gaveUp>>

----------------------------------------------------------------------------
(* The pages and their calls. *)

NoJob == [at |-> "idle", kind |-> "none", listing |-> 0, terms |-> NoTerms, need |-> 0, got |-> 0]

\* A buy page has the number of its listing, a sell page the terms the seller chose; listing 0 is a
\* seller's page, or none.
NoPage == [listing |-> 0, terms |-> NoTerms, shown |-> 0, error |-> FALSE]

Busy(t) == job[t].at # "idle"

At(t, place) == job[t].at = place

Goto(t, place) == job' = [job EXCEPT ![t].at = place]

\* A button is disabled while its call runs.
Start(t, first) ==
  /\ ~Busy(t)
  /\ job' = [job EXCEPT ![t] = first]
  /\ UNCHANGED <<faucetVars, owner, chainVars, left, told, gaveUp>>

\* FundButton, gone once the page shows a deal.  It is offered to the listing's seller, and for
\* listings no longer active, as well.  A click leaves the last error on the page.
ClickFund(t, i) ==
  /\ listings[i].state # "absent"
  /\ page[t].listing = i => page[t].shown = 0
  /\ page' = IF page[t].listing = i THEN page ELSE [page EXCEPT ![t] = [NoPage EXCEPT !.listing = i]]
  /\ Start(t, [NoJob EXCEPT !.at = "listing", !.kind = "fund", !.listing = i,
                            !.need = Quote(listings[i].terms)])

\* Bounds: one listing is made at a time, each of a wallet's once, and not more than MaxListings.
MayList(u, terms) ==
  /\ terms \in Stock[owner[u]]
  /\ \A i \in ListingIds : listings[i].seller = owner[u] => listings[i].terms # terms
  /\ NextListing \in ListingIds
  /\ \A t \in Tabs : job[t].kind # "list"
  /\ \A w \in Wallets : \A n \in DOMAIN mempool[w] : mempool[w][n].kind # "list"

\* listItem; without a bond there is nothing to approve.
ClickList(t, terms) ==
  /\ MayList(t, terms)
  /\ page' = [page EXCEPT ![t] = [NoPage EXCEPT !.terms = terms]]
  /\ Start(t, [NoJob EXCEPT !.at = IF terms.bond > 0 THEN "balance" ELSE "send",
                            !.kind = "list", !.terms = terms, !.need = terms.bond])

\* cancelListing, from a page whose idea of the listing may be old.
ClickCancel(t, i) ==
  /\ listings[i].state # "absent" /\ listings[i].seller = owner[t]
  /\ page' = [page EXCEPT ![t] = NoPage]
  /\ Start(t, [NoJob EXCEPT !.at = "send", !.kind = "cancel", !.listing = i])

Orphans == UNION {{<<w, n>> : n \in {k \in DOMAIN mempool[w] : ~mempool[w][k].awaited}} : w \in Wallets}

\* A wait for a transaction that ends without its receipt leaves the transaction where it is.
Unawaited(t) ==
  /\ job[t].at \in {"approving", "waiting"} =>
       owner[t] \in Impatient /\ Cardinality(Orphans) < MaxOrphans
  /\ LET queue == mempool[owner[t]] IN
     mempool' = [mempool EXCEPT ![owner[t]] =
                   [n \in DOMAIN queue |-> [queue[n] EXCEPT !.awaited = @ /\ queue[n].tab # t]]]

Abandoned(t) == gaveUp' = gaveUp \cup {u \in {t} : job[u].at \in {"approving", "waiting", "mined"}}

Ends(t) == job' = [job EXCEPT ![t] = NoJob] /\ left' = left \ {t}

\* What a call ends with is seen by nobody when its page was left.
Shows(t, g) == page' = IF t \in left THEN page ELSE [page EXCEPT ![t] = g]

\* The end of a call that throws: the page shows the error, the button is back.
Throw_StaysBusy(t) ==
  /\ Shows(t, [page[t] EXCEPT !.error = (job[t].kind = "fund")])
  /\ IF job[t].kind = "fund" /\ At(t, "mined") THEN UNCHANGED <<job, left>> ELSE Ends(t)

Throw(t) ==
  /\ Shows(t, [page[t] EXCEPT !.error = (job[t].kind = "fund")])
  /\ Ends(t)

\* Any await may reject: the chain switch, a read, the wallet's user, a receipt that takes too long.
Rejects(t) ==
  /\ Busy(t)
  /\ Throw(t)
  /\ Unawaited(t)
  /\ Abandoned(t)
  /\ UNCHANGED <<faucetVars, owner, listings, deals, allowance, told>>

\* A link to another page unmounts this one and stops nothing: its call reads, signs and sends on.
Leave(t) ==
  /\ t \notin left
  /\ Busy(t) \/ page[t] # NoPage
  /\ page' = [page EXCEPT ![t] = NoPage]
  /\ left' = left \cup {u \in {t} : Busy(u)}
  /\ UNCHANGED <<faucetVars, owner, chainVars, job, told, gaveUp>>

\* The browser tab is reloaded or closed, which ends the calls of the pages it shows or has left,
\* one step for each.
Reload(t) ==
  /\ Busy(t)
  /\ page' = [page EXCEPT ![t] = NoPage]
  /\ Ends(t)
  /\ Unawaited(t)
  /\ Abandoned(t)
  /\ UNCHANGED <<faucetVars, owner, listings, deals, allowance, told>>

GotListing(t) ==
  /\ At(t, "listing")
  /\ \/ /\ listings[job[t].listing].state = "active"
        /\ Goto(t, "balance")
        /\ UNCHANGED <<page, left>>
     \/ listings[job[t].listing].state # "active" /\ Throw(t)
  /\ UNCHANGED <<faucetVars, owner, chainVars, told, gaveUp>>

\* Short of tokens, the call posts to /faucet and ignores what comes back.
GotBalance(t) ==
  /\ At(t, "balance")
  /\ \/ balance[owner[t]] >= job[t].need /\ Goto(t, "allowance") /\ UNCHANGED reading
     \/ balance[owner[t]] < job[t].need /\ Goto(t, "poll") /\ Ask(owner[t])
  /\ UNCHANGED <<balance, minting, owner, chainVars, page, left, told, gaveUp>>

Polled_GoesOn(t) ==
  /\ At(t, "poll")
  /\ Goto(t, "allowance")
  /\ UNCHANGED <<faucetVars, owner, chainVars, page, left, told, gaveUp>>

\* The last balance read after the faucet: up to 25 seconds, then the call gives up.
Polled(t) ==
  /\ At(t, "poll")
  /\ \/ balance[owner[t]] >= job[t].need /\ Goto(t, "allowance") /\ UNCHANGED <<page, left>>
     \/ balance[owner[t]] < job[t].need /\ Throw(t)
  /\ UNCHANGED <<faucetVars, owner, chainVars, told, gaveUp>>

Sign(t, kind, amount) ==
  /\ mempool' = [mempool EXCEPT ![owner[t]] =
                   Append(@, [tab |-> t, kind |-> kind, listing |-> job[t].listing,
                              terms |-> job[t].terms, amount |-> amount, awaited |-> TRUE])]
  /\ UNCHANGED <<faucetVars, owner, listings, deals, allowance, page, left, told, gaveUp>>

\* Approval is for what this call needs, not for what the escrow may pull for another page too.
GotAllowance(t) ==
  /\ At(t, "allowance")
  /\ \/ /\ allowance[owner[t]] >= job[t].need
        /\ Goto(t, "send")
        /\ UNCHANGED <<faucetVars, owner, chainVars, page, left, told, gaveUp>>
     \/ /\ allowance[owner[t]] < job[t].need
        /\ Goto(t, "approving")
        /\ Sign(t, "approve", job[t].need)

Send(t) ==
  /\ At(t, "send")
  /\ Goto(t, "waiting")
  /\ Sign(t, job[t].kind, job[t].need)

\* The receipt: fund() throws if it has no Funded event, listItem answers 0 if it has no Listed
\* event, and cancelListing does not look.
Show(t, id) ==
  /\ Shows(t, [page[t] EXCEPT !.shown = id])
  /\ Ends(t)
  /\ told' = told \cup {d \in {id} : job[t].kind = "fund" /\ t \notin left}
  /\ gaveUp' = gaveUp \cup {u \in {t} \cap left : job[u].kind = "fund"}

GotReceipt_LastDeal(t) ==
  /\ At(t, "mined")
  /\ Show(t, IF job[t].kind = "fund" THEN Len(deals) ELSE job[t].got)
  /\ UNCHANGED <<faucetVars, owner, chainVars>>

GotReceipt_Rechecks(t) ==
  /\ At(t, "mined")
  /\ IF job[t].kind = "fund" /\ listings[job[t].listing].state # "active"
     THEN Throw(t) /\ UNCHANGED <<told, gaveUp>>
     ELSE Show(t, job[t].got)
  /\ UNCHANGED <<faucetVars, owner, chainVars>>

GotReceipt(t) ==
  /\ At(t, "mined")
  /\ IF job[t].kind = "fund" /\ job[t].got = 0
     THEN Throw(t) /\ UNCHANGED <<told, gaveUp>>
     ELSE Show(t, job[t].got)
  /\ UNCHANGED <<faucetVars, owner, chainVars>>

Step(t) ==
  \/ GotListing(t)
  \/ GotBalance(t)
  \/ Polled(t)
  \/ GotAllowance(t)
  \/ Send(t)
  \/ GotReceipt(t)

----------------------------------------------------------------------------
Init ==
  /\ FaucetInit(Purses)
  /\ owner \in Owners
  /\ listings = [i \in ListingIds |-> Unlisted(CHOOSE w \in Wallets : TRUE)]
  /\ deals = <<>>
  /\ allowance = [w \in Wallets |-> 0]
  /\ mempool = [w \in Wallets |-> <<>>]
  /\ job = [t \in Tabs |-> NoJob]
  /\ page = [t \in Tabs |-> NoPage]
  /\ left = {}
  /\ told = {}
  /\ gaveUp = {}

Click(t) ==
  \/ \E i \in ListingIds : ClickFund(t, i) \/ (t \in Sellers /\ ClickCancel(t, i))
  \/ t \in Sellers /\ \E terms \in Terms : ClickList(t, terms)

Next ==
  \/ \E t \in Tabs : Click(t) \/ Step(t) \/ Rejects(t) \/ Leave(t) \/ Reload(t)
  \/ \E w \in Wallets : Include(w)
  \/ FaucetNext /\ UNCHANGED <<owner, chainVars, tabVars>>

Spec == Init /\ [][Next]_vars

\* An await settles in the end, and a block includes what is in the mempool.  Nobody has to click,
\* no faucet has to pay.
Fairness ==
  /\ \A t \in Tabs : WF_vars(Step(t))
  /\ \A w \in Wallets : WF_vars(Include(w))

FairSpec == Spec /\ Fairness

----------------------------------------------------------------------------
ListingType ==
  [seller : Wallets, terms : Terms \cup {NoTerms}, state : {"absent", "active", "cancelled", "sold"}]

DealType == [listing : ListingIds, buyer : Wallets, amount : Nat, tab : Tabs]

JobType ==
  [at : {"idle", "listing", "balance", "poll", "allowance", "approving", "send", "waiting", "mined"},
   kind : {"none", "fund", "list", "cancel"}, listing : 0 .. MaxListings,
   terms : Terms \cup {NoTerms}, need : Nat, got : Nat]

PageType ==
  [listing : 0 .. MaxListings, terms : Terms \cup {NoTerms}, shown : Nat, error : BOOLEAN]

TypeOK ==
  /\ FaucetTypeOK
  /\ owner \in [Tabs -> Wallets]
  /\ listings \in [ListingIds -> ListingType]
  /\ deals \in Seq(DealType)
  /\ allowance \in [Wallets -> Nat]
  /\ mempool \in [Wallets -> Seq(Tx)]
  /\ Cardinality(Orphans) <= MaxOrphans
  /\ job \in [Tabs -> JobType]
  /\ page \in [Tabs -> PageType]
  /\ left \subseteq Tabs
  /\ told \subseteq DealIds
  /\ gaveUp \subseteq Tabs

\* "Payment locked - safe to meet", with a deal number (buy page 106-121): that deal exists, is of
\* this listing and this wallet, however many others were funded before the receipt was read.  The
\* listing number a seller is shown is a listing of theirs with the terms they chose, however many
\* others were made.
ShownIsOwn ==
  \A t \in Tabs : page[t].shown # 0 =>
    \/ /\ page[t].listing # 0
       /\ page[t].shown \in DealIds
       /\ deals[page[t].shown].buyer = owner[t]
       /\ deals[page[t].shown].listing = page[t].listing
    \/ /\ page[t].listing = 0
       /\ page[t].shown \in ListingIds
       /\ listings[page[t].shown].seller = owner[t]
       /\ listings[page[t].shown].terms = page[t].terms

\* An error on the buy page with the button back means that the wallet has locked nothing for the
\* listing that it was not told of, on this page or on another of its pages that is just reading the
\* receipt; unless a page stopped waiting for its receipt, or had been left by a link when the number
\* came: then, and only then, a buyer who is told that the purchase failed may have paid.
ErrorIsHonest ==
  \A t \in Tabs : page[t].error /\ ~Busy(t) /\ page[t].shown = 0 =>
    \A d \in DealIds \ told :
      deals[d].buyer = owner[t] /\ deals[d].listing = page[t].listing =>
        At(deals[d].tab, "mined") \/ deals[d].tab \in gaveUp

\* The bonds that came back to a seller who cancelled.
Refunds(w) ==
  [i \in ListingIds |-> IF listings[i].state = "cancelled" /\ listings[i].seller = w
                        THEN listings[i].terms.bond ELSE 0]

\* The cooldown is checked before an await and set after it, so it does not keep overlapping
\* requests apart; but a wallet is never given more than one grant per request that the server
\* works on at once beyond the target, or what it came with, and the bonds that came back.
FaucetBounded ==
  \A w \in Wallets :
    \E enough \in InitialBalances(w) \cup {TARGET} :
      balance[w] + minting[w] * GRANT <=
        enough + MaxRequests * GRANT + Total(Refunds(w), MaxListings)

\* The amount a buyer is asked for covers what fund requires although the page converts the sum
\* and the contract its parts, and is never more than one unit above it.
PaysWhatItTakes ==
  /\ \A w \in Wallets : \A n \in DOMAIN mempool[w] :
       mempool[w][n].kind = "fund" =>
         mempool[w][n].amount >= Required(listings[mempool[w][n].listing].terms)
  /\ \A d \in DealIds : deals[d].amount <= Required(listings[deals[d].listing].terms) + 1

\* The checks before the signature are enough for a wallet that runs one call at a time (the call of
\* a page that was left runs on, so it counts) and has seen every wait to its end: a funding reverts
\* only because the listing is gone, or because price and deposit come to less than one token unit:
\* then the page asks for nothing, which fund never takes.
RevertsOnlyForRaces ==
  \A t \in Tabs :
    LET queue == mempool[owner[t]] IN
    /\ t \notin gaveUp
    /\ \A u \in Tabs \ {t} : owner[u] # owner[t]
    /\ queue # <<>>
    /\ Head(queue).kind = "fund"
    /\ listings[Head(queue).listing].state = "active"
    /\ Quote(listings[Head(queue).listing].terms) > 0
    => Succeeds(owner[t], Head(queue))

\* FundButton's "Funding..." and the sell page's busy state never stay: every call ends, also when
\* its page was left.
ButtonComesBack == \A t \in Tabs : Busy(t) ~> ~Busy(t)

=============================================================================
