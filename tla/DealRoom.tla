------------------------------ MODULE DealRoom ------------------------------
(***************************************************************************)
(* The two pages of one deal in the stable token, app/deal/[dealId] on the *)
(* seller's and on the buyer's phone, with the transactions of lib/tx.ts,  *)
(* the outcomes of lib/cancellation.ts and the hand-over of packages/qr,   *)
(* against a deal that follows Handoff (which Escrow implements).          *)
(*                                                                         *)
(* A page polls the chain; an answer may fail, be late, and come after the *)
(* answer to a younger poll.  A transaction may be included at any time    *)
(* after it was sent, also when its page has given up on the receipt.      *)
(*                                                                         *)
(* X_Fault, defined before X, is X with a plausible mistake that the runs  *)
(* are known to notice.  No other definition refers to it.                 *)
(***************************************************************************)
EXTENDS Handoff, FiniteSets

CONSTANTS
  deal,                \* the deal both pages are about
  FreeWindow, Ttl,     \* its listing's freeCancelWindow and dealTtl
  MaxNow,              \* bound: last block timestamp
  MaxSkew,             \* how far the buyer's phone may be from the time of the chain
  MaxJobs              \* bound: actions in progress or with a transaction on its way, one of a kind

ASSUME RoomAssumption ==
  /\ deal \in Deals
  /\ {FreeWindow, Ttl, MaxNow, MaxSkew, MaxJobs} \subseteq Nat
  /\ FreeWindow <= Ttl /\ Ttl > 0

VARIABLES
  view,                \* page -> the state of the deal it shows, "none" while it shows none
  early,               \* was the buyer's page last rendered in the free window, by the phone's clock
  drawn,               \* history: the time of the chain at which that was, 0 while the page shows no deal
  jobs,                \* action -> how far run() has come with it
  txs,                 \* actions whose transaction is sent and in no block yet
  refused,             \* history: actions in progress whose transaction a hook has reverted
  said,                \* what the buyer's page promised of the cancellation last asked for
  scan,                \* the buyer's scanner: "armed", "handled", or "scanned" for good
  shown                \* has the seller's page shown the code of this deal

pageVars == <<view, early, drawn, jobs, txs, refused, said, scan, shown>>
roomVars == <<handoffVars, pageVars>>

----------------------------------------------------------------------------
(* The deal. *)

Pages == {"buyer", "seller"}

Actions == {"checkIn", "agreeCancel", "confirm", "buyerCancel"}

Page(k) == IF k \in {"checkIn", "agreeCancel"} THEN "seller" ELSE "buyer"

isTerminal(s) == s \in {"Paid", "Returned", "Forfeited"}

Live(s) == s \in {"Funded", "CheckedIn"}

\* What getDeal answers.
DealState ==
  CASE phase[deal] = "None" -> "none"
    [] phase[deal] = "Open" /\ met[deal] -> "CheckedIn"
    [] phase[deal] = "Open" /\ ~met[deal] -> "Funded"
    [] OTHER -> phase[deal]

Open == phase[deal] = "Open"

NoPromise == [full |-> FALSE, early |-> FALSE, met |-> FALSE, at |-> 0]

\* What the phone may say the time is.
nowSec == now - MaxSkew .. now + MaxSkew

inFreeWindow(at) == at < terms[deal].freeUntil

FullRefund(bondTo) == Return(deal, [seller |-> 0, bondTo |-> bondTo])

Forfeit == Keep(deal, [seller |-> 1, bondTo |-> "seller"])

\* Two tokens are locked, the price and the deposit.
Executes(k) ==
  \/ k = "checkIn" /\ Meet(deal)
  \/ k = "agreeCancel" /\ FullRefund("seller")
  \/ k = "confirm" /\ Pay(deal, [seller |-> 1, bondTo |-> "seller"])
  \/ /\ k = "buyerCancel"
     /\ \/ now < terms[deal].freeUntil /\ FullRefund("seller")
        \/ now >= terms[deal].freeUntil /\ ~met[deal] /\ FullRefund("buyer")
        \/ now >= terms[deal].freeUntil /\ met[deal] /\ Forfeit

Reverts(k) == ~Open \/ (k = "checkIn" /\ met[deal])

\* The reputation contract is told of every end but a cancellation in the free window, and
\* refuses when its owner has taken the role from the escrow or wired it elsewhere.
HookReverts(k) ==
  /\ Open
  /\ k \in {"confirm", "agreeCancel"} \/ (k = "buyerCancel" /\ now >= terms[deal].freeUntil)

Idle == {k \in Actions : jobs[k] = "idle"}

Include(k) ==
  /\ k \in txs
  /\ txs' = txs \ {k}
  /\ \/ Executes(k) /\ UNCHANGED refused
     \/ Reverts(k) /\ UNCHANGED <<handoffVars, refused>>
     \/ HookReverts(k) /\ refused' = refused \cup ({k} \ Idle) /\ UNCHANGED handoffVars
  /\ said' = IF k = "buyerCancel" THEN NoPromise ELSE said
  /\ UNCHANGED <<view, early, drawn, jobs, scan, shown>>

reclaimExpired ==
  /\ now >= terms[deal].expiry
  /\ (met[deal] /\ Forfeit) \/ (~met[deal] /\ FullRefund("buyer"))
  /\ UNCHANGED pageVars

Tick ==
  /\ now < MaxNow
  /\ Advance
  /\ UNCHANGED pageVars

----------------------------------------------------------------------------
(* What a page shows. *)

ShowsCode_Funded(p, s) == p = "seller" /\ Live(s)

\* The seller's page draws the code once the deal it shows is checked in.
ShowsCode(p, s) == p = "seller" /\ s = "CheckedIn"

\* The page renders an answer, or the error that replaces all of it ("none").  Without the
\* buyer's actions on it what was scanned is forgotten.
Show(p, s) ==
  /\ view' = [view EXCEPT ![p] = s]
  /\ \/ p = "seller" /\ UNCHANGED <<early, drawn>>
     \/ p = "buyer" /\ ~Live(s) /\ early' = FALSE /\ drawn' = 0
     \/ p = "buyer" /\ Live(s) /\ (\E at \in nowSec : early' = inFreeWindow(at)) /\ drawn' = now
  /\ scan' = IF p = "buyer" /\ ~Live(s) THEN "armed" ELSE scan
  /\ shown' = (shown \/ ShowsCode(p, s))

\* Every five seconds the deal is read and shown ...
refresh(p) ==
  /\ Show(p, DealState)
  /\ UNCHANGED <<handoffVars, jobs, txs, refused, said>>

\* ... unless the call fails, or its answer takes so long that others overtake it: each state the
\* deal has been in may be shown again, as often as it was asked for.
RefreshFails(p) ==
  /\ Show(p, "none")
  /\ UNCHANGED <<handoffVars, jobs, txs, refused, said>>

LateAnswer(p) ==
  /\ \/ Show(p, "Funded")
     \/ met[deal] /\ Show(p, "CheckedIn")
  /\ UNCHANGED <<handoffVars, jobs, txs, refused, said>>

----------------------------------------------------------------------------
(* The buttons. *)

\* The seller checks in until checked in, and may agree to cancel while the deal is live.
SellerActions(k) ==
  \/ k = "checkIn" /\ view["seller"] = "Funded"
  \/ k = "agreeCancel" /\ Live(view["seller"])

\* The buyer releases once the code is scanned, and may cancel while the deal is live.
BuyerActions(k) ==
  /\ Live(view["buyer"])
  /\ k = "buyerCancel" \/ (k = "confirm" /\ scan = "scanned")

\* The summary beside the buyer's cancel button, with what it was computed from.
buyerCancelOutcome_Window ==
  [full |-> early, early |-> early, met |-> view["buyer"] = "CheckedIn", at |-> drawn]

buyerCancelOutcome ==
  LET sellerCheckedIn == view["buyer"] = "CheckedIn" IN
  [full |-> early \/ ~sellerCheckedIn, early |-> early, met |-> sellerCheckedIn, at |-> drawn]

\* A transaction on its way: to the right chain, through the wallet and into a block.
Send(k) == k \notin txs /\ txs' = txs \cup {k}

Press(k) ==
  /\ SellerActions(k) \/ BuyerActions(k)
  /\ jobs[k] = "idle"
  /\ Cardinality({j \in Actions \ {k} : jobs[j] # "idle" \/ j \in txs}) < MaxJobs
  /\ jobs' = [jobs EXCEPT ![k] = "receipt"]
  /\ Send(k)
  /\ said' = IF k = "buyerCancel" THEN buyerCancelOutcome ELSE said
  /\ UNCHANGED <<handoffVars, view, early, drawn, refused, scan, shown>>

GotReceipt_Unmined(k) ==
  /\ jobs[k] = "receipt"
  /\ jobs' = [jobs EXCEPT ![k] = "flash"]
  /\ UNCHANGED <<handoffVars, view, early, drawn, txs, refused, said, scan, shown>>

\* Success is announced, the receipt's status is not looked at.
GotReceipt(k) ==
  /\ jobs[k] = "receipt"
  /\ k \notin txs
  /\ jobs' = [jobs EXCEPT ![k] = "flash"]
  /\ UNCHANGED <<handoffVars, view, early, drawn, txs, refused, said, scan, shown>>

\* run() ends with a refresh, which shows its own errors.
Done(k) ==
  /\ jobs[k] = "flash"
  /\ jobs' = [jobs EXCEPT ![k] = "idle"]
  /\ refused' = refused \ {k}
  /\ Show(Page(k), DealState) \/ Show(Page(k), "none")
  /\ UNCHANGED <<handoffVars, txs, said>>

\* Refused or on the wrong chain, and never sent; or no receipt in time, and in a block later.
Fails(k) ==
  /\ jobs[k] = "receipt"
  /\ jobs' = [jobs EXCEPT ![k] = "idle"]
  /\ refused' = refused \ {k}
  /\ txs' \in {txs, txs \ {k}}
  /\ UNCHANGED <<handoffVars, view, early, drawn, said, scan, shown>>

----------------------------------------------------------------------------
(* The hand-over. *)

ScannerOn == Live(view["buyer"]) /\ scan # "scanned"

\* What a camera or the clipboard may hold: the code of this deal, of another one, or neither.
Codes == {"ours", "other", "garbled"}

decodeHandoff(raw) == raw # "garbled"

\* What cannot be decoded is reported and read past; a code is handled, whichever deal it is of,
\* and nothing is read after it ...
accept(raw) ==
  /\ ScannerOn
  /\ scan = "armed"
  /\ raw = "ours" => shown
  /\ \/ ~decodeHandoff(raw) /\ scan' = scan
     \/ decodeHandoff(raw) /\ scan' = IF raw = "ours" THEN "scanned" ELSE "handled"
  /\ UNCHANGED <<handoffVars, view, early, drawn, jobs, txs, refused, said, shown>>

startCamera_KeepsHandled ==
  /\ ScannerOn
  /\ UNCHANGED roomVars

\* ... until the camera is started, or fails to start.
startCamera ==
  /\ ScannerOn
  /\ scan' = "armed"
  /\ UNCHANGED <<handoffVars, view, early, drawn, jobs, txs, refused, said, shown>>

----------------------------------------------------------------------------
RoomInit ==
  /\ HandoffInit
  /\ view = [p \in Pages |-> "none"]
  /\ early = FALSE
  /\ drawn = 0
  /\ jobs = [k \in Actions |-> "idle"]
  /\ txs = {}
  /\ refused = {}
  /\ said = NoPromise
  /\ scan = "armed"
  /\ shown = FALSE

PageStep(p) == refresh(p) \/ RefreshFails(p) \/ LateAnswer(p)

JobStep(k) == Press(k) \/ GotReceipt(k) \/ Done(k) \/ Fails(k)

RoomNext ==
  \/ \E p \in Pages : PageStep(p)
  \/ \E k \in Actions : JobStep(k) \/ Include(k)
  \/ \E raw \in Codes : accept(raw)
  \/ startCamera
  \/ reclaimExpired
  \/ Tick

----------------------------------------------------------------------------
States == {"none", "Funded", "CheckedIn", "Paid", "Returned", "Forfeited"}

RoomTypeOK ==
  /\ now \in 0 .. MaxNow
  /\ phase \in [Deals -> {"None", "Open", "Paid", "Returned", "Forfeited"}]
  /\ terms \in [Deals -> HandoffTerms] /\ met \in [Deals -> BOOLEAN] /\ award \in [Deals -> Awards]
  /\ view \in [Pages -> States]
  /\ jobs \in [Actions -> {"idle", "receipt", "flash"}]
  /\ txs \subseteq Actions
  /\ drawn \in 0 .. now
  /\ refused \subseteq Actions
  /\ said \in [full : BOOLEAN, early : BOOLEAN, met : BOOLEAN, at : 0 .. now]
  /\ scan \in {"armed", "handled", "scanned"}
  /\ early \in BOOLEAN /\ shown \in BOOLEAN

\* The release button, which tells the buyer to confirm at the meet, is unlocked only when the
\* seller's check-in is on chain (page.tsx 220-251, 307-333): however old the pages are that
\* showed and read the code, the seller's protection against a flaking buyer is in force.
ReleaseAfterCheckIn == shown \/ scan = "scanned" => met[deal]

\* What run() announces has happened, or can no longer happen, unless a hook reverted it: the
\* check-in is on chain or the deal over, and after any other success the deal is over, although
\* reverted transactions pass for successful ones (tx.ts 96-100) and race with others.  Only where
\* the reputation contract refused the escrow is a success announced of a deal that is still open.
\* The note stays on the page for good; it is enough to look at the moment it appears, for
\* nothing undoes a check-in or reopens a deal.
FlashMeansDone ==
  \A k \in Actions : jobs[k] = "flash" => ~Open \/ (k = "checkIn" /\ met[deal]) \/ k \in refused


\* A buyer's cancellation that ends the deal ends it as the summary beside the button said when it
\* was pressed (cancellation.ts 30-55), but in three cases: the seller checked in after the page
\* was drawn; a full refund was promised in the free window, which is over, and which when the page
\* was drawn was not over yet or over by less than the phone is late; a forfeit was announced in
\* the free window, by a phone that is ahead by at least what was left of it.
PromiseKept ==
  [][ "buyerCancel" \in txs \ txs' /\ Open /\ phase'[deal] # "Open"
      => LET freeUntil == terms[deal].freeUntil IN
         \/ phase'[deal] = IF said.full THEN "Returned" ELSE "Forfeited"
         \/ said.full /\ met[deal] /\ ~said.met
         \/ said.full /\ said.early /\ now >= freeUntil /\ said.at - MaxSkew < freeUntil
         \/ ~said.full /\ now < freeUntil /\ freeUntil <= said.at + MaxSkew
    ]_roomVars

=============================================================================
