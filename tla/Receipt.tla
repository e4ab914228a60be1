------------------------------ MODULE Receipt ------------------------------
(***************************************************************************)
(* A visit to the receipt of a deal, deal/[dealId]/receipt/page.tsx, which *)
(* puts together what the chain says of the deal and, some time later,     *)
(* what the backend has indexed of it (module Indexer, GET /deals/:id of   *)
(* backend/src/app.ts).  Both are read once and never again: a behaviour   *)
(* ends when the page is complete.                                         *)
(*                                                                         *)
(* X_Fault, defined before X, is X with a plausible mistake that the runs  *)
(* are known to notice.  No other definition refers to it.                 *)
(***************************************************************************)
EXTENDS Indexer

CONSTANTS
  deal                 \* the deal the receipt is of

ASSUME ReceiptAssumption == deal \in Deals

VARIABLES
  page                 \* how far the page has loaded, the deal's state and the events it has

receiptVars == <<vars, page>>

----------------------------------------------------------------------------
Loading == [at |-> "deal", state |-> "None", events |-> <<>>]

getNotifications == Reverse(db.timeline[deal])

\* The notifications of a deal, newest first; a deal without a row is not found, and an error or
\* a backend that is down make no events.
getDealEvents == IF up /\ db.deal[deal].state # "None" THEN getNotifications ELSE <<>>

\* readDeal: on chain, now.  A deal that was never funded is an error, as is a call that fails.
GotDeal ==
  /\ page.at = "deal"
  /\ LET state == TrueState(EventsUpTo(height), deal) IN
     /\ state # "None"
     /\ page' = [page EXCEPT !.at = "events", !.state = state]
  /\ UNCHANGED vars

DealFails ==
  /\ page.at = "deal"
  /\ page' = [page EXCEPT !.at = "error"]
  /\ UNCHANGED vars

GotEvents ==
  /\ page.at = "events"
  /\ \E events \in {getDealEvents, <<>>} : page' = [page EXCEPT !.at = "shown", !.events = events]
  /\ UNCHANGED vars

terminalName(p) == IF p.state \in FinalEvents THEN p.state ELSE "none"

\* The rows under "On-chain proof": the event's transaction if the event is among those loaded.
proofs_NewestOnly(p) == {"Funded", "CheckedIn", terminalName(p)} \cap {Head(Append(p.events, "none"))}

proofs(p) == {"Funded", "CheckedIn", terminalName(p)} \cap ToSet(p.events)

----------------------------------------------------------------------------
ReceiptInit == Init /\ page = Loading

Loaded == page.at \in {"shown", "error"}

ReceiptNext ==
  \/ ~Loaded /\ Next /\ UNCHANGED page
  \/ GotDeal
  \/ DealFails
  \/ GotEvents

ReceiptSpec == ReceiptInit /\ [][ReceiptNext]_receiptVars

----------------------------------------------------------------------------
\* A receipt is never false: it proves nothing that has not happened to the deal, and what it lacks of
\* the deal's course, the backend's answer lacked because the mirror had not come that far, however
\* far the chain had when the page read the deal's state (page.tsx 55-74, 108-112).
ReceiptIsTrue ==
  [][ page'.at = "shown" =>
        /\ \A name \in proofs(page') : Happened(EventsUpTo(height), {name}, deal)
        /\ \A name \in {"Funded", "CheckedIn", terminalName(page')} :
             page'.events # <<>> /\ Happened(EventsUpTo(db.cursor), {name}, deal)
               => name \in proofs(page')
    ]_receiptVars

============================================================================
