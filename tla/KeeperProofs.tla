--------------------------- MODULE KeeperProofs ---------------------------
(***************************************************************************)
(* Proofs about Keeper and Workflow for any number of deals, any lifetimes *)
(* and horizon, any number of pending transactions, and any clock that is  *)
(* ahead of the chain.                                                     *)
(***************************************************************************)
EXTENDS Workflow, TLAPS

----------------------------------------------------------------------------
(* The inductive invariant. *)

\* A transaction in flight, awaited or reported was simulated for a deal that had expired.
InFlightIsExpired ==
  \A d \in Deals :
    pending[d] > 0 \/ At("receipt", d) \/ At("reclaimed", d)
      => phase[d] # "None" /\ now >= terms[d].expiry

\* What becomes of a deal whose transaction is in a block.
Decided(d) == ~Open(d) \/ NeedsPrice(d) \/ sweep.hook = "refused"

\* An awaited transaction that is in a block left its deal ended, or without the price it needs, or
\* was refused by a hook.
AwaitedIsDecided ==
  \A d \in Deals : At("receipt", d) /\ pending[d] = 0 => Decided(d)

Inv ==
  /\ TypeOK
  /\ InFlightIsExpired
  /\ AwaitedIsDecided
  /\ ReclaimedMeansEnded

\* The keeper starts asleep, with nothing sent and nothing reported.
LEMMA InitInv == Init => Inv
  BY KeeperAssumption DEF Init, HandoffInit, Inv, TypeOK, InFlightIsExpired, AwaitedIsDecided,
     ReclaimedMeansEnded, Asleep, At, Open, NoTerms, NoAward, HandoffTerms, Awards

----------------------------------------------------------------------------
(* What a step of the deals may do. *)

\* Deals are funded once, end once, and never forget a check-in; time does not go back.
DealsMoveOn ==
  /\ now' \in 0 .. MaxNow /\ now' >= now
  /\ phase' \in [Deals -> {"None", "Open", "Paid", "Returned", "Forfeited"}]
  /\ terms' \in [Deals -> HandoffTerms]
  /\ met' \in [Deals -> BOOLEAN]
  /\ award' \in [Deals -> Awards]
  /\ \A d \in Deals :
       /\ phase[d] # "None" => terms'[d] = terms[d] /\ phase'[d] # "None"
       /\ phase[d] \notin {"None", "Open"} => phase'[d] = phase[d]
       /\ met[d] => met'[d]

\* Ending a deal (Pay, Return, Keep) is such a step, and the deal it names has ended.
LEMMA EndMovesOn ==
  ASSUME TypeOK, NEW d \in Deals, NEW ended \in {"Paid", "Returned", "Forfeited"}, NEW a,
         End(d, ended, a)
  PROVE  DealsMoveOn /\ ~Open(d)'
  BY DEF End, DealsMoveOn, TypeOK, Open

\* Funding a deal is such a step.
LEMMA LockMovesOn ==
  ASSUME TypeOK, NEW d \in Deals, NEW t, Lock(d, t)
  PROVE  DealsMoveOn
  BY DEF Lock, DealsMoveOn, TypeOK

\* So is everything the parties do, and the passing of time.
LEMMA PartiesMoveOn ==
  ASSUME TypeOK, Parties
  PROVE  DealsMoveOn
  <1>1. CASE fund
    BY <1>1, LockMovesOn DEF fund
  <1>2. CASE now < MaxNow /\ Advance
    BY <1>2, KeeperAssumption DEF Advance, DealsMoveOn, TypeOK
  <1>3. ASSUME NEW d \in Deals, Meet(d) PROVE DealsMoveOn
    BY <1>3 DEF Meet, DealsMoveOn, TypeOK
  <1>4. ASSUME NEW d \in Deals, Pay(d, [seller |-> 1, bondTo |-> "seller"]) PROVE DealsMoveOn
    BY <1>4, EndMovesOn DEF Pay
  <1>5. ASSUME NEW d \in Deals, Return(d, [seller |-> 0, bondTo |-> "seller"]) PROVE DealsMoveOn
    BY <1>5, EndMovesOn DEF Return
  <1>6. ASSUME NEW d \in Deals, reclaimExpired(d) PROVE DealsMoveOn
    BY <1>6, EndMovesOn DEF reclaimExpired, Keep, Return
  <1> QED
    BY <1>1, <1>2, <1>3, <1>4, <1>5, <1>6 DEF Parties

\* What was decided of a deal stays so, as long as the sweep remembers what the hook did.
LEMMA DecidedStays ==
  ASSUME TypeOK, DealsMoveOn, sweep'.hook = sweep.hook, NEW d \in Deals, Decided(d),
         phase[d] # "None"
  PROVE  Decided(d)'
  BY DEF DealsMoveOn, Decided, Open, NeedsPrice, TypeOK

\* A step of the deals or of the owner that leaves the keeper alone keeps the invariant.
LEMMA DealsInv ==
  ASSUME Inv, DealsMoveOn, UNCHANGED keeperVars, wired' \in BOOLEAN
  PROVE  Inv'
  <1> USE DEF Inv, keeperVars
  <1>1. TypeOK'
    BY DEF TypeOK, DealsMoveOn
  <1>2. InFlightIsExpired'
    BY DEF InFlightIsExpired, DealsMoveOn, TypeOK, At, HandoffTerms
  <1>3. AwaitedIsDecided'
    BY DecidedStays DEF AwaitedIsDecided, InFlightIsExpired, At
  <1>4. ReclaimedMeansEnded'
    BY DecidedStays DEF ReclaimedMeansEnded, InFlightIsExpired, At, Decided
  <1> QED
    BY <1>1, <1>2, <1>3, <1>4

----------------------------------------------------------------------------
(* The steps of the chain and of the keeper. *)

\* A block includes a transaction: it settles the deal, or reverts because the deal has ended or
\* cannot be priced, or in the hook, which the sweep that waits for it remembers.
LEMMA IncludeInv ==
  ASSUME Inv, NEW d \in Deals, Include(d)
  PROVE  Inv'
  <1> USE DEF Inv
  <1>1. /\ pending' = [pending EXCEPT ![d] = @ - 1] /\ pending[d] > 0
        /\ wired' = wired
    BY DEF Include
  <1>2. phase[d] # "None" /\ now >= terms[d].expiry
    BY <1>1 DEF InFlightIsExpired
  <1>3. PICK hook \in {"quiet", "refused"} : Heard(d, hook)
    BY DEF Include
  <1>4. /\ sweep' \in [at : {"asleep", "clock", "deal", "report", "simulate", "receipt", "reclaimed"},
                       id : 0 .. MaxDealId, nowSec : 0 .. MaxNow, hook : {"quiet", "refused"}]
        /\ sweep'.at = sweep.at /\ sweep'.id = sweep.id
        /\ ~At("receipt", d) => sweep' = sweep
        /\ At("receipt", d) => sweep'.hook = hook
    <2>1. CASE At("receipt", d)
      BY <1>3, <2>1 DEF Heard, TypeOK
    <2>2. CASE ~At("receipt", d)
      BY <1>3, <2>2 DEF Heard, TypeOK
    <2> QED
      BY <2>1, <2>2
  <1>5. DealsMoveOn /\ (~Open(d)' \/ NeedsPrice(d)' \/ (At("receipt", d) => sweep'.hook = "refused"))
    <2>1. CASE Reclaimable(d) /\ reclaimExpired(d)
      <3>1. CASE Keep(d, [seller |-> 1, bondTo |-> "seller"])
        BY <3>1, EndMovesOn DEF Keep
      <3>2. CASE Return(d, [seller |-> 0, bondTo |-> "buyer"])
        BY <3>2, EndMovesOn DEF Return
      <3> QED
        BY <2>1, <3>1, <3>2 DEF reclaimExpired
    <2>2. CASE (~Reclaimable(d) \/ NeedsPrice(d)) /\ UNCHANGED handoffVars
      <3>1. DealsMoveOn
        BY <2>2 DEF handoffVars, DealsMoveOn, TypeOK
      <3>2. ~Open(d) \/ NeedsPrice(d)
        BY <1>2, <2>2 DEF Reclaimable
      <3> QED
        BY <2>2, <3>1, <3>2 DEF handoffVars, Open, NeedsPrice
    <2>3. CASE Heard(d, "refused") /\ UNCHANGED handoffVars
      <3>1. DealsMoveOn
        BY <2>3 DEF handoffVars, DealsMoveOn, TypeOK
      <3>2. At("receipt", d) => sweep'.hook = "refused"
        BY <2>3 DEF Heard, TypeOK
      <3> QED
        BY <3>1, <3>2
    <2> QED
      BY <2>1, <2>2, <2>3 DEF Include
  <1>6. TypeOK'
    <2>1. MaxPending \in Nat
      BY KeeperAssumption
    <2>2. pending[d] - 1 \in 0 .. MaxPending
      BY <1>1, <2>1 DEF TypeOK
    <2>3. pending' \in [Deals -> 0 .. MaxPending]
      BY <1>1, <2>2 DEF TypeOK
    <2>4. wired' \in BOOLEAN
      BY <1>1 DEF TypeOK
    <2> QED
      BY <1>4, <1>5, <2>3, <2>4 DEF TypeOK, DealsMoveOn
  <1>7. InFlightIsExpired'
    BY <1>1, <1>4, <1>5 DEF InFlightIsExpired, DealsMoveOn, TypeOK, At, HandoffTerms
  <1>8. ASSUME NEW e \in Deals, sweep.id = e, e # d
        PROVE  sweep' = sweep
    BY <1>4, <1>8 DEF At
  <1>9. AwaitedIsDecided'
    <2> SUFFICES ASSUME NEW e \in Deals, At("receipt", e)', (pending[e] = 0)'
                 PROVE  Decided(e)'
      BY DEF AwaitedIsDecided
    <2>0. At("receipt", e)
      BY <1>4 DEF At
    <2>1. CASE e = d
      BY <2>0, <2>1, <1>5 DEF Decided
    <2>2. CASE e # d
      <3>1. pending[e] = 0 /\ sweep' = sweep
        BY <1>1, <1>8, <2>0, <2>2 DEF At, TypeOK
      <3> QED
        BY <2>0, <3>1, <1>5, DecidedStays DEF AwaitedIsDecided, InFlightIsExpired
    <2> QED
      BY <2>1, <2>2
  <1>10. ReclaimedMeansEnded'
    <2> SUFFICES ASSUME NEW e \in Deals, At("reclaimed", e)'
                 PROVE  Decided(e)'
      BY DEF ReclaimedMeansEnded, Decided
    <2>1. At("reclaimed", e) /\ sweep' = sweep
      BY <1>4 DEF At
    <2>2. Decided(e) /\ phase[e] # "None"
      BY <2>1 DEF ReclaimedMeansEnded, Decided, InFlightIsExpired
    <2> QED
      BY <1>5, <2>1, <2>2, DecidedStays
  <1> QED
    BY <1>6, <1>7, <1>9, <1>10

\* The sweep's next position is one of its positions, and neither a wait for a receipt nor a report.
LEMMA NextDealType ==
  ASSUME TypeOK, NEW d \in Deals, sweep.id = d, NextDeal(d)
  PROVE  sweep' \in [at : {"asleep", "deal"}, id : 0 .. MaxDealId, nowSec : 0 .. MaxNow,
                     hook : {"quiet", "refused"}]
  <1>1. MaxDealId \in Nat /\ MaxNow \in Nat
    BY KeeperAssumption
  <1>2. d \in 0 .. MaxDealId /\ sweep.nowSec \in 0 .. MaxNow
    BY DEF TypeOK
  <1>3. CASE d + 1 <= MaxDealId
    <2>1. sweep' = [at |-> "deal", id |-> d + 1, nowSec |-> sweep.nowSec, hook |-> "quiet"]
      BY <1>3 DEF NextDeal, Scanning, Asleep
    <2>2. d + 1 \in 0 .. MaxDealId
      BY <1>1, <1>2, <1>3
    <2> QED
      BY <1>2, <2>1, <2>2
  <1>4. CASE ~(d + 1 <= MaxDealId)
    BY <1>1, <1>4 DEF NextDeal, Asleep
  <1> QED
    BY <1>3, <1>4

\* A step of the sweep that neither sends nor receives keeps the invariant.
LEMMA QuietInv ==
  ASSUME Inv, UNCHANGED <<chainVars, pending>>,
         sweep' \in [at : {"asleep", "clock", "deal", "report", "simulate"},
                     id : 0 .. MaxDealId, nowSec : 0 .. MaxNow, hook : {"quiet", "refused"}]
  PROVE  Inv'
  <1>1. TypeOK'
    BY DEF Inv, TypeOK, chainVars, handoffVars
  <1>2. sweep'.at \notin {"receipt", "reclaimed"}
    OBVIOUS
  <1> QED
    BY <1>1, <1>2 DEF Inv, InFlightIsExpired, AwaitedIsDecided, ReclaimedMeansEnded,
       At, chainVars, handoffVars

\* Sending: the simulation found the deal open and expired.
LEMMA SendInv ==
  ASSUME Inv, NEW d \in Deals, Send(d)
  PROVE  Inv'
  <1> USE DEF Inv
  <1>1. /\ pending' = [pending EXCEPT ![d] = @ + 1]
        /\ sweep' = [sweep EXCEPT !.at = "receipt"]
        /\ sweep.id = d
        /\ UNCHANGED chainVars
    BY DEF Send, Wait, At
  <1>2. Open(d) /\ now >= terms[d].expiry /\ pending[d] < MaxPending
    BY DEF Send, Reclaimable
  <1>3. TypeOK'
    BY <1>1, <1>2, KeeperAssumption DEF TypeOK, chainVars, handoffVars
  <1>4. sweep'.id = d /\ sweep'.at = "receipt" /\ pending'[d] > 0 /\ \A e \in Deals : e # d => pending'[e] = pending[e]
    BY <1>1 DEF TypeOK
  <1>5. InFlightIsExpired'
    BY <1>1, <1>2, <1>4 DEF InFlightIsExpired, At, Open, chainVars, handoffVars
  <1>6. AwaitedIsDecided' /\ ReclaimedMeansEnded'
    BY <1>4 DEF AwaitedIsDecided, ReclaimedMeansEnded, At
  <1> QED
    BY <1>3, <1>5, <1>6

\* A receipt: the transaction is in a block, so its deal is decided when it is reported.
LEMMA GotReceiptInv ==
  ASSUME Inv, NEW d \in Deals, GotReceipt(d)
  PROVE  Inv'
  <1> USE DEF Inv
  <1>1. /\ At("receipt", d) /\ pending[d] = 0
        /\ sweep' = [sweep EXCEPT !.at = "reclaimed"]
        /\ UNCHANGED <<chainVars, pending>>
    BY DEF GotReceipt, Wait
  <1>2. TypeOK' /\ sweep'.at = "reclaimed" /\ sweep'.id = d /\ sweep'.hook = sweep.hook
    BY <1>1 DEF TypeOK, chainVars, handoffVars, At
  <1>3. Decided(d) /\ phase[d] # "None" /\ now >= terms[d].expiry
    BY <1>1 DEF AwaitedIsDecided, InFlightIsExpired
  <1>4. InFlightIsExpired' /\ AwaitedIsDecided'
    BY <1>1, <1>2, <1>3 DEF InFlightIsExpired, AwaitedIsDecided, At, chainVars, handoffVars
  <1>5. ReclaimedMeansEnded'
    BY <1>1, <1>2, <1>3 DEF ReclaimedMeansEnded, Decided, At, Open, NeedsPrice, chainVars, handoffVars
  <1> QED
    BY <1>2, <1>4, <1>5

\* Every step keeps the invariant.
LEMMA NextInv == Inv /\ [Next]_vars => Inv'
  <1> SUFFICES ASSUME Inv, [Next]_vars PROVE Inv'
    OBVIOUS
  <1> USE DEF Inv
  <1>1. CASE Parties
    BY <1>1, PartiesMoveOn, DealsInv DEF Parties, TypeOK
  <1>2. CASE setReputation
    <2>1. DealsMoveOn /\ UNCHANGED keeperVars
      BY <1>2 DEF setReputation, handoffVars, DealsMoveOn, TypeOK
    <2>2. wired' \in BOOLEAN
      BY <1>2 DEF setReputation
    <2> QED
      BY <2>1, <2>2, DealsInv
  <1>3. ASSUME NEW d \in Deals, Include(d) PROVE Inv'
    BY <1>3, IncludeInv
  <1>4. ASSUME NEW d \in Deals, GotDeal(d) PROVE Inv'
    <2>1. CASE NextDeal(d)
      BY <1>4, <2>1, NextDealType, QuietInv DEF GotDeal, At
    <2>2. CASE Wait(IF d \in Volatile THEN "report" ELSE "simulate")
      BY <1>4, <2>2, QuietInv DEF GotDeal, Wait, TypeOK
    <2> QED
      BY <1>4, <2>1, <2>2 DEF GotDeal
  <1>5. ASSUME NEW d \in Deals, GotReport(d) PROVE Inv'
    BY <1>5, QuietInv DEF GotReport, Wait, TypeOK
  <1>6. ASSUME NEW d \in Deals, Send(d) PROVE Inv'
    BY <1>6, SendInv
  <1>7. ASSUME NEW d \in Deals, GotReceipt(d) PROVE Inv'
    BY <1>7, GotReceiptInv
  <1>8. ASSUME NEW d \in Deals, ReclaimFails(d) PROVE Inv'
    BY <1>8, NextDealType, QuietInv DEF ReclaimFails, At
  <1>9. ASSUME NEW d \in Deals, notifyBackend(d) PROVE Inv'
    BY <1>9, NextDealType, QuietInv DEF notifyBackend, At
  <1>10. CASE Wake
    BY <1>10, QuietInv DEF Wake, Wait, TypeOK
  <1>11. CASE GotClock
    <2>1. sweep' \in {[at |-> "deal", id |-> 1, nowSec |-> now, hook |-> "quiet"], Asleep}
          /\ (sweep' # Asleep => 1 <= MaxDealId) /\ UNCHANGED <<chainVars, pending>>
      BY <1>11 DEF GotClock, Asleep, Scanning
    <2>2. now \in 0 .. MaxNow /\ 0 \in 0 .. MaxNow /\ 0 \in 0 .. MaxDealId
          /\ (1 <= MaxDealId => 1 \in 0 .. MaxDealId)
      BY KeeperAssumption DEF TypeOK
    <2> QED
      BY <2>1, <2>2, QuietInv DEF Asleep
  <1>12. CASE GotNoDeal
    BY <1>12, QuietInv, KeeperAssumption DEF GotNoDeal, Asleep
  <1>13. CASE SweepEnds
    BY <1>13, QuietInv, KeeperAssumption DEF SweepEnds, Asleep
  <1>14. CASE UNCHANGED vars
    BY <1>14 DEF vars, chainVars, handoffVars, keeperVars, TypeOK, InFlightIsExpired,
       AwaitedIsDecided, Decided, ReclaimedMeansEnded, At, Open, NeedsPrice
  <1> QED
    BY <1>1, <1>2, <1>3, <1>4, <1>5, <1>6, <1>7, <1>8, <1>9, <1>10, <1>11, <1>12, <1>13, <1>14
    DEF Next, SweepOn

----------------------------------------------------------------------------
(* Theorems. *)

\* The invariant holds in every reachable state.
THEOREM Invariance == Spec => []Inv
  <1> QED
    BY InitInv, NextInv, PTL DEF Spec

\* Every reachable state of the local keeper by itself, and of the deals it works on, has its type.
THEOREM KeeperTypeCorrect == Spec => []TypeOK
  <1>1. Inv => TypeOK
    BY DEF Inv
  <1> QED
    BY <1>1, Invariance, PTL

----------------------------------------------------------------------------
(* Either keeper. *)

\* A finalized check-in is a check-in.
FinalIsPast == \A d \in Deals : final.met[d] => met[d]

\* An announced outcome rests on the check-in it was computed from, and a settlement that the
\* workflow made was of that outcome.
OutcomeFits(d, outcome) ==
  /\ outcome = "deposit-to-seller" => phase[d] = "Forfeited"
  /\ outcome = "full-refund-to-buyer" => phase[d] = "Returned" \/ (phase[d] = "Forfeited" /\ met[d])

CronIsRight ==
  \A d \in Deals :
    /\ cron.at = "write" /\ cron.id = d => (cron.outcome = "deposit-to-seller" => met[d])
    /\ cron.at = "reclaimed" /\ cron.id = d => OutcomeFits(d, cron.outcome)

KeepersInv ==
  /\ Inv
  /\ KeepersTypeOK
  /\ FinalIsPast
  /\ CronIsRight
  /\ OutcomeTold

\* Neither keeper has done anything.
LEMMA KeepersInitInv == KeepersInit => KeepersInv
  <1> SUFFICES ASSUME KeepersInit PROVE KeepersInv
    OBVIOUS
  <1>1. Inv
    BY InitInv DEF KeepersInit
  <1>2. KeepersTypeOK
    BY <1>1, KeeperAssumption, WorkflowAssumption DEF Inv, TypeOK, KeepersInit, KeepersTypeOK, Off
  <1> QED
    BY <1>1, <1>2 DEF KeepersInit, KeepersInv, FinalIsPast, CronIsRight, OutcomeTold, Off

\* Once a deal ended as told, it stays so.
LEMMA OutcomeStays ==
  ASSUME TypeOK, DealsMoveOn, NEW d \in Deals, NEW outcome, OutcomeFits(d, outcome)
  PROVE  OutcomeFits(d, outcome)'
  BY DEF TypeOK, DealsMoveOn, OutcomeFits

\* A step of the deals, whoever takes it, leaves what the workflow knows and told right.
LEMMA DealsKeepCron ==
  ASSUME KeepersInv, DealsMoveOn, UNCHANGED cronVars, Inv'
  PROVE  KeepersInv'
  <1> USE DEF KeepersInv, cronVars
  <1>1. KeepersTypeOK'
    BY DEF Inv, KeepersTypeOK
  <1>2. FinalIsPast'
    BY DEF FinalIsPast, DealsMoveOn
  <1>3. CronIsRight'
    <2> SUFFICES ASSUME NEW d \in Deals
                 PROVE  /\ cron.at = "write" /\ cron.id = d =>
                             (cron.outcome = "deposit-to-seller" => met'[d])
                        /\ cron.at = "reclaimed" /\ cron.id = d => OutcomeFits(d, cron.outcome)'
      BY DEF CronIsRight, OutcomeFits
    <2>1. met[d] => met'[d]
      BY DEF DealsMoveOn
    <2>2. OutcomeFits(d, cron.outcome) => OutcomeFits(d, cron.outcome)'
      BY OutcomeStays DEF Inv, OutcomeFits
    <2> QED
      BY <2>1, <2>2 DEF CronIsRight
  <1>4. OutcomeTold'
    <2> SUFFICES ASSUME NEW d \in Deals PROVE OutcomeFits(d, told[d])'
      BY DEF OutcomeTold, OutcomeFits
    <2>1. OutcomeFits(d, told[d])
      BY DEF OutcomeTold, OutcomeFits
    <2> QED
      BY <2>1, OutcomeStays DEF Inv, OutcomeFits
  <1> QED
    BY <1>1, <1>2, <1>3, <1>4

\* The next position of the scan is one of its positions.
LEMMA ContinueType ==
  ASSUME KeepersTypeOK, NEW d \in Deals, cron.id = d, Continue(d)
  PROVE  cron' \in [at : {"off", "deal"}, id : 0 .. MaxDealId, nowSec : 0 .. MaxNow + MaxAhead,
                    outcome : {"none", "deposit-to-seller", "full-refund-to-buyer"}]
  <1>1. MaxDealId \in Nat /\ MaxNow \in Nat /\ MaxAhead \in Nat
    BY KeeperAssumption, WorkflowAssumption
  <1>2. cron \in [at : {"off", "deal", "write", "reclaimed"}, id : 0 .. MaxDealId,
                  nowSec : 0 .. MaxNow + MaxAhead,
                  outcome : {"none", "deposit-to-seller", "full-refund-to-buyer"}]
    BY DEF KeepersTypeOK
  <1>3. d \in 0 .. MaxDealId
    BY <1>2
  <1>4. CASE d + 1 <= MaxDealId
    <2>1. cron' = [[cron EXCEPT !.at = "deal"] EXCEPT !.id = d + 1] /\ d + 1 \in 0 .. MaxDealId
      BY <1>1, <1>2, <1>3, <1>4 DEF Continue
    <2> QED
      BY <2>1, <1>2
  <1>5. CASE ~(d + 1 <= MaxDealId)
    <2>1. cron' = Off
      BY <1>5 DEF Continue
    <2> QED
      BY <2>1, <1>1 DEF Off
  <1> QED
    BY <1>4, <1>5

\* A step of the handler that neither settles nor tells keeps the invariant.
LEMMA QuietCron ==
  ASSUME KeepersInv, UNCHANGED <<vars, runner, final, told>>,
         cron' \in [at : {"off", "deal"}, id : 0 .. MaxDealId, nowSec : 0 .. MaxNow + MaxAhead,
                    outcome : {"none", "deposit-to-seller", "full-refund-to-buyer"}]
  PROVE  KeepersInv'
  <1> USE DEF KeepersInv
  <1>1. Inv'
    BY DEF vars, chainVars, handoffVars, keeperVars, Inv, TypeOK, InFlightIsExpired,
       AwaitedIsDecided, Decided, ReclaimedMeansEnded, At, Open, NeedsPrice
  <1>2. KeepersTypeOK'
    BY <1>1 DEF Inv, KeepersTypeOK
  <1>3. cron'.at \notin {"write", "reclaimed"}
    OBVIOUS
  <1> QED
    BY <1>1, <1>2, <1>3 DEF FinalIsPast, CronIsRight, OutcomeTold, OutcomeFits, vars, chainVars, handoffVars

\* A step of the local keeper is one of module Keeper, and moves the deals on.
LEMMA LocalInv ==
  ASSUME KeepersInv, Next, UNCHANGED cronVars
  PROVE  KeepersInv'
  <1>1. Inv'
    BY NextInv DEF KeepersInv
  <1>2. TypeOK
    BY DEF KeepersInv, Inv
  <1>3. ASSUME UNCHANGED handoffVars PROVE DealsMoveOn
    BY <1>2, <1>3 DEF handoffVars, DealsMoveOn, TypeOK
  <1>4. DealsMoveOn
    <2>1. CASE Parties
      BY <1>2, <2>1, PartiesMoveOn
    <2>2. ASSUME NEW d \in Deals, Include(d) PROVE DealsMoveOn
      <3>1. CASE reclaimExpired(d)
        BY <1>2, <3>1, EndMovesOn DEF reclaimExpired, Keep, Return
      <3> QED
        BY <1>3, <2>2, <3>1 DEF Include
    <2>3. ASSUME NEW d \in Deals, SweepOn(d) PROVE DealsMoveOn
      BY <1>3, <2>3 DEF SweepOn, GotDeal, GotReport, Send, GotReceipt, notifyBackend, ReclaimFails, chainVars
    <2>4. CASE setReputation
      BY <1>3, <2>4 DEF setReputation
    <2>5. CASE Wake \/ GotClock \/ GotNoDeal \/ SweepEnds
      BY <1>3, <2>5 DEF Wake, GotClock, GotNoDeal, SweepEnds, chainVars
    <2> QED
      BY <2>1, <2>2, <2>3, <2>4, <2>5 DEF Next
  <1> QED
    BY <1>1, <1>4, DealsKeepCron

\* The workflow reads a deal: the outcome it goes by is that of a check-in that did happen.
LEMMA ReadDealInv ==
  ASSUME KeepersInv, NEW d \in Deals, readDeal(d)
  PROVE  KeepersInv'
  <1> USE DEF KeepersInv
  <1>1. cron.id = d /\ UNCHANGED <<vars, runner, final, told>>
    BY DEF readDeal, Handling
  <1>2. CASE Continue(d)
    BY <1>1, <1>2, ContinueType, QuietCron
  <1>3. CASE cron' = [cron EXCEPT !.at = "write", !.outcome = reclaimOutcome(final.met[d])]
    <2>1. Inv'
      BY <1>1 DEF vars, chainVars, handoffVars, keeperVars, Inv, TypeOK, InFlightIsExpired,
         AwaitedIsDecided, Decided, ReclaimedMeansEnded, At, Open, NeedsPrice
    <2>2. reclaimOutcome(final.met[d]) \in {"deposit-to-seller", "full-refund-to-buyer"}
      BY DEF reclaimOutcome
    <2>3. cron' \in [at : {"write"}, id : {d}, nowSec : {cron.nowSec},
                     outcome : {reclaimOutcome(final.met[d])}]
      BY <1>1, <1>3 DEF KeepersTypeOK
    <2>4. KeepersTypeOK'
      BY <1>1, <2>1, <2>2, <2>3 DEF Inv, KeepersTypeOK
    <2>5. reclaimOutcome(final.met[d]) = "deposit-to-seller" => met[d]
      BY DEF reclaimOutcome, FinalIsPast
    <2>6. CronIsRight'
      BY <1>1, <2>3, <2>5 DEF CronIsRight, vars, chainVars, handoffVars
    <2> QED
      BY <1>1, <2>1, <2>4, <2>6 DEF FinalIsPast, OutcomeTold, vars, chainVars, handoffVars
  <1> QED
    BY <1>2, <1>3 DEF readDeal

\* The workflow settles a deal: it ends as the check-in it has by now requires.
LEMMA WriteReportInv ==
  ASSUME KeepersInv, NEW d \in Deals, writeReport(d)
  PROVE  KeepersInv'
  <1> USE DEF KeepersInv
  <1>1. /\ cron.at = "write" /\ cron.id = d
        /\ reclaimExpired(d)
        /\ cron' = [cron EXCEPT !.at = "reclaimed"]
        /\ UNCHANGED <<wired, keeperVars, runner, final, told>>
    BY DEF writeReport, Handling
  <1>2. TypeOK
    BY DEF Inv
  <1>3. DealsMoveOn
    BY <1>1, <1>2, EndMovesOn DEF reclaimExpired, Keep, Return
  <1>4. Inv'
    BY <1>1, <1>2, <1>3, DealsInv DEF TypeOK
  <1>5. cron' \in [at : {"reclaimed"}, id : {d}, nowSec : {cron.nowSec}, outcome : {cron.outcome}]
    BY <1>1 DEF KeepersTypeOK
  <1>6. KeepersTypeOK'
    BY <1>1, <1>4, <1>5 DEF Inv, KeepersTypeOK
  <1>7. FinalIsPast'
    BY <1>1, <1>3 DEF FinalIsPast, DealsMoveOn
  <1>8. OutcomeTold'
    <2> SUFFICES ASSUME NEW e \in Deals PROVE OutcomeFits(e, told[e])'
      BY DEF OutcomeTold, OutcomeFits
    <2> QED
      BY <1>1, <1>2, <1>3, OutcomeStays DEF OutcomeTold, OutcomeFits
  <1>9. OutcomeFits(d, cron.outcome)'
    <2>1. cron.outcome = "deposit-to-seller" => met[d]
      BY <1>1 DEF CronIsRight
    <2>2. met' = met /\ phase'[d] = IF met[d] THEN "Forfeited" ELSE "Returned"
      BY <1>1, <1>2 DEF reclaimExpired, Keep, Return, End, TypeOK
    <2> QED
      BY <1>1, <2>1, <2>2 DEF OutcomeFits
  <1>10. CronIsRight'
    BY <1>5, <1>9 DEF CronIsRight, OutcomeFits
  <1> QED
    BY <1>4, <1>6, <1>7, <1>8, <1>10

\* The workflow posts the outcome.
LEMMA PostNotifyInv ==
  ASSUME KeepersInv, NEW d \in Deals, postNotify(d)
  PROVE  KeepersInv'
  <1> USE DEF KeepersInv
  <1>1. /\ cron.at = "reclaimed" /\ cron.id = d
        /\ Continue(d)
        /\ told' \in {told, [told EXCEPT ![d] = cron.outcome]}
        /\ UNCHANGED <<vars, runner, final>>
    BY DEF postNotify, Handling
  <1>2. Inv'
    BY <1>1 DEF vars, chainVars, handoffVars, keeperVars, Inv, TypeOK, InFlightIsExpired,
       AwaitedIsDecided, Decided, ReclaimedMeansEnded, At, Open, NeedsPrice
  <1>3. cron' \in [at : {"off", "deal"}, id : 0 .. MaxDealId, nowSec : 0 .. MaxNow + MaxAhead,
                   outcome : {"none", "deposit-to-seller", "full-refund-to-buyer"}]
    BY <1>1, ContinueType
  <1>4. KeepersTypeOK'
    BY <1>1, <1>2, <1>3 DEF Inv, KeepersTypeOK
  <1>5. OutcomeTold'
    <2> SUFFICES ASSUME NEW e \in Deals PROVE OutcomeFits(e, told'[e])
      BY <1>1 DEF OutcomeTold, OutcomeFits, vars, chainVars, handoffVars
    <2>1. OutcomeFits(d, cron.outcome) /\ OutcomeFits(e, told[e])
      BY <1>1 DEF CronIsRight, OutcomeTold, OutcomeFits
    <2>2. told'[e] = told[e] \/ (e = d /\ told'[e] = cron.outcome)
      BY <1>1 DEF KeepersTypeOK
    <2> QED
      BY <2>1, <2>2
  <1>6. cron'.at \notin {"write", "reclaimed"}
    BY <1>3
  <1> QED
    BY <1>1, <1>2, <1>4, <1>5, <1>6 DEF FinalIsPast, CronIsRight, vars, chainVars, handoffVars

\* A block is finalized.
LEMMA FinalizeInv ==
  ASSUME KeepersInv, Finalize
  PROVE  KeepersInv'
  <1> USE DEF KeepersInv
  <1>1. final' = [phase |-> phase, met |-> met] /\ UNCHANGED <<vars, runner, cron, told>>
    BY DEF Finalize
  <1>2. Inv'
    BY <1>1 DEF vars, chainVars, handoffVars, keeperVars, Inv, TypeOK, InFlightIsExpired,
       AwaitedIsDecided, Decided, ReclaimedMeansEnded, At, Open, NeedsPrice
  <1>3. KeepersTypeOK'
    BY <1>1, <1>2 DEF Inv, TypeOK, KeepersTypeOK, vars, chainVars, handoffVars
  <1> QED
    BY <1>1, <1>2, <1>3 DEF FinalIsPast, CronIsRight, OutcomeFits, OutcomeTold, vars, chainVars, handoffVars

\* Every step of either keeper keeps the invariant.
LEMMA KeepersNextInv == KeepersInv /\ [KeepersNext]_allVars => KeepersInv'
  <1> SUFFICES ASSUME KeepersInv, [KeepersNext]_allVars PROVE KeepersInv'
    OBVIOUS
  <1>1. ASSUME Sweeping(Wake \/ GotClock \/ GotNoDeal \/ SweepEnds) PROVE KeepersInv'
    BY <1>1, LocalInv DEF Sweeping, Next
  <1>2. ASSUME NEW d \in Deals, Sweeping(Include(d) \/ SweepOn(d)) PROVE KeepersInv'
    BY <1>2, LocalInv DEF Sweeping, Next
  <1>3. CASE (Parties \/ setReputation) /\ UNCHANGED cronVars
    BY <1>3, LocalInv DEF Next
  <1>4. ASSUME NEW d \in Deals, CronOn(d) PROVE KeepersInv'
    <2>1. CASE WriteFails(d)
      BY <2>1, ContinueType, QuietCron DEF WriteFails, Handling, KeepersInv
    <2> QED
      BY <1>4, <2>1, ReadDealInv, WriteReportInv, PostNotifyInv DEF CronOn
  <1>5. CASE onCronTrigger
    <2>1. PICK ahead \in 0 .. MaxAhead :
            cron' = [at |-> "deal", id |-> 1, nowSec |-> now + ahead, outcome |-> "none"]
      BY <1>5 DEF onCronTrigger
    <2>2. now + ahead \in 0 .. MaxNow + MaxAhead /\ 1 \in 0 .. MaxDealId
      BY <1>5, KeeperAssumption, WorkflowAssumption DEF onCronTrigger, KeepersInv, Inv, TypeOK
    <2>3. UNCHANGED <<vars, runner, final, told>>
      BY <1>5 DEF onCronTrigger
    <2> QED
      BY <2>1, <2>2, <2>3, QuietCron
  <1>6. CASE ReadNoDeal \/ HandlerDies
    <2>1. cron' = Off /\ UNCHANGED <<vars, runner, final, told>>
      BY <1>6 DEF ReadNoDeal, HandlerDies
    <2>2. 0 \in 0 .. MaxDealId /\ 0 \in 0 .. MaxNow + MaxAhead
      BY KeeperAssumption, WorkflowAssumption
    <2> QED
      BY <2>1, <2>2, QuietCron DEF Off
  <1>7. CASE Finalize
    BY <1>7, FinalizeInv
  <1>8. CASE UNCHANGED allVars
    <2>1. Inv'
      BY <1>8, NextInv DEF KeepersInv, allVars
    <2>2. DealsMoveOn
      BY <1>8 DEF allVars, vars, chainVars, handoffVars, KeepersInv, Inv, TypeOK, DealsMoveOn
    <2> QED
      BY <1>8, <2>1, <2>2, DealsKeepCron DEF allVars
  <1> QED
    BY <1>1, <1>2, <1>3, <1>4, <1>5, <1>6, <1>7, <1>8 DEF KeepersNext

\* The invariant holds in every reachable state, whichever keeper is deployed.
THEOREM KeepersInvariance == KeepersSpec => []KeepersInv
  <1> QED
    BY KeepersInitInv, KeepersNextInv, PTL DEF KeepersSpec

\* Every reachable state of either keeper, and of the deals, has its type.
THEOREM KeepersTypeCorrect == KeepersSpec => []KeepersTypeOK
  <1>1. KeepersInv => KeepersTypeOK
    BY DEF KeepersInv
  <1> QED
    BY <1>1, KeepersInvariance, PTL

\* What the local keeper reports as reclaimed has ended, whatever the parties, other callers, the
\* owner, late receipts and its own earlier transactions do, unless the deal needed a price or the
\* reputation hook refused the very transaction whose receipt was read.
THEOREM ReportsAreTrue == KeepersSpec => []ReclaimedMeansEnded
  <1>1. KeepersInv => ReclaimedMeansEnded
    BY DEF KeepersInv, Inv
  <1> QED
    BY <1>1, KeepersInvariance, PTL

\* The outcome the workflow posts is how the deal ended, or the seller checked in since.
THEOREM OutcomesAreTrue == KeepersSpec => []OutcomeTold
  <1>1. KeepersInv => OutcomeTold
    BY DEF KeepersInv
  <1> QED
    BY <1>1, KeepersInvariance, PTL

=============================================================================
