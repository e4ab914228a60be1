------------------------------ MODULE Workflow ------------------------------
(***************************************************************************)
(* cre/src/workflow.ts: the reclaim sweep as a Chainlink CRE workflow, and *)
(* the choice between it and the local keeper of module Keeper, which runs *)
(* the same rules over the same deals.                                     *)
(*                                                                         *)
(* The workflow reads the deals at the last finalized block, takes the     *)
(* time from the wall clock, has no price for any deal, and writes through *)
(* a forwarder that is not part of this repository and reports what became *)
(* of its transaction (cre/README.md 71-76): the Escrow itself takes no    *)
(* signed reports.                                                         *)
(*                                                                         *)
(* X_Fault, defined before X, is X with a plausible mistake that the runs  *)
(* are known to notice.  No other definition refers to it.                 *)
(***************************************************************************)
EXTENDS Keeper

CONSTANTS
  MaxAhead             \* how far the wall clock may be ahead of the last block

ASSUME WorkflowAssumption == MaxAhead \in Nat

VARIABLES
  runner,              \* which of the two is deployed, "local" or "cre"
  final,               \* phase and met as of the last finalized block
  cron,                \* where the cron handler waits, and the id, nowSec and outcome it works on
  told                 \* deal -> the outcome the workflow posted with "Reclaimed", "none" before

cronVars == <<runner, final, cron, told>>
allVars == <<vars, cronVars>>

----------------------------------------------------------------------------
Off == [at |-> "off", id |-> 0, nowSec |-> 0, outcome |-> "none"]

Handling(place, d) == runner = "cre" /\ cron.at = place /\ cron.id = d

reclaimOutcome(checkedIn) == IF checkedIn THEN "deposit-to-seller" ELSE "full-refund-to-buyer"

\* continue: the next id, or the end of the sweep.
Continue(d) ==
  cron' = IF d + 1 <= MaxDealId THEN [cron EXCEPT !.at = "deal", !.id = d + 1] ELSE Off

\* The schedule fires.  No block is ahead of the wall clock, which the handler reads once.
onCronTrigger ==
  /\ runner = "cre"
  /\ cron = Off
  /\ MaxDealId >= 1
  /\ \E ahead \in 0 .. MaxAhead :
       cron' = [at |-> "deal", id |-> 1, nowSec |-> now + ahead, outcome |-> "none"]
  /\ UNCHANGED <<vars, runner, final, told>>

\* A deal that is in no finalized block yet ends the sweep ...
ReadNoDeal ==
  /\ runner = "cre"
  /\ cron.at = "deal"
  /\ cron.id \notin Deals \/ final.phase[cron.id] = "None"
  /\ cron' = Off
  /\ UNCHANGED <<vars, runner, final, told>>

\* ... any other is left alone or announced as a "ReclaimAttempt", with the outcome its state then
\* has, and goes through a post that may fail and delays the rest.
readDeal(d) ==
  /\ Handling("deal", d)
  /\ final.phase[d] # "None"
  /\ LET reclaimable == final.phase[d] = "Open" /\ terms[d].expiry <= cron.nowSec IN
     \/ ~reclaimable /\ Continue(d)
     \/ reclaimable /\ cron' = [cron EXCEPT !.at = "write", !.outcome = reclaimOutcome(final.met[d])]
  /\ UNCHANGED <<vars, runner, final, told>>

writeReport_AnyStatus(d) ==
  /\ Handling("write", d)
  /\ cron' = [cron EXCEPT !.at = "reclaimed"]
  /\ UNCHANGED <<vars, runner, final, told>>

\* The report is 0x for any token, so that a deal that needs a price cannot be settled.
writeReport(d) ==
  /\ Handling("write", d)
  /\ Reclaimable(d) /\ wired /\ ~NeedsPrice(d)
  /\ reclaimExpired(d)
  /\ cron' = [cron EXCEPT !.at = "reclaimed"]
  /\ UNCHANGED <<wired, keeperVars, runner, final, told>>

\* Any other txStatus: "ReclaimFailed" is posted and the sweep goes on.
WriteFails(d) ==
  /\ Handling("write", d)
  /\ Continue(d)
  /\ UNCHANGED <<vars, runner, final, told>>

\* "Reclaimed" is posted; that this may fail is not noticed.
postNotify(d) ==
  /\ Handling("reclaimed", d)
  /\ Continue(d)
  /\ told' \in {told, [told EXCEPT ![d] = cron.outcome]}
  /\ UNCHANGED <<vars, runner, final>>

\* An exception of runtime.report or writeReport, or the runtime's time limit, ends the handler.
HandlerDies ==
  /\ runner = "cre"
  /\ cron # Off
  /\ cron' = Off
  /\ UNCHANGED <<vars, runner, final, told>>

Finalize ==
  /\ runner = "cre"
  /\ final' = [phase |-> phase, met |-> met]
  /\ UNCHANGED <<vars, runner, cron, told>>

----------------------------------------------------------------------------
KeepersInit ==
  /\ Init
  /\ runner \in {"local", "cre"}
  /\ final = [phase |-> phase, met |-> met]
  /\ cron = Off
  /\ told = [d \in Deals |-> "none"]

Sweeping(A) == runner = "local" /\ A /\ UNCHANGED cronVars

CronOn(d) == readDeal(d) \/ writeReport(d) \/ WriteFails(d) \/ postNotify(d)

KeepersNext ==
  \/ (Parties \/ setReputation) /\ UNCHANGED cronVars
  \/ Sweeping(Wake \/ GotClock \/ GotNoDeal \/ SweepEnds)
  \/ \E d \in Deals : Sweeping(Include(d) \/ SweepOn(d)) \/ CronOn(d)
  \/ onCronTrigger
  \/ ReadNoDeal
  \/ HandlerDies
  \/ Finalize

\* As for the local keeper: the schedule keeps firing, blocks are finalized, and nothing that is
\* tried again and again fails for ever.  There is no feed to depend on.
CronFairness ==
  /\ WF_allVars(now < MaxNow /\ Advance /\ UNCHANGED <<wired, keeperVars, cronVars>>)
  /\ WF_allVars(onCronTrigger)
  /\ WF_allVars(Finalize)
  /\ WF_allVars(ReadNoDeal)
  /\ \A d \in Deals : /\ SF_allVars(readDeal(d))
                      /\ SF_allVars(writeReport(d))
                      /\ SF_allVars(WriteFails(d))
                      /\ SF_allVars(postNotify(d))

KeepersSpec ==
  /\ KeepersInit /\ [][KeepersNext]_allVars
  /\ \/ runner = "local" /\ ChainFairness /\ CallFairness /\ ReportFairness
     \/ runner = "cre" /\ CronFairness

----------------------------------------------------------------------------
KeepersTypeOK ==
  /\ TypeOK
  /\ runner \in {"local", "cre"}
  /\ final \in [phase : [Deals -> {"None", "Open", "Paid", "Returned", "Forfeited"}],
                met : [Deals -> BOOLEAN]]
  /\ cron \in [at : {"off", "deal", "write", "reclaimed"}, id : 0 .. MaxDealId,
               nowSec : 0 .. MaxNow + MaxAhead,
               outcome : {"none", "deposit-to-seller", "full-refund-to-buyer"}]
  /\ told \in [Deals -> {"none", "deposit-to-seller", "full-refund-to-buyer"}]

\* What the workflow posts with "Reclaimed" is how the deal ended (workflow.ts 157, 194-202), although
\* the outcome is predicted from a finalized block, unless the seller checked in after that block:
\* a deposit said to go to the seller has gone there.
OutcomeTold ==
  \A d \in Deals :
    /\ told[d] = "deposit-to-seller" => phase[d] = "Forfeited"
    /\ told[d] = "full-refund-to-buyer" => phase[d] = "Returned" \/ (phase[d] = "Forfeited" /\ met[d])

=============================================================================
