------------------------------- MODULE Keeper -------------------------------
(***************************************************************************)
(* cre/src/keeper.local.ts --watch and sweep.ts: the keeper that reclaims  *)
(* expired deals, one await at a time, against deals that follow Handoff   *)
(* (which Escrow implements) and parties who may settle them meanwhile.    *)
(*                                                                         *)
(* The owner of the contracts may wire the reputation contract to another  *)
(* Escrow and back at any time; while it is, its hooks refuse every end of *)
(* a deal that is known here (Escrow.sol 626-652, Reputation.sol 53-57).   *)
(*                                                                         *)
(* A transaction the keeper sent stays pending until a block includes it,  *)
(* whether or not the keeper still waits for it.  A call that rejects, a   *)
(* receipt that comes too late and a keeper that is killed and started     *)
(* again are steps of their own.                                           *)
(*                                                                         *)
(* X_Fault, defined before X, is X with a plausible mistake that the runs  *)
(* are known to notice.  No other definition refers to it.                 *)
(***************************************************************************)
EXTENDS Handoff

CONSTANTS
  Volatile,            \* deals whose payToken is not the stable token
  MaxDealId,           \* CRE_MAX_DEAL_ID
  Lifetimes,           \* dealTtl of the listings that are funded
  MaxNow,              \* bound: last block timestamp
  MaxPending           \* bound: pending transactions per deal

ASSUME KeeperAssumption ==
  /\ Deals \subseteq Nat \ {0} /\ \A d \in Deals : 1 .. d \subseteq Deals
  /\ Volatile \subseteq Deals
  /\ Lifetimes \subseteq Nat \ {0}
  /\ {MaxDealId, MaxNow, MaxPending} \subseteq Nat

VARIABLES
  wired,               \* do the reputation hooks accept this Escrow's calls, or is there none
  sweep,               \* where runSweep waits, with the id and the nowSec it works on, and (a history
                       \* that no step depends on) what the hook did to the transaction waited for
  pending              \* deal -> reclaimExpired transactions sent and not yet in a block

keeperVars == <<sweep, pending>>
chainVars == <<handoffVars, wired>>
vars == <<chainVars, keeperVars>>

----------------------------------------------------------------------------
(* The deals and their parties. *)

Open(d) == phase[d] = "Open"

fund ==
  \E d \in Deals, ttl \in Lifetimes :
    /\ \A e \in Deals : e < d <=> phase[e] # "None"
    /\ now + ttl <= MaxNow
    /\ Lock(d, [locked |-> 1, freeUntil |-> 0, expiry |-> now + ttl])

\* The contract settles the deal only while it is open and expired.
Reclaimable(d) == Open(d) /\ now >= terms[d].expiry

reclaimExpired(d) ==
  \/ met[d] /\ Keep(d, [seller |-> 1, bondTo |-> "seller"])
  \/ ~met[d] /\ Return(d, [seller |-> 0, bondTo |-> "buyer"])

\* A price is needed to forfeit a volatile deal; without one the transaction reverts.
NeedsPrice(d) == d \in Volatile /\ met[d]

\* What the buyer, the seller and, once a deal has expired, anybody may do to it, and the
\* passing of time.  There is no free window, so that a buyer who cancels ends the deal as
\* reclaimExpired would, at any time.
Parties ==
  /\ \/ fund
     \/ now < MaxNow /\ Advance
     \/ \E d \in Deals : \/ Meet(d)
                         \/ wired /\ Pay(d, [seller |-> 1, bondTo |-> "seller"])
                         \/ wired /\ Return(d, [seller |-> 0, bondTo |-> "seller"])
                         \/ wired /\ reclaimExpired(d)
  /\ UNCHANGED <<wired, keeperVars>>

Asleep == [at |-> "asleep", id |-> 0, nowSec |-> 0, hook |-> "quiet"]

At(place, d) == sweep.at = place /\ sweep.id = d

\* The owner sets Escrow's reputation contract to one that belongs to another Escrow, or corrects it.
setReputation ==
  /\ wired' = ~wired
  /\ UNCHANGED <<handoffVars, keeperVars>>

\* The transaction whose receipt the sweep waits for, as far as a hook is concerned.
Heard(d, hook) == sweep' = IF At("receipt", d) THEN [sweep EXCEPT !.hook = hook] ELSE sweep

\* A block includes the oldest pending transaction of a deal: it settles the deal, or reverts
\* because it is too late or has no price, or in the hook.
Include(d) ==
  /\ pending[d] > 0
  /\ pending' = [pending EXCEPT ![d] = @ - 1]
  /\ \/ Reclaimable(d) /\ wired /\ reclaimExpired(d) /\ Heard(d, "quiet")
     \/ (~Reclaimable(d) \/ NeedsPrice(d)) /\ UNCHANGED handoffVars /\ Heard(d, "quiet")
     \/ Reclaimable(d) /\ ~wired /\ UNCHANGED handoffVars /\ Heard(d, "refused")
  /\ UNCHANGED wired

----------------------------------------------------------------------------
(* runSweep. *)

Wait(place) == sweep' = [sweep EXCEPT !.at = place]

Scanning(d) == [Asleep EXCEPT !.at = "deal", !.id = d, !.nowSec = sweep.nowSec]

\* The loop's next id, or the end of the sweep.
NextDeal_StopsEarly(d) ==
  sweep' = IF d + 1 < MaxDealId THEN Scanning(d + 1) ELSE Asleep

NextDeal_PastEnd(d) ==
  sweep' = IF d <= MaxDealId THEN Scanning(d + 1) ELSE Asleep

NextDeal(d) ==
  sweep' = IF d + 1 <= MaxDealId THEN Scanning(d + 1) ELSE Asleep

isReclaimable(d, nowSec) == Open(d) /\ terms[d].expiry <= nowSec

Wake ==
  /\ sweep = Asleep
  /\ Wait("clock")
  /\ UNCHANGED <<chainVars, pending>>

GotClock ==
  /\ sweep.at = "clock"
  /\ sweep' = IF MaxDealId >= 1 THEN [Scanning(1) EXCEPT !.nowSec = now] ELSE Asleep
  /\ UNCHANGED <<chainVars, pending>>

\* getDeal of an id that was never funded reverts, which ends the sweep.
GotNoDeal ==
  /\ sweep.at = "deal"
  /\ sweep.id \notin Deals \/ phase[sweep.id] = "None"
  /\ sweep' = Asleep
  /\ UNCHANGED <<chainVars, pending>>

GotDeal(d) ==
  /\ At("deal", d)
  /\ phase[d] # "None"
  /\ \/ ~isReclaimable(d, sweep.nowSec) /\ NextDeal(d)
     \/ isReclaimable(d, sweep.nowSec) /\ Wait(IF d \in Volatile THEN "report" ELSE "simulate")
  /\ UNCHANGED <<chainVars, pending>>

\* A volatile deal's report is fetched even if its seller never checked in.
GotReport(d) ==
  /\ At("report", d)
  /\ Wait("simulate")
  /\ UNCHANGED <<chainVars, pending>>

\* Simulated without a revert, signed and sent.
Send(d) ==
  /\ At("simulate", d)
  /\ Reclaimable(d) /\ wired
  /\ pending[d] < MaxPending
  /\ pending' = [pending EXCEPT ![d] = @ + 1]
  /\ Wait("receipt")
  /\ UNCHANGED chainVars

\* Whether the transaction succeeded or reverted is not looked at.
GotReceipt_Unmined(d) ==
  /\ At("receipt", d)
  /\ Wait("reclaimed")
  /\ UNCHANGED <<chainVars, pending>>

GotReceipt(d) ==
  /\ At("receipt", d)
  /\ pending[d] = 0
  /\ Wait("reclaimed")
  /\ UNCHANGED <<chainVars, pending>>

\* "Reclaimed" is posted; the post may fail, and holds up the sweep.
notifyBackend(d) ==
  /\ At("reclaimed", d)
  /\ NextDeal(d)
  /\ UNCHANGED <<chainVars, pending>>

\* A revert in the simulation, any error while sending, or no receipt in time: "ReclaimFailed"
\* is posted and the sweep goes on.
ReclaimFails(d) ==
  /\ At("simulate", d) \/ At("receipt", d)
  /\ NextDeal(d)
  /\ UNCHANGED <<chainVars, pending>>

\* An error of getBlock, getDeal or getReport ends the sweep, and so does a restart anywhere.
SweepEnds ==
  /\ sweep # Asleep
  /\ sweep' = Asleep
  /\ UNCHANGED <<chainVars, pending>>

----------------------------------------------------------------------------
Init ==
  /\ HandoffInit
  /\ wired = TRUE
  /\ sweep = Asleep
  /\ pending = [d \in Deals |-> 0]

SweepOn(d) == GotDeal(d) \/ GotReport(d) \/ Send(d) \/ GotReceipt(d) \/ notifyBackend(d) \/ ReclaimFails(d)

Next ==
  \/ Parties
  \/ setReputation
  \/ \E d \in Deals : Include(d) \/ SweepOn(d)
  \/ Wake
  \/ GotClock
  \/ GotNoDeal
  \/ SweepEnds

Spec == Init /\ [][Next]_vars

\* The watch loop never stops waking up, and blocks keep coming and include what was sent.  A
\* call answers or rejects in the end; it may fail, and the keeper may be restarted, any number of
\* times, but nothing that is tried again and again fails for ever.
ChainFairness ==
  /\ WF_vars(now < MaxNow /\ Advance /\ UNCHANGED <<wired, keeperVars>>)
  /\ \A d \in Deals : WF_vars(Include(d))

CallFairness ==
  /\ WF_vars(Wake)
  /\ WF_vars(GotNoDeal)
  /\ WF_vars(sweep.at = "report" /\ SweepEnds)
  /\ SF_vars(GotClock)
  /\ \A d \in Deals : /\ SF_vars(GotDeal(d))
                      /\ SF_vars(Send(d))
                      /\ SF_vars(GotReceipt(d) \/ ReclaimFails(d))
                      /\ SF_vars(notifyBackend(d))

ReportFairness == \A d \in Deals : SF_vars(GotReport(d))

FairSpec == Spec /\ ChainFairness /\ CallFairness /\ ReportFairness

\* The same without any promise about the Data Streams feed.
FeedDownSpec == Spec /\ ChainFairness /\ CallFairness

----------------------------------------------------------------------------
TypeOK ==
  /\ now \in 0 .. MaxNow
  /\ phase \in [Deals -> {"None", "Open", "Paid", "Returned", "Forfeited"}]
  /\ terms \in [Deals -> HandoffTerms]
  /\ met \in [Deals -> BOOLEAN]
  /\ award \in [Deals -> Awards]
  /\ wired \in BOOLEAN
  /\ sweep \in [at : {"asleep", "clock", "deal", "report", "simulate", "receipt", "reclaimed"},
                id : 0 .. MaxDealId, nowSec : 0 .. MaxNow, hook : {"quiet", "refused"}]
  /\ pending \in [Deals -> 0 .. MaxPending]

\* A deal that is reported as reclaimed has ended, unless it needed a price or a hook refused the
\* transaction: the receipt's status is never looked at (escrow-client.ts 83-84), and any other
\* transaction, simulated for an open and expired deal, reverts only when the deal has ended since,
\* by its parties, or by an earlier transaction of the keeper's whose receipt came too late.
ReclaimedMeansEnded ==
  \A d \in Deals :
    At("reclaimed", d) => ~Open(d) \/ NeedsPrice(d) \/ sweep.hook = "refused"

\* SPEC section 12: every deal ends, although its parties may never come back, earlier deals of
\* the scan may be impossible to price, calls fail, receipts come late and the keeper restarts, if
\* the owner leaves the reputation contract right in the end, whatever was refused before.
ExpiredDealsEnd == <>[]wired => \A d \in Deals : Open(d) ~> ~Open(d) \/ NeedsPrice(d)

\* cre/README.md 25-31: the workflow "finds every deal past its expiry that is not in a terminal
\* state" and calls reclaimExpired on it; "stable USDC deals pass 0x", no report.
StableDealsEnd == <>[]wired => \A d \in Deals \ Volatile : Open(d) ~> ~Open(d)

=============================================================================
