------------------------------ MODULE Indexer ------------------------------
(***************************************************************************)
(* backend/src/indexer.ts: the process that mirrors Escrow's events in     *)
(* sqlite by polling eth_getLogs, and the tables of db.ts it writes.       *)
(*                                                                         *)
(* JavaScript runs one callback at a time: from one await to the next a    *)
(* backfill is one action, and applyLogs, which awaits nothing, applies a  *)
(* whole batch at once.  But every sqlite statement commits by itself, so  *)
(* a process that dies inside applyLogs leaves any prefix of its writes;   *)
(* and the timer starts a backfill without waiting for the last one.       *)
(*                                                                         *)
(* X_Fault, defined before X, is X with a plausible mistake that the runs  *)
(* are known to notice.  No other definition refers to it.                 *)
(***************************************************************************)
EXTENDS Naturals, Sequences, FiniteSets, SequencesExt, FiniteSetsExt

CONSTANTS
  Listings,            \* listing ids
  Deals,               \* deal ids
  Throwing,            \* names of events whose handler may throw half-way
  Backfills,           \* in-flight backfills: more than one if polls overlap
  MAX_RANGE,           \* blocks per eth_getLogs window
  FromBlock,           \* INDEXER_FROM_BLOCK
  MaxBlocks,           \* bound: length of the chain
  MaxPerBlock,         \* bound: events in one block
  MaxCrashes           \* bound: times the process dies

FinalEvents == {"Completed", "Refunded", "Forfeited"}
DealEvents == {"Funded", "CheckedIn"} \cup FinalEvents
EventNames == {"Listed", "ListingCancelled"} \cup DealEvents

ASSUME IndexerAssumption ==
  /\ 0 \notin Deals
  /\ Throwing \subseteq EventNames
  /\ MAX_RANGE \in Nat \ {0}
  /\ FromBlock \in Nat
  /\ {MaxBlocks, MaxPerBlock, MaxCrashes} \subseteq Nat

VARIABLES
  height,              \* the number of blocks mined so far
  chain,               \* their events, each with its block, in the order of the chain
  db,                  \* sqlite: listings, deals, notifications, indexer_state
  up,                  \* the backend process runs
  timer,               \* its poll timer is installed
  task,                \* backfill -> where it waits and its local variables
  reach,               \* highest block an event was ever applied from
  crashes

vars == <<height, chain, db, up, timer, task, reach, crashes>>

----------------------------------------------------------------------------
(* The chain, as far as this process sees it.  A listing event has deal 0. *)

Event == [name : EventNames, listing : Listings, deal : Deals \cup {0}]

Log == [event : Event, block : 1 .. MaxBlocks]

EventsUpTo(h) == {log.event : log \in {l \in ToSet(chain) : l.block <= h}}

\* What the contract may emit after the events in set past (module Escrow).
Emits(past, e) ==
  LET has(names) == \E p \in past : p.name \in names /\ p.listing = e.listing
      Taken(d) == \E p \in past : p.deal = d
  IN  CASE e.name = "Listed" -> e.deal = 0 /\ ~has({"Listed"})
        [] e.name = "ListingCancelled" ->
             e.deal = 0 /\ has({"Listed"}) /\ ~has({"ListingCancelled", "Funded"})
        [] e.name = "Funded" ->
             e.deal # 0 /\ ~Taken(e.deal) /\ has({"Listed"})
               /\ ~has({"ListingCancelled", "Funded"})
        [] e.name = "CheckedIn" ->
             [e EXCEPT !.name = "Funded"] \in past /\ ~has({"CheckedIn"} \cup FinalEvents)
        [] e.name \in FinalEvents ->
             [e EXCEPT !.name = "Funded"] \in past /\ ~has(FinalEvents)

Mine ==
  /\ height < MaxBlocks
  /\ \E block \in SeqOf(Event, MaxPerBlock) :
       LET mined == chain \o [n \in DOMAIN block |-> [event |-> block[n], block |-> height + 1]]
       IN  /\ \A k \in DOMAIN mined \ DOMAIN chain :
                Emits({mined[j].event : j \in 1 .. k - 1}, mined[k].event)
           /\ chain' = mined
  /\ height' = height + 1
  /\ UNCHANGED <<db, up, timer, task, reach, crashes>>

----------------------------------------------------------------------------
(* The statements of db.ts, each a function of the tables.  An UPDATE of a *)
(* row that does not exist changes nothing.                                *)

NoRow == [state |-> "None", checkedIn |-> FALSE, payToken |-> FALSE]

Row == [state : {"None", "Funded", "SellerCheckedIn"} \cup FinalEvents, checkedIn : BOOLEAN,
        payToken : BOOLEAN]

Tables == [listing : [Listings -> {"absent", "active", "inactive"}], deal : [Deals -> Row],
           timeline : [Deals -> Seq(DealEvents)], cursor : 0 .. MaxBlocks]

EmptyDb == [listing |-> [i \in Listings |-> "absent"], deal |-> [d \in Deals |-> NoRow],
            timeline |-> [d \in Deals |-> <<>>], cursor |-> 0]

upsertListing(t, i) == [t EXCEPT !.listing[i] = "active"]

setListingActive(t, i) ==
  IF t.listing[i] = "absent" THEN t ELSE [t EXCEPT !.listing[i] = "inactive"]

\* payToken says whether the listing's token was found.  A conflict keeps the state.
upsertDealFromFunded(t, d, i) ==
  LET row == t.deal[d]
      known == t.listing[i] # "absent"
  IN  [t EXCEPT !.deal[d] = [state |-> IF row.state = "None" THEN "Funded" ELSE row.state,
                             checkedIn |-> row.checkedIn, payToken |-> known]]

\* The state written is the event's, whatever state the row has.
setDealState(t, d, state) ==
  LET row == t.deal[d] IN
  IF row.state = "None" THEN t
  ELSE [t EXCEPT !.deal[d] = [state |-> state, payToken |-> row.payToken,
                              checkedIn |-> row.checkedIn \/ state = "SellerCheckedIn"]]

recordEventOnce_Always(t, d, name) == [t EXCEPT !.timeline[d] = Append(t.timeline[d], name)]

recordEventOnce(t, d, name) ==
  IF name \in ToSet(t.timeline[d]) THEN t
  ELSE [t EXCEPT !.timeline[d] = Append(t.timeline[d], name)]

setCursor(t, block) == [t EXCEPT !.cursor = block]

----------------------------------------------------------------------------
(* handleEvent and applyLogs. *)

\* The tables after each of the statements that the handler of an event runs.
handleEvent(t, e) ==
  CASE e.name = "Listed" -> <<upsertListing(t, e.listing)>>
    [] e.name = "ListingCancelled" -> <<setListingActive(t, e.listing)>>
    [] e.name = "Funded" ->
         LET funded == upsertDealFromFunded(t, e.deal, e.listing)
             sold == setListingActive(funded, e.listing)
         IN  <<funded, sold, recordEventOnce(sold, e.deal, e.name)>>
    [] e.name \in {"CheckedIn"} \cup FinalEvents ->
         LET moved == setDealState(t, e.deal,
                                   IF e.name = "CheckedIn" THEN "SellerCheckedIn" ELSE e.name)
         IN  <<moved, recordEventOnce(moved, e.deal, e.name)>>

\* An exception is caught and the next log taken up: the tables after any of the statements.
Handled(t, e) ==
  LET tables == handleEvent(t, e) IN
  IF e.name \in Throwing THEN {t} \cup ToSet(tables) ELSE {Last(tables)}

\* getContractEvents: the logs of blocks from .. to, by their place on the chain.
GetLogs(from, to) == {k \in DOMAIN chain : chain[k].block \in from .. to}

\* What the tables may be when those of the logs that are among the first k of the chain are
\* applied, one after the other, for each k.
Applied(from, to) ==
  LET upTo[k \in 0 .. Len(chain)] ==
        IF k = 0 THEN {db}
        ELSE IF k \in GetLogs(from, to)
             THEN UNION {Handled(t, chain[k].event) : t \in upTo[k - 1]}
             ELSE upTo[k - 1]
  IN  upTo

\* The last block with a log.
Newest(from, to) == Max({chain[k].block : k \in GetLogs(from, to)} \cup {0})

\* The cursor never goes back.
Moved(t, block) == IF block > t.cursor THEN setCursor(t, block) ELSE t

applyLogs(from, to) ==
  {Moved(t, Newest(from, to)) : t \in Applied(from, to)[Len(chain)]}

----------------------------------------------------------------------------
(* The backfill. *)

Idle == [at |-> "idle", cursor |-> 0, from |-> 0, head |-> 0, first |-> FALSE]

\* Cursor and from are read and computed before the awaits and used after them.
Resume_SkipsOne(cursor) == IF cursor > 0 THEN cursor + 2 ELSE FromBlock

Resume(cursor) == IF cursor > 0 THEN cursor + 1 ELSE FromBlock

Begin(b, first) ==
  /\ task[b].at = "idle"
  /\ task' = [task EXCEPT ![b] = [Idle EXCEPT !.at = "head", !.cursor = db.cursor,
                                              !.first = first]]

\* A load-balanced RPC may answer with the head of a node that lags behind.
GotHead(b, head) ==
  /\ up
  /\ task[b].at = "head"
  /\ task' = [task EXCEPT ![b].at = "logs", ![b].head = head, ![b].from = Resume(task[b].cursor)]
  /\ UNCHANGED <<height, chain, db, up, timer, reach, crashes>>

\* The last block of the window asked for.
WindowEnd(t) == IF t.from + MAX_RANGE - 1 > t.head THEN t.head ELSE t.from + MAX_RANGE - 1

\* With the head behind from, one open-ended scan up to whatever the node has.
Asked(t) == IF t.from > t.head THEN (t.from - 1) .. height ELSE {WindowEnd(t)}

\* Where a window leaves the cursor, if it is not past that: at its last block, and a backfill that
\* is done at the head.
Scanned_AtHead(t) == t.head

Scanned_PastEnd(t) == IF t.from > t.head THEN t.head ELSE WindowEnd(t) + 1

Scanned(t) == IF t.from > t.head THEN t.head ELSE WindowEnd(t)

Finishes(t) == t.from > t.head \/ WindowEnd(t) = t.head

\* The logs arrive and are applied; then the next window is asked for, or the backfill is done.
\* The first backfill of a process installs the timer when it is done.
GotLogs(b) ==
  LET t == task[b] IN
  /\ up
  /\ t.at = "logs"
  /\ \E to \in Asked(t) :
       /\ \E tables \in applyLogs(t.from, to) : db' = Moved(tables, Scanned(t))
       /\ reach' = Max({reach, Newest(t.from, to)})
  /\ task' = [task EXCEPT ![b] = IF Finishes(t) THEN Idle ELSE [t EXCEPT !.from = WindowEnd(t) + 1]]
  /\ timer' = (timer \/ (Finishes(t) /\ t.first))
  /\ UNCHANGED <<height, chain, up, crashes>>

\* A rejected call ends the backfill; if it was the first one, start() rejects before it
\* installs the timer, and the API goes on serving without an indexer.
RpcFails(b) ==
  /\ up
  /\ task[b].at # "idle"
  /\ task' = [task EXCEPT ![b] = Idle]
  /\ UNCHANGED <<height, chain, db, up, timer, reach, crashes>>

\* setInterval fires whether or not an earlier backfill is still waiting.
Poll(b) ==
  /\ up
  /\ timer
  /\ Begin(b, FALSE)
  /\ UNCHANGED <<height, chain, db, up, timer, reach, crashes>>

----------------------------------------------------------------------------
(* The process. *)

Boot(b) ==
  /\ ~up
  /\ up' = TRUE
  /\ Begin(b, TRUE)
  /\ UNCHANGED <<height, chain, db, timer, reach, crashes>>

Die ==
  /\ up
  /\ crashes < MaxCrashes
  /\ up' = FALSE
  /\ timer' = FALSE
  /\ task' = [b \in Backfills |-> Idle]
  /\ crashes' = crashes + 1
  /\ UNCHANGED <<height, chain>>

Crash == Die /\ UNCHANGED <<db, reach>>

\* Killed while it applies a batch: the statements before that point are in the tables.
CrashInBatch(b) ==
  LET t == task[b] IN
  /\ Die
  /\ t.at = "logs"
  /\ \E to \in Asked(t) :
       \/ \E k \in GetLogs(t.from, to) :
            /\ \E tables \in Applied(t.from, to)[k - 1] :
                 db' \in ToSet(handleEvent(tables, chain[k].event))
            /\ reach' = Max({reach, chain[k].block})
       \/ db' \in applyLogs(t.from, to) /\ reach' = Max({reach, Newest(t.from, to)})

----------------------------------------------------------------------------
Init ==
  /\ height = 0
  /\ chain = <<>>
  /\ db = EmptyDb
  /\ up = FALSE
  /\ timer = FALSE
  /\ task = [b \in Backfills |-> Idle]
  /\ reach = 0
  /\ crashes = 0

Next ==
  \/ Mine
  \/ Crash
  \/ \E b \in Backfills :
       \/ Boot(b)
       \/ Poll(b)
       \/ \E head \in 0 .. height : GotHead(b, head)
       \/ GotLogs(b)
       \/ RpcFails(b)
       \/ CrashInBatch(b)

Spec == Init /\ [][Next]_vars

\* The timer fires as long as it is installed; the RPC may fail and lag for any time, but never
\* stops giving a current head and an answer to getLogs now and then.
Fairness ==
  \A b \in Backfills :
    /\ WF_vars(Poll(b))
    /\ SF_vars(GotHead(b, height))
    /\ SF_vars(GotLogs(b))
    /\ SF_vars(task[b].head = height /\ GotLogs(b))

FairSpec == Spec /\ Fairness

----------------------------------------------------------------------------
(* What the mirror should show: the chain's own account, without replay. *)

TypeOK ==
  /\ height \in 0 .. MaxBlocks
  /\ chain \in Seq(Log)
  /\ db \in Tables
  /\ up \in BOOLEAN /\ timer \in BOOLEAN
  /\ task \in [Backfills -> [at : {"idle", "head", "logs"}, cursor : Nat, from : Nat, head : Nat,
                             first : BOOLEAN]]
  /\ reach \in 0 .. MaxBlocks
  /\ crashes \in 0 .. MaxCrashes

Happened(events, names, d) == \E e \in events : e.name \in names /\ e.deal = d

TrueState(events, d) ==
  IF Happened(events, FinalEvents, d)
  THEN (CHOOSE e \in events : e.name \in FinalEvents /\ e.deal = d).name
  ELSE IF Happened(events, {"CheckedIn"}, d) THEN "SellerCheckedIn"
  ELSE IF Happened(events, {"Funded"}, d) THEN "Funded" ELSE "None"

TrueListing(events, i) ==
  LET named(names) == \E e \in events : e.name \in names /\ e.listing = i
  IN  IF ~named({"Listed"}) THEN "absent"
      ELSE IF named({"ListingCancelled", "Funded"}) THEN "inactive" ELSE "active"

\* With or without what a handler that throws would have written.
Accounts(h) == {EventsUpTo(h), {e \in EventsUpTo(h) : e.name \notin Throwing}}

Shows(h) ==
  /\ \A d \in Deals :
       \E events \in Accounts(h) :
         /\ db.deal[d].state = TrueState(events, d)
         /\ db.deal[d].payToken = Happened(events, {"Funded"}, d)
         /\ db.deal[d].checkedIn => Happened(EventsUpTo(h), {"CheckedIn"}, d)
  /\ \A i \in Listings : db.listing[i] = TrueListing(EventsUpTo(h), i)

\* Unless the process died in a batch it has not yet caught up with again, the tables are what
\* the chain was at the cursor: no deal is shown live after it ended, no listing for sale after
\* it was bought, and no deal without its token.  A handler that throws spoils no more than what
\* its own event would have shown: the deal's end is shown although its check-in was lost.
MirrorFollowsChain == db.cursor >= reach => Shows(db.cursor)

\* indexer.ts 3-4: "each event maps to a DB mutation so the deal `state` always reflects the
\* latest terminal/intermediate transition", here of the blocks the cursor says were applied.
DealStateIsLatest ==
  db.cursor >= reach =>
    \A d \in Deals : db.deal[d].state = TrueState(EventsUpTo(db.cursor), d)

\* A deal's timeline has its events in the order of the chain, each once, and all of them up to
\* the cursor: rescans after a crash, overlapping polls, failed calls and lagging nodes neither
\* skip an event for good nor record one twice (recordEventOnce, the resume point, the windows).
TimelineComplete ==
  \A d \in Deals :
    LET kept == db.timeline[d]
        its == {k \in DOMAIN chain : chain[k].event.deal = d}
        place(k) == Cardinality({j \in its : j <= k})
    IN  /\ \A n \in DOMAIN kept :
             \E k \in its : place(k) = n /\ chain[k].event.name = kept[n]
        /\ \A k \in its : chain[k].block <= db.cursor => place(k) \in DOMAIN kept

\* Once polling is under way and is not interrupted again, the mirror catches up with the chain,
\* although any single call may fail and any head may be out of date.
EventuallyMirrors == <>[](up /\ timer) => <>[]Shows(height)

============================================================================
