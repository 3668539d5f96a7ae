---------------------------- MODULE ListicleRevenue ----------------------------
(***************************************************************************)
(* How a Listicles conversion becomes revenue and reaches ClickHouse: the  *)
(* provider's postback (public/listicle/postback.ts), the browser's        *)
(* conversion event (analytics/listicle-track.ts processConversionEvent),  *)
(* and the cron that ships the staged rows and tries the unmatched         *)
(* postbacks again (listicles/revenue-recon.ts).  One Offer, whose         *)
(* conversions are capped.  One action per D1 statement or batch and per   *)
(* ClickHouse call; a statement may throw, with or without having          *)
(* committed.                                                              *)
(***************************************************************************)
EXTENDS Integers, FiniteSets

CONSTANTS
  Conversions,                  \* transactions, and booking keys of events
  Click,                        \* the click_id of each conversion
  Requests,                     \* invocations alive at once
  MaxPosts,                     \* bound: postbacks received
  MaxEvents,                    \* bound: conversion events received
  MaxErrors,                    \* bound: statements and calls that throw
  MaxEvictions                  \* bound: invocations lost

ASSUME ParametersAssumption ==
  /\ IsFiniteSet(Conversions) /\ IsFiniteSet(Requests)
  /\ Conversions \subseteq DOMAIN Click
  /\ {MaxPosts, MaxEvents, MaxErrors, MaxEvictions} \subseteq Nat

VARIABLES
  payout,                       \* the Offer's payout_method
  landed,                       \* clicks that are in ClickHouse, clean
  old,                          \* conversions received over 72 hours ago
  log,                          \* listicle_postback_log
  convlog,                      \* listicle_conversion_log
  raw,                          \* listicle_revenue_raw: rows by source
  synced,                       \* those with synced_to_ch_at
  unmatched,                    \* listicle_revenue_unmatched: rows by status
  cap,                          \* conversion_count of the Offer
  shipped,                      \* keys of ClickHouse's lst_revenue_raw
  answered,                     \* history: postbacks the provider saw accepted
  loc,                          \* each invocation's program point and locals
  posts, events, errors, evictions

tables == <<log, convlog, raw, synced, unmatched, cap, shipped>>
outside == <<payout, landed, old>>
counters == <<posts, events, errors, evictions>>
vars == <<outside, tables, answered, loc, counters>>

Clicks == {Click[c] : c \in Conversions}
Statuses == {"pending", "matched", "unattributed"}
Sources == {"s2s_postback", "in_site"}
Rows == Conversions \X Sources

PostbackPoints == {"dedupe", "batch", "recheck", "accepted", "context", "queue"}
CronPoints == {"unsynced", "insert", "stamp", "age", "pending", "lookup", "promote"}

Idle == [pc |-> "idle", conv |-> {}, rows |-> {}]

TypeOK ==
  /\ payout \in {"in_site", "offsite"}
  /\ landed \subseteq Clicks /\ old \subseteq Conversions
  /\ log \subseteq Conversions /\ convlog \subseteq Conversions
  /\ raw \in [Conversions -> [Sources -> Nat]]
  /\ synced \subseteq Rows
  /\ unmatched \in [Conversions -> [Statuses -> Nat]]
  /\ cap \in Nat
  /\ shipped \subseteq Clicks \X Sources
  /\ answered \subseteq Conversions
  /\ loc \in [Requests ->
       [pc : {"idle", "payout", "cap"} \cup PostbackPoints \cup CronPoints,
        conv : SUBSET Conversions, rows : SUBSET Rows]]
  /\ posts \in 0 .. MaxPosts /\ events \in 0 .. MaxEvents
  /\ errors \in 0 .. MaxErrors /\ evictions \in 0 .. MaxEvictions

-----------------------------------------------------------------------------
(* Helpers                                                                 *)

At(r, point) == loc[r].pc = point
Goto(r, point) == loc' = [loc EXCEPT ![r].pc = point]
Exit(r) == loc' = [loc EXCEPT ![r] = Idle]

(* The one conversion a postback or an event is about.                     *)
Conv(r) == CHOOSE c \in Conversions : loc[r].conv = {c}

Queued(c) == unmatched[c]["pending"]
RowsOf(c) == Queued(c) + unmatched[c]["matched"] + unmatched[c]["unattributed"]

Staged == {row \in Rows : raw[row[1]][row[2]] > 0}

(* The ReplacingMergeTree keeps one row for each day, click, offer and     *)
(* source; there is one day and one Offer here.                            *)
Key(row) == <<Click[row[1]], row[2]>>

(* Nothing but the program point changes.                                  *)
Reads == UNCHANGED <<outside, tables, answered>>

-----------------------------------------------------------------------------
Init ==
  /\ payout \in {"in_site", "offsite"}
  /\ landed = {} /\ old = {} /\ log = {} /\ convlog = {}
  /\ raw = [c \in Conversions |-> [s \in Sources |-> 0]]
  /\ synced = {} /\ shipped = {} /\ answered = {}
  /\ unmatched = [c \in Conversions |-> [s \in Statuses |-> 0]]
  /\ cap = 0
  /\ loc = [r \in Requests |-> Idle]
  /\ posts = 0 /\ events = 0 /\ errors = 0 /\ evictions = 0

-----------------------------------------------------------------------------
(* POST /api/pb/:provider                                                  *)

(* A valid postback; the provider may send it any number of times.         *)
Post(r) ==
  /\ At(r, "idle")
  /\ posts < MaxPosts /\ posts' = posts + 1
  /\ \E c \in Conversions :
       loc' = [loc EXCEPT ![r] = [Idle EXCEPT !.pc = "dedupe", !.conv = {c}]]
  /\ Reads
  /\ UNCHANGED <<events, errors, evictions>>

(* A transaction that is logged is answered 200 as a duplicate.            *)
Dedupe(r) ==
  /\ At(r, "dedupe")
  /\ IF Conv(r) \in log
       THEN answered' = answered \cup {Conv(r)} /\ Exit(r)
       ELSE UNCHANGED answered /\ Goto(r, "batch")
  /\ UNCHANGED <<outside, tables, counters>>

(* Log row and revenue row of one transaction.                             *)
Stage(c) ==
  /\ log' = log \cup {c}
  /\ raw' = [raw EXCEPT ![c]["s2s_postback"] = @ + 1]
  /\ UNCHANGED <<convlog, synced, unmatched, cap, shipped>>

(* The unique log row does not refuse the batch.                           *)
BatchIgnore(r) ==
  /\ At(r, "batch")
  /\ Stage(Conv(r)) /\ Goto(r, "accepted")
  /\ UNCHANGED <<outside, answered, counters>>

(* One batch: a log row that is there already refuses both inserts.        *)
Batch(r) ==
  /\ At(r, "batch")
  /\ IF Conv(r) \in log
       THEN Goto(r, "recheck") /\ UNCHANGED tables
       ELSE Stage(Conv(r)) /\ Goto(r, "accepted")
  /\ UNCHANGED <<outside, answered, counters>>

(* 200 if the log row is there now, 503 if not: the provider is to retry.  *)
Recheck(r) ==
  /\ At(r, "recheck")
  /\ answered' = IF Conv(r) \in log THEN answered \cup {Conv(r)} ELSE answered
  /\ Exit(r)
  /\ UNCHANGED <<outside, tables, counters>>

(* The 200, and the background work that ctx.waitUntil keeps alive.        *)
Accepted(r) ==
  /\ At(r, "accepted")
  /\ answered' = answered \cup {Conv(r)}
  /\ Goto(r, "context")
  /\ UNCHANGED <<outside, tables, counters>>

(* resolveClickContextFromCh: no answer from ClickHouse is no click.       *)
Context(r) ==
  /\ At(r, "context")
  /\ \/ Click[Conv(r)] \in landed /\ Goto(r, "cap")
     \/ Goto(r, "queue")
  /\ Reads
  /\ UNCHANGED counters

(* queueRevenueUnmatched *)
Queue(r) ==
  /\ At(r, "queue")
  /\ unmatched' = [unmatched EXCEPT ![Conv(r)]["pending"] = @ + 1]
  /\ Exit(r)
  /\ UNCHANGED <<outside, log, convlog, raw, synced, cap, shipped, answered, counters>>

(* bumpCapConversions, for a matched postback and a booked event.          *)
CapBump(r) ==
  /\ At(r, "cap")
  /\ cap' = cap + 1
  /\ Exit(r)
  /\ UNCHANGED <<outside, log, convlog, raw, synced, unmatched, shipped, answered, counters>>

-----------------------------------------------------------------------------
(* The browser's conversion event, clean and with a booking key            *)

(* Only an offer that pays in site is booked; the others are notified.     *)
Event(r) ==
  /\ At(r, "idle")
  /\ payout = "in_site"
  /\ events < MaxEvents /\ events' = events + 1
  /\ \E c \in Conversions :
       loc' = [loc EXCEPT ![r] = [Idle EXCEPT !.pc = "payout", !.conv = {c}]]
  /\ Reads
  /\ UNCHANGED <<posts, errors, evictions>>

(* The INSERT ... SELECT of the revenue row where no log row exists, and   *)
(* the log row, in one transaction.                                        *)
BookEvent(c) ==
  /\ raw' = [raw EXCEPT ![c]["in_site"] = IF c \in convlog THEN @ ELSE @ + 1]
  /\ convlog' = convlog \cup {c}
  /\ UNCHANGED <<log, synced, unmatched, cap, shipped>>

(* A replay counts for the cap as well.                                    *)
PayoutReplayCounts(r) ==
  /\ At(r, "payout")
  /\ BookEvent(Conv(r)) /\ Goto(r, "cap")
  /\ UNCHANGED <<outside, answered, counters>>

(* recordInSitePayout *)
Payout(r) ==
  /\ At(r, "payout")
  /\ BookEvent(Conv(r))
  /\ IF Conv(r) \in convlog THEN Exit(r) ELSE Goto(r, "cap")
  /\ UNCHANGED <<outside, answered, counters>>

-----------------------------------------------------------------------------
(* runListicleRevenueCron, every minute: shipRevenueRawToCh ...            *)

Tick(r) ==
  /\ At(r, "idle")
  /\ Goto(r, "unsynced")
  /\ Reads
  /\ UNCHANGED counters

(* Stamped before they are shipped.                                        *)
UnsyncedStamps(r) ==
  /\ At(r, "unsynced")
  /\ LET rows == Staged \ synced
     IN  IF rows = {} THEN Goto(r, "age") /\ UNCHANGED synced
         ELSE /\ loc' = [loc EXCEPT ![r].pc = "insert", ![r].rows = rows]
              /\ synced' = synced \cup rows
  /\ UNCHANGED <<outside, log, convlog, raw, unmatched, cap, shipped, answered, counters>>

Unsynced(r) ==
  /\ At(r, "unsynced")
  /\ LET rows == Staged \ synced
     IN  IF rows = {} THEN Goto(r, "age")
         ELSE loc' = [loc EXCEPT ![r].pc = "insert", ![r].rows = rows]
  /\ Reads
  /\ UNCHANGED counters

InsertCh(r) ==
  /\ At(r, "insert")
  /\ shipped' = shipped \cup {Key(row) : row \in loc[r].rows}
  /\ Goto(r, "stamp")
  /\ UNCHANGED <<outside, log, convlog, raw, synced, unmatched, cap, answered, counters>>

(* Every row without a stamp gets one.                                     *)
StampUnsynced(r) ==
  /\ At(r, "stamp")
  /\ synced' = Staged
  /\ loc' = [loc EXCEPT ![r].pc = "age", ![r].rows = {}]
  /\ UNCHANGED <<outside, log, convlog, raw, unmatched, cap, shipped, answered, counters>>

(* One UPDATE for each chunk of the ids that were read.                    *)
Stamp(r) ==
  /\ At(r, "stamp")
  /\ \E chunk \in (SUBSET loc[r].rows) \ {{}} :
       /\ synced' = synced \cup chunk
       /\ loc' = [loc EXCEPT ![r].pc = IF chunk = loc[r].rows THEN "age" ELSE "stamp",
                             ![r].rows = @ \ chunk]
  /\ UNCHANGED <<outside, log, convlog, raw, unmatched, cap, shipped, answered, counters>>

(* ... and reMatchUnmatchedSweep                                           *)

(* Pending rows past the window become unattributed.                       *)
Age(r) ==
  /\ At(r, "age")
  /\ unmatched' = [c \in Conversions |->
       IF c \in old
         THEN [unmatched[c] EXCEPT !["pending"] = 0, !["unattributed"] = @ + Queued(c)]
         ELSE unmatched[c]]
  /\ loc' = [loc EXCEPT ![r] = [Idle EXCEPT !.pc = "pending"]]
  /\ UNCHANGED <<outside, log, convlog, raw, synced, cap, shipped, answered, counters>>

Pending(r) ==
  /\ At(r, "pending")
  /\ LET pending == {c \in Conversions \ old : Queued(c) > 0}
     IN  IF pending = {} THEN Exit(r)
         ELSE loc' = [loc EXCEPT ![r].pc = "lookup", ![r].conv = pending]
  /\ Reads
  /\ UNCHANGED counters

(* matchedClickIdsInCh *)
Lookup(r) ==
  /\ At(r, "lookup")
  /\ LET known == {c \in loc[r].conv : Click[c] \in landed}
     IN  IF known = {} THEN Exit(r)
         ELSE loc' = [loc EXCEPT ![r].pc = "promote", ![r].conv = known]
  /\ Reads
  /\ UNCHANGED counters

(* UPDATE ... 'matched' WHERE id IN (...): whatever the row says by now.   *)
Promote(r) ==
  /\ At(r, "promote")
  /\ unmatched' = [c \in Conversions |->
       IF c \in loc[r].conv
         THEN [s \in Statuses |-> IF s = "matched" THEN RowsOf(c) ELSE 0]
         ELSE unmatched[c]]
  /\ Exit(r)
  /\ UNCHANGED <<outside, log, convlog, raw, synced, cap, shipped, answered, counters>>

-----------------------------------------------------------------------------
(* Failures                                                                *)

Fail == errors < MaxErrors /\ errors' = errors + 1 /\ UNCHANGED <<posts, events, evictions>>

(* A statement throws and nothing was done.  The dedupe read falls through *)
(* to the batch; a failed recheck is a 503, which is nothing to remember;  *)
(* the ship and the age-out are each caught on their own.                  *)
Throw(r) ==
  /\ Fail
  /\ \/ At(r, "dedupe") /\ Goto(r, "batch")
     \/ At(r, "batch") /\ Goto(r, "recheck")
     \/ loc[r].pc \in {"unsynced", "insert", "stamp"}
          /\ loc' = [loc EXCEPT ![r] = [Idle EXCEPT !.pc = "age"]]
     \/ At(r, "age") /\ loc' = [loc EXCEPT ![r] = [Idle EXCEPT !.pc = "pending"]]
     \/ loc[r].pc \in {"recheck", "queue", "payout", "cap", "pending", "lookup", "promote"}
          /\ Exit(r)
  /\ Reads

(* The batch, or the insert into ClickHouse, is done and its answer lost.  *)
LostAnswer(r) ==
  /\ Fail
  /\ \/ At(r, "batch") /\ Conv(r) \notin log /\ Stage(Conv(r)) /\ Goto(r, "recheck")
     \/ At(r, "payout") /\ BookEvent(Conv(r)) /\ Exit(r)
     \/ /\ At(r, "insert")
        /\ shipped' = shipped \cup {Key(row) : row \in loc[r].rows}
        /\ loc' = [loc EXCEPT ![r] = [Idle EXCEPT !.pc = "age"]]
        /\ UNCHANGED <<log, convlog, raw, synced, unmatched, cap>>
  /\ UNCHANGED <<outside, answered>>

(* The invocation is lost.                                                 *)
Evict(r) ==
  /\ ~ At(r, "idle")
  /\ evictions < MaxEvictions /\ evictions' = evictions + 1
  /\ Exit(r)
  /\ Reads
  /\ UNCHANGED <<posts, events, errors>>

-----------------------------------------------------------------------------
(* The environment                                                         *)

(* The click arrives in ClickHouse through the external pipeline.          *)
Land(k) ==
  /\ k \notin landed
  /\ landed' = landed \cup {k}
  /\ UNCHANGED <<payout, old, tables, answered, loc, counters>>

(* 72 hours go by after a row was queued.                                  *)
Expire(c) ==
  /\ c \notin old
  /\ RowsOf(c) > 0
  /\ old' = old \cup {c}
  /\ UNCHANGED <<payout, landed, tables, answered, loc, counters>>

-----------------------------------------------------------------------------
Proceed(r) ==
  \/ Dedupe(r) \/ Batch(r) \/ Recheck(r) \/ Accepted(r) \/ Context(r) \/ Queue(r)
  \/ Payout(r) \/ CapBump(r)
  \/ Unsynced(r) \/ InsertCh(r) \/ Stamp(r)
  \/ Age(r) \/ Pending(r) \/ Lookup(r) \/ Promote(r)

Next ==
  \/ \E r \in Requests :
       \/ Post(r) \/ Event(r) \/ Tick(r)
       \/ Proceed(r)
       \/ Throw(r) \/ LostAnswer(r) \/ Evict(r)
  \/ \E k \in Clicks : Land(k)
  \/ \E c \in Conversions : Expire(c)

Spec == Init /\ [][Next]_vars

(* Time passes, the cron starts and a started invocation runs on until it  *)
(* returns or is lost.  Providers, browsers and the click pipeline owe     *)
(* nothing.                                                                *)
Fairness ==
  /\ \A c \in Conversions : WF_vars(Expire(c))
  /\ WF_vars(\E r \in Requests : Tick(r))
  /\ \A r \in Requests : WF_vars(Proceed(r))

FairSpec == Spec /\ Fairness

-----------------------------------------------------------------------------
(* Properties                                                              *)

(* A postback the provider saw accepted, as new or as a duplicate, has its *)
(* revenue row, exactly one, although its requests overlap, a read of the  *)
(* log fails and a batch that reports an error may have committed; and an  *)
(* event's payout is booked exactly once for its booking key.              *)
BookedOnce ==
  /\ answered \subseteq log
  /\ \A c \in Conversions :
       /\ raw[c]["s2s_postback"] = IF c \in log THEN 1 ELSE 0
       /\ raw[c]["in_site"] = IF c \in convlog THEN 1 ELSE 0

(* A row is stamped only when ClickHouse has its key, and is then never    *)
(* shipped again: overlapping crons, rows staged while one ships, chunks   *)
(* half stamped and inserts whose answer is lost included.                 *)
StampedIsShipped == \A row \in synced : Key(row) \in shipped

(* The cap never runs ahead of the bookings of either channel, each row    *)
(* counted once, whatever is replayed, answered late or lost.              *)
CapNeverAhead == cap <= Cardinality(Staged)

(* The intake implements RevenueLedger; the rows of both channels count.   *)
Account == INSTANCE RevenueLedger
  WITH Rows <- Rows, Counting <- Rows, booked <- Staged, counted <- cap

LedgerSpec == Account!Spec

(* Every staged row reaches ClickHouse in the end, failed and half done    *)
(* runs of the cron included.                                              *)
RowsAreShipped == \A row \in Rows : row \in Staged ~> Key(row) \in shipped
=============================================================================
