---------------------------- MODULE LeadgenRevenue ----------------------------
(***************************************************************************)
(* How a LeadGen conversion becomes revenue: the provider's postback       *)
(* (public/leadgen/postback.ts ingestProviderPostback), the browser pixel  *)
(* (ingestBrowserPixel), the every-minute re-match of the postbacks whose  *)
(* click was not known (leadgen/revenue-recon.ts), and the one outbound    *)
(* notification (leadgen/s2s-dispatch.ts).  One Offer, whose conversions   *)
(* are capped; every conversion has a click and an id of its own, the one  *)
(* both channels report.  One action per D1 statement, KV operation or     *)
(* ClickHouse query.                                                       *)
(***************************************************************************)
EXTENDS Integers, FiniteSets

CONSTANTS
  Conversions,                  \* (click_id, external_txn_id) pairs
  Requests,                     \* invocations alive at once
  MaxPosts,                     \* bound: postbacks received
  MaxPixels,                    \* bound: pixels received
  MaxErrors,                    \* bound: D1 or KV operations that throw
  MaxEvictions                  \* bound: invocations lost

ASSUME ParametersAssumption ==
  /\ IsFiniteSet(Conversions) /\ IsFiniteSet(Requests)
  /\ {MaxPosts, MaxPixels, MaxErrors, MaxEvictions} \subseteq Nat

VARIABLES
  tracking,                     \* the Offer's conversion_tracking_method
  landed,                       \* conversions whose click is in ClickHouse
  old,                          \* conversions received over 72 hours ago
  log,                          \* leadgen_postback_log
  convlog,                      \* leadgen_conversion_log
  raw,                          \* leadgen_revenue_raw: rows by source
  unmatched,                    \* leadgen_revenue_unmatched: rows by status
  cap,                          \* conversion_count of the Offer
  seen,                         \* KV lg_s2s: keys
  fired,                        \* history: notifications sent
  answered,                     \* history: postbacks the provider saw accepted
  unnamed,                      \* history: postbacks without an offer id
  loc,                          \* each invocation's program point and locals
  posts, pixels, errors, evictions

tables == <<log, convlog, raw, unmatched, cap>>
histories == <<fired, answered, unnamed>>
counters == <<posts, pixels, errors, evictions>>
vars == <<tracking, landed, old, tables, seen, histories, loc, counters>>

Statuses == {"pending", "matched", "unattributed"}
Sources == {"s2s_postback", "in_site"}

(* Program points of the three kinds of invocation.                        *)
PostbackPoints == {"log", "match", "book", "queue", "undo", "answer"}
PixelPoints == {"payout", "cap", "context"}
NotifyPoints == {"seen", "mark", "fire"}
SweepPoints == {"age", "select", "lookup", "promote"}

Idle == [pc |-> "idle", kind |-> "none", conv |-> {}, named |-> TRUE]

TypeOK ==
  /\ tracking \in {"s2s_postback", "browser_side_pixel"}
  /\ landed \subseteq Conversions /\ old \subseteq Conversions
  /\ log \subseteq Conversions /\ convlog \subseteq Conversions
  /\ raw \in [Conversions -> [Sources -> Nat]]
  /\ unmatched \in [Conversions -> [Statuses -> Nat]]
  /\ cap \in Nat
  /\ seen \subseteq Conversions
  /\ fired \in [Conversions -> Nat]
  /\ answered \subseteq Conversions /\ unnamed \subseteq Conversions
  /\ loc \in [Requests ->
       [pc : {"idle"} \cup PostbackPoints \cup PixelPoints \cup NotifyPoints \cup SweepPoints,
        kind : {"none", "postback", "pixel", "sweep"},
        conv : SUBSET Conversions, named : BOOLEAN]]
  /\ posts \in 0 .. MaxPosts /\ pixels \in 0 .. MaxPixels
  /\ errors \in 0 .. MaxErrors /\ evictions \in 0 .. MaxEvictions

-----------------------------------------------------------------------------
(* Helpers                                                                 *)

At(r, point) == loc[r].pc = point
Goto(r, point) == loc' = [loc EXCEPT ![r].pc = point]
Exit(r) == loc' = [loc EXCEPT ![r] = Idle]

(* The one conversion a postback or a pixel is about.                      *)
Conv(r) == CHOOSE c \in Conversions : loc[r].conv = {c}

Queued(c) == unmatched[c]["pending"]
RowsOf(c) == Queued(c) + unmatched[c]["matched"] + unmatched[c]["unattributed"]

(* Rows a postback has left: booked at once, or queued for the re-match.   *)
Staged(c) == raw[c]["s2s_postback"] + RowsOf(c)

(* After the notification a pixel is done, a postback answers.             *)
Finish(r) == IF loc[r].kind = "postback" THEN Goto(r, "answer") ELSE Exit(r)

-----------------------------------------------------------------------------
Init ==
  /\ tracking \in {"s2s_postback", "browser_side_pixel"}
  /\ landed = {} /\ old = {} /\ log = {} /\ convlog = {} /\ seen = {}
  /\ raw = [c \in Conversions |-> [s \in Sources |-> 0]]
  /\ unmatched = [c \in Conversions |-> [s \in Statuses |-> 0]]
  /\ cap = 0
  /\ fired = [c \in Conversions |-> 0]
  /\ answered = {} /\ unnamed = {}
  /\ loc = [r \in Requests |-> Idle]
  /\ posts = 0 /\ pixels = 0 /\ errors = 0 /\ evictions = 0

-----------------------------------------------------------------------------
(* ingestProviderPostback                                                  *)

(* A valid postback, a repetition included: providers send again after a   *)
(* timeout, with or without the offer's id.                                *)
Post(r) ==
  /\ At(r, "idle")
  /\ posts < MaxPosts
  /\ posts' = posts + 1
  /\ \E c \in Conversions, named \in BOOLEAN :
       /\ loc' = [loc EXCEPT ![r] = [pc |-> "log", kind |-> "postback",
                                     conv |-> {c}, named |-> named]]
       /\ unnamed' = IF named THEN unnamed ELSE unnamed \cup {c}
  /\ UNCHANGED <<tracking, landed, old, tables, seen, fired, answered,
                 pixels, errors, evictions>>

(* Mutation of Bookable: no cross-channel check.                           *)
BookableAlways(r) == TRUE

(* A resolved browser_side_pixel offer is logged but not booked here.      *)
Bookable(r) == ~ (loc[r].named /\ tracking = "browser_side_pixel")

(* recordPostbackLog: INSERT OR IGNORE; a duplicate is answered at once.   *)
RecordLog(r) ==
  /\ At(r, "log")
  /\ log' = log \cup {Conv(r)}
  /\ Goto(r, IF Conv(r) \notin log /\ Bookable(r) THEN "match" ELSE "answer")
  /\ UNCHANGED <<tracking, landed, old, convlog, raw, unmatched, cap, seen,
                 histories, counters>>

(* resolveClickContextFromCh: no answer from ClickHouse is no click.       *)
Match(r) ==
  /\ At(r, "match")
  /\ \/ Conv(r) \in landed /\ Goto(r, "book")
     \/ Goto(r, "queue")
  /\ UNCHANGED <<tracking, landed, old, tables, seen, histories, counters>>

(* insertRevenueRaw *)
Book(r) ==
  /\ At(r, "book")
  /\ raw' = [raw EXCEPT ![Conv(r)]["s2s_postback"] = @ + 1]
  /\ Goto(r, "seen")
  /\ UNCHANGED <<tracking, landed, old, log, convlog, unmatched, cap, seen,
                 histories, counters>>

(* Mutation of Queue: the notification is sent for a queued one too.       *)
QueueNotifies(r) ==
  /\ At(r, "queue")
  /\ unmatched' = [unmatched EXCEPT ![Conv(r)]["pending"] = @ + 1]
  /\ Goto(r, "seen")
  /\ UNCHANGED <<tracking, landed, old, log, convlog, raw, cap, seen,
                 histories, counters>>

(* queueRevenueUnmatched *)
Queue(r) ==
  /\ At(r, "queue")
  /\ unmatched' = [unmatched EXCEPT ![Conv(r)]["pending"] = @ + 1]
  /\ Goto(r, "answer")
  /\ UNCHANGED <<tracking, landed, old, log, convlog, raw, cap, seen,
                 histories, counters>>

(* A statement throws without committing: the log's, the read of the Offer *)
(* or of the exchange rate, the row's.  Before the log row there is        *)
(* nothing to undo; after it the catch removes it, if it can.              *)
Throw(r) ==
  /\ errors < MaxErrors
  /\ errors' = errors + 1
  /\ \/ At(r, "log") /\ Goto(r, "answer")
     \/ loc[r].pc \in {"match", "book", "queue"} /\ Goto(r, "undo")
     \/ At(r, "undo") /\ Goto(r, "answer")
  /\ UNCHANGED <<tracking, landed, old, tables, seen, histories,
                 posts, pixels, evictions>>

(* DELETE FROM leadgen_postback_log in the catch.                          *)
Undo(r) ==
  /\ At(r, "undo")
  /\ log' = log \ {Conv(r)}
  /\ Goto(r, "answer")
  /\ UNCHANGED <<tracking, landed, old, convlog, raw, unmatched, cap, seen,
                 histories, counters>>

(* Every path ends in a 200: accepted, duplicate, or accepted by the catch. *)
Answer(r) ==
  /\ At(r, "answer")
  /\ answered' = answered \cup {Conv(r)}
  /\ Exit(r)
  /\ UNCHANGED <<tracking, landed, old, tables, seen, fired, unnamed, counters>>

-----------------------------------------------------------------------------
(* ingestBrowserPixel: a clean one, for an offer tracked by the pixel      *)

Pixel(r) ==
  /\ At(r, "idle")
  /\ tracking = "browser_side_pixel"
  /\ pixels < MaxPixels
  /\ pixels' = pixels + 1
  /\ \E c \in Conversions :
       loc' = [loc EXCEPT ![r] = [pc |-> "payout", kind |-> "pixel",
                                  conv |-> {c}, named |-> TRUE]]
  /\ UNCHANGED <<tracking, landed, old, tables, seen, histories,
                 posts, errors, evictions>>

(* Mutation of Payout: a replay counts for the cap as well.                *)
PayoutReplayCounts(r) ==
  /\ At(r, "payout")
  /\ LET new == Conv(r) \notin convlog
     IN  /\ raw' = [raw EXCEPT ![Conv(r)]["in_site"] = IF new THEN @ + 1 ELSE @]
         /\ convlog' = convlog \cup {Conv(r)}
         /\ Goto(r, "cap")
  /\ UNCHANGED <<tracking, landed, old, log, unmatched, cap, seen,
                 histories, counters>>

(* recordInSitePayout: the revenue row unless the conversion is logged,    *)
(* and the log row, in one transaction.                                    *)
Payout(r) ==
  /\ At(r, "payout")
  /\ LET new == Conv(r) \notin convlog
     IN  /\ raw' = [raw EXCEPT ![Conv(r)]["in_site"] = IF new THEN @ + 1 ELSE @]
         /\ convlog' = convlog \cup {Conv(r)}
         /\ IF new THEN Goto(r, "cap") ELSE Exit(r)
  /\ UNCHANGED <<tracking, landed, old, log, unmatched, cap, seen,
                 histories, counters>>

(* incrementCap, a statement after the transaction.                        *)
CapBump(r) ==
  /\ At(r, "cap")
  /\ cap' = cap + 1
  /\ Goto(r, "context")
  /\ UNCHANGED <<tracking, landed, old, log, convlog, raw, unmatched, seen,
                 histories, counters>>

Context(r) ==
  /\ At(r, "context")
  /\ \/ Conv(r) \in landed /\ Goto(r, "seen")
     \/ Exit(r)
  /\ UNCHANGED <<tracking, landed, old, tables, seen, histories, counters>>

(* A statement throws: the browser gets its image all the same.            *)
PixelThrow(r) ==
  /\ loc[r].pc \in {"payout", "cap"}
  /\ errors < MaxErrors
  /\ errors' = errors + 1
  /\ Exit(r)
  /\ UNCHANGED <<tracking, landed, old, tables, seen, histories,
                 posts, pixels, evictions>>

-----------------------------------------------------------------------------
(* dispatchMatchedConversionS2S                                            *)

(* alreadyFired, its read ...                                              *)
Seen(r) ==
  /\ At(r, "seen")
  /\ IF Conv(r) \in seen THEN Finish(r) ELSE Goto(r, "mark")
  /\ UNCHANGED <<tracking, landed, old, tables, seen, histories, counters>>

(* ... and its write, some time later.                                     *)
Mark(r) ==
  /\ At(r, "mark")
  /\ seen' = seen \cup {Conv(r)}
  /\ Goto(r, "fire")
  /\ UNCHANGED <<tracking, landed, old, tables, histories, counters>>

(* KV throws: the notification goes out unmarked.                          *)
KvThrow(r) ==
  /\ loc[r].pc \in {"seen", "mark"}
  /\ errors < MaxErrors
  /\ errors' = errors + 1
  /\ Goto(r, "fire")
  /\ UNCHANGED <<tracking, landed, old, tables, seen, histories,
                 posts, pixels, evictions>>

Fire(r) ==
  /\ At(r, "fire")
  /\ fired' = [fired EXCEPT ![Conv(r)] = @ + 1]
  /\ Finish(r)
  /\ UNCHANGED <<tracking, landed, old, tables, seen, answered, unnamed, counters>>

-----------------------------------------------------------------------------
(* reMatchUnmatchedSweep, started by the cron every minute                 *)

Sweep(r) ==
  /\ At(r, "idle")
  /\ loc' = [loc EXCEPT ![r].pc = "age", ![r].kind = "sweep"]
  /\ UNCHANGED <<tracking, landed, old, tables, seen, histories, counters>>

(* Mutation of Age: the window is never applied.                           *)
AgeNothing(r) ==
  /\ At(r, "age")
  /\ Goto(r, "select")
  /\ UNCHANGED <<tracking, landed, old, tables, seen, histories, counters>>

(* Pending rows past the window become unattributed.                       *)
Age(r) ==
  /\ At(r, "age")
  /\ unmatched' = [c \in Conversions |->
       IF c \in old
         THEN [unmatched[c] EXCEPT !["pending"] = 0, !["unattributed"] = @ + Queued(c)]
         ELSE unmatched[c]]
  /\ Goto(r, "select")
  /\ UNCHANGED <<tracking, landed, old, log, convlog, raw, cap, seen,
                 histories, counters>>

Select(r) ==
  /\ At(r, "select")
  /\ LET pending == {c \in Conversions \ old : Queued(c) > 0}
     IN  IF pending = {} THEN Exit(r)
         ELSE loc' = [loc EXCEPT ![r].pc = "lookup", ![r].conv = pending]
  /\ UNCHANGED <<tracking, landed, old, tables, seen, histories, counters>>

(* matchedClickIdsInCh *)
Lookup(r) ==
  /\ At(r, "lookup")
  /\ LET known == loc[r].conv \cap landed
     IN  IF known = {} THEN Exit(r)
         ELSE loc' = [loc EXCEPT ![r].pc = "promote", ![r].conv = known]
  /\ UNCHANGED <<tracking, landed, old, tables, seen, histories, counters>>

(* Mutation of Promote: the row is taken for pending as it was selected.   *)
PromotePending(r) ==
  /\ At(r, "promote")
  /\ unmatched' = [c \in Conversions |->
       IF c \in loc[r].conv
         THEN [unmatched[c] EXCEPT !["pending"] = @ - 1, !["matched"] = @ + 1]
         ELSE unmatched[c]]
  /\ Exit(r)
  /\ UNCHANGED <<tracking, landed, old, log, convlog, raw, cap, seen,
                 histories, counters>>

(* UPDATE ... 'matched' WHERE id IN (...): whatever the row says by now.   *)
Promote(r) ==
  /\ At(r, "promote")
  /\ unmatched' = [c \in Conversions |->
       IF c \in loc[r].conv
         THEN [s \in Statuses |-> IF s = "matched" THEN RowsOf(c) ELSE 0]
         ELSE unmatched[c]]
  /\ Exit(r)
  /\ UNCHANGED <<tracking, landed, old, log, convlog, raw, cap, seen,
                 histories, counters>>

-----------------------------------------------------------------------------
(* The environment                                                         *)

(* The click arrives in ClickHouse through the external pipeline.          *)
Land(c) ==
  /\ c \notin landed
  /\ landed' = landed \cup {c}
  /\ UNCHANGED <<tracking, old, tables, seen, histories, loc, counters>>

(* 72 hours go by after a row was queued.                                  *)
Expire(c) ==
  /\ c \notin old
  /\ RowsOf(c) > 0
  /\ old' = old \cup {c}
  /\ UNCHANGED <<tracking, landed, tables, seen, histories, loc, counters>>

(* The invocation is lost: nobody is answered.                             *)
Evict(r) ==
  /\ ~ At(r, "idle")
  /\ evictions < MaxEvictions
  /\ evictions' = evictions + 1
  /\ Exit(r)
  /\ UNCHANGED <<tracking, landed, old, tables, seen, histories,
                 posts, pixels, errors>>

-----------------------------------------------------------------------------
Proceed(r) ==
  \/ RecordLog(r) \/ Match(r) \/ Book(r) \/ Queue(r) \/ Undo(r) \/ Answer(r)
  \/ Payout(r) \/ CapBump(r) \/ Context(r)
  \/ Seen(r) \/ Mark(r) \/ Fire(r)
  \/ Age(r) \/ Select(r) \/ Lookup(r) \/ Promote(r)

Next ==
  \/ \E r \in Requests :
       \/ Post(r) \/ Pixel(r) \/ Sweep(r)
       \/ Proceed(r)
       \/ Throw(r) \/ PixelThrow(r) \/ KvThrow(r) \/ Evict(r)
  \/ \E c \in Conversions : Land(c) \/ Expire(c)

Spec == Init /\ [][Next]_vars

(* Time passes, the cron starts its sweep and a started invocation runs on *)
(* until it returns or is lost.  Providers, browsers and the click         *)
(* pipeline owe nothing.                                                   *)
Fairness ==
  /\ \A c \in Conversions : WF_vars(Expire(c))
  /\ WF_vars(\E r \in Requests : Sweep(r))
  /\ \A r \in Requests : WF_vars(Proceed(r))

FairSpec == Spec /\ Fairness

-----------------------------------------------------------------------------
(* Properties                                                              *)

(* Money is staged at most once per conversion and channel, though the     *)
(* catch takes the dedup row back, providers repeat themselves and their   *)
(* requests overlap; and when the postbacks name their offer, at most once *)
(* over both channels.                                                     *)
BookedOnce ==
  \A c \in Conversions :
    /\ Staged(c) <= 1
    /\ raw[c]["in_site"] <= 1
    /\ c \notin unnamed => Staged(c) + raw[c]["in_site"] <= 1

(* Why: the request that inserted the log row is the only one that may     *)
(* stage the conversion, and the row it will take back is its own.         *)
Holds(r, c) ==
  loc[r].pc \in {"match", "book", "queue", "undo"} /\ loc[r].conv = {c}

OneHolder ==
  \A c \in Conversions, r \in Requests :
    Holds(r, c) => /\ c \in log
                   /\ Staged(c) = 0
                   /\ \A q \in Requests : Holds(q, c) => q = r

(* A notification goes out only for money in leadgen_revenue_raw: at most  *)
(* one for each row, never for a queued conversion.                        *)
FiredPerRow ==
  \A c \in Conversions : fired[c] <= raw[c]["s2s_postback"] + raw[c]["in_site"]

(* The cap never runs ahead of the conversions the pixel has booked, each  *)
(* counted once, whatever is replayed (it may stay behind: incrementCap    *)
(* can fail after the transaction).                                        *)
Paid == {c \in Conversions : raw[c]["in_site"] > 0}

CapNeverAhead == cap <= Cardinality(Paid)

(* The intake implements RevenueLedger.  A postback's row is the same one  *)
(* whether it is booked at once or waits for its click in the queue, and   *)
(* is never lost between the two; only the pixel's rows count for the cap. *)
Booked ==
  {row \in Conversions \X Sources :
     IF row[2] = "s2s_postback" THEN Staged(row[1]) > 0 ELSE raw[row[1]]["in_site"] > 0}

Account == INSTANCE RevenueLedger
  WITH Rows <- Conversions \X Sources, Counting <- Conversions \X {"in_site"},
       booked <- Booked, counted <- cap

LedgerSpec == Account!Spec

(* No postback waits for ever: it is matched or, after the window,         *)
(* unattributed.                                                           *)
PendingResolves == \A c \in Conversions : Queued(c) > 0 ~> Queued(c) = 0

(* postback.ts:303: a booking failure after the dedup row is written is    *)
(* not silently dropped, because the catch removes the row for the         *)
(* provider's retry; so what was answered 200 is staged, unless the pixel  *)
(* channel is to book it.                                                  *)
AnsweredIsStaged ==
  \A c \in answered :
    \/ Staged(c) > 0
    \/ tracking = "browser_side_pixel"
    \/ \E r \in Requests : Holds(r, c)

(* revenue-recon.ts:240: no double count on a re-match, "the revenue_raw   *)
(* row was already staged at ingest".                                      *)
MatchedIsBooked ==
  \A c \in Conversions :
    unmatched[c]["matched"] > 0 => raw[c]["s2s_postback"] > 0
=============================================================================
