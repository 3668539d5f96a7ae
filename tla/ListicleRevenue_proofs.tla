------------------------ MODULE ListicleRevenue_proofs ------------------------
(***************************************************************************)
(* Proofs about ListicleRevenue, for any number of conversions, clicks and *)
(* invocations and any bounds: types, what an accepted postback is worth,  *)
(* what a stamped row is worth, that the cap is earned, and that the       *)
(* intake implements RevenueLedger.                                        *)
(***************************************************************************)
EXTENDS ListicleRevenue, FiniteSetTheorems, TLAPS

-----------------------------------------------------------------------------
(* The inductive invariant: each part says what a program point may rely   *)
(* on, and what the tables owe each other.                                 *)

Points == {"idle", "payout", "cap"} \cup PostbackPoints \cup CronPoints
Locals == [pc : Points, conv : SUBSET Conversions, rows : SUBSET Rows]

(* A postback or an event is about one conversion.                         *)
OneConv ==
  \A r \in Requests :
    loc[r].pc \in PostbackPoints \cup {"payout", "cap"} =>
      \E c \in Conversions : loc[r].conv = {c}

(* The 200 comes after the log row.                                        *)
AcceptedIsLogged ==
  \A r \in Requests, c \in Conversions :
    At(r, "accepted") /\ loc[r].conv = {c} => c \in log

(* The stamps come after the insert.                                       *)
StampsAfterInsert ==
  \A r \in Requests : At(r, "stamp") => \A row \in loc[r].rows : Key(row) \in shipped

IInv == TypeOK /\ OneConv /\ AcceptedIsLogged /\ StampsAfterInsert
          /\ BookedOnce /\ StampedIsShipped

-----------------------------------------------------------------------------
(* The step relation and its helpers                                       *)

LEMMA NextCases ==
  ASSUME Next
  PROVE  \/ \E r \in Requests :
              \/ Post(r) \/ Event(r) \/ Tick(r)
              \/ Dedupe(r) \/ Batch(r) \/ Recheck(r) \/ Accepted(r) \/ Context(r)
              \/ Queue(r) \/ Payout(r) \/ CapBump(r)
              \/ Unsynced(r) \/ InsertCh(r) \/ Stamp(r)
              \/ Age(r) \/ Pending(r) \/ Lookup(r) \/ Promote(r)
              \/ Throw(r) \/ LostAnswer(r) \/ Evict(r)
         \/ \E k \in Clicks : Land(k)
         \/ \E c \in Conversions : Expire(c)
BY DEF Next, Proceed

(* Conv names the conversion the invocation is about.                      *)
LEMMA ConvIs ==
  ASSUME OneConv, NEW r \in Requests,
         loc[r].pc \in PostbackPoints \cup {"payout", "cap"}
  PROVE  Conv(r) \in Conversions /\ loc[r].conv = {Conv(r)}
BY DEF OneConv, Conv

(* The key of a row is one of ClickHouse's.                                *)
LEMMA KeyType == \A row \in Rows : Key(row) \in Clicks \X Sources
BY DEF Rows, Key, Clicks

-----------------------------------------------------------------------------
(* Types                                                                   *)

LEMMA InitOK == Init => IInv
<1> SUFFICES ASSUME Init PROVE IInv
  OBVIOUS
<1>1. TypeOK
  BY ParametersAssumption
     DEF Init, TypeOK, Idle, PostbackPoints, CronPoints, Rows, Sources, Statuses
<1>2. OneConv /\ AcceptedIsLogged /\ StampsAfterInsert
  BY DEF Init, OneConv, AcceptedIsLogged, StampsAfterInsert, Idle, At, PostbackPoints
<1>3. BookedOnce /\ StampedIsShipped
  BY DEF Init, BookedOnce, StampedIsShipped, Sources
<1> QED
  BY <1>1, <1>2, <1>3 DEF IInv

LEMMA StageType ==
  ASSUME TypeOK, NEW c \in Conversions, Stage(c)
  PROVE  /\ log' \subseteq Conversions
         /\ raw' \in [Conversions -> [Sources -> Nat]]
         /\ raw' = [raw EXCEPT ![c]["s2s_postback"] = @ + 1]
BY DEF TypeOK, Stage, Sources

LEMMA BookEventType ==
  ASSUME TypeOK, NEW c \in Conversions, BookEvent(c)
  PROVE  /\ convlog' \subseteq Conversions
         /\ raw' \in [Conversions -> [Sources -> Nat]]
<1>1. raw[c]["in_site"] \in Nat
  BY DEF TypeOK, Sources
<1> QED
  BY <1>1 DEF TypeOK, BookEvent, Sources

LocType == loc \in [Requests -> Locals]

(* Moving an invocation keeps its locals well typed.                       *)
LEMMA GotoType ==
  ASSUME LocType, NEW r \in Requests, NEW p \in Points, Goto(r, p)
  PROVE  LocType'
BY DEF LocType, Locals, Goto

LEMMA ExitType ==
  ASSUME LocType, NEW r \in Requests, Exit(r)
  PROVE  LocType'
BY DEF LocType, Locals, Exit, Idle, Points

(* So does giving it conversions and rows.                                 *)
LEMMA CarryType ==
  ASSUME LocType, NEW r \in Requests, NEW l \in Locals, loc' = [loc EXCEPT ![r] = l]
  PROVE  LocType'
BY DEF LocType

LEMMA IdleType == \A p \in Points : [Idle EXCEPT !.pc = p] \in Locals
BY DEF Idle, Locals

(* Every step keeps the types.                                             *)
LEMMA TypeStep == TypeOK /\ OneConv /\ [Next]_vars => TypeOK'
<1> SUFFICES ASSUME TypeOK, OneConv, [Next]_vars PROVE TypeOK'
  OBVIOUS
<1> USE DEF Points, PostbackPoints, CronPoints
<1>0. LocType
  BY DEF TypeOK, LocType, Locals
<1>1. CASE UNCHANGED vars
  BY <1>1 DEF vars, TypeOK, outside, tables, counters
<1>2. ASSUME NEW k \in Clicks, Land(k) PROVE TypeOK'
  BY <1>2 DEF Land, TypeOK, tables, counters
<1>3. ASSUME NEW c \in Conversions, Expire(c) PROVE TypeOK'
  BY <1>3 DEF Expire, TypeOK, tables, counters
<1>4. ASSUME NEW r \in Requests, Post(r) \/ Event(r) \/ Tick(r) PROVE TypeOK'
  <2>1. LocType'
    <3>1. \A c \in Conversions, p \in {"dedupe", "payout"} :
            [Idle EXCEPT !.pc = p, !.conv = {c}] \in Locals
      BY DEF Idle, Locals
    <3> QED
      BY <1>0, <1>4, <3>1, GotoType, CarryType DEF Post, Event, Tick
  <2>2. posts' \in 0 .. MaxPosts /\ events' \in 0 .. MaxEvents
    <3>1. /\ MaxPosts \in Nat /\ MaxEvents \in Nat
          /\ posts \in 0 .. MaxPosts /\ events \in 0 .. MaxEvents
      BY ParametersAssumption DEF TypeOK
    <3>2. \/ posts < MaxPosts /\ posts' = posts + 1 /\ events' = events
          \/ events < MaxEvents /\ events' = events + 1 /\ posts' = posts
          \/ posts' = posts /\ events' = events
      BY <1>4 DEF Post, Event, Tick, counters
    <3> QED
      BY <3>1, <3>2
  <2> QED
    BY <1>4, <2>1, <2>2
       DEF Post, Event, Tick, Reads, TypeOK, LocType, Locals, outside, tables, counters
<1>5. ASSUME NEW r \in Requests,
             Dedupe(r) \/ Recheck(r) \/ Accepted(r) \/ Context(r)
      PROVE  TypeOK'
  <2>1. LocType'
    BY <1>0, <1>5, GotoType, ExitType DEF Dedupe, Recheck, Accepted, Context
  <2>2. Conv(r) \in Conversions
    BY <1>5, ConvIs DEF Dedupe, Recheck, Accepted, Context, At
  <2> QED
    BY <1>5, <2>1, <2>2
       DEF Dedupe, Recheck, Accepted, Context, Reads, TypeOK, LocType, Locals,
           outside, tables, counters
<1>6. ASSUME NEW r \in Requests, Batch(r) \/ Payout(r) PROVE TypeOK'
  <2>1. LocType'
    BY <1>0, <1>6, GotoType, ExitType DEF Batch, Payout
  <2>2. Conv(r) \in Conversions
    BY <1>6, ConvIs DEF Batch, Payout, At
  <2>3. UNCHANGED tables \/ Stage(Conv(r)) \/ BookEvent(Conv(r))
    BY <1>6 DEF Batch, Payout
  <2>4. /\ log' \subseteq Conversions /\ convlog' \subseteq Conversions
        /\ raw' \in [Conversions -> [Sources -> Nat]]
    BY <2>2, <2>3, StageType, BookEventType DEF TypeOK, tables, Stage, BookEvent
  <2> QED
    BY <1>6, <2>1, <2>3, <2>4
       DEF Batch, Payout, Stage, BookEvent, TypeOK, LocType, Locals, outside, tables, counters
<1>7. ASSUME NEW r \in Requests, Queue(r) PROVE TypeOK'
  <2>1. LocType' /\ Conv(r) \in Conversions
    BY <1>0, <1>7, ExitType, ConvIs DEF Queue, At
  <2>2. unmatched' \in [Conversions -> [Statuses -> Nat]]
    BY <1>7, <2>1 DEF Queue, TypeOK, Statuses
  <2> QED
    BY <1>7, <2>1, <2>2 DEF Queue, TypeOK, LocType, Locals, outside, counters
<1>8. ASSUME NEW r \in Requests, CapBump(r) PROVE TypeOK'
  <2>1. LocType'
    BY <1>0, <1>8, ExitType DEF CapBump
  <2> QED
    BY <1>8, <2>1 DEF CapBump, TypeOK, LocType, Locals, outside, counters
<1>9. ASSUME NEW r \in Requests, Unsynced(r) \/ InsertCh(r) \/ Stamp(r) PROVE TypeOK'
  <2>1. LocType'
    <3>1. CASE Unsynced(r)
      BY <1>0, <3>1 DEF Unsynced, LocType, Locals, Goto, Staged
    <3>2. CASE InsertCh(r)
      BY <1>0, <3>2, GotoType DEF InsertCh
    <3>3. CASE Stamp(r)
      <4>1. PICK chunk \in (SUBSET loc[r].rows) \ {{}} :
              loc' = [loc EXCEPT ![r].pc = IF chunk = loc[r].rows THEN "age" ELSE "stamp",
                                 ![r].rows = @ \ chunk]
        BY <3>3 DEF Stamp
      <4>2. (IF chunk = loc[r].rows THEN "age" ELSE "stamp") \in Points
        OBVIOUS
      <4>3. loc[r].rows \ chunk \in SUBSET Rows
        BY <1>0 DEF LocType, Locals
      <4> HIDE DEF Points
      <4> QED
        BY <1>0, <4>1, <4>2, <4>3 DEF LocType, Locals
    <3> QED
      BY <1>9, <3>1, <3>2, <3>3
  <2>2. loc[r].rows \subseteq Rows
    BY <1>0 DEF LocType, Locals
  <2>3. synced' \subseteq Rows /\ shipped' \subseteq Clicks \X Sources
    BY <1>9, <2>2, KeyType DEF Unsynced, InsertCh, Stamp, Reads, TypeOK, tables
  <2> QED
    BY <1>9, <2>1, <2>3
       DEF Unsynced, InsertCh, Stamp, Reads, TypeOK, LocType, Locals, outside, tables, counters
<1>10. ASSUME NEW r \in Requests, Age(r) \/ Pending(r) \/ Lookup(r) \/ Promote(r)
       PROVE  TypeOK'
  <2>1. LocType'
    <3>1. CASE Age(r)
      BY <1>0, <3>1, IdleType, CarryType DEF Age
    <3>2. CASE Pending(r)
      BY <1>0, <3>2, ExitType DEF Pending, LocType, Locals
    <3>3. CASE Lookup(r)
      BY <1>0, <3>3, ExitType DEF Lookup, LocType, Locals
    <3>4. CASE Promote(r)
      BY <1>0, <3>4, ExitType DEF Promote
    <3> QED
      BY <1>10, <3>1, <3>2, <3>3, <3>4
  <2>2. unmatched' \in [Conversions -> [Statuses -> Nat]]
    <3>1. unmatched \in [Conversions -> [Statuses -> Nat]]
      BY DEF TypeOK
    <3>2. \A c \in Conversions :
            /\ Queued(c) \in Nat /\ RowsOf(c) \in Nat
            /\ unmatched[c]["unattributed"] + Queued(c) \in Nat
      BY <3>1 DEF Statuses, Queued, RowsOf
    <3>3. CASE Age(r)
      <4>1. \A c \in Conversions :
              [unmatched[c] EXCEPT !["pending"] = 0, !["unattributed"] = @ + Queued(c)]
                \in [Statuses -> Nat]
        BY <3>1, <3>2 DEF Statuses
      <4> QED
        BY <3>1, <3>3, <4>1 DEF Age
    <3>4. CASE Promote(r)
      <4>1. \A c \in Conversions :
              [s \in Statuses |-> IF s = "matched" THEN RowsOf(c) ELSE 0]
                \in [Statuses -> Nat]
        BY <3>2
      <4> QED
        BY <3>1, <3>4, <4>1 DEF Promote
    <3> QED
      BY <1>10, <3>1, <3>3, <3>4 DEF Pending, Lookup, Reads, tables
  <2> QED
    BY <1>10, <2>1, <2>2
       DEF Age, Pending, Lookup, Promote, Reads, TypeOK, LocType, Locals, outside, tables, counters
<1>11. ASSUME NEW r \in Requests, Throw(r) \/ Evict(r) PROVE TypeOK'
  <2>1. LocType'
    BY <1>0, <1>11, GotoType, ExitType, IdleType, CarryType DEF Throw, Evict
  <2> QED
    BY <1>11, <2>1, ParametersAssumption
       DEF Throw, Evict, Fail, Reads, TypeOK, LocType, Locals, outside, tables, counters
<1>12. ASSUME NEW r \in Requests, LostAnswer(r) PROVE TypeOK'
  <2>1. LocType'
    BY <1>0, <1>12, GotoType, ExitType, IdleType, CarryType DEF LostAnswer
  <2>2. loc[r].rows \subseteq Rows
    BY <1>0 DEF LocType, Locals
  <2>3. At(r, "insert") \/ Conv(r) \in Conversions
    BY <1>12, ConvIs DEF LostAnswer, At
  <2>4. /\ log' \subseteq Conversions /\ convlog' \subseteq Conversions
        /\ raw' \in [Conversions -> [Sources -> Nat]]
        /\ synced' \subseteq Rows /\ shipped' \subseteq Clicks \X Sources
    BY <1>12, <2>2, <2>3, KeyType, StageType, BookEventType
       DEF LostAnswer, Stage, BookEvent, TypeOK, At
  <2> QED
    BY <1>12, <2>1, <2>4, ParametersAssumption
       DEF LostAnswer, Stage, BookEvent, Fail, TypeOK, LocType, Locals, outside
<1> QED
  BY <1>1, <1>2, <1>3, <1>4, <1>5, <1>6, <1>7, <1>8, <1>9, <1>10, <1>11, <1>12, NextCases

-----------------------------------------------------------------------------
(* What an accepted postback is worth                                      *)

(* BookedOnce is kept by whoever leaves log, rows and answers alone.       *)
LEMMA BooksSame ==
  ASSUME BookedOnce, UNCHANGED <<log, convlog, raw, answered>>
  PROVE  BookedOnce'
BY DEF BookedOnce

(* The batch writes log row and revenue row together, once.                *)
LEMMA StageBooks ==
  ASSUME TypeOK, BookedOnce, NEW c \in Conversions, c \notin log, Stage(c),
         UNCHANGED answered
  PROVE  BookedOnce'
<1>1. /\ raw' = [raw EXCEPT ![c]["s2s_postback"] = @ + 1]
      /\ log' = log \cup {c} /\ convlog' = convlog
  BY DEF Stage
<1>2. raw \in [Conversions -> [Sources -> Nat]]
  BY DEF TypeOK
<1>3. \A d \in Conversions :
        /\ raw'[d]["in_site"] = raw[d]["in_site"]
        /\ raw'[d]["s2s_postback"] =
             IF d = c THEN raw[d]["s2s_postback"] + 1 ELSE raw[d]["s2s_postback"]
  BY <1>1, <1>2 DEF Sources
<1> QED
  BY <1>1, <1>3 DEF BookedOnce

LEMMA EventBooks ==
  ASSUME TypeOK, BookedOnce, NEW c \in Conversions, BookEvent(c), UNCHANGED answered
  PROVE  BookedOnce'
<1>1. /\ raw' = [raw EXCEPT ![c]["in_site"] = IF c \in convlog THEN @ ELSE @ + 1]
      /\ convlog' = convlog \cup {c} /\ log' = log
  BY DEF BookEvent
<1>2. raw \in [Conversions -> [Sources -> Nat]]
  BY DEF TypeOK
<1>3. \A d \in Conversions :
        /\ raw'[d]["s2s_postback"] = raw[d]["s2s_postback"]
        /\ raw'[d]["in_site"] =
             IF d = c /\ c \notin convlog THEN raw[d]["in_site"] + 1 ELSE raw[d]["in_site"]
  BY <1>1, <1>2 DEF Sources
<1> QED
  BY <1>1, <1>3 DEF BookedOnce

LEMMA BooksStep == IInv /\ [Next]_vars => BookedOnce'
<1> SUFFICES ASSUME IInv, [Next]_vars PROVE BookedOnce'
  OBVIOUS
<1> USE DEF IInv, PostbackPoints
<1>1. CASE UNCHANGED vars
  BY <1>1, BooksSame DEF vars, tables
<1>2. ASSUME NEW k \in Clicks, Land(k) PROVE BookedOnce'
  BY <1>2, BooksSame DEF Land, tables
<1>3. ASSUME NEW c \in Conversions, Expire(c) PROVE BookedOnce'
  BY <1>3, BooksSame DEF Expire, tables
<1>4. ASSUME NEW r \in Requests,
             \/ Post(r) \/ Event(r) \/ Tick(r) \/ Context(r) \/ Queue(r) \/ CapBump(r)
             \/ Unsynced(r) \/ InsertCh(r) \/ Stamp(r)
             \/ Age(r) \/ Pending(r) \/ Lookup(r) \/ Promote(r)
             \/ Throw(r) \/ Evict(r)
      PROVE  BookedOnce'
  BY <1>4, BooksSame
     DEF Post, Event, Tick, Context, Queue, CapBump, Unsynced, InsertCh, Stamp, Age, Pending,
         Lookup, Promote, Throw, Evict, Reads, tables
<1>5. ASSUME NEW r \in Requests, Dedupe(r) \/ Recheck(r) \/ Accepted(r) PROVE BookedOnce'
  <2>1. Conv(r) \in Conversions /\ loc[r].conv = {Conv(r)}
    BY <1>5, ConvIs DEF Dedupe, Recheck, Accepted, At
  <2>2. answered' = answered \/ (answered' = answered \cup {Conv(r)} /\ Conv(r) \in log)
    BY <1>5, <2>1 DEF Dedupe, Recheck, Accepted, AcceptedIsLogged, At
  <2> QED
    BY <1>5, <2>2 DEF Dedupe, Recheck, Accepted, BookedOnce, tables
<1>6. ASSUME NEW r \in Requests, Batch(r) \/ Payout(r) PROVE BookedOnce'
  <2>1. Conv(r) \in Conversions
    BY <1>6, ConvIs DEF Batch, Payout, At
  <2> QED
    BY <1>6, <2>1, BooksSame, StageBooks, EventBooks DEF Batch, Payout, tables
<1>7. ASSUME NEW r \in Requests, LostAnswer(r) PROVE BookedOnce'
  <2>1. At(r, "insert") \/ Conv(r) \in Conversions
    BY <1>7, ConvIs DEF LostAnswer, At
  <2> QED
    BY <1>7, <2>1, BooksSame, StageBooks, EventBooks DEF LostAnswer, At
<1> QED
  BY <1>1, <1>2, <1>3, <1>4, <1>5, <1>6, <1>7, NextCases

-----------------------------------------------------------------------------
(* What a program point may rely on                                        *)

Holds(r) ==
  /\ loc[r].pc \in PostbackPoints \cup {"payout", "cap"} =>
       \E c \in Conversions : loc[r].conv = {c}
  /\ loc[r].pc = "accepted" => \A c \in Conversions : loc[r].conv = {c} => c \in log
  /\ loc[r].pc = "stamp" => \A row \in loc[r].rows : Key(row) \in shipped

PointsHold == \A r \in Requests : Holds(r)

LEMMA PointsAre == PointsHold <=> OneConv /\ AcceptedIsLogged /\ StampsAfterInsert
BY DEF PointsHold, Holds, OneConv, AcceptedIsLogged, StampsAfterInsert, At

(* The tables only grow in what the points rely on, so a step has to look  *)
(* only at the invocation that takes it.                                   *)
LEMMA OthersHold ==
  ASSUME PointsHold, NEW r \in Requests, Holds(r)',
         \A q \in Requests \ {r} : loc'[q] = loc[q],
         log \subseteq log', shipped \subseteq shipped'
  PROVE  PointsHold'
<1> SUFFICES ASSUME NEW q \in Requests PROVE Holds(q)'
  BY DEF PointsHold
<1>1. CASE q = r
  BY <1>1
<1>2. CASE q # r
  <2>1. Holds(q) /\ loc'[q] = loc[q]
    BY <1>2 DEF PointsHold
  <2>2. \A row : Key(row)' = Key(row)
    BY DEF Key
  <2> QED
    BY <2>1, <2>2 DEF Holds
<1> QED
  BY <1>1, <1>2

LEMMA LocalsStep == IInv /\ [Next]_vars => PointsHold'
<1> SUFFICES ASSUME IInv, [Next]_vars PROVE PointsHold'
  OBVIOUS
<1> USE DEF PostbackPoints
<1>0. PointsHold /\ loc \in [Requests -> Locals]
  BY PointsAre DEF IInv, TypeOK, Locals, Points
<1>1. ASSUME UNCHANGED <<log, shipped, loc>> PROVE PointsHold'
  BY <1>0, <1>1 DEF PointsHold, Holds, Key
<1>2. CASE UNCHANGED vars
  BY <1>1, <1>2 DEF vars, tables
<1>3. ASSUME NEW k \in Clicks, Land(k) PROVE PointsHold'
  BY <1>1, <1>3 DEF Land, tables
<1>4. ASSUME NEW c \in Conversions, Expire(c) PROVE PointsHold'
  BY <1>1, <1>4 DEF Expire, tables
<1>5. ASSUME NEW r \in Requests,
             \/ Tick(r) \/ Queue(r) \/ CapBump(r) \/ Unsynced(r) \/ Recheck(r)
             \/ Age(r) \/ Pending(r) \/ Lookup(r) \/ Promote(r) \/ Throw(r) \/ Evict(r)
             \/ Dedupe(r) \/ Accepted(r) \/ Context(r) \/ Post(r) \/ Event(r)
      PROVE  PointsHold'
  <2>1. UNCHANGED <<log, shipped>> /\ \A q \in Requests \ {r} : loc'[q] = loc[q]
    BY <1>0, <1>5
       DEF Tick, Queue, CapBump, Unsynced, Recheck, Age, Pending, Lookup, Promote, Throw,
           Evict, Dedupe, Accepted, Context, Post, Event, Goto, Exit, Reads, tables, Locals
  <2>2. Holds(r)'
    <3>1. CASE Tick(r) \/ Queue(r) \/ CapBump(r) \/ Unsynced(r) \/ Recheck(r) \/ Evict(r)
      BY <1>0, <3>1 DEF Tick, Queue, CapBump, Unsynced, Recheck, Evict, Goto, Exit, Idle,
                        Holds, Locals
    <3>2. CASE Age(r) \/ Pending(r) \/ Lookup(r) \/ Promote(r)
      BY <1>0, <3>2 DEF Age, Pending, Lookup, Promote, Goto, Exit, Idle, Holds, Locals
    <3>3. CASE Throw(r)
      BY <1>0, <3>3 DEF Throw, Goto, Exit, Idle, At, Holds, Locals, PointsHold
    <3>4. CASE Dedupe(r) \/ Accepted(r) \/ Context(r)
      <4>1. /\ loc[r] \in Locals /\ loc'[r].conv \in {loc[r].conv, {}}
            /\ loc'[r].pc \in {"idle", "batch", "context", "cap", "queue"}
            /\ loc'[r].pc # "idle" => loc'[r].conv = loc[r].conv
        BY <1>0, <3>4 DEF Dedupe, Accepted, Context, Goto, Exit, Idle, Locals
      <4>2. \E c \in Conversions : loc[r].conv = {c}
        BY <1>0, <3>4 DEF Dedupe, Accepted, Context, At, PointsHold, Holds
      <4>3. loc'[r].pc = "idle" \/ \E c \in Conversions : loc'[r].conv = {c}
        BY <4>1, <4>2
      <4>4. loc'[r].pc \notin {"payout", "accepted", "stamp"}
        BY <4>1
      <4> QED
        BY <4>3, <4>4 DEF Holds
    <3>5. CASE Post(r) \/ Event(r)
      <4>1. \E c \in Conversions, p \in {"dedupe", "payout"} :
              loc' = [loc EXCEPT ![r] = [Idle EXCEPT !.pc = p, !.conv = {c}]]
        BY <3>5 DEF Post, Event
      <4>2. /\ loc'[r].pc \in {"dedupe", "payout"}
            /\ \E c \in Conversions : loc'[r].conv = {c}
        BY <1>0, <4>1 DEF Idle
      <4> QED
        BY <4>2 DEF Holds
    <3> QED
      BY <1>5, <3>1, <3>2, <3>3, <3>4, <3>5
  <2> QED
    BY <1>0, <2>1, <2>2, OthersHold
<1>6. ASSUME NEW r \in Requests, Batch(r) \/ Payout(r) PROVE PointsHold'
  <2>1. Conv(r) \in Conversions /\ loc[r].conv = {Conv(r)}
    BY <1>6, ConvIs DEF IInv, Batch, Payout, At
  <2>2. /\ log \subseteq log' /\ shipped' = shipped
        /\ \A q \in Requests \ {r} : loc'[q] = loc[q]
    BY <1>0, <1>6 DEF Batch, Payout, Stage, BookEvent, Goto, Exit, tables, Locals
  <2>3. Holds(r)'
    BY <1>0, <1>6, <2>1
       DEF Batch, Payout, Stage, BookEvent, Goto, Exit, Idle, Holds, Locals, tables
  <2> QED
    BY <1>0, <2>2, <2>3, OthersHold
<1>7. ASSUME NEW r \in Requests, LostAnswer(r) PROVE PointsHold'
  <2>1. /\ log \subseteq log' /\ shipped \subseteq shipped'
        /\ \A q \in Requests \ {r} : loc'[q] = loc[q]
    BY <1>0, <1>7 DEF LostAnswer, Stage, BookEvent, Goto, Exit, Locals
  <2>2. Holds(r)'
    BY <1>0, <1>7 DEF LostAnswer, Goto, Exit, Idle, At, Holds, Locals, PointsHold
  <2> QED
    BY <1>0, <2>1, <2>2, OthersHold
<1>8. ASSUME NEW r \in Requests, InsertCh(r) PROVE PointsHold'
  <2>1. /\ log' = log /\ shipped' = shipped \cup {Key(row) : row \in loc[r].rows}
        /\ loc' = [loc EXCEPT ![r].pc = "stamp"]
    BY <1>8 DEF InsertCh, Goto
  <2>2. Holds(r)'
    BY <1>0, <2>1 DEF Holds, Locals, Key
  <2> QED
    BY <1>0, <2>1, <2>2, OthersHold DEF Locals
<1>9. ASSUME NEW r \in Requests, Stamp(r) PROVE PointsHold'
  <2>1. log' = log /\ shipped' = shipped
    BY <1>9 DEF Stamp
  <2>2. PICK chunk \in (SUBSET loc[r].rows) \ {{}} :
          loc' = [loc EXCEPT ![r].pc = IF chunk = loc[r].rows THEN "age" ELSE "stamp",
                             ![r].rows = @ \ chunk]
    BY <1>9 DEF Stamp
  <2>3. Holds(r)'
    BY <1>0, <1>9, <2>1, <2>2 DEF Stamp, At, Holds, PointsHold, Locals, Key
  <2> QED
    BY <1>0, <2>1, <2>2, <2>3, OthersHold DEF Locals
<1> QED
  BY <1>2, <1>3, <1>4, <1>5, <1>6, <1>7, <1>8, <1>9, NextCases

-----------------------------------------------------------------------------
(* What a stamped row is worth                                             *)

LEMMA StampedStep == IInv /\ [Next]_vars => StampedIsShipped'
<1> SUFFICES ASSUME IInv, [Next]_vars PROVE StampedIsShipped'
  OBVIOUS
<1>1. ASSUME synced' = synced, shipped \subseteq shipped' PROVE StampedIsShipped'
  BY <1>1 DEF IInv, StampedIsShipped, Key
<1>2. CASE UNCHANGED vars
  BY <1>1, <1>2 DEF vars, tables
<1>3. ASSUME NEW k \in Clicks, Land(k) PROVE StampedIsShipped'
  BY <1>1, <1>3 DEF Land, tables
<1>6. ASSUME NEW c \in Conversions, Expire(c) PROVE StampedIsShipped'
  BY <1>1, <1>6 DEF Expire, tables
<1>4. ASSUME NEW r \in Requests, Stamp(r) PROVE StampedIsShipped'
  <2>1. /\ shipped' = shipped
        /\ \E chunk \in (SUBSET loc[r].rows) \ {{}} : synced' = synced \cup chunk
    BY <1>4 DEF Stamp
  <2>2. \A row \in loc[r].rows : Key(row) \in shipped
    BY <1>4 DEF Stamp, IInv, StampsAfterInsert
  <2>3. \A row \in synced' : Key(row) \in shipped
    BY <2>1, <2>2 DEF IInv, StampedIsShipped
  <2> QED
    BY <2>1, <2>3 DEF StampedIsShipped, Key
<1>5. ASSUME NEW r \in Requests,
             \/ Post(r) \/ Event(r) \/ Tick(r)
             \/ Dedupe(r) \/ Batch(r) \/ Recheck(r) \/ Accepted(r) \/ Context(r)
             \/ Queue(r) \/ Payout(r) \/ CapBump(r) \/ Unsynced(r) \/ InsertCh(r)
             \/ Age(r) \/ Pending(r) \/ Lookup(r) \/ Promote(r)
             \/ Throw(r) \/ LostAnswer(r) \/ Evict(r)
      PROVE  StampedIsShipped'
  <2>1. synced' = synced /\ shipped \subseteq shipped'
    BY <1>5
       DEF Post, Event, Tick, Dedupe, Batch, Recheck, Accepted, Context, Queue, Payout, CapBump,
           Unsynced, InsertCh, Age, Pending, Lookup, Promote, Throw, LostAnswer, Evict,
           Stage, BookEvent, Reads, tables
  <2> QED
    BY <1>1, <2>1
<1> QED
  BY <1>2, <1>3, <1>4, <1>5, <1>6, NextCases

-----------------------------------------------------------------------------
(* The cap                                                                 *)

(* An invocation that has booked a row and not yet counted it.             *)
Owes(r) == loc[r].pc \in {"accepted", "context", "cap"}
Owed == {r \in Requests : Owes(r)}

(* CapNeverAhead alone is not inductive: what is about to be counted must  *)
(* have a row of its own, besides the rows that were counted.              *)
CapInv == cap + Cardinality(Owed) <= Cardinality(Staged)

LEMMA RowsFinite == IsFiniteSet(Rows)
<1>1. IsFiniteSet({"s2s_postback"})
  BY FS_Singleton
<1>2. IsFiniteSet({"s2s_postback"} \cup {"in_site"})
  BY <1>1, FS_AddElement
<1>3. Sources = {"s2s_postback"} \cup {"in_site"}
  BY DEF Sources
<1> QED
  BY <1>2, <1>3, ParametersAssumption, FS_Product DEF Rows

LEMMA Finiteness == IsFiniteSet(Owed) /\ IsFiniteSet(Staged)
BY RowsFinite, ParametersAssumption, FS_Subset DEF Owed, Staged

(* Who books nothing may only forget to count.                             *)
LEMMA CapForgets ==
  ASSUME TypeOK, CapInv, cap' = cap, Owed' \subseteq Owed, Staged \subseteq Staged',
         IsFiniteSet(Staged')
  PROVE  CapInv'
<1>1. /\ Cardinality(Owed) \in Nat /\ Cardinality(Owed') \in Nat
      /\ Cardinality(Staged) \in Nat /\ Cardinality(Staged') \in Nat
  BY Finiteness, FS_CardinalityType, FS_Subset
<1>2. /\ Cardinality(Owed') <= Cardinality(Owed)
      /\ Cardinality(Staged) <= Cardinality(Staged')
  BY Finiteness, FS_Subset
<1> QED
  BY <1>1, <1>2 DEF CapInv, TypeOK

(* One row more pays for one invocation more.                              *)
LEMMA CapEarns ==
  ASSUME TypeOK, CapInv, cap' = cap, NEW r \in Requests, NEW row,
         Owed' \subseteq Owed \cup {r}, Staged \cup {row} \subseteq Staged',
         row \notin Staged, IsFiniteSet(Staged')
  PROVE  CapInv'
<1>1. /\ IsFiniteSet(Owed \cup {r}) /\ IsFiniteSet(Staged \cup {row})
      /\ Cardinality(Owed \cup {r}) <= Cardinality(Owed) + 1
      /\ Cardinality(Staged \cup {row}) = Cardinality(Staged) + 1
  <2>1. Cardinality(Owed) \in Nat
    BY Finiteness, FS_CardinalityType
  <2>2. /\ IsFiniteSet(Owed \cup {r})
        /\ Cardinality(Owed \cup {r}) =
             IF r \in Owed THEN Cardinality(Owed) ELSE Cardinality(Owed) + 1
    BY Finiteness, FS_AddElement
  <2>3. /\ IsFiniteSet(Staged \cup {row})
        /\ Cardinality(Staged \cup {row}) =
             IF row \in Staged THEN Cardinality(Staged) ELSE Cardinality(Staged) + 1
    BY Finiteness, FS_AddElement
  <2> QED
    BY <2>1, <2>2, <2>3
<1>2. /\ Cardinality(Owed') <= Cardinality(Owed \cup {r})
      /\ Cardinality(Staged \cup {row}) <= Cardinality(Staged')
      /\ IsFiniteSet(Owed')
  BY <1>1, FS_Subset
<1>3. /\ Cardinality(Owed) \in Nat /\ Cardinality(Owed') \in Nat
      /\ Cardinality(Owed \cup {r}) \in Nat
      /\ Cardinality(Staged) \in Nat /\ Cardinality(Staged') \in Nat
  BY <1>1, <1>2, Finiteness, FS_CardinalityType
<1> QED
  BY <1>1, <1>2, <1>3 DEF CapInv, TypeOK

(* Who counts owes nothing any more.                                       *)
LEMMA CapCounts ==
  ASSUME TypeOK, CapInv, cap' = cap + 1, NEW r \in Owed, Owed' = Owed \ {r},
         Staged' = Staged
  PROVE  CapInv'
<1>1. Cardinality(Owed') = Cardinality(Owed) - 1
  BY Finiteness, FS_RemoveElement
<1>2. Cardinality(Owed) \in Nat /\ Cardinality(Staged) \in Nat
  BY Finiteness, FS_CardinalityType
<1> QED
  BY <1>1, <1>2 DEF CapInv, TypeOK

(* A row that is booked for the first time is a row more.                  *)
LEMMA NewRow ==
  ASSUME TypeOK, BookedOnce, NEW c \in Conversions,
         \/ Stage(c) /\ c \notin log
         \/ BookEvent(c) /\ c \notin convlog
  PROVE  \E row \in Rows \ Staged : Staged' = Staged \cup {row}
<1>1. raw \in [Conversions -> [Sources -> Nat]]
  BY DEF TypeOK
<1>2. PICK s \in Sources : raw[c][s] = 0 /\ raw' = [raw EXCEPT ![c][s] = @ + 1]
  BY <1>1 DEF BookedOnce, Stage, BookEvent, Sources
<1>3. <<c, s>> \in Rows /\ <<c, s>> \notin Staged
  BY <1>2 DEF Rows, Staged
<1>4. raw'[c][s] = 1
  BY <1>1, <1>2
<1>5. ASSUME NEW row \in Staged PROVE row \in Staged'
  <2>1. row \in Rows /\ row[1] \in Conversions /\ row[2] \in Sources
    BY DEF Staged, Rows
  <2>2. raw'[row[1]][row[2]] >= raw[row[1]][row[2]]
    BY <1>1, <1>2, <2>1
  <2>3. raw[row[1]][row[2]] > 0 /\ raw[row[1]][row[2]] \in Nat
        /\ raw'[row[1]][row[2]] \in Int
    BY <1>1, <1>2, <2>1 DEF Staged
  <2> QED
    BY <2>1, <2>2, <2>3 DEF Staged
<1>6. <<c, s>> \in Staged'
  BY <1>3, <1>4 DEF Staged
<1>7. ASSUME NEW row \in Staged', row # <<c, s>> PROVE row \in Staged
  <2>1. row \in Rows /\ row[1] \in Conversions /\ row[2] \in Sources /\ row = <<row[1], row[2]>>
    BY DEF Staged, Rows
  <2>2. row[1] # c \/ row[2] # s
    BY <1>7, <2>1
  <2>3. raw'[row[1]][row[2]] = raw[row[1]][row[2]]
    BY <1>1, <1>2, <2>1, <2>2
  <2> QED
    BY <2>1, <2>3 DEF Staged
<1> QED
  BY <1>3, <1>5, <1>6, <1>7

(* No booking takes a row away.                                            *)
LEMMA RowsStay ==
  ASSUME TypeOK, NEW c \in Conversions, Stage(c) \/ BookEvent(c)
  PROVE  Staged \subseteq Staged'
<1>1. raw \in [Conversions -> [Sources -> Nat]]
  BY DEF TypeOK
<1>2. ASSUME NEW d \in Conversions, NEW s \in Sources
      PROVE  raw'[d][s] \in {raw[d][s], raw[d][s] + 1} /\ raw[d][s] \in Nat
  BY <1>1 DEF Stage, BookEvent, Sources
<1> QED
  BY <1>2 DEF Staged, Rows

LEMMA CapStep == IInv /\ CapInv /\ [Next]_vars => CapInv'
<1> SUFFICES ASSUME IInv, CapInv, [Next]_vars PROVE CapInv'
  OBVIOUS
<1> USE DEF PostbackPoints
<1>0. /\ TypeOK /\ OneConv /\ BookedOnce /\ loc \in [Requests -> Locals]
      /\ IsFiniteSet(Staged) /\ IsFiniteSet(Staged')
  BY RowsFinite, FS_Subset DEF IInv, TypeOK, Locals, Points, Staged
<1>1. ASSUME UNCHANGED <<cap, raw>>, Owed' \subseteq Owed PROVE CapInv'
  BY <1>0, <1>1, CapForgets DEF Staged
<1>2. CASE UNCHANGED vars
  BY <1>1, <1>2 DEF vars, tables, Owed, Owes
<1>3. ASSUME NEW k \in Clicks, Land(k) PROVE CapInv'
  BY <1>1, <1>3 DEF Land, tables, Owed, Owes
<1>4. ASSUME NEW c \in Conversions, Expire(c) PROVE CapInv'
  BY <1>1, <1>4 DEF Expire, tables, Owed, Owes
<1>5. ASSUME NEW r \in Requests, \A q \in Requests \ {r} : loc'[q] = loc[q],
             UNCHANGED <<cap, raw>>, loc'[r].pc \in {"accepted", "context", "cap"} => Owes(r)
      PROVE  CapInv'
  BY <1>1, <1>5 DEF Owed, Owes
<1>6. ASSUME NEW r \in Requests,
             \/ Post(r) \/ Event(r) \/ Tick(r)
             \/ Dedupe(r) \/ Recheck(r) \/ Accepted(r) \/ Context(r) \/ Queue(r)
             \/ Unsynced(r) \/ InsertCh(r) \/ Stamp(r)
             \/ Age(r) \/ Pending(r) \/ Lookup(r) \/ Promote(r)
             \/ Throw(r) \/ Evict(r)
      PROVE  CapInv'
  <2>1. \A q \in Requests \ {r} : loc'[q] = loc[q]
    BY <1>0, <1>6
       DEF Post, Event, Tick, Dedupe, Recheck, Accepted, Context, Queue, Unsynced, InsertCh,
           Stamp, Age, Pending, Lookup, Promote, Throw, Evict, Goto, Exit
  <2>2. UNCHANGED <<cap, raw>>
    BY <1>6
       DEF Post, Event, Tick, Dedupe, Recheck, Accepted, Context, Queue, Unsynced, InsertCh,
           Stamp, Age, Pending, Lookup, Promote, Throw, Evict, Reads, tables
  <2>3. loc'[r].pc \in {"accepted", "context", "cap"} => Owes(r)
    <3>1. CASE Accepted(r) \/ Context(r)
      BY <1>0, <3>1 DEF Accepted, Context, At, Owes
    <3>2. CASE Tick(r) \/ Dedupe(r) \/ Recheck(r) \/ Queue(r)
      <4>1. loc' \in {[loc EXCEPT ![r].pc = "unsynced"], [loc EXCEPT ![r].pc = "batch"],
                       [loc EXCEPT ![r] = Idle]}
        BY <3>2 DEF Tick, Dedupe, Recheck, Queue, Goto, Exit
      <4>2. loc'[r].pc \in {"unsynced", "batch", "idle"}
        BY <1>0, <4>1 DEF Idle, Locals
      <4> QED
        BY <4>2
    <3>5. CASE Post(r) \/ Event(r)
      <4>1. \E c \in Conversions, p \in {"dedupe", "payout"} :
              loc' = [loc EXCEPT ![r] = [Idle EXCEPT !.pc = p, !.conv = {c}]]
        BY <3>5 DEF Post, Event
      <4> QED
        BY <1>0, <4>1 DEF Idle
    <3>3. CASE Unsynced(r) \/ InsertCh(r) \/ Age(r) \/ Pending(r) \/ Lookup(r) \/ Promote(r)
      <4>1. CASE Unsynced(r)
        BY <1>0, <4>1 DEF Unsynced, Goto, Locals
      <4>2. CASE InsertCh(r) \/ Age(r)
        <5>1. loc' \in {[loc EXCEPT ![r].pc = "stamp"],
                         [loc EXCEPT ![r] = [Idle EXCEPT !.pc = "pending"]]}
          BY <4>2 DEF InsertCh, Age, Goto
        <5>2. loc'[r].pc \in {"stamp", "pending"}
          BY <1>0, <5>1 DEF Idle, Locals
        <5> QED
          BY <5>2
      <4>3. CASE Pending(r) \/ Lookup(r) \/ Promote(r)
        BY <1>0, <4>3 DEF Pending, Lookup, Promote, Exit, Idle, Locals
      <4> QED
        BY <3>3, <4>1, <4>2, <4>3
    <3>6. CASE Stamp(r)
      BY <1>0, <3>6 DEF Stamp, Locals
    <3>4. CASE Throw(r) \/ Evict(r)
      BY <1>0, <3>4 DEF Throw, Evict, Goto, Exit, Idle, Locals
    <3> QED
      BY <1>6, <3>1, <3>2, <3>3, <3>4, <3>5, <3>6
  <2> QED
    BY <1>5, <2>1, <2>2, <2>3
<1>7. ASSUME NEW r \in Requests, CapBump(r) PROVE CapInv'
  <2>1. /\ r \in Owed /\ cap' = cap + 1 /\ raw' = raw
        /\ loc' = [loc EXCEPT ![r] = Idle]
    BY <1>7 DEF CapBump, At, Owed, Owes, Exit
  <2>2. Owed' = Owed \ {r}
    BY <1>0, <2>1 DEF Owed, Owes, Idle
  <2> QED
    BY <1>0, <2>1, <2>2, CapCounts DEF Staged
<1>8. ASSUME NEW r \in Requests, Batch(r) \/ Payout(r) \/ LostAnswer(r) PROVE CapInv'
  <2>1. /\ \A q \in Requests \ {r} : loc'[q] = loc[q]
        /\ cap' = cap
    BY <1>0, <1>8 DEF Batch, Payout, LostAnswer, Stage, BookEvent, Goto, Exit, tables
  <2>2. Owed' \subseteq Owed \cup {r}
    BY <2>1 DEF Owed, Owes
  <2>3. CASE UNCHANGED raw
    <3>1. loc'[r].pc \notin {"accepted", "context", "cap"} \/ Stage(Conv(r)) \/
          (BookEvent(Conv(r)) /\ Conv(r) \notin convlog)
      BY <1>0, <1>8 DEF Batch, Payout, LostAnswer, Goto, Exit, Idle, Locals
    <3>2. At(r, "insert") \/ Conv(r) \in Conversions
      BY <1>0, <1>8, ConvIs DEF Batch, Payout, LostAnswer, At
    <3>3. loc'[r].pc \notin {"accepted", "context", "cap"}
      <4>1. raw \in [Conversions -> [Sources -> Nat]]
        BY <1>0 DEF TypeOK
      <4> QED
        BY <1>0, <1>8, <2>3, <3>1, <3>2, <4>1
           DEF Stage, BookEvent, Sources, At, Batch, Payout, LostAnswer, Goto, Exit, Idle, Locals
    <3> QED
      BY <1>5, <2>1, <2>3, <3>3
  <2>4. CASE At(r, "insert")
    <3>1. raw' = raw
      BY <1>8, <2>4 DEF Batch, Payout, LostAnswer, At
    <3> QED
      BY <2>3, <3>1
  <2>5. CASE ~ At(r, "insert")
    <3>1. Conv(r) \in Conversions
      BY <1>0, <1>8, <2>5, ConvIs DEF Batch, Payout, LostAnswer, At
    <3>2. \/ UNCHANGED raw
          \/ Stage(Conv(r)) /\ Conv(r) \notin log
          \/ BookEvent(Conv(r)) /\ Conv(r) \notin convlog
          \/ BookEvent(Conv(r)) /\ loc'[r].pc \notin {"accepted", "context", "cap"}
      BY <1>0, <1>8, <2>5
         DEF Batch, Payout, LostAnswer, tables, Goto, Exit, Idle, Locals
    <3>3. CASE (Stage(Conv(r)) /\ Conv(r) \notin log)
               \/ (BookEvent(Conv(r)) /\ Conv(r) \notin convlog)
      <4>1. PICK row \in Rows \ Staged : Staged' = Staged \cup {row}
        BY <1>0, <3>1, <3>3, NewRow
      <4> QED
        BY <1>0, <2>1, <2>2, <4>1, CapEarns
    <3>4. CASE BookEvent(Conv(r)) /\ loc'[r].pc \notin {"accepted", "context", "cap"}
      <4>1. Staged \subseteq Staged'
        BY <1>0, <3>1, <3>4, RowsStay
      <4>2. Owed' \subseteq Owed
        BY <2>1, <3>4 DEF Owed, Owes
      <4> QED
        BY <1>0, <2>1, <4>1, <4>2, CapForgets
    <3> QED
      BY <2>3, <3>2, <3>3, <3>4
  <2> QED
    BY <2>4, <2>5
<1> QED
  BY <1>2, <1>3, <1>4, <1>6, <1>7, <1>8, NextCases

LEMMA CapInit == Init => CapInv
<1> SUFFICES ASSUME Init PROVE CapInv
  OBVIOUS
<1>1. Owed = {} /\ cap = 0
  BY DEF Init, Owed, Owes, Idle
<1>2. Cardinality(Staged) \in Nat
  BY Finiteness, FS_CardinalityType
<1> QED
  BY <1>1, <1>2, FS_EmptySet DEF CapInv

-----------------------------------------------------------------------------
(* The refinement of RevenueLedger                                         *)

LEMMA SameCardinality == ASSUME NEW S PROVE Account!Cardinality(S) = Cardinality(S)
BY DEF Account!Cardinality, Cardinality

LEMMA AccountInit == Init => Account!Init
<1> SUFFICES ASSUME Init PROVE Account!Init
  OBVIOUS
<1>1. Staged = {}
  BY DEF Init, Staged, Rows
<1> QED
  BY <1>1 DEF Init, Account!Init

(* A batch, a payout and either with its answer lost book one row or none. *)
LEMMA BookingStep ==
  ASSUME IInv, NEW r \in Requests, Batch(r) \/ Payout(r) \/ LostAnswer(r)
  PROVE  /\ cap' = cap
         /\ Staged' = Staged \/ \E row \in Rows \ Staged : Staged' = Staged \cup {row}
<1>0. TypeOK /\ OneConv /\ BookedOnce
  BY DEF IInv
<1>1. cap' = cap
  BY DEF Batch, Payout, LostAnswer, Stage, BookEvent, tables
<1>2. CASE UNCHANGED raw
  BY <1>1, <1>2 DEF Staged
<1>3. CASE At(r, "insert")
  BY <1>2, <1>3 DEF Batch, Payout, LostAnswer, At
<1>4. CASE ~ At(r, "insert")
  <2>1. Conv(r) \in Conversions
    BY <1>0, <1>4, ConvIs DEF Batch, Payout, LostAnswer, At, PostbackPoints
  <2>2. \/ UNCHANGED raw
        \/ Stage(Conv(r)) /\ Conv(r) \notin log
        \/ BookEvent(Conv(r))
    BY <1>4 DEF Batch, Payout, LostAnswer, tables
  <2>3. CASE BookEvent(Conv(r)) /\ Conv(r) \in convlog
    <3>1. raw' = [raw EXCEPT ![Conv(r)]["in_site"] = raw[Conv(r)]["in_site"]]
      BY <2>3 DEF BookEvent
    <3>2. raw' = raw
      BY <1>0, <2>1, <3>1 DEF TypeOK, Sources
    <3> QED
      BY <1>2, <3>2
  <2> QED
    BY <1>0, <1>1, <1>2, <2>1, <2>2, <2>3, NewRow
<1> QED
  BY <1>1, <1>3, <1>4

(* bumpCapConversions counts a row that was booked and not yet counted.    *)
LEMMA CountingStep ==
  ASSUME IInv, CapInv, NEW r \in Requests, CapBump(r)
  PROVE  Account!Count
<1>1. r \in Owed /\ cap' = cap + 1 /\ Staged' = Staged
  BY DEF CapBump, At, Owed, Owes, Staged
<1>2. Cardinality(Owed) \in Nat /\ Cardinality(Owed) # 0 /\ Cardinality(Staged) \in Nat
  BY <1>1, Finiteness, FS_CardinalityType, FS_EmptySet
<1>3. cap < Cardinality(Staged)
  <2>1. cap \in Nat /\ cap + Cardinality(Owed) <= Cardinality(Staged)
    BY DEF CapInv, IInv, TypeOK
  <2> QED
    BY <1>2, <2>1
<1>4. Staged \cap Rows = Staged
  BY DEF Staged
<1> QED
  BY <1>1, <1>3, <1>4, SameCardinality DEF Account!Count

LEMMA AccountStep == IInv /\ CapInv /\ [Next]_vars => [Account!Next]_(Account!vars)
<1> SUFFICES ASSUME IInv, CapInv, [Next]_vars PROVE [Account!Next]_(Account!vars)
  OBVIOUS
<1>1. ASSUME UNCHANGED <<cap, raw>> PROVE [Account!Next]_(Account!vars)
  BY <1>1 DEF Account!vars, Staged
<1>2. CASE UNCHANGED vars
  BY <1>1, <1>2 DEF vars, tables
<1>3. ASSUME NEW k \in Clicks, Land(k) PROVE [Account!Next]_(Account!vars)
  BY <1>1, <1>3 DEF Land, tables
<1>4. ASSUME NEW c \in Conversions, Expire(c) PROVE [Account!Next]_(Account!vars)
  BY <1>1, <1>4 DEF Expire, tables
<1>5. ASSUME NEW r \in Requests,
             \/ Post(r) \/ Event(r) \/ Tick(r)
             \/ Dedupe(r) \/ Recheck(r) \/ Accepted(r) \/ Context(r) \/ Queue(r)
             \/ Unsynced(r) \/ InsertCh(r) \/ Stamp(r)
             \/ Age(r) \/ Pending(r) \/ Lookup(r) \/ Promote(r)
             \/ Throw(r) \/ Evict(r)
      PROVE  [Account!Next]_(Account!vars)
  BY <1>1, <1>5
     DEF Post, Event, Tick, Dedupe, Recheck, Accepted, Context, Queue, Unsynced, InsertCh,
         Stamp, Age, Pending, Lookup, Promote, Throw, Evict, Reads, tables
<1>6. ASSUME NEW r \in Requests, CapBump(r) PROVE [Account!Next]_(Account!vars)
  BY <1>6, CountingStep DEF Account!Next
<1>7. ASSUME NEW r \in Requests, Batch(r) \/ Payout(r) \/ LostAnswer(r)
      PROVE  [Account!Next]_(Account!vars)
  <2>1. CASE Staged' = Staged
    BY <1>7, <2>1, BookingStep DEF Account!vars
  <2>2. CASE \E row \in Rows \ Staged : Staged' = Staged \cup {row}
    BY <1>7, <2>2, BookingStep DEF Account!Next, Account!Book
  <2> QED
    BY <1>7, <2>1, <2>2, BookingStep
<1> QED
  BY <1>2, <1>3, <1>4, <1>5, <1>6, <1>7, NextCases

-----------------------------------------------------------------------------
(* Theorems                                                                *)

LEMMA Invariant == Spec => []IInv
<1>1. PointsHold' => (OneConv /\ AcceptedIsLogged /\ StampsAfterInsert)'
  BY DEF PointsHold, Holds, OneConv, AcceptedIsLogged, StampsAfterInsert, At
<1>2. IInv /\ [Next]_vars => IInv'
  BY <1>1, TypeStep, BooksStep, LocalsStep, StampedStep DEF IInv
<1> QED
  BY <1>2, InitOK, PTL DEF Spec

(* TypeOK: every reachable state is well typed.                            *)
THEOREM TypeCorrect == Spec => []TypeOK
<1>1. IInv => TypeOK
  BY DEF IInv
<1> QED
  BY <1>1, Invariant, PTL

(* BookedOnce: whatever overlaps, throws or is lost, an accepted postback  *)
(* has exactly one revenue row, and a booking key is paid once.            *)
THEOREM AcceptedIsBookedOnce == Spec => []BookedOnce
<1>1. IInv => BookedOnce
  BY DEF IInv
<1> QED
  BY <1>1, Invariant, PTL

(* StampedIsShipped: no row is taken off the shipper's list before         *)
(* ClickHouse has its key, for any number of overlapping crons.            *)
THEOREM StampsAreTrue == Spec => []StampedIsShipped
<1>1. IInv => StampedIsShipped
  BY DEF IInv
<1> QED
  BY <1>1, Invariant, PTL

(* CapNeverAhead: the conversion cap never counts a booking that is not    *)
(* there, or one booking twice, for any overlap, replay or loss.           *)
THEOREM CapIsEarned == Spec => []CapNeverAhead
<1>1. IInv /\ CapInv => CapNeverAhead
  <2> SUFFICES ASSUME IInv, CapInv PROVE CapNeverAhead
    OBVIOUS
  <2>1. Cardinality(Owed) \in Nat /\ Cardinality(Staged) \in Nat /\ cap \in Nat
    BY Finiteness, FS_CardinalityType DEF IInv, TypeOK
  <2> QED
    BY <2>1 DEF CapInv, CapNeverAhead
<1> QED
  BY <1>1, CapInit, CapStep, Invariant, PTL DEF Spec

(* LedgerSpec: the intake, its overlapping requests, lost answers, replays *)
(* and crons included, implements RevenueLedger: rows of money are booked  *)
(* once and for good, and each counts at most once for the cap             *)
(* (POST /api/pb/:provider, recordInSitePayout, bumpCapConversions).       *)
THEOREM IntakeImplementsLedger == Spec => LedgerSpec
<1>1. Spec => [](IInv /\ CapInv)
  BY CapInit, CapStep, Invariant, PTL DEF Spec
<1> QED
  BY <1>1, AccountInit, AccountStep, PTL DEF Spec, LedgerSpec, Account!Spec
=============================================================================
