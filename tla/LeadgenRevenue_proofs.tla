----------------------- MODULE LeadgenRevenue_proofs -----------------------
(***************************************************************************)
(* Proofs about LeadgenRevenue, for any number of conversions and          *)
(* invocations and any bounds: types, that money is staged once although   *)
(* the dedup row is taken back by a failed booking, that no notification   *)
(* goes out without a row, that the cap is earned, and that the intake     *)
(* implements RevenueLedger.                                               *)
(***************************************************************************)
EXTENDS LeadgenRevenue, FiniteSetTheorems, TLAPS

-----------------------------------------------------------------------------
(* The inductive invariant                                                 *)

Points == {"idle"} \cup PostbackPoints \cup PixelPoints \cup NotifyPoints \cup SweepPoints
Kinds == {"none", "postback", "pixel", "sweep"}
Locals == [pc : Points, kind : Kinds, conv : SUBSET Conversions, named : BOOLEAN]

(* What an invocation is about, and who may be where: a pixel runs only    *)
(* under its own tracking method, and a postback without an offer id is    *)
(* remembered.                                                             *)
Sane(r) ==
  /\ loc[r].pc \in PostbackPoints \cup PixelPoints \cup NotifyPoints =>
       \E c \in Conversions : loc[r].conv = {c}
  /\ loc[r].pc \in PostbackPoints => loc[r].kind = "postback"
  /\ loc[r].pc \in PixelPoints => loc[r].kind = "pixel"
  /\ loc[r].pc \in NotifyPoints => loc[r].kind \in {"postback", "pixel"}
  /\ loc[r].pc \in SweepPoints => loc[r].kind = "sweep"
  /\ loc[r].kind = "pixel" => tracking = "browser_side_pixel"
  /\ loc[r].kind = "postback" /\ ~ loc[r].named => loc[r].conv \subseteq unnamed

AllSane == \A r \in Requests : Sane(r)

(* The roles a request can have for a conversion: to hold its dedup row    *)
(* (Holds), to tell of its postback, to tell of its pixel.                 *)
Tells(r, c) == loc[r].pc \in NotifyPoints /\ loc[r].kind = "postback" /\ loc[r].conv = {c}
Pays(r, c) ==
  loc[r].pc \in {"cap", "context"} \cup NotifyPoints /\ loc[r].kind = "pixel"
    /\ loc[r].conv = {c}

(* What a role may rely on ...                                             *)
Role(r, c) ==
  /\ Holds(r, c) => /\ c \in log /\ Staged(c) = 0
                    /\ tracking = "browser_side_pixel" => c \in unnamed
  /\ Tells(r, c) => raw[c]["s2s_postback"] = 1
  /\ Pays(r, c) => c \in convlog

Roles == \A r \in Requests, c \in Conversions : Role(r, c)

(* ... and that nobody else has it.                                        *)
Alone ==
  \A r, q \in Requests, c \in Conversions :
    \/ Holds(r, c) /\ Holds(q, c)
    \/ Tells(r, c) /\ Tells(q, c)
    \/ Pays(r, c) /\ Pays(q, c)
    => r = q

(* What the tables owe each other.                                         *)
Ledger ==
  \A c \in Conversions :
    /\ Staged(c) \in {0, 1}
    /\ c \notin log => Staged(c) = 0
    /\ Staged(c) = 1 /\ tracking = "browser_side_pixel" => c \in unnamed
    /\ raw[c]["in_site"] = IF c \in convlog THEN 1 ELSE 0
    /\ c \in convlog => tracking = "browser_side_pixel"

(* A row pays for the notification sent and for the one about to be.       *)
Due(c) ==
  (IF \E r \in Requests : Tells(r, c) THEN 1 ELSE 0)
    + (IF \E r \in Requests : Pays(r, c) THEN 1 ELSE 0)

Told ==
  \A c \in Conversions :
    fired[c] + Due(c) <= raw[c]["s2s_postback"] + raw[c]["in_site"]

Books == Roles /\ Alone /\ Ledger /\ Told

IInv == TypeOK /\ AllSane /\ Books

-----------------------------------------------------------------------------
(* The step relation and its helpers                                       *)

LEMMA NextCases ==
  ASSUME Next
  PROVE  \/ \E r \in Requests :
              \/ Post(r) \/ Pixel(r) \/ Sweep(r)
              \/ RecordLog(r) \/ Match(r) \/ Book(r) \/ Queue(r) \/ Undo(r) \/ Answer(r)
              \/ Payout(r) \/ CapBump(r) \/ Context(r)
              \/ Seen(r) \/ Mark(r) \/ Fire(r)
              \/ Age(r) \/ Select(r) \/ Lookup(r) \/ Promote(r)
              \/ Throw(r) \/ PixelThrow(r) \/ KvThrow(r) \/ Evict(r)
         \/ \E c \in Conversions : Land(c) \/ Expire(c)
BY DEF Next, Proceed

(* Conv names the conversion the invocation is about.                      *)
LEMMA ConvIs ==
  ASSUME AllSane, NEW r \in Requests,
         loc[r].pc \in PostbackPoints \cup PixelPoints \cup NotifyPoints
  PROVE  Conv(r) \in Conversions /\ loc[r].conv = {Conv(r)}
BY DEF AllSane, Sane, Conv

LEMMA InitOK == Init => IInv
<1> SUFFICES ASSUME Init PROVE IInv
  OBVIOUS
<1>1. TypeOK
  BY ParametersAssumption
     DEF Init, TypeOK, Idle, PostbackPoints, PixelPoints, NotifyPoints, SweepPoints,
         Sources, Statuses
<1>2. AllSane /\ Roles /\ Alone
  BY DEF Init, AllSane, Sane, Roles, Role, Alone, Holds, Tells, Pays, Idle, PostbackPoints,
         PixelPoints, NotifyPoints, SweepPoints
<1>3. Ledger
  BY DEF Init, Ledger, Staged, RowsOf, Queued, Sources, Statuses
<1>4. Told
  <2>1. \A r \in Requests, c \in Conversions : ~ Tells(r, c) /\ ~ Pays(r, c)
    BY DEF Init, Tells, Pays, Idle, NotifyPoints
  <2> QED
    BY <2>1 DEF Init, Told, Due, Sources
<1> QED
  BY <1>1, <1>2, <1>3, <1>4 DEF IInv, Books

-----------------------------------------------------------------------------
(* Types                                                                   *)

LocType == loc \in [Requests -> Locals]

LEMMA GotoType ==
  ASSUME LocType, NEW r \in Requests, NEW p \in Points, Goto(r, p)
  PROVE  LocType'
BY DEF LocType, Locals, Goto

LEMMA ExitType ==
  ASSUME LocType, NEW r \in Requests, Exit(r)
  PROVE  LocType'
BY DEF LocType, Locals, Exit, Idle, Points, Kinds

LEMMA FinishType ==
  ASSUME LocType, NEW r \in Requests, Finish(r)
  PROVE  LocType'
BY GotoType, ExitType DEF Finish, Points, PostbackPoints

(* Rows are numbers, and their sums too.                                   *)
LEMMA Sums ==
  ASSUME TypeOK, NEW c \in Conversions
  PROVE  /\ raw[c]["s2s_postback"] \in Nat /\ raw[c]["in_site"] \in Nat
         /\ Queued(c) \in Nat /\ RowsOf(c) \in Nat /\ Staged(c) \in Nat
         /\ fired[c] \in Nat
         /\ Staged(c) = raw[c]["s2s_postback"] + RowsOf(c)
<1>1. /\ raw[c]["s2s_postback"] \in Nat /\ raw[c]["in_site"] \in Nat
      /\ fired[c] \in Nat
      /\ \A s \in Statuses : unmatched[c][s] \in Nat
  BY DEF TypeOK, Sources
<1> QED
  BY <1>1 DEF Queued, RowsOf, Staged, Statuses

(* Every step keeps the types.                                             *)
LEMMA TypeStep == TypeOK /\ AllSane /\ [Next]_vars => TypeOK'
<1> SUFFICES ASSUME TypeOK, AllSane, [Next]_vars PROVE TypeOK'
  OBVIOUS
<1> USE DEF Points, PostbackPoints, PixelPoints, NotifyPoints, SweepPoints
<1>0. LocType
  BY DEF TypeOK, LocType, Locals, Kinds
<1>a. ASSUME LocType',
             UNCHANGED <<tracking, landed, old, tables, seen, histories, counters>>
      PROVE  TypeOK'
  BY <1>a DEF TypeOK, LocType, Locals, Kinds, tables, histories, counters
<1>1. CASE UNCHANGED vars
  BY <1>1 DEF vars, TypeOK, tables, histories, counters
<1>2. ASSUME NEW c \in Conversions, Land(c) \/ Expire(c) PROVE TypeOK'
  BY <1>2 DEF Land, Expire, TypeOK, tables, histories, counters
<1>3. ASSUME NEW r \in Requests, Post(r) \/ Pixel(r) PROVE TypeOK'
  <2>1. PICK c \in Conversions, b \in BOOLEAN, k \in {"postback", "pixel"},
             p \in {"log", "payout"} :
          loc' = [loc EXCEPT ![r] = [pc |-> p, kind |-> k, conv |-> {c}, named |-> b]]
    BY <1>3 DEF Post, Pixel
  <2>2. LocType'
    BY <1>0, <2>1 DEF LocType, Locals, Kinds
  <2>3. posts' \in 0 .. MaxPosts /\ pixels' \in 0 .. MaxPixels
    <3>1. /\ MaxPosts \in Nat /\ MaxPixels \in Nat
          /\ posts \in 0 .. MaxPosts /\ pixels \in 0 .. MaxPixels
      BY ParametersAssumption DEF TypeOK
    <3>2. \/ posts < MaxPosts /\ posts' = posts + 1 /\ pixels' = pixels
          \/ pixels < MaxPixels /\ pixels' = pixels + 1 /\ posts' = posts
      BY <1>3 DEF Post, Pixel
    <3> QED
      BY <3>1, <3>2
  <2>4. unnamed' \subseteq Conversions
    BY <1>3 DEF Post, Pixel, TypeOK, histories
  <2> QED
    BY <1>3, <2>2, <2>3, <2>4
       DEF Post, Pixel, TypeOK, LocType, Locals, Kinds, tables, histories
<1>4. ASSUME NEW r \in Requests,
             Sweep(r) \/ Match(r) \/ Context(r) \/ Seen(r) \/ Select(r) \/ Lookup(r)
      PROVE  TypeOK'
  <2>1. LocType'
    <3>1. CASE Sweep(r)
      BY <1>0, <3>1 DEF Sweep, LocType, Locals, Kinds
    <3>2. CASE Match(r) \/ Context(r) \/ Seen(r)
      BY <1>0, <3>2, GotoType, ExitType, FinishType DEF Match, Context, Seen
    <3>3. CASE Select(r)
      BY <1>0, <3>3, ExitType DEF Select, LocType, Locals
    <3>4. CASE Lookup(r)
      BY <1>0, <3>4, ExitType DEF Lookup, LocType, Locals
    <3> QED
      BY <1>4, <3>1, <3>2, <3>3, <3>4
  <2> QED
    BY <1>a, <1>4, <2>1 DEF Sweep, Match, Context, Seen, Select, Lookup
<1>5. ASSUME NEW r \in Requests, RecordLog(r) \/ Undo(r) \/ Answer(r) PROVE TypeOK'
  <2>1. LocType'
    <3>1. (IF Conv(r) \notin log /\ Bookable(r) THEN "match" ELSE "answer") \in Points
      OBVIOUS
    <3> QED
      BY <1>0, <1>5, <3>1, GotoType, ExitType DEF RecordLog, Undo, Answer
  <2>2. Conv(r) \in Conversions
    BY <1>5, ConvIs DEF RecordLog, Undo, Answer, At
  <2> QED
    BY <1>5, <2>1, <2>2
       DEF RecordLog, Undo, Answer, TypeOK, LocType, Locals, Kinds, tables, histories, counters
<1>6. ASSUME NEW r \in Requests, Book(r) \/ Payout(r) PROVE TypeOK'
  <2>1. LocType'
    BY <1>0, <1>6, GotoType, ExitType DEF Book, Payout
  <2>2. Conv(r) \in Conversions
    BY <1>6, ConvIs DEF Book, Payout, At
  <2>3. raw' \in [Conversions -> [Sources -> Nat]] /\ convlog' \subseteq Conversions
    <3>1. raw \in [Conversions -> [Sources -> Nat]] /\ convlog \subseteq Conversions
      BY DEF TypeOK
    <3>2. CASE Book(r)
      BY <2>2, <3>1, <3>2 DEF Book, Sources
    <3>3. CASE Payout(r)
      <4>1. /\ raw' = [raw EXCEPT ![Conv(r)]["in_site"] =
                         IF Conv(r) \notin convlog THEN @ + 1 ELSE @]
            /\ convlog' = convlog \cup {Conv(r)}
        BY <3>3 DEF Payout
      <4> QED
        BY <2>2, <3>1, <4>1 DEF Sources
    <3> QED
      BY <1>6, <3>2, <3>3
  <2> QED
    BY <1>6, <2>1, <2>3
       DEF Book, Payout, TypeOK, LocType, Locals, Kinds, tables, histories, counters
<1>7. ASSUME NEW r \in Requests, Queue(r) \/ Age(r) \/ Promote(r) PROVE TypeOK'
  <2>1. LocType'
    BY <1>0, <1>7, GotoType, ExitType DEF Queue, Age, Promote
  <2>2. unmatched' \in [Conversions -> [Statuses -> Nat]]
    <3>1. unmatched \in [Conversions -> [Statuses -> Nat]]
      BY DEF TypeOK
    <3>2. \A c \in Conversions :
            /\ Queued(c) \in Nat /\ RowsOf(c) \in Nat
            /\ unmatched[c]["unattributed"] + Queued(c) \in Nat
      BY <3>1 DEF Statuses, Queued, RowsOf
    <3>3. CASE Age(r)
      <4>1. \A c \in Conversions :
              [unmatched[c] EXCEPT !["pending"] = 0, !["unattributed"] = @ + Queued(c)]
                \in [Statuses -> Nat]
        BY <3>1, <3>2 DEF Statuses
      <4> QED
        BY <3>1, <3>3, <4>1 DEF Age
    <3>4. CASE Promote(r)
      <4>1. \A c \in Conversions :
              [s \in Statuses |-> IF s = "matched" THEN RowsOf(c) ELSE 0]
                \in [Statuses -> Nat]
        BY <3>2
      <4> QED
        BY <3>1, <3>4, <4>1 DEF Promote
    <3>5. CASE Queue(r)
      <4>1. Conv(r) \in Conversions
        BY <3>5, ConvIs DEF Queue, At
      <4> QED
        BY <3>1, <3>5, <4>1 DEF Queue, Statuses
    <3> QED
      BY <1>7, <3>3, <3>4, <3>5
  <2> QED
    BY <1>7, <2>1, <2>2
       DEF Queue, Age, Promote, TypeOK, LocType, Locals, Kinds, tables, histories, counters
<1>8. ASSUME NEW r \in Requests, CapBump(r) \/ Mark(r) \/ Fire(r) PROVE TypeOK'
  <2>1. LocType'
    BY <1>0, <1>8, GotoType, FinishType DEF CapBump, Mark, Fire
  <2>2. CASE CapBump(r)
    BY <2>1, <2>2 DEF CapBump, TypeOK, LocType, Locals, Kinds, tables, histories, counters
  <2>3. CASE Mark(r)
    BY <2>1, <2>3, ConvIs
       DEF Mark, At, TypeOK, LocType, Locals, Kinds, tables, histories, counters
  <2>4. CASE Fire(r)
    <3>1. Conv(r) \in Conversions
      BY <2>4, ConvIs DEF Fire, At
    <3>2. fired' \in [Conversions -> Nat]
      BY <2>4, <3>1 DEF Fire, TypeOK
    <3> QED
      BY <2>1, <2>4, <3>2 DEF Fire, TypeOK, LocType, Locals, Kinds, tables, histories, counters
  <2> QED
    BY <1>8, <2>2, <2>3, <2>4
<1>9. ASSUME NEW r \in Requests, Throw(r) \/ PixelThrow(r) \/ KvThrow(r) \/ Evict(r)
      PROVE  TypeOK'
  <2>1. LocType'
    BY <1>0, <1>9, GotoType, ExitType DEF Throw, PixelThrow, KvThrow, Evict
  <2>2. errors' \in 0 .. MaxErrors /\ evictions' \in 0 .. MaxEvictions
    BY <1>9, ParametersAssumption DEF Throw, PixelThrow, KvThrow, Evict, TypeOK
  <2> QED
    BY <1>9, <2>1, <2>2
       DEF Throw, PixelThrow, KvThrow, Evict, TypeOK, LocType, Locals, Kinds, tables, histories
<1> QED
  BY <1>1, <1>2, <1>3, <1>4, <1>5, <1>6, <1>7, <1>8, <1>9, NextCases


-----------------------------------------------------------------------------
(* Who is where                                                            *)

OthersStay(r) == \A q \in Requests \ {r} : loc'[q] = loc[q]

LEMMA GotoIs ==
  ASSUME LocType, NEW r \in Requests, NEW p, Goto(r, p)
  PROVE  /\ OthersStay(r)
         /\ loc'[r].pc = p /\ loc'[r].kind = loc[r].kind
         /\ loc'[r].conv = loc[r].conv /\ loc'[r].named = loc[r].named
BY DEF LocType, Locals, Goto, OthersStay

LEMMA ExitIs ==
  ASSUME LocType, NEW r \in Requests, Exit(r)
  PROVE  OthersStay(r) /\ loc'[r] = Idle
BY DEF LocType, Exit, OthersStay

(* A step of r can only spoil what holds of r.                             *)
LEMMA SaneOthers ==
  ASSUME AllSane, NEW r \in Requests, OthersStay(r),
         tracking' = tracking, unnamed \subseteq unnamed', Sane(r)'
  PROVE  AllSane'
<1> SUFFICES ASSUME NEW q \in Requests \ {r} PROVE Sane(q)'
  BY DEF AllSane
<1>1. Sane(q) /\ loc'[q] = loc[q]
  BY DEF AllSane, OthersStay
<1> QED
  BY <1>1 DEF Sane

LEMMA SaneExit ==
  ASSUME LocType, AllSane, NEW r \in Requests, Exit(r),
         tracking' = tracking, unnamed' = unnamed
  PROVE  AllSane'
<1>1. Sane(r)'
  BY ExitIs DEF Sane, Idle, PostbackPoints, PixelPoints, NotifyPoints, SweepPoints
<1> QED
  BY <1>1, ExitIs, SaneOthers

(* A move within the same kind of invocation.                              *)
LEMMA SaneGoto ==
  ASSUME LocType, AllSane, NEW r \in Requests, NEW p, Goto(r, p),
         tracking' = tracking, unnamed' = unnamed,
         \/ loc[r].pc \in PostbackPoints /\ p \in PostbackPoints \cup NotifyPoints
         \/ loc[r].pc \in PixelPoints /\ p \in PixelPoints \cup NotifyPoints
         \/ loc[r].pc \in NotifyPoints /\ p \in NotifyPoints
         \/ loc[r].pc \in NotifyPoints /\ p \in PostbackPoints /\ loc[r].kind = "postback"
         \/ loc[r].pc \in SweepPoints /\ p \in SweepPoints
  PROVE  AllSane'
<1>1. /\ Sane(r) /\ OthersStay(r)
      /\ loc'[r].pc = p /\ loc'[r].kind = loc[r].kind
      /\ loc'[r].conv = loc[r].conv /\ loc'[r].named = loc[r].named
  BY GotoIs DEF AllSane
<1>2. Sane(r)'
  BY <1>1 DEF Sane, PostbackPoints, PixelPoints, NotifyPoints, SweepPoints
<1> QED
  BY <1>1, <1>2, SaneOthers

(* Every step keeps every invocation sane.                                 *)
LEMMA SaneStep == TypeOK /\ AllSane /\ [Next]_vars => AllSane'
<1> SUFFICES ASSUME TypeOK, AllSane, [Next]_vars PROVE AllSane'
  OBVIOUS
<1>0. LocType
  BY DEF TypeOK, LocType, Locals, Kinds, Points
<1>1. CASE UNCHANGED vars
  BY <1>1 DEF vars, AllSane, Sane, histories
<1>2. ASSUME NEW c \in Conversions, Land(c) \/ Expire(c) PROVE AllSane'
  BY <1>2 DEF Land, Expire, AllSane, Sane, histories
<1>3. ASSUME NEW r \in Requests, Post(r) PROVE AllSane'
  <2>1. PICK c \in Conversions, b \in BOOLEAN :
          /\ loc' = [loc EXCEPT ![r] = [pc |-> "log", kind |-> "postback",
                                        conv |-> {c}, named |-> b]]
          /\ unnamed' = IF b THEN unnamed ELSE unnamed \cup {c}
    BY <1>3 DEF Post
  <2>2. /\ OthersStay(r) /\ unnamed \subseteq unnamed' /\ tracking' = tracking
        /\ loc'[r] = [pc |-> "log", kind |-> "postback", conv |-> {c}, named |-> b]
    BY <1>0, <1>3, <2>1 DEF Post, LocType, OthersStay
  <2>3. Sane(r)'
    BY <2>1, <2>2 DEF Sane, PostbackPoints, PixelPoints, NotifyPoints, SweepPoints
  <2> QED
    BY <2>2, <2>3, SaneOthers
<1>4. ASSUME NEW r \in Requests, Pixel(r) PROVE AllSane'
  <2>1. PICK c \in Conversions :
          loc' = [loc EXCEPT ![r] = [pc |-> "payout", kind |-> "pixel",
                                     conv |-> {c}, named |-> TRUE]]
    BY <1>4 DEF Pixel
  <2>2. /\ OthersStay(r) /\ unnamed' = unnamed /\ tracking' = tracking
        /\ tracking = "browser_side_pixel"
        /\ loc'[r] = [pc |-> "payout", kind |-> "pixel", conv |-> {c}, named |-> TRUE]
    BY <1>0, <1>4, <2>1 DEF Pixel, LocType, OthersStay, histories
  <2>3. Sane(r)'
    BY <2>2 DEF Sane, PostbackPoints, PixelPoints, NotifyPoints, SweepPoints
  <2> QED
    BY <2>2, <2>3, SaneOthers
<1>5. ASSUME NEW r \in Requests, Sweep(r) PROVE AllSane'
  <2>1. /\ OthersStay(r) /\ unnamed' = unnamed /\ tracking' = tracking
        /\ loc'[r].pc = "age" /\ loc'[r].kind = "sweep"
    BY <1>0, <1>5 DEF Sweep, LocType, Locals, OthersStay, histories
  <2>2. Sane(r)'
    BY <2>1 DEF Sane, PostbackPoints, PixelPoints, NotifyPoints, SweepPoints
  <2> QED
    BY <2>1, <2>2, SaneOthers
<1>6. ASSUME NEW r \in Requests, Select(r) \/ Lookup(r) PROVE AllSane'
  <2>0. /\ unnamed' = unnamed /\ tracking' = tracking
        /\ loc[r].pc \in SweepPoints
    BY <1>6 DEF Select, Lookup, histories, At, SweepPoints
  <2>1. CASE Exit(r)
    BY <1>0, <2>0, <2>1, SaneExit
  <2>2. ASSUME NEW cs, NEW p \in SweepPoints,
               loc' = [loc EXCEPT ![r].pc = p, ![r].conv = cs]
        PROVE  AllSane'
    <3>1. /\ OthersStay(r) /\ loc'[r].pc = p /\ loc'[r].kind = loc[r].kind
      BY <1>0, <2>2 DEF LocType, Locals, OthersStay
    <3>2. loc[r].kind = "sweep"
      BY <2>0 DEF AllSane, Sane
    <3>3. Sane(r)'
      BY <3>1, <3>2 DEF Sane, PostbackPoints, PixelPoints, NotifyPoints, SweepPoints
    <3> QED
      BY <2>0, <3>1, <3>3, SaneOthers
  <2> QED
    BY <1>6, <2>1, <2>2 DEF Select, Lookup, SweepPoints
<1>7. ASSUME NEW r \in Requests,
             \/ RecordLog(r) \/ Match(r) \/ Book(r) \/ Queue(r) \/ Undo(r) \/ Throw(r)
      PROVE  AllSane'
  <2>1. /\ unnamed' = unnamed /\ tracking' = tracking
        /\ loc[r].pc \in PostbackPoints
    BY <1>7 DEF RecordLog, Match, Book, Queue, Undo, Throw, histories, At, PostbackPoints
  <2>2. \E p \in PostbackPoints \cup NotifyPoints : Goto(r, p)
    BY <1>7 DEF RecordLog, Match, Book, Queue, Undo, Throw, PostbackPoints, NotifyPoints
  <2> QED
    BY <1>0, <2>1, <2>2, SaneGoto
<1>8. ASSUME NEW r \in Requests,
             Payout(r) \/ CapBump(r) \/ Context(r) \/ Seen(r) \/ Mark(r) \/ Fire(r) \/ KvThrow(r)
      PROVE  AllSane'
  <2>1. unnamed' = unnamed /\ tracking' = tracking
    BY <1>8 DEF Payout, CapBump, Context, Seen, Mark, Fire, KvThrow, histories
  <2>2. \/ Exit(r)
        \/ loc[r].pc \in PixelPoints /\ \E p \in PixelPoints \cup NotifyPoints : Goto(r, p)
        \/ loc[r].pc \in NotifyPoints /\ \E p \in NotifyPoints : Goto(r, p)
        \/ loc[r].pc \in NotifyPoints /\ loc[r].kind = "postback" /\ Goto(r, "answer")
    BY <1>8 DEF Payout, CapBump, Context, Seen, Mark, Fire, KvThrow, At, Finish,
                PixelPoints, NotifyPoints
  <2> QED
    BY <1>0, <2>1, <2>2, SaneGoto, SaneExit DEF PostbackPoints
<1>9. ASSUME NEW r \in Requests, Answer(r) \/ PixelThrow(r) \/ Evict(r) \/ Promote(r) \/ Age(r)
      PROVE  AllSane'
  <2>1. unnamed' = unnamed /\ tracking' = tracking
    BY <1>9 DEF Answer, PixelThrow, Evict, Promote, Age, histories
  <2>2. \/ Exit(r)
        \/ loc[r].pc \in SweepPoints /\ \E p \in SweepPoints : Goto(r, p)
    BY <1>9 DEF Answer, PixelThrow, Evict, Promote, Age, At, SweepPoints
  <2> QED
    BY <1>0, <2>1, <2>2, SaneGoto, SaneExit
<1> QED
  BY <1>1, <1>2, <1>3, <1>4, <1>5, <1>6, <1>7, <1>8, <1>9, NextCases

-----------------------------------------------------------------------------
(* The books                                                               *)

(* A step that writes no money and gives nobody a role leaves the books as *)
(* they are.                                                               *)
LEMMA NoNewRole ==
  ASSUME TypeOK, Books,
         tracking' = tracking, log \subseteq log', convlog' = convlog, fired' = fired,
         unnamed \subseteq unnamed',
         \A c \in Conversions :
           /\ raw'[c]["s2s_postback"] = raw[c]["s2s_postback"]
           /\ raw'[c]["in_site"] = raw[c]["in_site"]
           /\ RowsOf(c)' = RowsOf(c),
         \A q \in Requests, c \in Conversions :
           (Holds(q, c)' => Holds(q, c)) /\ (Tells(q, c)' => Tells(q, c))
             /\ (Pays(q, c)' => Pays(q, c))
  PROVE  Books'
<1>1. \A c \in Conversions : Staged(c)' = Staged(c)
  BY DEF Staged
<1>2. Roles'
  BY <1>1 DEF Books, Roles, Role
<1>3. Alone'
  BY DEF Books, Alone
<1>4. Ledger'
  BY <1>1 DEF Books, Ledger
<1>5. Told'
  <2> SUFFICES ASSUME NEW c \in Conversions
               PROVE  (fired[c] + Due(c) <= raw[c]["s2s_postback"] + raw[c]["in_site"])'
    BY DEF Told
  <2>1. Due(c)' \in Nat /\ Due(c) \in Nat /\ Due(c)' <= Due(c)
    BY DEF Due
  <2>2. /\ fired[c] + Due(c) <= raw[c]["s2s_postback"] + raw[c]["in_site"]
        /\ fired[c] \in Nat
        /\ raw[c]["s2s_postback"] \in Nat /\ raw[c]["in_site"] \in Nat
    BY Sums DEF Books, Told
  <2> QED
    BY <2>1, <2>2
<1> QED
  BY <1>2, <1>3, <1>4, <1>5 DEF Books

(* The same for a step of r: only what r then is matters.                  *)
LEMMA OthersRoles ==
  ASSUME NEW r \in Requests, OthersStay(r), NEW q \in Requests \ {r}, NEW c \in Conversions
  PROVE  (Holds(q, c)' <=> Holds(q, c)) /\ (Tells(q, c)' <=> Tells(q, c)) /\ (Pays(q, c)' <=> Pays(q, c))
BY DEF OthersStay, Holds, Tells, Pays

LEMMA NoNewRoleOf ==
  ASSUME TypeOK, Books, NEW r \in Requests, OthersStay(r),
         tracking' = tracking, log \subseteq log', convlog' = convlog, fired' = fired,
         unnamed \subseteq unnamed',
         \A c \in Conversions :
           /\ raw'[c]["s2s_postback"] = raw[c]["s2s_postback"]
           /\ raw'[c]["in_site"] = raw[c]["in_site"]
           /\ RowsOf(c)' = RowsOf(c),
         \A c \in Conversions :
           (Holds(r, c)' => Holds(r, c)) /\ (Tells(r, c)' => Tells(r, c))
             /\ (Pays(r, c)' => Pays(r, c))
  PROVE  Books'
<1>1. \A q \in Requests, c \in Conversions :
        (Holds(q, c)' => Holds(q, c)) /\ (Tells(q, c)' => Tells(q, c))
          /\ (Pays(q, c)' => Pays(q, c))
  BY OthersRoles
<1> QED
  BY <1>1, NoNewRole

(* Most steps touch no table of money.                                     *)
LEMMA NoMoney ==
  ASSUME TypeOK, Books, NEW r \in Requests, OthersStay(r),
         UNCHANGED <<tracking, log, convlog, raw, unmatched, fired>>,
         unnamed \subseteq unnamed',
         \A c \in Conversions :
           (Holds(r, c)' => Holds(r, c)) /\ (Tells(r, c)' => Tells(r, c))
             /\ (Pays(r, c)' => Pays(r, c))
  PROVE  Books'
<1>1. \A c \in Conversions : RowsOf(c)' = RowsOf(c)
  BY DEF RowsOf, Queued
<1> QED
  BY <1>1, NoNewRoleOf

(* The steps that only move r on.                                          *)
LEMMA MovesOn ==
  ASSUME TypeOK, AllSane, Books, NEW r \in Requests,
         \/ Post(r) \/ Pixel(r) \/ Sweep(r) \/ Match(r) \/ Context(r) \/ CapBump(r)
         \/ Answer(r) \/ Seen(r) \/ Mark(r) \/ Select(r) \/ Lookup(r)
         \/ Throw(r) \/ PixelThrow(r) \/ KvThrow(r) \/ Evict(r)
  PROVE  Books'
<1>0. LocType
  BY DEF TypeOK, LocType, Locals, Kinds, Points
<1>1. UNCHANGED <<tracking, log, convlog, raw, unmatched, fired>> /\ unnamed \subseteq unnamed'
  BY DEF Post, Pixel, Sweep, Match, Context, CapBump, Answer, Seen, Mark, Select, Lookup,
         Throw, PixelThrow, KvThrow, Evict, tables, histories
<1>2. ASSUME OthersStay(r),
             loc'[r].pc \in {"idle", "log", "answer", "payout"} \cup SweepPoints
      PROVE  Books'
  <2>1. \A c \in Conversions : ~ Holds(r, c)' /\ ~ Tells(r, c)' /\ ~ Pays(r, c)'
    BY <1>2 DEF Holds, Tells, Pays, NotifyPoints, SweepPoints
  <2> QED
    BY <1>1, <1>2, <2>1, NoMoney
<1>3. ASSUME NEW p,
             Goto(r, p),
             \/ loc[r].pc = "match" /\ p \in {"book", "queue"}
             \/ loc[r].pc \in {"match", "book", "queue"} /\ p = "undo"
             \/ loc[r].pc \in NotifyPoints /\ p \in NotifyPoints
             \/ loc[r].pc = "cap" /\ p = "context"
             \/ loc[r].pc = "context" /\ p \in NotifyPoints
      PROVE  Books'
  <2>1. /\ OthersStay(r) /\ loc'[r].pc = p
        /\ loc'[r].kind = loc[r].kind /\ loc'[r].conv = loc[r].conv
    BY <1>0, <1>3, GotoIs
  <2>2. loc[r].pc \in {"cap", "context"} => loc[r].kind = "pixel"
    BY DEF AllSane, Sane, PixelPoints
  <2>3. \A c \in Conversions :
          (Holds(r, c)' => Holds(r, c)) /\ (Tells(r, c)' => Tells(r, c))
            /\ (Pays(r, c)' => Pays(r, c))
    BY <1>3, <2>1, <2>2 DEF Holds, Tells, Pays, NotifyPoints
  <2> QED
    BY <1>1, <2>1, <2>3, NoMoney
<1>4. CASE Exit(r)
  BY <1>0, <1>2, <1>4, ExitIs DEF Idle
<1>5. CASE Post(r) \/ Pixel(r) \/ Sweep(r)
  <2>1. OthersStay(r) /\ loc'[r].pc \in {"log", "payout", "age"}
    BY <1>0, <1>5 DEF Post, Pixel, Sweep, LocType, Locals, OthersStay
  <2> QED
    BY <1>2, <2>1 DEF SweepPoints
<1>6. CASE (Select(r) \/ Lookup(r)) /\ ~ Exit(r)
  <2>1. OthersStay(r) /\ loc'[r].pc \in {"lookup", "promote"}
    BY <1>0, <1>6 DEF Select, Lookup, LocType, Locals, OthersStay
  <2> QED
    BY <1>2, <2>1 DEF SweepPoints
<1>7. CASE Goto(r, "answer")
  BY <1>0, <1>2, <1>7, GotoIs
<1>8. CASE Match(r)
  BY <1>3, <1>8 DEF Match, At
<1>9. CASE (Seen(r) \/ Mark(r) \/ KvThrow(r) \/ Context(r) \/ CapBump(r)) /\ ~ Exit(r)
            /\ ~ Goto(r, "answer")
  BY <1>3, <1>9 DEF Seen, Mark, KvThrow, Context, CapBump, At, Finish, NotifyPoints
<1>10. CASE Throw(r) /\ ~ Goto(r, "answer")
  BY <1>3, <1>10 DEF Throw, At
<1>11. Answer(r) \/ PixelThrow(r) \/ Evict(r) => Exit(r)
  BY DEF Answer, PixelThrow, Evict
<1> QED
  BY <1>4, <1>5, <1>6, <1>7, <1>8, <1>9, <1>10, <1>11

(* Age and Promote move a row from one status to another.                  *)
LEMMA RowsAreMoved ==
  ASSUME TypeOK, NEW r \in Requests, Age(r) \/ Promote(r), NEW c \in Conversions
  PROVE  RowsOf(c)' = RowsOf(c)
<1>1. /\ unmatched[c] \in [Statuses -> Nat]
      /\ unmatched[c]["pending"] \in Nat /\ unmatched[c]["matched"] \in Nat
      /\ unmatched[c]["unattributed"] \in Nat
  BY DEF TypeOK, Statuses
<1>2. CASE Age(r)
  <2>1. unmatched'[c] =
          IF c \in old
            THEN [unmatched[c] EXCEPT !["pending"] = 0, !["unattributed"] = @ + Queued(c)]
            ELSE unmatched[c]
    BY <1>2 DEF Age
  <2> QED
    BY <1>1, <2>1 DEF RowsOf, Queued, Statuses
<1>3. CASE Promote(r)
  <2>1. unmatched'[c] =
          IF c \in loc[r].conv
            THEN [s \in Statuses |-> IF s = "matched" THEN RowsOf(c) ELSE 0]
            ELSE unmatched[c]
    BY <1>3 DEF Promote
  <2>2. RowsOf(c) \in Nat
    BY <1>1 DEF RowsOf, Queued
  <2> QED
    BY <1>1, <2>1, <2>2 DEF RowsOf, Queued, Statuses
<1> QED
  BY <1>2, <1>3

(* The sweep moves rows between the statuses of their conversion.          *)
LEMMA SweepBooks ==
  ASSUME TypeOK, Books, NEW r \in Requests, Age(r) \/ Promote(r)
  PROVE  Books'
<1>0. LocType
  BY DEF TypeOK, LocType, Locals, Kinds, Points
<1>1. OthersStay(r) /\ loc'[r].pc \in {"select", "idle"}
  BY <1>0, GotoIs, ExitIs DEF Age, Promote, Idle
<1>2. \A c \in Conversions : ~ Holds(r, c)' /\ ~ Tells(r, c)' /\ ~ Pays(r, c)'
  BY <1>1 DEF Holds, Tells, Pays, NotifyPoints
<1>3. \A c \in Conversions : RowsOf(c)' = RowsOf(c)
  BY RowsAreMoved
<1>4. UNCHANGED <<tracking, log, convlog, raw, fired, unnamed>>
  BY DEF Age, Promote, histories
<1> QED
  BY <1>1, <1>2, <1>3, <1>4, NoNewRoleOf

(* Who inserts the dedup row holds it, alone: before it nothing was staged *)
(* for the conversion and nobody could hold it.                            *)
LEMMA RecordLogBooks ==
  ASSUME TypeOK, AllSane, Books, NEW r \in Requests, RecordLog(r)
  PROVE  Books'
<1>d. PICK d \in Conversions : d = Conv(r)
  BY ConvIs DEF RecordLog, Undo, Book, Queue, At, PostbackPoints
<1>0. LocType
  BY DEF TypeOK, LocType, Locals, Kinds, Points
<1>1. d \in Conversions /\ loc[r].conv = {d} /\ loc[r].kind = "postback"
  BY <1>d, ConvIs DEF RecordLog, At, AllSane, Sane, PostbackPoints
<1>2. /\ UNCHANGED <<tracking, convlog, raw, unmatched, fired, unnamed>>
      /\ log' = log \cup {d}
  BY <1>d DEF RecordLog, histories
<1>3. \A c \in Conversions : RowsOf(c)' = RowsOf(c) /\ Staged(c)' = Staged(c)
  BY <1>2 DEF RowsOf, Queued, Staged
<1>4. ASSUME Goto(r, "answer") PROVE Books'
  <2>1. OthersStay(r) /\ loc'[r].pc = "answer"
    BY <1>0, <1>4, GotoIs
  <2>2. \A c \in Conversions : ~ Holds(r, c)' /\ ~ Tells(r, c)' /\ ~ Pays(r, c)'
    BY <2>1 DEF Holds, Tells, Pays, NotifyPoints
  <2>3. /\ log \subseteq log' /\ unnamed \subseteq unnamed'
        /\ \A c \in Conversions :
             /\ raw'[c]["s2s_postback"] = raw[c]["s2s_postback"]
             /\ raw'[c]["in_site"] = raw[c]["in_site"]
             /\ RowsOf(c)' = RowsOf(c)
    BY <1>2, <1>3
  <2> QED
    BY <1>2, <2>1, <2>2, <2>3, NoNewRoleOf
<1>5. ASSUME d \notin log, Bookable(r), Goto(r, "match") PROVE Books'
  <2>1. /\ OthersStay(r) /\ loc'[r].pc = "match"
        /\ loc'[r].kind = "postback" /\ loc'[r].conv = {d}
    BY <1>0, <1>1, <1>5, GotoIs
  <2>2. \A c \in Conversions :
          (Holds(r, c)' <=> c = d) /\ ~ Tells(r, c)' /\ ~ Pays(r, c)'
    BY <2>1 DEF Holds, Tells, Pays, NotifyPoints
  <2>3. /\ Staged(d) = 0
        /\ \A q \in Requests : ~ Holds(q, d)
    BY <1>1, <1>5 DEF Books, Ledger, Roles, Role
  <2>4. tracking = "browser_side_pixel" => d \in unnamed
    BY <1>1, <1>5 DEF Bookable, AllSane, Sane, RecordLog, At
  <2>5. Roles'
    <3> SUFFICES ASSUME NEW q \in Requests, NEW c \in Conversions PROVE Role(q, c)'
      BY DEF Roles
    <3>1. Role(q, c)
      BY DEF Books, Roles
    <3>2. CASE q = r
      BY <1>2, <1>3, <2>2, <2>3, <2>4, <3>2 DEF Role
    <3>3. CASE q # r
      BY <1>2, <1>3, <2>1, <3>1, <3>3, OthersRoles DEF Role
    <3> QED
      BY <3>2, <3>3
  <2>6. Alone'
    <3> SUFFICES ASSUME NEW q \in Requests, NEW p \in Requests, NEW c \in Conversions,
                        \/ Holds(q, c)' /\ Holds(p, c)'
                        \/ Tells(q, c)' /\ Tells(p, c)'
                        \/ Pays(q, c)' /\ Pays(p, c)'
                 PROVE  q = p
      BY DEF Alone
    <3>1. CASE q # r /\ p # r
      BY <2>1, <3>1, OthersRoles DEF Books, Alone
    <3>2. CASE q = r \/ p = r
      BY <2>1, <2>2, <2>3, <3>2, OthersRoles
    <3> QED
      BY <3>1, <3>2
  <2>7. Ledger'
    BY <1>1, <1>2, <1>3, <2>3 DEF Books, Ledger
  <2>8. Told'
    <3>1. \A c \in Conversions : Due(c)' = Due(c)
      <4>1. \A q \in Requests, c \in Conversions : (Tells(q, c)' <=> Tells(q, c)) /\ (Pays(q, c)' <=> Pays(q, c))
        <5>1. \A c \in Conversions : ~ Tells(r, c) /\ ~ Pays(r, c)
          BY DEF RecordLog, At, Tells, Pays, NotifyPoints
        <5> QED
          BY <2>1, <2>2, <5>1, OthersRoles
      <4> QED
        BY <4>1 DEF Due
    <3> QED
      BY <1>2, <3>1 DEF Books, Told
  <2> QED
    BY <2>5, <2>6, <2>7, <2>8 DEF Books
<1> QED
  BY <1>d, <1>4, <1>5 DEF RecordLog

(* Who takes the row back held it, alone, and had staged nothing.          *)
LEMMA UndoBooks ==
  ASSUME TypeOK, AllSane, Books, NEW r \in Requests, Undo(r)
  PROVE  Books'
<1>d. PICK d \in Conversions : d = Conv(r)
  BY ConvIs DEF RecordLog, Undo, Book, Queue, At, PostbackPoints
<1>0. LocType
  BY DEF TypeOK, LocType, Locals, Kinds, Points
<1>1. d \in Conversions /\ Holds(r, d)
  BY <1>d, ConvIs DEF Undo, At, Holds, PostbackPoints
<1>2. /\ UNCHANGED <<tracking, convlog, raw, unmatched, fired, unnamed>>
      /\ log' = log \ {d} /\ OthersStay(r) /\ loc'[r].pc = "answer"
  BY <1>0, <1>d, GotoIs DEF Undo, histories
<1>3. \A c \in Conversions : Staged(c)' = Staged(c)
  BY <1>2 DEF RowsOf, Queued, Staged
<1>4. \A c \in Conversions : ~ Holds(r, c)' /\ ~ Tells(r, c)' /\ ~ Pays(r, c)'
  BY <1>2 DEF Holds, Tells, Pays, NotifyPoints
<1>5. \A q \in Requests, c \in Conversions :
        (Holds(q, c)' => Holds(q, c) /\ c # d) /\ (Tells(q, c)' => Tells(q, c))
          /\ (Pays(q, c)' => Pays(q, c))
  BY <1>1, <1>2, <1>4, OthersRoles DEF Books, Alone
<1>6. Staged(d) = 0
  BY <1>1 DEF Books, Roles, Role
<1>7. Roles'
  BY <1>2, <1>3, <1>5 DEF Books, Roles, Role
<1>8. Alone'
  BY <1>5 DEF Books, Alone
<1>9. Ledger'
  BY <1>2, <1>3, <1>6 DEF Books, Ledger
<1>10. Told'
  <2> SUFFICES ASSUME NEW c \in Conversions
               PROVE  (fired[c] + Due(c) <= raw[c]["s2s_postback"] + raw[c]["in_site"])'
    BY DEF Told
  <2>1. Due(c)' \in Nat /\ Due(c) \in Nat /\ Due(c)' <= Due(c)
    BY <1>5 DEF Due
  <2>2. /\ fired[c] + Due(c) <= raw[c]["s2s_postback"] + raw[c]["in_site"]
        /\ fired[c] \in Nat
        /\ raw[c]["s2s_postback"] \in Nat /\ raw[c]["in_site"] \in Nat
    BY Sums DEF Books, Told
  <2> QED
    BY <1>2, <2>1, <2>2
<1> QED
  BY <1>7, <1>8, <1>9, <1>10 DEF Books

(* A row for a held conversion, booked or queued: the holder gives up the  *)
(* hold, and tells of the row if it is booked.                             *)
LEMMA StageBooks ==
  ASSUME TypeOK, AllSane, Books, NEW r \in Requests, Book(r) \/ Queue(r)
  PROVE  Books'
<1>d. PICK d \in Conversions : d = Conv(r)
  BY ConvIs DEF RecordLog, Undo, Book, Queue, At, PostbackPoints
<1>0. LocType
  BY DEF TypeOK, LocType, Locals, Kinds, Points
<1>1. d \in Conversions /\ Holds(r, d) /\ loc[r].conv = {d} /\ loc[r].kind = "postback"
  BY <1>d, ConvIs DEF Book, Queue, At, Holds, AllSane, Sane, PostbackPoints
<1>2. /\ UNCHANGED <<tracking, log, convlog, fired, unnamed>>
      /\ OthersStay(r) /\ loc'[r].conv = {d} /\ loc'[r].kind = "postback"
      /\ loc'[r].pc = IF Book(r) THEN "seen" ELSE "answer"
  BY <1>0, <1>1, GotoIs DEF Book, Queue, At, histories
<1>3. d \in log /\ Staged(d) = 0 /\ (tracking = "browser_side_pixel" => d \in unnamed)
  BY <1>1 DEF Books, Roles, Role
<1>4. raw[d]["s2s_postback"] = 0 /\ RowsOf(d) = 0
  BY <1>1, <1>3, Sums
<1>5. /\ \A c \in Conversions : raw'[c]["in_site"] = raw[c]["in_site"]
      /\ \A c \in Conversions \ {d} :
           raw'[c]["s2s_postback"] = raw[c]["s2s_postback"] /\ RowsOf(c)' = RowsOf(c)
      /\ raw'[d]["s2s_postback"] = IF Book(r) THEN 1 ELSE 0
      /\ RowsOf(d)' = IF Book(r) THEN 0 ELSE 1
  <2>1. CASE Book(r)
    <3>1. /\ raw' = [raw EXCEPT ![d]["s2s_postback"] = @ + 1] /\ unmatched' = unmatched
      BY <1>d, <2>1 DEF Book
    <3>2. \A c \in Conversions : raw[c] \in [Sources -> Nat]
      BY DEF TypeOK
    <3>3. raw' = [raw EXCEPT ![d] = [raw[d] EXCEPT !["s2s_postback"] = raw[d]["s2s_postback"] + 1]]
      BY <3>1
    <3>4. \A c \in Conversions :
            raw'[c] = IF c = d THEN [raw[d] EXCEPT !["s2s_postback"] = raw[d]["s2s_postback"] + 1]
                               ELSE raw[c]
      BY <3>3 DEF TypeOK
    <3>5. \A c \in Conversions : RowsOf(c)' = RowsOf(c)
      BY <3>1 DEF RowsOf, Queued
    <3> QED
      BY <1>1, <1>4, <2>1, <3>2, <3>4, <3>5 DEF Sources
  <2>2. CASE ~ Book(r)
    <3>1. /\ raw' = raw
          /\ unmatched' = [unmatched EXCEPT ![d] = [unmatched[d] EXCEPT !["pending"] = unmatched[d]["pending"] + 1]]
      BY <1>d, <2>2 DEF Queue
    <3>2. \A c \in Conversions :
            /\ unmatched[c] \in [Statuses -> Nat]
            /\ unmatched'[c] = IF c = d THEN [unmatched[d] EXCEPT !["pending"] = unmatched[d]["pending"] + 1]
                                        ELSE unmatched[c]
      BY <3>1 DEF TypeOK
    <3>3. \A c \in Conversions \ {d} : RowsOf(c)' = RowsOf(c)
      BY <3>2 DEF RowsOf, Queued
    <3>4. RowsOf(d)' = RowsOf(d) + 1
      <4>1. /\ unmatched[d]["pending"] \in Nat /\ unmatched[d]["matched"] \in Nat
            /\ unmatched[d]["unattributed"] \in Nat
        BY <1>1, <3>2 DEF Statuses
      <4>2. /\ unmatched'[d]["pending"] = unmatched[d]["pending"] + 1
            /\ unmatched'[d]["matched"] = unmatched[d]["matched"]
            /\ unmatched'[d]["unattributed"] = unmatched[d]["unattributed"]
        BY <1>1, <3>2 DEF Statuses
      <4> QED
        BY <4>1, <4>2 DEF RowsOf, Queued
    <3> QED
      BY <1>1, <1>4, <2>2, <3>1, <3>3, <3>4
  <2> QED
    BY <2>1, <2>2
<1>6. Staged(d)' = 1 /\ \A c \in Conversions \ {d} : Staged(c)' = Staged(c)
  BY <1>1, <1>5 DEF Staged
<1>7. \A q \in Requests : ~ Tells(q, d) /\ (Holds(q, d) => q = r)
  BY <1>1, <1>4 DEF Books, Roles, Role, Alone
<1>8. \A c \in Conversions :
        ~ Holds(r, c)' /\ ~ Pays(r, c)' /\ (Tells(r, c)' <=> Book(r) /\ c = d)
  BY <1>2 DEF Holds, Tells, Pays, NotifyPoints
<1>9. Roles'
  <2> SUFFICES ASSUME NEW q \in Requests, NEW c \in Conversions PROVE Role(q, c)'
    BY DEF Roles
  <2>1. Role(q, c)
    BY DEF Books, Roles
  <2>2. CASE q = r
    BY <1>5, <1>8, <2>2 DEF Role
  <2>3. CASE q # r /\ c # d
    BY <1>2, <1>5, <1>6, <2>1, <2>3, OthersRoles DEF Role
  <2>4. CASE q # r /\ c = d
    BY <1>2, <1>7, <2>1, <2>4, OthersRoles DEF Role
  <2> QED
    BY <2>2, <2>3, <2>4
<1>10. Alone'
  <2> SUFFICES ASSUME NEW q \in Requests, NEW p \in Requests, NEW c \in Conversions,
                      \/ Holds(q, c)' /\ Holds(p, c)'
                      \/ Tells(q, c)' /\ Tells(p, c)'
                      \/ Pays(q, c)' /\ Pays(p, c)'
               PROVE  q = p
    BY DEF Alone
  <2>1. CASE q # r /\ p # r
    BY <1>2, <2>1, OthersRoles DEF Books, Alone
  <2>2. CASE q = r \/ p = r
    BY <1>2, <1>7, <1>8, <2>2, OthersRoles
  <2> QED
    BY <2>1, <2>2
<1>11. Ledger'
  <2> SUFFICES ASSUME NEW c \in Conversions
               PROVE  /\ Staged(c)' \in {0, 1}
                      /\ c \notin log' => Staged(c)' = 0
                      /\ Staged(c)' = 1 /\ tracking' = "browser_side_pixel" => c \in unnamed'
                      /\ raw'[c]["in_site"] = IF c \in convlog' THEN 1 ELSE 0
                      /\ c \in convlog' => tracking' = "browser_side_pixel"
    BY DEF Ledger
  <2> QED
    BY <1>2, <1>3, <1>5, <1>6 DEF Books, Ledger
<1>12. Told'
  <2> SUFFICES ASSUME NEW c \in Conversions
               PROVE  (fired[c] + Due(c) <= raw[c]["s2s_postback"] + raw[c]["in_site"])'
    BY DEF Told
  <2>1. /\ fired[c] + Due(c) <= raw[c]["s2s_postback"] + raw[c]["in_site"]
        /\ fired[c] \in Nat
        /\ raw[c]["s2s_postback"] \in Nat /\ raw[c]["in_site"] \in Nat
    BY Sums DEF Books, Told
  <2>2. ASSUME NEW q \in Requests
        PROVE  (Pays(q, c)' => Pays(q, c)) /\ (Tells(q, c)' => Tells(q, c) \/ (Book(r) /\ c = d))
    <3>1. CASE q = r
      BY <1>8, <3>1
    <3>2. CASE q # r
      BY <1>2, <3>2, OthersRoles
    <3> QED
      BY <3>1, <3>2
  <2>3. /\ Due(c)' \in Nat /\ Due(c) \in Nat
        /\ Due(c)' <= Due(c) + (IF Book(r) /\ c = d THEN 1 ELSE 0)
    <3>1. CASE Book(r) /\ c = d
      BY <1>7, <2>2, <3>1 DEF Due
    <3>2. CASE ~ (Book(r) /\ c = d)
      BY <2>2, <3>2 DEF Due
    <3> QED
      BY <3>1, <3>2
  <2>4. raw'[c]["s2s_postback"] = raw[c]["s2s_postback"] + (IF Book(r) /\ c = d THEN 1 ELSE 0)
    BY <1>4, <1>5, <2>1
  <2> QED
    BY <1>2, <1>5, <2>1, <2>3, <2>4
<1> QED
  BY <1>9, <1>10, <1>11, <1>12 DEF Books

(* The pixel's row and its log row come together, so nobody paid before.   *)
LEMMA PayoutBooks ==
  ASSUME TypeOK, AllSane, Books, NEW r \in Requests, Payout(r)
  PROVE  Books'
<1>d. PICK d \in Conversions : d = Conv(r)
  BY ConvIs DEF Payout, At, PixelPoints
<1>0. LocType
  BY DEF TypeOK, LocType, Locals, Kinds, Points
<1>1. loc[r].conv = {d} /\ loc[r].kind = "pixel" /\ tracking = "browser_side_pixel"
  BY <1>d, ConvIs DEF Payout, At, AllSane, Sane, PixelPoints
<1>2. UNCHANGED <<tracking, log, unmatched, fired, unnamed>>
  BY DEF Payout, histories
<1>3. \A c \in Conversions : RowsOf(c)' = RowsOf(c)
  BY <1>2 DEF RowsOf, Queued
<1>4. /\ \A c \in Conversions : raw'[c]["s2s_postback"] = raw[c]["s2s_postback"]
      /\ \A c \in Conversions \ {d} : raw'[c]["in_site"] = raw[c]["in_site"]
      /\ raw'[d]["in_site"] = IF d \notin convlog THEN raw[d]["in_site"] + 1 ELSE raw[d]["in_site"]
  <2>1. raw' = [raw EXCEPT ![d] = [raw[d] EXCEPT !["in_site"] =
                  IF d \notin convlog THEN raw[d]["in_site"] + 1 ELSE raw[d]["in_site"]]]
    BY <1>d DEF Payout
  <2>2. \A c \in Conversions :
          /\ raw[c] \in [Sources -> Nat]
          /\ raw'[c] = IF c = d
               THEN [raw[d] EXCEPT !["in_site"] =
                       IF d \notin convlog THEN raw[d]["in_site"] + 1 ELSE raw[d]["in_site"]]
               ELSE raw[c]
    BY <2>1 DEF TypeOK
  <2> QED
    BY <2>2 DEF Sources
<1>5. \A c \in Conversions : Staged(c)' = Staged(c)
  BY <1>3, <1>4 DEF Staged
<1>6. ASSUME d \in convlog PROVE Books'
  <2>1. convlog' = convlog /\ OthersStay(r) /\ loc'[r] = Idle
    BY <1>0, <1>d, <1>6, ExitIs DEF Payout
  <2>2. \A c \in Conversions : ~ Holds(r, c)' /\ ~ Tells(r, c)' /\ ~ Pays(r, c)'
    BY <2>1 DEF Holds, Tells, Pays, NotifyPoints, Idle
  <2>3. /\ log \subseteq log' /\ unnamed \subseteq unnamed'
        /\ \A c \in Conversions :
             /\ raw'[c]["s2s_postback"] = raw[c]["s2s_postback"]
             /\ raw'[c]["in_site"] = raw[c]["in_site"]
             /\ RowsOf(c)' = RowsOf(c)
    BY <1>2, <1>3, <1>4, <1>6
  <2> QED
    BY <1>2, <2>1, <2>2, <2>3, NoNewRoleOf
<1>7. ASSUME d \notin convlog PROVE Books'
  <2>1. /\ convlog' = convlog \cup {d} /\ OthersStay(r)
        /\ loc'[r].pc = "cap" /\ loc'[r].kind = "pixel" /\ loc'[r].conv = {d}
    BY <1>0, <1>1, <1>d, <1>7, GotoIs DEF Payout
  <2>2. \A c \in Conversions :
          ~ Holds(r, c)' /\ ~ Tells(r, c)' /\ (Pays(r, c)' <=> c = d)
    BY <2>1 DEF Holds, Tells, Pays, NotifyPoints
  <2>3. raw[d]["in_site"] = 0 /\ raw'[d]["in_site"] = 1 /\ \A q \in Requests : ~ Pays(q, d)
    BY <1>4, <1>7 DEF Books, Ledger, Roles, Role
  <2>4. Roles'
    <3> SUFFICES ASSUME NEW q \in Requests, NEW c \in Conversions PROVE Role(q, c)'
      BY DEF Roles
    <3>1. Role(q, c)
      BY DEF Books, Roles
    <3>2. CASE q = r
      BY <2>1, <2>2, <3>2 DEF Role
    <3>3. CASE q # r
      BY <1>2, <1>4, <1>5, <2>1, <3>1, <3>3, OthersRoles DEF Role
    <3> QED
      BY <3>2, <3>3
  <2>5. Alone'
    <3> SUFFICES ASSUME NEW q \in Requests, NEW p \in Requests, NEW c \in Conversions,
                        \/ Holds(q, c)' /\ Holds(p, c)'
                        \/ Tells(q, c)' /\ Tells(p, c)'
                        \/ Pays(q, c)' /\ Pays(p, c)'
                 PROVE  q = p
      BY DEF Alone
    <3>1. CASE q # r /\ p # r
      BY <2>1, <3>1, OthersRoles DEF Books, Alone
    <3>2. CASE q = r \/ p = r
      BY <2>1, <2>2, <2>3, <3>2, OthersRoles
    <3> QED
      BY <3>1, <3>2
  <2>6. Ledger'
    <3> SUFFICES ASSUME NEW c \in Conversions
                 PROVE  /\ Staged(c)' \in {0, 1}
                        /\ c \notin log' => Staged(c)' = 0
                        /\ Staged(c)' = 1 /\ tracking' = "browser_side_pixel" => c \in unnamed'
                        /\ raw'[c]["in_site"] = IF c \in convlog' THEN 1 ELSE 0
                        /\ c \in convlog' => tracking' = "browser_side_pixel"
      BY DEF Ledger
    <3> QED
      BY <1>1, <1>2, <1>4, <1>5, <2>1, <2>3 DEF Books, Ledger
  <2>7. Told'
    <3> SUFFICES ASSUME NEW c \in Conversions
                 PROVE  (fired[c] + Due(c) <= raw[c]["s2s_postback"] + raw[c]["in_site"])'
      BY DEF Told
    <3>1. /\ fired[c] + Due(c) <= raw[c]["s2s_postback"] + raw[c]["in_site"]
          /\ fired[c] \in Nat
          /\ raw[c]["s2s_postback"] \in Nat /\ raw[c]["in_site"] \in Nat
      BY Sums DEF Books, Told
    <3>2. ASSUME NEW q \in Requests
          PROVE  (Tells(q, c)' => Tells(q, c)) /\ (Pays(q, c)' => Pays(q, c) \/ c = d)
      <4>1. CASE q = r
        BY <2>2, <4>1
      <4>2. CASE q # r
        BY <2>1, <4>2, OthersRoles
      <4> QED
        BY <4>1, <4>2
    <3>3. /\ Due(c)' \in Nat /\ Due(c) \in Nat
          /\ Due(c)' <= Due(c) + (IF c = d THEN 1 ELSE 0)
      <4>1. CASE c = d
        BY <2>3, <3>2, <4>1 DEF Due
      <4>2. CASE c # d
        BY <3>2, <4>2 DEF Due
      <4> QED
        BY <4>1, <4>2
    <3>4. raw'[c]["in_site"] = raw[c]["in_site"] + (IF c = d THEN 1 ELSE 0)
      BY <1>4, <2>3, <3>1
    <3> QED
      BY <1>2, <1>4, <3>1, <3>3, <3>4
  <2> QED
    BY <2>4, <2>5, <2>6, <2>7 DEF Books
<1> QED
  BY <1>6, <1>7

(* The notification is sent by the one that was about to.                  *)
LEMMA FireBooks ==
  ASSUME TypeOK, AllSane, Books, NEW r \in Requests, Fire(r)
  PROVE  Books'
<1>d. PICK d \in Conversions : d = Conv(r)
  BY ConvIs DEF Fire, At, NotifyPoints
<1>0. LocType
  BY DEF TypeOK, LocType, Locals, Kinds, Points
<1>1. Tells(r, d) \/ Pays(r, d)
  BY <1>d, ConvIs DEF Fire, At, AllSane, Sane, NotifyPoints, Tells, Pays
<1>2. /\ UNCHANGED <<tracking, log, convlog, raw, unmatched, unnamed>>
      /\ fired' = [fired EXCEPT ![d] = @ + 1]
  BY <1>d DEF Fire, tables
<1>3. OthersStay(r) /\ loc'[r].pc \in {"answer", "idle"}
  BY <1>0, GotoIs, ExitIs DEF Fire, Finish, Idle
<1>4. \A c \in Conversions : ~ Holds(r, c)' /\ ~ Tells(r, c)' /\ ~ Pays(r, c)'
  BY <1>3 DEF Holds, Tells, Pays, NotifyPoints
<1>5. \A c \in Conversions : Staged(c)' = Staged(c)
  BY <1>2 DEF RowsOf, Queued, Staged
<1>6. ASSUME NEW q \in Requests, NEW c \in Conversions
      PROVE  /\ Holds(q, c)' => Holds(q, c)
             /\ Tells(q, c)' => Tells(q, c) /\ q # r
             /\ Pays(q, c)' => Pays(q, c) /\ q # r
  <2>1. CASE q = r
    BY <1>4, <2>1
  <2>2. CASE q # r
    BY <1>3, <2>2, OthersRoles
  <2> QED
    BY <2>1, <2>2
<1>7. Roles'
  BY <1>2, <1>5, <1>6 DEF Books, Roles, Role
<1>8. Alone'
  BY <1>6 DEF Books, Alone
<1>9. Ledger'
  BY <1>2, <1>5 DEF Books, Ledger
<1>10. Told'
  <2> SUFFICES ASSUME NEW c \in Conversions
               PROVE  (fired[c] + Due(c) <= raw[c]["s2s_postback"] + raw[c]["in_site"])'
    BY DEF Told
  <2>1. /\ fired[c] + Due(c) <= raw[c]["s2s_postback"] + raw[c]["in_site"]
        /\ fired[c] \in Nat
        /\ raw[c]["s2s_postback"] \in Nat /\ raw[c]["in_site"] \in Nat
    BY Sums DEF Books, Told
  <2>2. fired'[c] = fired[c] + (IF c = d THEN 1 ELSE 0)
    BY <1>2, <2>1 DEF TypeOK
  <2>3. /\ Due(c)' \in Nat /\ Due(c) \in Nat
        /\ Due(c)' + (IF c = d THEN 1 ELSE 0) <= Due(c)
    <3>1. CASE c = d /\ Tells(r, d)
      <4>1. ~ \E q \in Requests : Tells(q, c)'
        BY <1>6, <3>1 DEF Books, Alone
      <4> QED
        BY <1>6, <3>1, <4>1 DEF Due
    <3>2. CASE c = d /\ Pays(r, d)
      <4>1. ~ \E q \in Requests : Pays(q, c)'
        BY <1>6, <3>2 DEF Books, Alone
      <4> QED
        BY <1>6, <3>2, <4>1 DEF Due
    <3>3. CASE c # d
      BY <1>6, <3>3 DEF Due
    <3> QED
      BY <1>1, <3>1, <3>2, <3>3
  <2> QED
    BY <1>2, <2>1, <2>2, <2>3
<1> QED
  BY <1>7, <1>8, <1>9, <1>10 DEF Books

-----------------------------------------------------------------------------
(* The invariant                                                           *)

LEMMA BooksStep == TypeOK /\ AllSane /\ Books /\ [Next]_vars => Books'
<1> SUFFICES ASSUME TypeOK, AllSane, Books, [Next]_vars PROVE Books'
  OBVIOUS
<1>1. ASSUME UNCHANGED <<tracking, tables, fired, unnamed, loc>> PROVE Books'
  <2>1. \A q \in Requests, c \in Conversions :
          (Holds(q, c)' => Holds(q, c)) /\ (Tells(q, c)' => Tells(q, c))
            /\ (Pays(q, c)' => Pays(q, c))
    BY <1>1 DEF Holds, Tells, Pays
  <2>2. \A c \in Conversions : RowsOf(c)' = RowsOf(c)
    BY <1>1 DEF RowsOf, Queued, tables
  <2>3. /\ tracking' = tracking /\ log \subseteq log' /\ convlog' = convlog /\ fired' = fired
        /\ unnamed \subseteq unnamed' /\ raw' = raw
    BY <1>1 DEF tables
  <2> QED
    BY <2>1, <2>2, <2>3, NoNewRole
<1>2. CASE UNCHANGED vars
  BY <1>1, <1>2 DEF vars, histories
<1>3. ASSUME NEW c \in Conversions, Land(c) \/ Expire(c) PROVE Books'
  BY <1>1, <1>3 DEF Land, Expire, histories
<1> QED
  BY <1>2, <1>3, NextCases, MovesOn, SweepBooks, RecordLogBooks, UndoBooks, StageBooks,
     PayoutBooks, FireBooks

THEOREM Inductive == Spec => []IInv
<1>1. IInv /\ [Next]_vars => IInv'
  BY TypeStep, SaneStep, BooksStep DEF IInv
<1> QED
  BY InitOK, <1>1, PTL DEF Spec

-----------------------------------------------------------------------------
(* The cap                                                                 *)

(* A pixel that has booked its row and not yet counted it.                 *)
Owed == {r \in Requests : At(r, "cap")}

(* CapNeverAhead alone is not inductive: each pixel on its way to the cap  *)
(* must have a row of its own, besides the rows that were counted.         *)
CapInv == cap + Cardinality(Owed) <= Cardinality(convlog)

LEMMA Finiteness ==
  ASSUME TypeOK
  PROVE  /\ IsFiniteSet(Owed) /\ Cardinality(Owed) \in Nat
         /\ IsFiniteSet(convlog) /\ Cardinality(convlog) \in Nat
         /\ cap \in Nat
<1>1. IsFiniteSet(Owed) /\ IsFiniteSet(convlog)
  BY ParametersAssumption, FS_Subset DEF Owed, TypeOK
<1> QED
  BY <1>1, FS_CardinalityType DEF TypeOK

(* Who neither books nor counts may only leave without counting.           *)
LEMMA CapForgets ==
  ASSUME TypeOK, CapInv, UNCHANGED <<cap, convlog>>, Owed' \subseteq Owed
  PROVE  CapInv'
<1>1. Cardinality(Owed') <= Cardinality(Owed) /\ Cardinality(Owed') \in Nat
  BY Finiteness, FS_Subset, FS_CardinalityType
<1> QED
  BY <1>1, Finiteness DEF CapInv

(* A step of r that leaves cap and log alone, and does not begin to count. *)
LEMMA CapAside ==
  ASSUME TypeOK, CapInv, NEW r \in Requests, OthersStay(r), UNCHANGED <<cap, convlog>>,
         loc'[r].pc # "cap"
  PROVE  CapInv'
<1>1. Owed' \subseteq Owed
  BY DEF Owed, At, OthersStay
<1> QED
  BY <1>1, CapForgets

(* recordInSitePayout: one row more pays for one invocation more.          *)
LEMMA PayoutCap ==
  ASSUME TypeOK, AllSane, CapInv, NEW r \in Requests, Payout(r)
  PROVE  CapInv'
<1>0. LocType /\ Conv(r) \in Conversions
  BY ConvIs DEF TypeOK, LocType, Locals, Points, Kinds, Payout, At, PixelPoints
<1>1. cap' = cap /\ convlog' = convlog \cup {Conv(r)}
  BY DEF Payout
<1>2. CASE Conv(r) \in convlog
  <2>1. convlog' = convlog
    BY <1>1, <1>2
  <2>2. OthersStay(r) /\ loc'[r].pc # "cap"
    BY <1>0, <1>2, ExitIs DEF Payout, Idle
  <2> QED
    BY <1>1, <2>1, <2>2, CapAside
<1>3. CASE Conv(r) \notin convlog
  <2>1. OthersStay(r)
    BY <1>0, <1>3, GotoIs DEF Payout
  <2>2. Owed' \subseteq Owed \cup {r}
    BY <2>1 DEF Owed, At, OthersStay
  <2>3. /\ IsFiniteSet(Owed \cup {r})
        /\ Cardinality(Owed \cup {r}) =
             IF r \in Owed THEN Cardinality(Owed) ELSE Cardinality(Owed) + 1
    BY Finiteness, FS_AddElement
  <2>4. Cardinality(Owed') <= Cardinality(Owed \cup {r}) /\ Cardinality(Owed') \in Nat
    BY <2>2, <2>3, FS_Subset, FS_CardinalityType
  <2>5. Cardinality(convlog') = Cardinality(convlog) + 1
    BY <1>1, <1>3, Finiteness, FS_AddElement
  <2> QED
    BY <1>1, <2>3, <2>4, <2>5, Finiteness DEF CapInv
<1> QED
  BY <1>2, <1>3

(* incrementCap: who has counted owes nothing any more.                    *)
LEMMA BumpCap ==
  ASSUME TypeOK, CapInv, NEW r \in Requests, CapBump(r)
  PROVE  CapInv'
<1>0. LocType
  BY DEF TypeOK, LocType, Locals, Points, Kinds
<1>1. /\ cap' = cap + 1 /\ convlog' = convlog /\ r \in Owed
      /\ OthersStay(r) /\ loc'[r].pc = "context"
  BY <1>0, GotoIs DEF CapBump, Owed
<1>2. Owed' = Owed \ {r}
  BY <1>1 DEF Owed, At, OthersStay
<1>3. Cardinality(Owed') = Cardinality(Owed) - 1
  BY <1>1, <1>2, Finiteness, FS_RemoveElement
<1> QED
  BY <1>1, <1>3, Finiteness DEF CapInv

LEMMA CapStep == IInv /\ CapInv /\ [Next]_vars => CapInv'
<1> SUFFICES ASSUME IInv, CapInv, [Next]_vars PROVE CapInv'
  OBVIOUS
<1>0. TypeOK /\ AllSane /\ LocType
  BY DEF IInv, TypeOK, LocType, Locals, Points, Kinds
<1>1. CASE UNCHANGED vars
  BY <1>0, <1>1, CapForgets DEF vars, tables, Owed, At
<1>2. ASSUME NEW c \in Conversions, Land(c) \/ Expire(c) PROVE CapInv'
  BY <1>0, <1>2, CapForgets DEF Land, Expire, tables, Owed, At
<1>3. ASSUME NEW r \in Requests, Post(r) \/ Pixel(r) PROVE CapInv'
  <2>1. OthersStay(r) /\ loc'[r].pc # "cap"
    <3>1. CASE Post(r)
      <4>1. PICK c \in Conversions, named \in BOOLEAN :
               loc' = [loc EXCEPT ![r] = [pc |-> "log", kind |-> "postback",
                                          conv |-> {c}, named |-> named]]
        BY <3>1 DEF Post
      <4> QED
        BY <1>0, <4>1 DEF LocType, OthersStay
    <3>2. CASE Pixel(r)
      <4>1. PICK c \in Conversions :
               loc' = [loc EXCEPT ![r] = [pc |-> "payout", kind |-> "pixel",
                                          conv |-> {c}, named |-> TRUE]]
        BY <3>2 DEF Pixel
      <4> QED
        BY <1>0, <4>1 DEF LocType, OthersStay
    <3> QED
      BY <1>3, <3>1, <3>2
  <2> QED
    BY <1>0, <1>3, <2>1, CapAside DEF Post, Pixel, tables
<1>4. ASSUME NEW r \in Requests,
             \/ RecordLog(r) \/ Match(r) \/ Book(r) \/ Queue(r) \/ Undo(r) \/ Answer(r)
             \/ Context(r) \/ Seen(r) \/ Mark(r) \/ Fire(r)
             \/ Throw(r) \/ PixelThrow(r) \/ KvThrow(r) \/ Evict(r)
             \/ Age(r) \/ Promote(r)
      PROVE  CapInv'
  <2>1. UNCHANGED <<cap, convlog>>
    BY <1>4 DEF RecordLog, Match, Book, Queue, Undo, Answer, Context, Seen, Mark, Fire,
                Throw, PixelThrow, KvThrow, Evict, Age, Promote, tables
  <2>2. Exit(r) \/ \E p \in Points \ {"cap"} : Goto(r, p)
    <3> USE DEF Points, PostbackPoints, PixelPoints, NotifyPoints, SweepPoints
    <3>1. CASE RecordLog(r)
      BY <3>1 DEF RecordLog
    <3>2. CASE Match(r) \/ Book(r) \/ Queue(r) \/ Undo(r) \/ Answer(r) \/ Context(r)
      BY <3>2 DEF Match, Book, Queue, Undo, Answer, Context
    <3>3. CASE Seen(r) \/ Mark(r) \/ Fire(r)
      BY <3>3 DEF Seen, Mark, Fire, Finish
    <3>4. CASE Throw(r) \/ PixelThrow(r) \/ KvThrow(r) \/ Evict(r) \/ Age(r) \/ Promote(r)
      BY <3>4 DEF Throw, PixelThrow, KvThrow, Evict, Age, Promote
    <3> QED
      BY <1>4, <3>1, <3>2, <3>3, <3>4
  <2>3. OthersStay(r) /\ loc'[r].pc # "cap"
    BY <1>0, <2>2, GotoIs, ExitIs DEF Idle
  <2> QED
    BY <1>0, <2>1, <2>3, CapAside
<1>5. ASSUME NEW r \in Requests, Sweep(r) \/ Select(r) \/ Lookup(r) PROVE CapInv'
  <2>1. UNCHANGED <<cap, convlog>>
    BY <1>5 DEF Sweep, Select, Lookup, tables
  <2>2. OthersStay(r) /\ loc'[r].pc # "cap"
    BY <1>0, <1>5 DEF Sweep, Select, Lookup, Exit, Idle, LocType, Locals, OthersStay
  <2> QED
    BY <1>0, <2>1, <2>2, CapAside
<1> QED
  BY <1>0, <1>1, <1>2, <1>3, <1>4, <1>5, PayoutCap, BumpCap, NextCases

LEMMA CapInit == Init => CapInv
<1> SUFFICES ASSUME Init PROVE CapInv
  OBVIOUS
<1>1. Owed = {} /\ cap = 0 /\ convlog = {}
  BY DEF Init, Owed, At, Idle
<1> QED
  BY <1>1, FS_EmptySet DEF CapInv

-----------------------------------------------------------------------------
(* The refinement of RevenueLedger                                         *)

LEMMA SameCardinality == ASSUME NEW S PROVE Account!Cardinality(S) = Cardinality(S)
BY DEF Account!Cardinality, Cardinality

(* Book puts a row where its request had none, Queue leaves one to wait.   *)
LEMMA RowsAreStaged ==
  ASSUME TypeOK, NEW r \in Requests, Book(r) \/ Queue(r), NEW d \in Conversions,
         d = Conv(r), Staged(d) = 0
  PROVE  /\ \A c \in Conversions : raw'[c]["in_site"] = raw[c]["in_site"]
         /\ \A c \in Conversions \ {d} : Staged(c)' = Staged(c)
         /\ Staged(d)' = 1
<1>1. /\ raw \in [Conversions -> [Sources -> Nat]]
      /\ unmatched \in [Conversions -> [Statuses -> Nat]]
  BY DEF TypeOK
<1>2. /\ raw[d]["s2s_postback"] = 0 /\ RowsOf(d) = 0
      /\ RowsOf(d) = unmatched[d]["pending"] + unmatched[d]["matched"]
                       + unmatched[d]["unattributed"]
      /\ unmatched[d]["pending"] \in Nat /\ unmatched[d]["matched"] \in Nat
      /\ unmatched[d]["unattributed"] \in Nat
  BY <1>1, Sums DEF Statuses, RowsOf, Queued
<1>3. CASE Book(r)
  <2>1. raw' = [raw EXCEPT ![d] = [raw[d] EXCEPT !["s2s_postback"] = raw[d]["s2s_postback"] + 1]]
        /\ unmatched' = unmatched
    BY <1>3 DEF Book
  <2>2. \A c \in Conversions :
          raw'[c] = IF c = d THEN [raw[d] EXCEPT !["s2s_postback"] = raw[d]["s2s_postback"] + 1]
                             ELSE raw[c]
    BY <1>1, <2>1
  <2>3. raw[d] \in [Sources -> Nat]
    BY <1>1
  <2>4. raw'[d]["s2s_postback"] = 1 /\ raw'[d]["in_site"] = raw[d]["in_site"]
    BY <1>2, <2>2, <2>3 DEF Sources
  <2>5. \A c \in Conversions : RowsOf(c)' = RowsOf(c)
    BY <2>1 DEF RowsOf, Queued
  <2> QED
    BY <1>2, <2>2, <2>4, <2>5 DEF Staged
<1>4. CASE Queue(r)
  <2>1. raw' = raw
        /\ unmatched' = [unmatched EXCEPT ![d] =
                           [unmatched[d] EXCEPT !["pending"] = unmatched[d]["pending"] + 1]]
    BY <1>4 DEF Queue
  <2>2. \A c \in Conversions :
          unmatched'[c] =
            IF c = d THEN [unmatched[d] EXCEPT !["pending"] = unmatched[d]["pending"] + 1]
                     ELSE unmatched[c]
    BY <1>1, <2>1
  <2>3. unmatched[d] \in [Statuses -> Nat]
    BY <1>1
  <2>4. /\ unmatched'[d]["pending"] = unmatched[d]["pending"] + 1
        /\ unmatched'[d]["matched"] = unmatched[d]["matched"]
        /\ unmatched'[d]["unattributed"] = unmatched[d]["unattributed"]
    BY <2>2, <2>3 DEF Statuses
  <2>5. RowsOf(d)' = 1
    <3>1. RowsOf(d)' = unmatched'[d]["pending"] + unmatched'[d]["matched"]
                         + unmatched'[d]["unattributed"]
      BY DEF RowsOf, Queued
    <3>2. unmatched[d]["pending"] = 0 /\ unmatched[d]["matched"] = 0
          /\ unmatched[d]["unattributed"] = 0
      BY <1>2
    <3> QED
      BY <2>4, <3>1, <3>2
  <2>6. \A c \in Conversions \ {d} : RowsOf(c)' = RowsOf(c)
    BY <2>2 DEF RowsOf, Queued
  <2> QED
    BY <1>2, <2>1, <2>5, <2>6 DEF Staged
<1> QED
  BY <1>3, <1>4

(* One row more on the books.                                              *)
LEMMA OneMore ==
  ASSUME NEW d \in Conversions, NEW s \in Sources, cap' = cap, <<d, s>> \notin Booked,
         <<d, s>> \in Booked',
         \A c \in Conversions, t \in Sources :
           <<c, t>> # <<d, s>> => (<<c, t>> \in Booked' <=> <<c, t>> \in Booked)
  PROVE  \E row \in Conversions \X Sources : Account!Book(row)
<1>1. Booked' = Booked \cup {<<d, s>>}
  <2>1. Booked \subseteq Conversions \X Sources /\ Booked' \subseteq Conversions \X Sources
    BY DEF Booked
  <2> QED
    BY <2>1
<1> QED
  BY <1>1 DEF Account!Book

LEMMA NoneMore ==
  ASSUME \A c \in Conversions :
           Staged(c)' = Staged(c) /\ raw'[c]["in_site"] = raw[c]["in_site"]
  PROVE  Booked' = Booked
<1>1. ASSUME NEW c \in Conversions, NEW s \in Sources
      PROVE  <<c, s>> \in Booked' <=> <<c, s>> \in Booked
  BY <1>1 DEF Booked
<1>2. Booked \subseteq Conversions \X Sources /\ Booked' \subseteq Conversions \X Sources
  BY DEF Booked
<1> QED
  BY <1>1, <1>2

LEMMA AccountInit == Init => Account!Init
<1> SUFFICES ASSUME Init PROVE Account!Init
  OBVIOUS
<1>1. \A c \in Conversions : Staged(c) = 0 /\ raw[c]["in_site"] = 0
  BY DEF Init, Staged, RowsOf, Queued, Statuses, Sources
<1>2. Booked = {}
  BY <1>1 DEF Booked
<1> QED
  BY <1>2 DEF Init, Account!Init

(* A postback's row, at once or queued: its request holds the conversion,  *)
(* so there was none.                                                      *)
LEMMA PostbackIsBooked ==
  ASSUME IInv, NEW r \in Requests, Book(r) \/ Queue(r)
  PROVE  Account!Next
<1>d. PICK d \in Conversions : d = Conv(r)
  BY ConvIs DEF IInv, Book, Queue, At, PostbackPoints
<1>1. TypeOK /\ Holds(r, d)
  BY <1>d, ConvIs DEF IInv, Book, Queue, At, Holds, PostbackPoints
<1>2. Staged(d) = 0
  BY <1>1 DEF IInv, Books, Roles, Role
<1>3. /\ \A c \in Conversions : raw'[c]["in_site"] = raw[c]["in_site"]
      /\ \A c \in Conversions \ {d} : Staged(c)' = Staged(c)
      /\ Staged(d)' = 1
  BY <1>d, <1>1, <1>2, RowsAreStaged
<1>4. <<d, "s2s_postback">> \notin Booked /\ <<d, "s2s_postback">> \in Booked'
  BY <1>2, <1>3 DEF Booked, Sources
<1>5. ASSUME NEW c \in Conversions, NEW t \in Sources, <<c, t>> # <<d, "s2s_postback">>
      PROVE  <<c, t>> \in Booked' <=> <<c, t>> \in Booked
  <2>1. CASE t = "s2s_postback"
    BY <1>3, <1>5, <2>1 DEF Booked
  <2>2. CASE t = "in_site"
    BY <1>3, <2>2 DEF Booked
  <2> QED
    BY <2>1, <2>2 DEF Sources
<1>6. cap' = cap
  BY DEF Book, Queue
<1>7. "s2s_postback" \in Sources
  BY DEF Sources
<1> QED
  BY <1>4, <1>5, <1>6, <1>7, OneMore DEF Account!Next

(* The pixel's row, unless the conversion is logged.                       *)
LEMMA PixelIsBooked ==
  ASSUME IInv, NEW r \in Requests, Payout(r)
  PROVE  [Account!Next]_(Account!vars)
<1>d. PICK d \in Conversions : d = Conv(r)
  BY ConvIs DEF IInv, Payout, At, PixelPoints
<1>1. /\ raw \in [Conversions -> [Sources -> Nat]]
      /\ raw[d]["in_site"] = IF d \in convlog THEN 1 ELSE 0
  BY DEF IInv, TypeOK, Books, Ledger
<1>2. /\ cap' = cap /\ unmatched' = unmatched
      /\ raw' = [raw EXCEPT ![d]["in_site"] = IF d \notin convlog THEN @ + 1 ELSE @]
  BY <1>d DEF Payout
<1>3. \A c \in Conversions : RowsOf(c)' = RowsOf(c)
  BY <1>2 DEF RowsOf, Queued
<1>4. /\ \A c \in Conversions : raw'[c]["s2s_postback"] = raw[c]["s2s_postback"]
      /\ \A c \in Conversions \ {d} : raw'[c]["in_site"] = raw[c]["in_site"]
      /\ raw'[d]["in_site"] = 1
  BY <1>1, <1>2 DEF Sources
<1>5. \A c \in Conversions : Staged(c)' = Staged(c)
  BY <1>3, <1>4 DEF Staged
<1>6. CASE d \in convlog
  <2>1. Booked' = Booked
    BY <1>1, <1>4, <1>5, <1>6, NoneMore
  <2> QED
    BY <1>2, <2>1 DEF Account!vars
<1>7. CASE d \notin convlog
  <2>1. <<d, "in_site">> \notin Booked /\ <<d, "in_site">> \in Booked'
    BY <1>1, <1>4, <1>7 DEF Booked, Sources
  <2>2. ASSUME NEW c \in Conversions, NEW t \in Sources, <<c, t>> # <<d, "in_site">>
        PROVE  <<c, t>> \in Booked' <=> <<c, t>> \in Booked
    <3>1. CASE t = "s2s_postback"
      BY <1>5, <3>1 DEF Booked
    <3>2. CASE t = "in_site"
      BY <1>4, <2>2, <3>2 DEF Booked
    <3> QED
      BY <3>1, <3>2 DEF Sources
  <2>3. "in_site" \in Sources
    BY DEF Sources
  <2> QED
    BY <1>2, <2>1, <2>2, <2>3, OneMore DEF Account!Next
<1> QED
  BY <1>6, <1>7

(* incrementCap counts a pixel's row that was not counted yet.             *)
LEMMA PixelIsCounted ==
  ASSUME IInv, CapInv, NEW r \in Requests, CapBump(r)
  PROVE  Account!Count
<1>1. /\ r \in Owed /\ cap' = cap + 1 /\ UNCHANGED <<raw, unmatched>> /\ TypeOK
  BY DEF CapBump, Owed, IInv
<1>2. Booked' = Booked
  BY <1>1 DEF Booked, Staged, RowsOf, Queued
<1>3. Cardinality(Owed) # 0
  BY <1>1, Finiteness, FS_EmptySet
<1>4. cap < Cardinality(convlog)
  <2>1. cap + Cardinality(Owed) <= Cardinality(convlog)
    BY DEF CapInv
  <2> QED
    BY <1>1, <1>3, <2>1, Finiteness
<1>5. Booked \cap (Conversions \X {"in_site"}) = convlog \X {"in_site"}
  <2>1. \A c \in Conversions :
          raw[c]["in_site"] = (IF c \in convlog THEN 1 ELSE 0) /\ "in_site" # "s2s_postback"
    BY DEF IInv, Books, Ledger
  <2>2. \A c \in Conversions : <<c, "in_site">> \in Booked <=> c \in convlog
    BY <2>1 DEF Booked, Sources
  <2>3. convlog \subseteq Conversions
    BY <1>1 DEF TypeOK
  <2> QED
    BY <2>2, <2>3
<1>6. Cardinality(convlog \X {"in_site"}) = Cardinality(convlog)
  <2>1. IsFiniteSet({"in_site"}) /\ Cardinality({"in_site"}) = 1
    BY FS_Singleton
  <2>2. Cardinality(convlog \X {"in_site"}) = Cardinality(convlog) * Cardinality({"in_site"})
    BY <1>1, <2>1, Finiteness, FS_Product
  <2> QED
    BY <1>1, <2>1, <2>2, Finiteness
<1>7. cap < Account!Cardinality(Booked \cap (Conversions \X {"in_site"}))
  BY <1>4, <1>5, <1>6, SameCardinality
<1> QED
  BY <1>1, <1>2, <1>7 DEF Account!Count

LEMMA AccountStep == IInv /\ CapInv /\ [Next]_vars => [Account!Next]_(Account!vars)
<1> SUFFICES ASSUME IInv, CapInv, [Next]_vars PROVE [Account!Next]_(Account!vars)
  OBVIOUS
<1>0. TypeOK
  BY DEF IInv
<1>1. ASSUME UNCHANGED <<cap, raw, unmatched>> PROVE [Account!Next]_(Account!vars)
  BY <1>1 DEF Account!vars, Booked, Staged, RowsOf, Queued
<1>2. CASE UNCHANGED vars
  BY <1>1, <1>2 DEF vars, tables
<1>3. ASSUME NEW c \in Conversions, Land(c) \/ Expire(c) PROVE [Account!Next]_(Account!vars)
  BY <1>1, <1>3 DEF Land, Expire, tables
<1>4. ASSUME NEW r \in Requests,
             \/ Post(r) \/ Pixel(r) \/ Sweep(r)
             \/ RecordLog(r) \/ Match(r) \/ Undo(r) \/ Answer(r) \/ Context(r)
             \/ Seen(r) \/ Mark(r) \/ Fire(r) \/ Select(r) \/ Lookup(r)
             \/ Throw(r) \/ PixelThrow(r) \/ KvThrow(r) \/ Evict(r)
      PROVE  [Account!Next]_(Account!vars)
  BY <1>1, <1>4
     DEF Post, Pixel, Sweep, RecordLog, Match, Undo, Answer, Context, Seen, Mark, Fire,
         Select, Lookup, Throw, PixelThrow, KvThrow, Evict, tables
<1>5. ASSUME NEW r \in Requests, Age(r) \/ Promote(r) PROVE [Account!Next]_(Account!vars)
  <2>1. UNCHANGED <<cap, raw>>
    BY <1>5 DEF Age, Promote
  <2>2. \A c \in Conversions :
          Staged(c)' = Staged(c) /\ raw'[c]["in_site"] = raw[c]["in_site"]
    BY <1>0, <1>5, <2>1, RowsAreMoved DEF Staged
  <2> QED
    BY <2>1, <2>2, NoneMore DEF Account!vars
<1> QED
  BY <1>2, <1>3, <1>4, <1>5, NextCases, PostbackIsBooked, PixelIsBooked, PixelIsCounted
     DEF Account!Next

-----------------------------------------------------------------------------
(* What follows                                                            *)

(* Every state of the intake is well typed.                                *)
THEOREM TypeCorrect == Spec => []TypeOK
<1>1. IInv => TypeOK
  BY DEF IInv
<1> QED
  BY <1>1, Inductive, PTL

(* ingestProviderPostback and ingestBrowserPixel: a conversion is staged   *)
(* once per channel, and once over both when its postbacks name the offer, *)
(* although the catch takes the dedup row back for the provider's retry.   *)
THEOREM MoneyIsStagedOnce == Spec => []BookedOnce
<1>1. IInv => BookedOnce
  <2> SUFFICES ASSUME IInv, NEW c \in Conversions
               PROVE  /\ Staged(c) <= 1
                      /\ raw[c]["in_site"] <= 1
                      /\ c \notin unnamed => Staged(c) + raw[c]["in_site"] <= 1
    BY DEF BookedOnce
  <2>1. /\ Staged(c) \in {0, 1} /\ raw[c]["in_site"] \in {0, 1}
        /\ Staged(c) = 1 /\ tracking = "browser_side_pixel" => c \in unnamed
        /\ raw[c]["in_site"] = 1 => tracking = "browser_side_pixel"
    BY DEF IInv, Books, Ledger
  <2> QED
    BY <2>1
<1> QED
  BY <1>1, Inductive, PTL

(* recordPostbackLog: the request whose INSERT OR IGNORE took is the only  *)
(* one that may stage the conversion or take the row back.                 *)
THEOREM HolderIsAlone == Spec => []OneHolder
<1>1. IInv => OneHolder
  BY DEF IInv, Books, Roles, Role, Alone, OneHolder
<1> QED
  BY <1>1, Inductive, PTL

(* dispatchMatchedConversionS2S: at most one notification for each row of  *)
(* revenue, whatever the KV keys say, and none for a queued conversion.    *)
THEOREM NotifiedPerRow == Spec => []FiredPerRow
<1>1. IInv => FiredPerRow
  <2> SUFFICES ASSUME IInv, NEW c \in Conversions
               PROVE  fired[c] <= raw[c]["s2s_postback"] + raw[c]["in_site"]
    BY DEF FiredPerRow
  <2>1. Due(c) \in Nat
    BY DEF Due
  <2>2. /\ fired[c] + Due(c) <= raw[c]["s2s_postback"] + raw[c]["in_site"]
        /\ fired[c] \in Nat
        /\ raw[c]["s2s_postback"] \in Nat /\ raw[c]["in_site"] \in Nat
    BY Sums DEF IInv, Books, Told
  <2> QED
    BY <2>1, <2>2
<1> QED
  BY <1>1, Inductive, PTL

(* CapNeverAhead, incrementCap: the Offer's conversion count never passes  *)
(* the conversions that were booked, however pixels overlap or replay.     *)
THEOREM CapIsEarned == Spec => []CapNeverAhead
<1>1. IInv /\ CapInv => CapNeverAhead
  <2> SUFFICES ASSUME IInv, CapInv PROVE CapNeverAhead
    OBVIOUS
  <2>1. convlog = Paid
    BY DEF IInv, Books, Ledger, TypeOK, Paid
  <2>2. /\ Cardinality(Owed) \in Nat /\ Cardinality(convlog) \in Nat
        /\ cap \in Nat
    BY Finiteness DEF IInv
  <2> QED
    BY <2>1, <2>2 DEF CapInv, CapNeverAhead
<1> QED
  BY <1>1, CapInit, CapStep, Inductive, PTL DEF Spec

(* The intake of a LeadGen conversion, with its retries, the dedup row     *)
(* that is taken back, the queue of unmatched postbacks and their re-match *)
(* (ingestProviderPostback, ingestBrowserPixel, reMatchUnmatchedSweep),    *)
(* implements RevenueLedger: a row is booked once and is never lost, and   *)
(* each pixel's row counts for the cap at most once.                       *)
THEOREM IntakeImplementsLedger == Spec => LedgerSpec
<1>1. Spec => [](IInv /\ CapInv)
  BY CapInit, CapStep, Inductive, PTL DEF Spec
<1> QED
  BY <1>1, AccountInit, AccountStep, PTL DEF Spec, LedgerSpec, Account!Spec
=============================================================================
