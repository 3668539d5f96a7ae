------------------------ MODULE ProvisionUnits_proofs ------------------------
(***************************************************************************)
(* Proofs about ProvisionUnits, for any number of units, drivers,          *)
(* consumers, copies and losses: types, that a settled unit stays settled, *)
(* that nothing outruns its article, that a text is tried often enough;    *)
(* and, for one driver at a time, the barrier between the text and the     *)
(* image stage, that at most one copy of a unit's message is about, that a *)
(* finished text stays finished, and the barrier behind the image stage.   *)
(***************************************************************************)
EXTENDS ProvisionUnits, WellFoundedInduction, TLAPS

-----------------------------------------------------------------------------
(* The step relation and its helpers                                       *)

LEMMA NextCases ==
  ASSUME Next
  PROVE  \/ \E d \in Drivers :
              \/ Start(d) \/ Count(d) \/ Insert(d) \/ Reclaim(d) \/ Select(d) \/ Send(d)
              \/ MarkQueued(d) \/ Remain(d) \/ Pick(d) \/ More(d) \/ Write(d) \/ Crash(d)
         \/ \E w \in Workers : Throw(w) \/ TextLands(w) \/ TextDone(w) \/ ImageDone(w)
         \/ \E c \in Consumers : Deliver(c) \/ ReadUnit(c) \/ Ack(c) \/ Retry(c) \/ Evict(c)
         \/ \E u \in Units : Lost(u) \/ Early(u)
BY DEF Next, Step, Generate, Consume

Below == {pair \in Nat \X Nat : pair[1] < pair[2]}

LEMMA BelowIsWellFounded == IsWellFoundedOn(Below, Nat)
BY NatLessThanWellFounded DEF OpToRel, Below

(* A set of units that is not empty has a least one.                       *)
LEMMA LeastUnit ==
  ASSUME NEW us \in SUBSET Units, us # {}
  PROVE  Min(us) \in us
<1>1. us \subseteq Nat
  BY ParametersAssumption DEF Units
<1>2. PICK x \in us : \A y \in us : <<y, x>> \notin Below
  BY <1>1, BelowIsWellFounded, WFMin
<1>3. x \in Nat /\ \A y \in us : y \in Nat /\ ~ (y < x)
  BY <1>1, <1>2 DEF Below
<1>4. \A y \in us : x <= y
  BY <1>3
<1>5. \E z \in us : \A y \in us : z <= y
  BY <1>4
<1> QED
  BY <1>5 DEF Min

Points == {"idle"} \cup DriverPoints \cup ConsumerPoints \cup GeneratorPoints
Locals == [pc : Points, stage : Stages, unit : Units, tried : 0 .. MaxThrows,
           tries : 0 .. MaxRetries, todo : SUBSET Units, more : BOOLEAN]
Statuses == {"absent", "pending", "queued"} \cup Settled

BoardType ==
  /\ text \in [Units -> Statuses] /\ image \in [Units -> Statuses]
  /\ linked \subseteq Units /\ fresh \subseteq Units /\ articles \subseteq Units

(* Attempts count generations that threw, so they stay within their bound. *)
CountType ==
  /\ throws \in 0 .. MaxThrows
  /\ attempts \in [Units -> 0 .. throws]
  /\ thrown \in [Stages -> [Units -> 0 .. throws]]
  /\ \A w \in Workers : loc[w].tried <= throws

LocType == loc \in [Workers -> Locals]
QueueType == queue \in [Messages -> Nat]

(* A driver that takes the least unit of its list has one.                 *)
ListsHeld ==
  \A w \in Workers : loc[w].pc \in {"insert", "send", "mark"} => loc[w].todo # {}

FrameType ==
  /\ useQueue \in BOOLEAN
  /\ pointer \in Stages \cup {"over"}
  /\ evictions \in 0 .. MaxEvictions
  /\ crashes \in 0 .. MaxCrashes
  /\ early \in 0 .. MaxEarly

TInv == BoardType /\ CountType /\ LocType /\ QueueType /\ FrameType /\ ListsHeld

LEMMA Bounds ==
  /\ MaxThrows \in Nat /\ MaxRetries \in Nat /\ MaxEvictions \in Nat
  /\ MaxCrashes \in Nat /\ MaxEarly \in Nat
  /\ UnitCount \in Nat /\ 0 \in Units /\ Units \subseteq Nat
  /\ Drivers \subseteq Workers /\ Consumers \subseteq Workers
BY ParametersAssumption DEF Units, Workers

LEMMA AttemptsBound ==
  ASSUME CountType
  PROVE  attempts \in [Units -> 0 .. MaxThrows] /\ thrown \in [Stages -> [Units -> 0 .. MaxThrows]]
<1>1. 0 .. throws \subseteq 0 .. MaxThrows
  BY Bounds DEF CountType
<1> QED
  BY <1>1 DEF CountType

LEMMA TypeFromParts == TInv => TypeOK
<1> SUFFICES ASSUME TInv PROVE TypeOK
  OBVIOUS
<1>1. attempts \in [Units -> 0 .. MaxThrows] /\ thrown \in [Stages -> [Units -> 0 .. MaxThrows]]
  BY AttemptsBound DEF TInv
<1> QED
  BY <1>1 DEF TypeOK, TInv, BoardType, CountType, LocType, QueueType, FrameType, Locals, Points,
              Statuses

LEMMA TInit == Init => TInv
<1> SUFFICES ASSUME Init PROVE TInv
  OBVIOUS
<1>1. Idle \in Locals
  BY Bounds DEF Idle, Locals, Points, Stages
<1>2. LocType /\ ListsHeld /\ \A w \in Workers : loc[w].tried <= throws
  BY <1>1, Bounds DEF Init, LocType, ListsHeld, Idle
<1>3. BoardType /\ QueueType /\ FrameType
  BY Bounds DEF Init, BoardType, QueueType, FrameType, Statuses, Stages
<1> QED
  BY <1>2, <1>3, Bounds DEF Init, TInv, CountType, Stages

(* The columns of a stage.                                                 *)
LEMMA StatusType ==
  ASSUME BoardType, NEW s \in Stages
  PROVE  Status(s) \in [Units -> Statuses]
BY DEF BoardType, Status

LEMMA SetStatusType ==
  ASSUME BoardType, NEW s \in Stages, NEW us, NEW v \in Statuses, SetStatus(s, us, v)
  PROVE  text' \in [Units -> Statuses] /\ image' \in [Units -> Statuses]
BY DEF BoardType, SetStatus, Status

-----------------------------------------------------------------------------
(* Types                                                                   *)

LEMMA GotoType ==
  ASSUME LocType, NEW w \in Workers, NEW p \in Points, Goto(w, p)
  PROVE  LocType'
BY DEF LocType, Locals, Goto

LEMMA ExitType ==
  ASSUME LocType, NEW w \in Workers, Exit(w)
  PROVE  LocType'
<1>1. Idle \in Locals
  BY Bounds DEF Idle, Locals, Points, Stages
<1> QED
  BY <1>1 DEF LocType, Exit

(* Where an action leaves its invocation.                                  *)
LEMMA LocStep == TInv /\ Next => LocType'
<1> SUFFICES ASSUME TInv, Next PROVE LocType'
  OBVIOUS
<1> USE Bounds
<1>0. LocType /\ BoardType /\ FrameType /\ ListsHeld
  BY DEF TInv
<1>1. ASSUME NEW u \in Units, Lost(u) \/ Early(u) PROVE LocType'
  BY <1>0, <1>1 DEF Lost, Early, LocType
<1>2. ASSUME NEW w \in Workers, Throw(w) \/ TextLands(w) \/ TextDone(w) \/ ImageDone(w)
      PROVE  LocType'
  <2>1. \E p \in Points : Goto(w, p)
    BY <1>2 DEF Throw, TextLands, TextDone, ImageDone, Return, Points, ConsumerPoints,
                GeneratorPoints, DriverPoints
  <2> QED
    BY <1>0, <2>1, GotoType
<1>3. ASSUME NEW c \in Consumers, Ack(c) \/ Retry(c) \/ Evict(c) PROVE LocType'
  BY <1>0, <1>3, ExitType DEF Ack, Retry, Evict
<1>4. ASSUME NEW d \in Drivers, Write(d) \/ Crash(d) PROVE LocType'
  BY <1>0, <1>4, ExitType DEF Write, Crash
<1>5. ASSUME NEW c \in Consumers, Deliver(c) \/ ReadUnit(c) PROVE LocType'
  <2>1. CASE Deliver(c)
    <3>1. PICK m \in Messages :
            loc' = [loc EXCEPT ![c].pc = "read", ![c].unit = m.unit,
                               ![c].stage = m.stage, ![c].tries = m.tries]
      BY <2>1 DEF Deliver
    <3>2. m.unit \in Units /\ m.stage \in Stages /\ m.tries \in 0 .. MaxRetries
      BY DEF Messages
    <3> QED
      BY <1>0, <3>1, <3>2, SMTT(60) DEF LocType, Locals, Points, ConsumerPoints
  <2>2. CASE ReadUnit(c)
    <3>1. attempts[loc[c].unit] \in 0 .. MaxThrows
      BY <1>0, AttemptsBound DEF TInv, LocType, Locals
    <3> QED
      BY <1>0, <2>2, <3>1, GotoType
         DEF ReadUnit, LocType, Locals, Points, ConsumerPoints, GeneratorPoints
  <2> QED
    BY <1>5, <2>1, <2>2
<1>6. ASSUME NEW d \in Drivers,
             Start(d) \/ Count(d) \/ Insert(d) \/ Select(d) \/ Send(d) \/ MarkQueued(d)
      PROVE  LocType'
  <2>0. FirstPoint \in Points /\ \A us : us \cap Units \in SUBSET Units
    BY DEF FirstPoint, Points, DriverPoints
  <2>1. CASE Start(d)
    BY <1>0, <2>0, <2>1 DEF Start, LocType, Locals, Points, DriverPoints
  <2>2. CASE Count(d)
    BY <1>0, <2>0, <2>2 DEF Count, LocType, Locals, Points, DriverPoints
  <2>3. CASE Insert(d)
    BY <1>0, <2>0, <2>3 DEF Insert, LocType, Locals, Points, DriverPoints
  <2>4. CASE Select(d)
    <3>1. With(loc[d].stage, {"pending"}) \subseteq Units
      BY <1>0 DEF With, Gate, FrameType, BoardType
    <3> QED
      BY <1>0, <2>4, <3>1 DEF Select, LocType, Locals, Points, DriverPoints
  <2>5. CASE Send(d)
    <3>1. Min(loc[d].todo) \in Units
      BY <1>0, <2>5, LeastUnit DEF Send, At, ListsHeld, LocType, Locals
    <3> QED
      BY <1>0, <2>5, <3>1 DEF Send, LocType, Locals, Points, DriverPoints
  <2>6. CASE MarkQueued(d)
    BY <1>0, <2>6 DEF MarkQueued, LocType, Locals, Points, DriverPoints
  <2> QED
    BY <1>6, <2>1, <2>2, <2>3, <2>4, <2>5, <2>6
<1>7. ASSUME NEW d \in Drivers, Reclaim(d) \/ Remain(d) \/ Pick(d) \/ More(d) PROVE LocType'
  <2>1. CASE Reclaim(d)
    BY <1>0, <2>1, GotoType DEF Reclaim, Points, DriverPoints
  <2>2. CASE Remain(d) \/ More(d)
    BY <1>0, <2>2 DEF Remain, More, LocType, Locals, Points, DriverPoints
  <2>3. CASE Pick(d)
    <3> DEFINE pending == With(loc[d].stage, {"pending"})
    <3>1. pending \subseteq Units
      BY <1>0 DEF With, Gate, FrameType, BoardType
    <3>2. CASE pending = {}
      <4>1. loc' = [loc EXCEPT ![d].pc = "write", ![d].more = FALSE]
        BY <2>3, <3>2 DEF Pick
      <4> QED
        BY <1>0, <4>1 DEF LocType, Locals, Points, DriverPoints
    <3>3. CASE pending # {}
      <4>1. Min(pending) \in Units
        BY <3>1, <3>3, LeastUnit
      <4>2. attempts[Min(pending)] \in 0 .. MaxThrows
        BY <4>1, AttemptsBound DEF TInv
      <4>3. loc' = [loc EXCEPT ![d].pc = "generate", ![d].unit = Min(pending),
                               ![d].tried = attempts[Min(pending)]]
        BY <2>3, <3>3 DEF Pick
      <4> QED
        BY <1>0, <4>1, <4>2, <4>3 DEF LocType, Locals, Points, GeneratorPoints
    <3> QED
      BY <3>2, <3>3
  <2> QED
    BY <1>7, <2>1, <2>2, <2>3
<1> QED
  BY <1>1, <1>2, <1>3, <1>4, <1>5, <1>6, <1>7, NextCases

LEMMA LosersKeepLocals ==
  ASSUME LocType, NEW w \in Workers, Exit(w) \/ \E p \in Points : Goto(w, p)
  PROVE  \A v \in Workers : loc'[v].tried = loc[v].tried \/ loc'[v].tried = 0
BY Bounds DEF LocType, Exit, Goto, Idle, Locals

LEMMA CountStep == TInv /\ Next => CountType'
<1> SUFFICES ASSUME TInv, Next PROVE CountType'
  OBVIOUS
<1> USE Bounds
<1>0. LocType /\ BoardType /\ CountType
  BY DEF TInv
<1>a. \A w \in Workers : loc[w].unit \in Units /\ loc[w].stage \in Stages /\ loc[w].tried \in Nat
  BY <1>0 DEF LocType, Locals
<1>1. ASSUME NEW w \in Workers, Throw(w) PROVE CountType'
  <2> DEFINE u == loc[w].unit
             s == loc[w].stage
  <2>1. throws' = throws + 1 /\ throws < MaxThrows /\ throws \in Nat
    BY <1>0, <1>1 DEF Throw, CountType
  <2>2. attempts' = [attempts EXCEPT ![u] = loc[w].tried + 1]
    BY <1>1 DEF Throw
  <2>3. thrown' = [thrown EXCEPT ![s][u] = @ + 1]
    BY <1>1 DEF Throw
  <2>4. loc[w].tried + 1 \in 0 .. throws'
    BY <1>0, <1>a, <2>1 DEF CountType
  <2>5. 0 .. throws \subseteq 0 .. throws'
    BY <2>1
  <2>6. attempts' \in [Units -> 0 .. throws']
    BY <1>0, <2>2, <2>4, <2>5 DEF CountType
  <2>7. thrown[s] \in [Units -> 0 .. throws] /\ thrown[s][u] + 1 \in 0 .. throws'
    <3>1. thrown[s] \in [Units -> 0 .. throws]
      BY <1>0, <1>a DEF CountType
    <3>2. thrown[s][u] \in 0 .. throws
      BY <1>a, <3>1
    <3> QED
      BY <2>1, <3>1, <3>2
  <2>8. thrown' \in [Stages -> [Units -> 0 .. throws']]
    BY <1>0, <1>a, <2>3, <2>5, <2>7 DEF CountType
  <2>9. \E p \in Points : Goto(w, p)
    BY <1>1 DEF Throw, Return, Points, DriverPoints, ConsumerPoints
  <2>10. \A v \in Workers : loc'[v].tried <= throws'
    BY <1>0, <1>a, <2>1, <2>9, LosersKeepLocals DEF CountType
  <2> QED
    BY <2>1, <2>6, <2>8, <2>10 DEF CountType
<1>2. CASE UNCHANGED <<attempts, thrown, throws>>
  <2> SUFFICES \A v \in Workers : loc'[v].tried <= throws
    BY <1>0, <1>2 DEF CountType
  <2>1. ASSUME NEW w \in Workers, Exit(w) \/ \E p \in Points : Goto(w, p)
        PROVE  \A v \in Workers : loc'[v].tried <= throws
    BY <1>0, <1>a, <2>1, LosersKeepLocals DEF CountType
  <2>2. ASSUME NEW d \in Drivers,
               Start(d) \/ Count(d) \/ Insert(d) \/ Select(d) \/ Send(d) \/ MarkQueued(d)
                 \/ Remain(d) \/ More(d)
        PROVE  \A v \in Workers : loc'[v].tried <= throws
    <3>1. CASE Start(d)
      BY <1>0, <3>1 DEF Start, CountType, LocType, Locals
    <3>2. CASE Count(d)
      BY <1>0, <3>2 DEF Count, CountType, LocType, Locals
    <3>3. CASE Insert(d)
      BY <1>0, <3>3 DEF Insert, CountType, LocType, Locals
    <3>4. CASE Select(d)
      BY <1>0, <3>4 DEF Select, CountType, LocType, Locals
    <3>5. CASE Send(d)
      BY <1>0, <3>5 DEF Send, CountType, LocType, Locals
    <3>6. CASE MarkQueued(d)
      <4>1. \A v \in Workers : loc'[v].tried = loc[v].tried
        BY <1>0, <3>6 DEF MarkQueued, LocType, Locals
      <4> QED
        BY <1>0, <4>1 DEF CountType
    <3>7. CASE Remain(d) \/ More(d)
      <4>1. \A v \in Workers : loc'[v].tried = loc[v].tried
        BY <1>0, <3>7 DEF Remain, More, LocType, Locals
      <4> QED
        BY <1>0, <4>1 DEF CountType
    <3> QED
      BY <2>2, <3>1, <3>2, <3>3, <3>4, <3>5, <3>6, <3>7
  <2>3. ASSUME NEW d \in Drivers, Pick(d)
        PROVE  \A v \in Workers : loc'[v].tried <= throws
    <3> DEFINE pending == With(loc[d].stage, {"pending"})
    <3>1. CASE pending = {}
      <4>1. loc' = [loc EXCEPT ![d].pc = "write", ![d].more = FALSE]
        BY <2>3, <3>1 DEF Pick
      <4> QED
        BY <1>0, <4>1 DEF CountType, LocType, Locals
    <3>2. CASE pending # {}
      <4>1. Min(pending) \in Units
        BY <1>0, <3>2, LeastUnit DEF With, Gate, BoardType
      <4>2. attempts[Min(pending)] \in 0 .. throws
        BY <1>0, <4>1 DEF CountType
      <4>3. loc' = [loc EXCEPT ![d].pc = "generate", ![d].unit = Min(pending),
                               ![d].tried = attempts[Min(pending)]]
        BY <2>3, <3>2 DEF Pick
      <4> QED
        BY <1>0, <4>2, <4>3, Bounds DEF CountType, LocType, Locals
    <3> QED
      BY <3>1, <3>2
  <2>4. ASSUME NEW c \in Consumers, Deliver(c)
        PROVE  \A v \in Workers : loc'[v].tried <= throws
    <3>1. PICK m \in Messages :
            loc' = [loc EXCEPT ![c].pc = "read", ![c].unit = m.unit,
                               ![c].stage = m.stage, ![c].tries = m.tries]
      BY <2>4 DEF Deliver
    <3>2. \A v \in Workers : loc'[v].tried = loc[v].tried
      BY <1>0, <3>1 DEF LocType, Locals
    <3> QED
      BY <1>0, <3>2 DEF CountType
  <2>5. ASSUME NEW c \in Consumers, ReadUnit(c)
        PROVE  \A v \in Workers : loc'[v].tried <= throws
    <3>1. CASE Goto(c, "ack")
      BY <2>1, <3>1 DEF Points, ConsumerPoints
    <3>2. CASE loc' = [loc EXCEPT ![c].pc = "generate", ![c].tried = attempts[loc[c].unit]]
      <4>1. attempts[loc[c].unit] \in 0 .. throws
        BY <1>0, <1>a DEF CountType
      <4> QED
        BY <1>0, <3>2, <4>1 DEF CountType, LocType, Locals
    <3> QED
      BY <2>5, <3>1, <3>2 DEF ReadUnit
  <2>6. ASSUME NEW d \in Drivers, Reclaim(d) \/ Write(d) \/ Crash(d)
        PROVE  \A v \in Workers : loc'[v].tried <= throws
    BY <2>1, <2>6 DEF Reclaim, Write, Crash, Points, DriverPoints
  <2>7. ASSUME NEW w \in Workers, TextLands(w) \/ TextDone(w) \/ ImageDone(w)
        PROVE  \A v \in Workers : loc'[v].tried <= throws
    BY <2>1, <2>7 DEF TextLands, TextDone, ImageDone, Return, Points, DriverPoints,
                      ConsumerPoints, GeneratorPoints
  <2>8. ASSUME NEW c \in Consumers, Ack(c) \/ Retry(c) \/ Evict(c)
        PROVE  \A v \in Workers : loc'[v].tried <= throws
    BY <2>1, <2>8 DEF Ack, Retry, Evict
  <2>9. ASSUME NEW u \in Units, Lost(u) \/ Early(u)
        PROVE  \A v \in Workers : loc'[v].tried <= throws
    BY <1>0, <2>9 DEF Lost, Early, CountType
  <2>10. ASSUME NEW w \in Workers, Throw(w) PROVE FALSE
    BY <1>0, <1>2, <2>10 DEF Throw, CountType
  <2> QED
    BY <2>2, <2>3, <2>4, <2>5, <2>6, <2>7, <2>8, <2>9, <2>10, NextCases
<1>3. CASE \A w \in Workers : ~ Throw(w)
  <2>1. UNCHANGED <<attempts, thrown, throws>>
    BY <1>3, NextCases
       DEF Start, Count, Insert, Reclaim, Select, Send, MarkQueued, Remain, Pick, More, Write,
           Crash, TextLands, TextDone, ImageDone, Deliver, ReadUnit, Ack, Retry, Evict, Lost,
           Early, board, counters
  <2> QED
    BY <1>2, <2>1
<1> QED
  BY <1>1, <1>3

LEMMA BoardStep == TInv /\ Next => BoardType'
<1> SUFFICES ASSUME TInv, Next PROVE BoardType'
  OBVIOUS
<1> USE Bounds
<1>0. LocType /\ BoardType /\ ListsHeld
  BY DEF TInv
<1>a. \A w \in Workers : loc[w].unit \in Units /\ loc[w].stage \in Stages
  BY <1>0 DEF LocType, Locals
<1>1. ASSUME NEW d \in Drivers, Insert(d) PROVE BoardType'
  <2>1. Min(loc[d].todo) \in Units
    BY <1>0, <1>1, LeastUnit DEF Insert, At, ListsHeld, LocType, Locals
  <2> QED
    BY <1>0, <1>1, <2>1 DEF Insert, BoardType, Statuses
<1>2. ASSUME NEW d \in Drivers, Reclaim(d) PROVE BoardType'
  BY <1>0, <1>a, <1>2, SetStatusType DEF Reclaim, BoardType, Statuses
<1>3. ASSUME NEW d \in Drivers, MarkQueued(d) PROVE BoardType'
  BY <1>0, <1>a, <1>3, SetStatusType DEF MarkQueued, BoardType, Statuses
<1>4. ASSUME NEW w \in Workers, Throw(w) PROVE BoardType'
  BY <1>0, <1>a, <1>4, SetStatusType DEF Throw, BoardType, Statuses, Settled
<1>5. ASSUME NEW w \in Workers, TextDone(w) PROVE BoardType'
  BY <1>0, <1>a, <1>5, SetStatusType DEF TextDone, BoardType, Statuses, Settled, Stages
<1>6. ASSUME NEW w \in Workers, ImageDone(w) PROVE BoardType'
  BY <1>0, <1>a, <1>6, SetStatusType DEF ImageDone, BoardType, Statuses, Settled, Stages
<1>7. ASSUME NEW w \in Workers, TextLands(w) PROVE BoardType'
  BY <1>0, <1>a, <1>7 DEF TextLands, BoardType, board
<1>8. ASSUME NEW u \in Units, Lost(u) \/ Early(u) PROVE BoardType'
  BY <1>0, <1>8 DEF Lost, Early, BoardType
<1>9. ASSUME NEW d \in Drivers,
             Start(d) \/ Count(d) \/ Select(d) \/ Send(d) \/ Remain(d) \/ Pick(d) \/ More(d)
               \/ Write(d) \/ Crash(d)
      PROVE  BoardType'
  BY <1>0, <1>9 DEF Start, Count, Select, Send, Remain, Pick, More, Write, Crash, BoardType, board
<1>10. ASSUME NEW c \in Consumers, Deliver(c) \/ ReadUnit(c) \/ Ack(c) \/ Retry(c) \/ Evict(c)
       PROVE  BoardType'
  BY <1>0, <1>10 DEF Deliver, ReadUnit, Ack, Retry, Evict, BoardType, board
<1> QED
  BY <1>1, <1>2, <1>3, <1>4, <1>5, <1>6, <1>7, <1>8, <1>9, <1>10, NextCases

LEMMA PutType ==
  ASSUME QueueType, NEW m, Put(m)
  PROVE  QueueType'
<1>1. m \in Messages => queue[m] + 1 \in Nat
  BY DEF QueueType
<1> QED
  BY <1>1 DEF QueueType, Put

LEMMA QueueStep == TInv /\ Next => QueueType'
<1> SUFFICES ASSUME TInv, Next PROVE QueueType'
  OBVIOUS
<1> USE Bounds
<1>0. QueueType
  BY DEF TInv
<1>1. ASSUME NEW d \in Drivers, Send(d) PROVE QueueType'
  BY <1>0, <1>1, PutType DEF Send
<1>2. ASSUME NEW c \in Consumers, Retry(c) \/ Evict(c) PROVE QueueType'
  BY <1>0, <1>2, PutType DEF Retry, Evict, Redeliver, QueueType
<1>3. ASSUME NEW c \in Consumers, Deliver(c) PROVE QueueType'
  <2>1. PICK m \in Messages : queue[m] > 0 /\ queue' = [queue EXCEPT ![m] = @ - 1]
    BY <1>3 DEF Deliver
  <2>2. queue[m] - 1 \in Nat
    BY <1>0, <2>1 DEF QueueType
  <2> QED
    BY <1>0, <2>1, <2>2 DEF QueueType
<1>4. ASSUME UNCHANGED queue PROVE QueueType'
  BY <1>0, <1>4 DEF QueueType
<1>5. ASSUME NEW d \in Drivers,
             \/ Start(d) \/ Count(d) \/ Insert(d) \/ Reclaim(d) \/ Select(d)
             \/ MarkQueued(d) \/ Remain(d) \/ Pick(d) \/ More(d) \/ Write(d) \/ Crash(d)
      PROVE  QueueType'
  BY <1>4, <1>5 DEF Start, Count, Insert, Reclaim, Select, MarkQueued, Remain, Pick, More,
                    Write, Crash
<1>6. ASSUME NEW w \in Workers, Throw(w) \/ TextLands(w) \/ TextDone(w) \/ ImageDone(w)
      PROVE  QueueType'
  BY <1>4, <1>6 DEF Throw, TextLands, TextDone, ImageDone
<1>7. ASSUME NEW c \in Consumers, ReadUnit(c) \/ Ack(c) PROVE QueueType'
  BY <1>4, <1>7 DEF ReadUnit, Ack
<1>8. ASSUME NEW u \in Units, Lost(u) \/ Early(u) PROVE QueueType'
  BY <1>4, <1>8 DEF Lost, Early
<1> QED
  BY <1>1, <1>2, <1>3, <1>5, <1>6, <1>7, <1>8, NextCases

LEMMA FrameStep == TInv /\ Next => FrameType'
<1> SUFFICES ASSUME TInv, Next PROVE FrameType'
  OBVIOUS
<1> USE Bounds
<1>0. FrameType /\ LocType
  BY DEF TInv
<1>1. ASSUME NEW d \in Drivers, Write(d) PROVE FrameType'
  BY <1>0, <1>1 DEF Write, FrameType, LocType, Locals, Stages, counters
<1>2. ASSUME NEW d \in Drivers, Crash(d) PROVE FrameType'
  BY <1>0, <1>2 DEF Crash, FrameType
<1>3. ASSUME NEW c \in Consumers, Evict(c) PROVE FrameType'
  BY <1>0, <1>3 DEF Evict, FrameType
<1>4. ASSUME NEW u \in Units, Early(u) PROVE FrameType'
  BY <1>0, <1>4 DEF Early, FrameType
<1>5. ASSUME UNCHANGED <<useQueue, pointer, evictions, crashes, early>> PROVE FrameType'
  BY <1>0, <1>5 DEF FrameType
<1>6. ASSUME NEW d \in Drivers,
             \/ Start(d) \/ Count(d) \/ Insert(d) \/ Reclaim(d) \/ Select(d) \/ Send(d)
             \/ MarkQueued(d) \/ Remain(d) \/ Pick(d) \/ More(d)
      PROVE  FrameType'
  BY <1>5, <1>6 DEF Start, Count, Insert, Reclaim, Select, Send, MarkQueued, Remain, Pick, More,
                    counters
<1>7. ASSUME NEW w \in Workers, Throw(w) \/ TextLands(w) \/ TextDone(w) \/ ImageDone(w)
      PROVE  FrameType'
  BY <1>5, <1>7 DEF Throw, TextLands, TextDone, ImageDone, counters
<1>8. ASSUME NEW c \in Consumers, Deliver(c) \/ ReadUnit(c) \/ Ack(c) \/ Retry(c)
      PROVE  FrameType'
  BY <1>5, <1>8 DEF Deliver, ReadUnit, Ack, Retry, counters
<1>9. ASSUME NEW u \in Units, Lost(u) PROVE FrameType'
  BY <1>5, <1>9 DEF Lost, counters
<1> QED
  BY <1>1, <1>2, <1>3, <1>4, <1>6, <1>7, <1>8, <1>9, NextCases

LEMMA GotoElsewhere ==
  ASSUME LocType, ListsHeld, NEW w \in Workers,
         Exit(w) \/ \E p \in Points \ {"insert", "send", "mark"} : Goto(w, p)
  PROVE  ListsHeld'
BY DEF LocType, Locals, ListsHeld, Exit, Goto, Idle

LEMMA ListsStep == TInv /\ Next => ListsHeld'
<1> SUFFICES ASSUME TInv, Next PROVE ListsHeld'
  OBVIOUS
<1> USE Bounds
<1>0. LocType /\ ListsHeld /\ 0 \in Units
  BY DEF TInv
<1>1. ASSUME NEW d \in Drivers, Start(d) PROVE ListsHeld'
  BY <1>0, <1>1 DEF Start, ListsHeld, LocType, Locals, FirstPoint
<1>2. ASSUME NEW d \in Drivers, Count(d) PROVE ListsHeld'
  BY <1>0, <1>2 DEF Count, ListsHeld, LocType, Locals, FirstPoint
<1>3. ASSUME NEW d \in Drivers, Insert(d) PROVE ListsHeld'
  <2>1. loc' = [loc EXCEPT ![d].todo = @ \ {Min(loc[d].todo)},
                  ![d].pc = IF loc[d].todo = {Min(loc[d].todo)} THEN FirstPoint ELSE "insert"]
    BY <1>3 DEF Insert
  <2>2. loc[d].todo # {}
    BY <1>0, <1>3 DEF Insert, At, ListsHeld
  <2>3. CASE loc[d].todo = {Min(loc[d].todo)}
    BY <1>0, <2>1, <2>3 DEF ListsHeld, LocType, Locals, FirstPoint
  <2>4. CASE loc[d].todo # {Min(loc[d].todo)}
    <3>1. loc[d].todo \ {Min(loc[d].todo)} # {}
      BY <2>2, <2>4
    <3>2. loc' = [loc EXCEPT ![d].todo = @ \ {Min(loc[d].todo)}, ![d].pc = "insert"]
      BY <2>1, <2>4
    <3> QED
      BY <1>0, <3>1, <3>2 DEF ListsHeld, LocType, Locals
  <2> QED
    BY <2>3, <2>4
<1>4. ASSUME NEW d \in Drivers, Select(d) PROVE ListsHeld'
  BY <1>0, <1>4 DEF Select, ListsHeld, LocType, Locals
<1>5. ASSUME NEW d \in Drivers, Send(d) PROVE ListsHeld'
  <2>1. loc[d].todo # {}
    BY <1>0, <1>5 DEF Send, At, ListsHeld
  <2> QED
    BY <1>0, <1>5, <2>1 DEF Send, ListsHeld, LocType, Locals
<1>6. ASSUME NEW d \in Drivers, MarkQueued(d) PROVE ListsHeld'
  <2> DEFINE u == loc[d].unit
  <2>1. loc' = [loc EXCEPT ![d].todo = @ \ {u},
                           ![d].pc = IF loc[d].todo = {u} THEN "remain" ELSE "send"]
    BY <1>6 DEF MarkQueued
  <2>2. loc[d].todo # {}
    BY <1>0, <1>6 DEF MarkQueued, At, ListsHeld
  <2>3. CASE loc[d].todo = {u}
    BY <1>0, <2>1, <2>3 DEF ListsHeld, LocType, Locals
  <2>4. CASE loc[d].todo # {u}
    <3>1. loc[d].todo \ {u} # {}
      BY <2>2, <2>4
    <3>2. loc' = [loc EXCEPT ![d].todo = @ \ {u}, ![d].pc = "send"]
      BY <2>1, <2>4
    <3> QED
      BY <1>0, <3>1, <3>2 DEF ListsHeld, LocType, Locals
  <2> QED
    BY <2>3, <2>4
<1>7. ASSUME NEW d \in Drivers, Pick(d) \/ Remain(d) \/ More(d) PROVE ListsHeld'
  <2>1. loc'[d].pc \in {"write", "generate"} /\ \A v \in Workers \ {d} : loc'[v] = loc[v]
    BY <1>0, <1>7 DEF Pick, Remain, More, LocType, Locals
  <2> QED
    BY <1>0, <2>1 DEF ListsHeld
<1>8. ASSUME NEW c \in Consumers, Deliver(c) \/ ReadUnit(c) PROVE ListsHeld'
  <2>1. \A v \in Workers \ {c} : loc'[v] = loc[v]
    BY <1>0, <1>8 DEF Deliver, ReadUnit, Goto, LocType, Locals
  <2>2. CASE Deliver(c)
    <3>1. PICK m \in Messages :
            loc' = [loc EXCEPT ![c].pc = "read", ![c].unit = m.unit,
                               ![c].stage = m.stage, ![c].tries = m.tries]
      BY <2>2 DEF Deliver
    <3>2. loc'[c].pc = "read"
      BY <1>0, <3>1 DEF LocType, Locals
    <3> QED
      BY <1>0, <2>1, <3>2 DEF ListsHeld
  <2>3. CASE ReadUnit(c)
    <3>1. loc'[c].pc \in {"ack", "generate"}
      BY <1>0, <2>3 DEF ReadUnit, Goto, LocType, Locals
    <3> QED
      BY <1>0, <2>1, <3>1 DEF ListsHeld
  <2> QED
    BY <1>8, <2>2, <2>3
<1>9. ASSUME NEW d \in Drivers, Reclaim(d) \/ Write(d) \/ Crash(d) PROVE ListsHeld'
  BY <1>0, <1>9, GotoElsewhere DEF Reclaim, Write, Crash, Points, DriverPoints
<1>10. ASSUME NEW w \in Workers, Throw(w) \/ TextLands(w) \/ TextDone(w) \/ ImageDone(w)
       PROVE  ListsHeld'
  BY <1>0, <1>10, GotoElsewhere
     DEF Throw, TextLands, TextDone, ImageDone, Return, Points, DriverPoints, ConsumerPoints,
         GeneratorPoints
<1>11. ASSUME NEW c \in Consumers, Ack(c) \/ Retry(c) \/ Evict(c) PROVE ListsHeld'
  BY <1>0, <1>11, GotoElsewhere DEF Ack, Retry, Evict
<1>12. ASSUME NEW u \in Units, Lost(u) \/ Early(u) PROVE ListsHeld'
  BY <1>0, <1>12 DEF Lost, Early, ListsHeld
<1> QED
  BY <1>1, <1>2, <1>3, <1>4, <1>5, <1>6, <1>7, <1>8, <1>9, <1>10, <1>11, <1>12, NextCases

LEMMA TStep == TInv /\ [Next]_vars => TInv'
<1>1. TInv /\ Next => TInv'
  BY LocStep, CountStep, BoardStep, QueueStep, FrameStep, ListsStep DEF TInv
<1>2. TInv /\ UNCHANGED vars => TInv'
  BY DEF TInv, vars, board, counters, BoardType, CountType, LocType, QueueType, FrameType, ListsHeld
<1> QED
  BY <1>1, <1>2

(* The model is well typed: whatever overlaps, every driver that takes the *)
(* next unit of its list has one, and no attempt is counted that was not   *)
(* made (site-provisioning/steps.ts).                                      *)
THEOREM TypeCorrect == Spec => []TypeOK
<1>1. Spec => []TInv
  BY TInit, TStep, PTL DEF Spec
<1> QED
  BY <1>1, TypeFromParts, PTL

-----------------------------------------------------------------------------
(* What is worked on is there                                              *)

(* A unit a stage may work on: it has a row, and in the image stage an     *)
(* article and a settled text.                                             *)
Known(u, s) ==
  text[u] # "absent" /\ (s = "image" => u \in articles /\ text[u] \in Settled)

WorkPoints == {"mark", "generate", "landed"} \cup ConsumerPoints

KnownAt(w) ==
  /\ loc[w].pc \in WorkPoints => Known(loc[w].unit, loc[w].stage)
  /\ loc[w].pc = "landed" => loc[w].unit \in articles /\ loc[w].stage = "text"
  /\ loc[w].pc \in {"send", "mark"} => \A u \in loc[w].todo : Known(u, loc[w].stage)

(* The two status columns are of one row.                                  *)
RowsWhole == \A u \in Units : text[u] = "absent" <=> image[u] = "absent"

Backed ==
  /\ linked \subseteq articles
  /\ \A u \in linked : text[u] \in Settled
  /\ \A u \in Units : image[u] = "queued" => text[u] \in Settled
  /\ \A u \in Units : text[u] = "done" \/ image[u] \in {"queued", "done"} => u \in articles

QueueKnown == \A m \in Messages : queue[m] > 0 => Known(m.unit, m.stage)
LocKnown == \A w \in Workers : KnownAt(w)

ConsumersConsume ==
  \A c \in Consumers : \/ loc[c].pc = "idle" /\ loc[c].stage = "text"
                       \/ loc[c].pc \in ConsumerPoints \cup GeneratorPoints

WInv == RowsWhole /\ Backed /\ QueueKnown /\ LocKnown /\ ConsumersConsume

LEMMA WInit == Init => WInv
BY Bounds DEF Init, WInv, RowsWhole, Backed, QueueKnown, LocKnown, ConsumersConsume, KnownAt,
              Idle, WorkPoints, ConsumerPoints

(* A write settles a unit, or takes only units that are not settled.       *)
LEMMA WriteKeepsSettled ==
  ASSUME BoardType, NEW s \in Stages, NEW us, NEW v, SetStatus(s, us, v),
         v \in Settled \/ \A u \in Units \cap us : Status(s)[u] \notin Settled,
         NEW u \in Units
  PROVE  /\ text[u] \in Settled => text'[u] \in Settled
         /\ image[u] \in Settled => image'[u] \in Settled
<1>1. CASE s = "text"
  BY <1>1 DEF SetStatus, Status
<1>2. CASE s = "image"
  BY <1>2 DEF SetStatus, Status
<1> QED
  BY <1>1, <1>2 DEF Stages

LEMMA SettledStep ==
  ASSUME TInv, WInv, [Next]_vars, NEW u \in Units
  PROVE  /\ text[u] \in Settled => text'[u] \in Settled
         /\ image[u] \in Settled => image'[u] \in Settled
<1> USE Bounds
<1>0. BoardType /\ LocType
  BY DEF TInv
<1>a. \A w \in Workers : loc[w].unit \in Units /\ loc[w].stage \in Stages
  BY <1>0 DEF LocType, Locals
<1> DEFINE Goal == /\ text[u] \in Settled => text'[u] \in Settled
                   /\ image[u] \in Settled => image'[u] \in Settled
<1>1. ASSUME NEW d \in Drivers, Insert(d) PROVE Goal
  <2>1. CASE text[u] = "absent" /\ u = Min(loc[d].todo)
    <3>1. image[u] = "absent"
      BY <2>1 DEF WInv, RowsWhole
    <3> QED
      BY <2>1, <3>1 DEF Settled
  <2>2. CASE ~ (text[u] = "absent" /\ u = Min(loc[d].todo))
    BY <1>0, <1>1, <2>2 DEF Insert, BoardType, Settled
  <2> QED
    BY <2>1, <2>2
<1>2. ASSUME NEW d \in Drivers, Reclaim(d) PROVE Goal
  BY <1>0, <1>a, <1>2, WriteKeepsSettled DEF Reclaim, Settled
<1>3. ASSUME NEW d \in Drivers, MarkQueued(d) PROVE Goal
  BY <1>0, <1>a, <1>3, WriteKeepsSettled DEF MarkQueued, Settled
<1>4. ASSUME NEW w \in Workers, Throw(w) PROVE Goal
  BY <1>0, <1>a, <1>4, WriteKeepsSettled DEF Throw, Settled
<1>5. ASSUME NEW w \in Workers, TextDone(w) PROVE Goal
  BY <1>0, <1>a, <1>5, WriteKeepsSettled DEF TextDone, Settled, Stages
<1>6. ASSUME NEW w \in Workers, ImageDone(w) PROVE Goal
  BY <1>0, <1>a, <1>6, WriteKeepsSettled DEF ImageDone, Settled, Stages
<1>7. CASE UNCHANGED <<text, image>>
  BY <1>7
<1> QED
  BY <1>1, <1>2, <1>3, <1>4, <1>5, <1>6, <1>7, NextCases
     DEF vars, board, Start, Count, Select, Send, Remain, Pick, More, Write, Crash, TextLands,
         Deliver, ReadUnit, Ack, Retry, Evict, Lost, Early

(* A row, an article and a settled text stay.                              *)
LEMMA KnownStays ==
  ASSUME TInv, WInv, Next, NEW u \in Units, NEW s \in Stages, Known(u, s)
  PROVE  Known(u, s)'
<1> USE Bounds
<1>0. BoardType /\ LocType /\ text[u] # "absent"
  BY DEF TInv, Known
<1>a. \A w \in Workers : loc[w].unit \in Units /\ loc[w].stage \in Stages
  BY <1>0 DEF LocType, Locals
<1>1. articles \subseteq articles'
  BY NextCases
     DEF board, Start, Count, Insert, Reclaim, Select, Send, MarkQueued, Remain, Pick, More,
         Write, Crash, Throw, TextLands, TextDone, ImageDone, Deliver, ReadUnit, Ack, Retry,
         Evict, Lost, Early
<1>2. ASSUME NEW d \in Workers, Insert(d) PROVE text'[u] # "absent"
  BY <1>0, <1>2 DEF Insert
<1>3. ASSUME NEW r \in Stages, NEW us, NEW v, v # "absent", SetStatus(r, us, v)
      PROVE  text'[u] # "absent"
  BY <1>0, <1>3 DEF SetStatus, Status
<1>4. ASSUME NEW w \in Workers,
             Reclaim(w) \/ MarkQueued(w) \/ Throw(w) \/ TextDone(w) \/ ImageDone(w)
      PROVE  text'[u] # "absent"
  BY <1>a, <1>3, <1>4 DEF Reclaim, MarkQueued, Throw, TextDone, ImageDone, Stages
<1>5. ASSUME UNCHANGED text PROVE text'[u] # "absent"
  BY <1>0, <1>5
<1>6. ASSUME ~ \E w \in Workers : Insert(w) \/ Reclaim(w) \/ MarkQueued(w) \/ Throw(w)
                                   \/ TextDone(w) \/ ImageDone(w)
      PROVE  text'[u] # "absent"
  <2>1. UNCHANGED text
    BY <1>6, NextCases
       DEF board, Start, Count, Select, Send, Remain, Pick, More, Write, Crash, TextLands,
           Deliver, ReadUnit, Ack, Retry, Evict, Lost, Early
  <2> QED
    BY <1>5, <2>1
<1>7. text'[u] # "absent"
  BY <1>2, <1>4, <1>5, <1>6
<1>8. s = "image" => u \in articles' /\ text'[u] \in Settled
  BY <1>1, SettledStep DEF Known
<1> QED
  BY <1>7, <1>8 DEF Known

(* The units a stage selects are known to it.                              *)
LEMMA SelectedKnown ==
  ASSUME TInv, WInv, NEW s \in Stages, NEW u \in With(s, {"pending"})
  PROVE  u \in Units /\ Known(u, s)
<1>0. BoardType
  BY DEF TInv
<1>1. u \in Gate(s) /\ Status(s)[u] = "pending"
  BY DEF With
<1>2. u \in Units
  BY <1>0, <1>1 DEF Gate, BoardType
<1>3. CASE s = "text"
  BY <1>1, <1>2, <1>3 DEF Status, Known
<1>4. CASE s = "image"
  <2>1. image[u] = "pending"
    BY <1>1, <1>4 DEF Status
  <2>2. text[u] # "absent"
    BY <1>2, <2>1 DEF WInv, RowsWhole
  <2>3. u \in articles /\ text[u] \in Settled
    BY <1>1, <1>2, <1>4 DEF Gate, WInv, Backed, Settled
  <2> QED
    BY <1>2, <2>2, <2>3 DEF Known
<1> QED
  BY <1>3, <1>4 DEF Stages

(* An action moves one invocation.                                         *)
LEMMA OthersKnown ==
  ASSUME TInv, WInv, Next, NEW w \in Workers, \A v \in Workers \ {w} : loc'[v] = loc[v],
         KnownAt(w)'
  PROVE  LocKnown'
<1> SUFFICES ASSUME NEW v \in Workers, v # w PROVE KnownAt(v)'
  BY DEF LocKnown
<1>1. loc'[v] = loc[v] /\ KnownAt(v)
  BY DEF WInv, LocKnown
<1>2. loc[v].unit \in Units /\ loc[v].stage \in Stages /\ loc[v].todo \subseteq Units
  BY DEF TInv, LocType, Locals
<1>3. \A u \in Units, s \in Stages : Known(u, s) => Known(u, s)'
  BY KnownStays
<1>4. loc[v].unit \in articles => loc[v].unit \in articles'
  BY NextCases
     DEF board, Start, Count, Insert, Reclaim, Select, Send, MarkQueued, Remain, Pick, More,
         Write, Crash, Throw, TextLands, TextDone, ImageDone, Deliver, ReadUnit, Ack, Retry,
         Evict, Lost, Early
<1>5. \A u \in Units : Known(u, loc[v].stage)' <=> (text'[u] # "absent" /\ (loc[v].stage = "image" => u \in articles' /\ text'[u] \in Settled))
  BY <1>1 DEF Known
<1> QED
  BY <1>1, <1>2, <1>3, <1>4, <1>5 DEF KnownAt, Known

(* Where nothing is worked on, nothing has to be known.                    *)
LEMMA ElsewhereKnown ==
  ASSUME TInv, WInv, Next, NEW w \in Workers, \A v \in Workers \ {w} : loc'[v] = loc[v],
         loc'[w].pc \notin WorkPoints \cup {"send"}
  PROVE  LocKnown'
<1>1. KnownAt(w)'
  BY DEF KnownAt, WorkPoints
<1> QED
  BY <1>1, OthersKnown

(* An invocation goes on with its unit.                                    *)
LEMMA SameUnitKnown ==
  ASSUME TInv, WInv, Next, NEW w \in Workers, \A v \in Workers \ {w} : loc'[v] = loc[v],
         loc'[w].unit = loc[w].unit, loc'[w].stage = loc[w].stage, loc[w].pc \in WorkPoints,
         loc'[w].pc \notin {"send", "mark"},
         loc'[w].pc = "landed" => loc[w].unit \in articles' /\ loc[w].stage = "text"
  PROVE  LocKnown'
<1>1. loc[w].unit \in Units /\ loc[w].stage \in Stages
  BY DEF TInv, LocType, Locals
<1>2. Known(loc[w].unit, loc[w].stage)
  BY DEF WInv, LocKnown, KnownAt
<1>3. text'[loc[w].unit] # "absent" /\ (loc[w].stage = "image" => loc[w].unit \in articles' /\ text'[loc[w].unit] \in Settled)
  BY <1>1, <1>2, KnownStays DEF Known
<1>4. KnownAt(w)'
  BY <1>3 DEF KnownAt, Known
<1> QED
  BY <1>4, OthersKnown

LEMMA GotoFrame ==
  ASSUME LocType, NEW w \in Workers, NEW p, Goto(w, p)
  PROVE  /\ \A v \in Workers \ {w} : loc'[v] = loc[v]
         /\ loc'[w].pc = p /\ loc'[w].unit = loc[w].unit /\ loc'[w].stage = loc[w].stage
         /\ loc'[w].todo = loc[w].todo
BY DEF LocType, Locals, Goto

LEMMA ExitFrame ==
  ASSUME LocType, NEW w \in Workers, Exit(w)
  PROVE  (\A v \in Workers \ {w} : loc'[v] = loc[v]) /\ loc'[w] = Idle
BY DEF LocType, Exit

LEMMA LocKnownStep == TInv /\ WInv /\ Next => LocKnown'
<1> SUFFICES ASSUME TInv, WInv, Next PROVE LocKnown'
  OBVIOUS
<1> USE Bounds
<1>0. LocType /\ BoardType /\ ListsHeld
  BY DEF TInv
<1>a. \A w \in Workers : loc[w].unit \in Units /\ loc[w].stage \in Stages /\ loc[w].todo \subseteq Units
  BY <1>0 DEF LocType, Locals
<1>b. \A u \in Units, s \in Stages :
        Known(u, s) => text'[u] # "absent" /\ (s = "image" => u \in articles' /\ text'[u] \in Settled)
  BY KnownStays DEF Known
<1>c. \A w \in Workers : KnownAt(w)
  BY DEF WInv, LocKnown
<1>1. ASSUME NEW d \in Drivers,
             Start(d) \/ Count(d) \/ Insert(d) \/ Reclaim(d) \/ Remain(d) \/ More(d)
      PROVE  LocKnown'
  <2>1. \A v \in Workers \ {d} : loc'[v] = loc[v]
    BY <1>0, <1>1 DEF Start, Count, Insert, Reclaim, Remain, More, Goto, LocType, Locals
  <2>2. loc'[d].pc \in {"count", "insert", "reclaim", "pick", "select", "write"}
    <3>1. CASE Start(d)
      BY <1>0, <3>1 DEF Start, FirstPoint, LocType, Locals
    <3>2. CASE Count(d)
      BY <1>0, <3>2 DEF Count, FirstPoint, LocType, Locals
    <3>3. CASE Insert(d)
      BY <1>0, <3>3 DEF Insert, FirstPoint, LocType, Locals
    <3>4. CASE Reclaim(d) \/ Remain(d) \/ More(d)
      BY <1>0, <3>4 DEF Reclaim, Remain, More, Goto, LocType, Locals
    <3> QED
      BY <1>1, <3>1, <3>2, <3>3, <3>4
  <2> QED
    BY <2>1, <2>2, ElsewhereKnown DEF WorkPoints, ConsumerPoints
<1>2. ASSUME NEW w \in Workers, Exit(w) PROVE LocKnown'
  BY <1>0, <1>2, ExitFrame, ElsewhereKnown DEF Idle, WorkPoints, ConsumerPoints
<1>3. ASSUME NEW w \in Workers, Throw(w) \/ TextDone(w) \/ ImageDone(w) PROVE LocKnown'
  <2>1. loc[w].pc \in WorkPoints
    BY <1>3 DEF Throw, TextDone, ImageDone, At, WorkPoints
  <2>2. PICK p \in {"more", "ack", "retry"} : Goto(w, p)
    BY <1>3 DEF Throw, TextDone, ImageDone, Return
  <2> QED
    BY <1>0, <2>1, <2>2, GotoFrame, SameUnitKnown
<1>4. ASSUME NEW w \in Workers, TextLands(w) PROVE LocKnown'
  <2>1. /\ loc[w].pc \in WorkPoints /\ loc[w].unit \in articles' /\ loc[w].stage = "text"
        /\ Goto(w, "landed")
    BY <1>4 DEF TextLands, At, WorkPoints
  <2> QED
    BY <1>0, <2>1, GotoFrame, SameUnitKnown
<1>5. ASSUME NEW c \in Consumers, ReadUnit(c) PROVE LocKnown'
  <2>1. loc[c].pc \in WorkPoints
    BY <1>5 DEF ReadUnit, At, WorkPoints, ConsumerPoints
  <2>2. /\ \A v \in Workers \ {c} : loc'[v] = loc[v]
        /\ loc'[c].unit = loc[c].unit /\ loc'[c].stage = loc[c].stage
        /\ loc'[c].pc \in {"ack", "generate"}
    BY <1>0, <1>5 DEF ReadUnit, Goto, LocType, Locals
  <2> QED
    BY <2>1, <2>2, SameUnitKnown
<1>6. ASSUME NEW c \in Consumers, Deliver(c) PROVE LocKnown'
  <2>1. PICK m \in Messages :
          /\ queue[m] > 0
          /\ loc' = [loc EXCEPT ![c].pc = "read", ![c].unit = m.unit,
                                ![c].stage = m.stage, ![c].tries = m.tries]
    BY <1>6 DEF Deliver
  <2>2. m.unit \in Units /\ m.stage \in Stages /\ Known(m.unit, m.stage)
    BY <2>1 DEF Messages, WInv, QueueKnown
  <2>3. /\ \A v \in Workers \ {c} : loc'[v] = loc[v]
        /\ loc'[c].unit = m.unit /\ loc'[c].stage = m.stage /\ loc'[c].pc = "read"
    BY <1>0, <2>1 DEF LocType, Locals
  <2>4. text'[m.unit] # "absent" /\ (m.stage = "image" => m.unit \in articles' /\ text'[m.unit] \in Settled)
    BY <1>b, <2>2
  <2>5. KnownAt(c)'
    BY <2>3, <2>4 DEF KnownAt, Known
  <2> QED
    BY <2>3, <2>5, OthersKnown
<1>7. ASSUME NEW d \in Drivers, Select(d) PROVE LocKnown'
  <2> DEFINE s == loc[d].stage
             pending == With(s, {"pending"})
  <2>1. loc' = [loc EXCEPT ![d].todo = pending,
                           ![d].pc = IF pending = {} THEN "remain" ELSE "send"]
    BY <1>7 DEF Select
  <2> HIDE DEF pending
  <2>2. \A u \in pending : u \in Units /\ Known(u, s)
    BY <1>a, SelectedKnown DEF pending
  <2>3. \A u \in pending : text'[u] # "absent" /\ (s = "image" => u \in articles' /\ text'[u] \in Settled)
    BY <1>a, <1>b, <2>2
  <2>4. /\ \A v \in Workers \ {d} : loc'[v] = loc[v]
        /\ loc'[d].todo = pending /\ loc'[d].stage = s /\ loc'[d].pc \in {"remain", "send"}
    BY <1>0, <2>1 DEF LocType, Locals
  <2>5. KnownAt(d)'
    BY <2>3, <2>4 DEF KnownAt, Known, WorkPoints, ConsumerPoints
  <2> QED
    BY <2>4, <2>5, OthersKnown
<1>8. ASSUME NEW d \in Drivers, Send(d) PROVE LocKnown'
  <2> DEFINE u == Min(loc[d].todo)
             s == loc[d].stage
  <2>1. u \in loc[d].todo
    BY <1>0, <1>8, <1>a, LeastUnit DEF Send, At, ListsHeld
  <2>2. \A v \in loc[d].todo : Known(v, s)
    BY <1>8, <1>c DEF Send, At, KnownAt
  <2>3. \A v \in loc[d].todo : text'[v] # "absent" /\ (s = "image" => v \in articles' /\ text'[v] \in Settled)
    BY <1>a, <1>b, <2>2
  <2>4. loc' = [loc EXCEPT ![d].pc = "mark", ![d].unit = u]
    BY <1>8 DEF Send
  <2> HIDE DEF u
  <2>5. /\ \A v \in Workers \ {d} : loc'[v] = loc[v]
        /\ loc'[d].todo = loc[d].todo /\ loc'[d].stage = s /\ loc'[d].pc = "mark"
        /\ loc'[d].unit = u
    BY <1>0, <2>4 DEF LocType, Locals
  <2>6. KnownAt(d)'
    BY <2>1, <2>3, <2>5 DEF KnownAt, Known
  <2> QED
    BY <2>5, <2>6, OthersKnown
<1>9. ASSUME NEW d \in Drivers, MarkQueued(d) PROVE LocKnown'
  <2> DEFINE s == loc[d].stage
  <2>1. \A v \in loc[d].todo : Known(v, s)
    BY <1>9, <1>c DEF MarkQueued, At, KnownAt
  <2>2. \A v \in loc[d].todo : text'[v] # "absent" /\ (s = "image" => v \in articles' /\ text'[v] \in Settled)
    BY <1>a, <1>b, <2>1
  <2>3. /\ \A v \in Workers \ {d} : loc'[v] = loc[v]
        /\ loc'[d].todo \subseteq loc[d].todo /\ loc'[d].stage = s
        /\ loc'[d].pc \in {"remain", "send"}
    BY <1>0, <1>9 DEF MarkQueued, LocType, Locals
  <2>4. KnownAt(d)'
    BY <2>2, <2>3 DEF KnownAt, Known, WorkPoints, ConsumerPoints
  <2> QED
    BY <2>3, <2>4, OthersKnown
<1>10. ASSUME NEW d \in Drivers, Pick(d) PROVE LocKnown'
  <2> DEFINE s == loc[d].stage
             pending == With(s, {"pending"})
  <2>1. \A u \in pending : u \in Units /\ Known(u, s)
    BY <1>a, SelectedKnown
  <2>2. CASE pending = {}
    <3>1. loc' = [loc EXCEPT ![d].pc = "write", ![d].more = FALSE]
      BY <1>10, <2>2 DEF Pick
    <3>2. (\A v \in Workers \ {d} : loc'[v] = loc[v]) /\ loc'[d].pc = "write"
      BY <1>0, <3>1 DEF LocType, Locals
    <3> QED
      BY <3>2, ElsewhereKnown DEF WorkPoints, ConsumerPoints
  <2>3. CASE pending # {}
    <3> DEFINE u == Min(pending)
    <3>1. u \in pending
      BY <2>1, <2>3, LeastUnit
    <3>2. text'[u] # "absent" /\ (s = "image" => u \in articles' /\ text'[u] \in Settled)
      BY <1>a, <1>b, <2>1, <3>1
    <3>3. loc' = [loc EXCEPT ![d].pc = "generate", ![d].unit = u, ![d].tried = attempts[u]]
      BY <1>10, <2>3 DEF Pick
    <3> HIDE DEF u
    <3>4. /\ \A v \in Workers \ {d} : loc'[v] = loc[v]
          /\ loc'[d].stage = s /\ loc'[d].pc = "generate" /\ loc'[d].unit = u
      BY <1>0, <3>3 DEF LocType, Locals
    <3>5. KnownAt(d)'
      BY <3>2, <3>4 DEF KnownAt, Known
    <3> QED
      BY <3>4, <3>5, OthersKnown
  <2> QED
    BY <2>2, <2>3
<1>11. ASSUME NEW u \in Units, Lost(u) \/ Early(u) PROVE LocKnown'
  <2>1. loc' = loc /\ text' = text /\ articles' = articles
    BY <1>11 DEF Lost, Early
  <2> QED
    BY <1>c, <2>1 DEF LocKnown, KnownAt, Known
<1> QED
  BY <1>1, <1>2, <1>3, <1>4, <1>5, <1>6, <1>7, <1>8, <1>9, <1>10, <1>11, NextCases
     DEF Write, Crash, Ack, Retry, Evict

LEMMA RowsStep == TInv /\ WInv /\ Next => RowsWhole'
<1> SUFFICES ASSUME TInv, WInv, Next, NEW u \in Units PROVE text'[u] = "absent" <=> image'[u] = "absent"
  BY DEF RowsWhole
<1> USE Bounds
<1>0. LocType /\ BoardType /\ (text[u] = "absent" <=> image[u] = "absent")
  BY DEF TInv, WInv, RowsWhole
<1>a. \A w \in Workers : loc[w].unit \in Units /\ loc[w].stage \in Stages
  BY <1>0 DEF LocType, Locals
<1> DEFINE Goal == text'[u] = "absent" <=> image'[u] = "absent"
<1>1. ASSUME NEW w \in Workers, Insert(w) PROVE Goal
  BY <1>0, <1>1 DEF Insert
<1>2. ASSUME NEW s \in Stages, NEW us, NEW v, v # "absent", SetStatus(s, us, v),
             u \in us => text[u] # "absent"
      PROVE  Goal
  BY <1>0, <1>2 DEF SetStatus, Status, Stages
<1>3. ASSUME NEW w \in Workers, Reclaim(w) PROVE Goal
  <2> DEFINE stale == {v \in Units \ fresh : Status(loc[w].stage)[v] = "queued"}
  <2>1. SetStatus(loc[w].stage, stale, "pending")
    BY <1>3 DEF Reclaim
  <2>2. u \in stale => text[u] # "absent"
    BY <1>0 DEF Status
  <2> QED
    BY <1>2, <1>a, <2>1, <2>2
<1>4. ASSUME NEW w \in Workers, MarkQueued(w) \/ Throw(w) \/ TextDone(w) \/ ImageDone(w)
      PROVE  Goal
  <2>1. text[loc[w].unit] # "absent"
    BY <1>4 DEF MarkQueued, Throw, TextDone, ImageDone, At, WInv, LocKnown, KnownAt, Known,
                WorkPoints
  <2>2. CASE MarkQueued(w)
    BY <1>2, <1>a, <2>1, <2>2 DEF MarkQueued
  <2>3. CASE Throw(w)
    BY <1>2, <1>a, <2>1, <2>3 DEF Throw
  <2>4. CASE TextDone(w) \/ ImageDone(w)
    BY <1>2, <2>1, <2>4 DEF TextDone, ImageDone, Stages
  <2> QED
    BY <1>4, <2>2, <2>3, <2>4
<1>5. ASSUME ~ \E w \in Workers : Insert(w) \/ Reclaim(w) \/ MarkQueued(w) \/ Throw(w)
                                    \/ TextDone(w) \/ ImageDone(w)
      PROVE  Goal
  <2>1. text' = text /\ image' = image
    BY <1>5, NextCases
       DEF board, Start, Count, Select, Send, Remain, Pick, More, Write, Crash, TextLands,
           Deliver, ReadUnit, Ack, Retry, Evict, Lost, Early
  <2> QED
    BY <1>0, <2>1
<1> QED
  BY <1>1, <1>3, <1>4, <1>5

LEMMA ArticlesGrow == Next => articles \subseteq articles'
BY NextCases
   DEF board, Start, Count, Insert, Reclaim, Select, Send, MarkQueued, Remain, Pick, More,
       Write, Crash, Throw, TextLands, TextDone, ImageDone, Deliver, ReadUnit, Ack, Retry,
       Evict, Lost, Early

LEMMA BackedStep == TInv /\ WInv /\ Next => Backed'
<1> SUFFICES ASSUME TInv, WInv, Next PROVE Backed'
  OBVIOUS
<1> USE Bounds
<1>0. LocType /\ BoardType /\ Backed /\ articles \subseteq articles'
  BY ArticlesGrow DEF TInv, WInv
<1>s. /\ \A u \in linked : text'[u] \in Settled
      /\ \A u \in Units : image[u] = "queued" => text'[u] \in Settled
  BY <1>0, SettledStep DEF Backed, BoardType
<1>a. \A w \in Workers : loc[w].unit \in Units /\ loc[w].stage \in Stages
  BY <1>0 DEF LocType, Locals
<1>b. \A w \in Workers : KnownAt(w)
  BY DEF WInv, LocKnown
<1> DEFINE Finished(u) == text'[u] = "done" \/ image'[u] \in {"queued", "done"}
<1>1. ASSUME NEW w \in Workers, Insert(w) PROVE Backed'
  <2>1. \A u \in Units : Finished(u) => text[u] = "done" \/ image[u] \in {"queued", "done"}
    BY <1>0, <1>1 DEF Insert
  <2>q. \A u \in Units : image'[u] = "queued" => image[u] = "queued"
    BY <1>0, <1>1 DEF Insert
  <2> QED
    BY <1>0, <1>s, <1>1, <2>1, <2>q DEF Insert, Backed
<1>2. ASSUME NEW w \in Workers, Reclaim(w) \/ Throw(w) PROVE Backed'
  <2>1. \E us : \E v \in {"pending", "failed"} : SetStatus(loc[w].stage, us, v)
    BY <1>2 DEF Reclaim, Throw
  <2>2. \A u \in Units : Finished(u) => text[u] = "done" \/ image[u] \in {"queued", "done"}
    BY <1>0, <2>1 DEF SetStatus, Status
  <2>q. \A u \in Units : image'[u] = "queued" => image[u] = "queued"
    BY <1>0, <2>1 DEF SetStatus, Status
  <2> QED
    BY <1>0, <1>s, <1>2, <2>2, <2>q DEF Reclaim, Throw, Backed
<1>3. ASSUME NEW w \in Workers, MarkQueued(w) PROVE Backed'
  <2>1. PICK us \in SUBSET {loc[w].unit} : SetStatus(loc[w].stage, us, "queued")
    BY <1>3 DEF MarkQueued
  <2>2. loc[w].stage = "image" => loc[w].unit \in articles
    BY <1>3, <1>b DEF MarkQueued, At, KnownAt, Known, WorkPoints
  <2>3. \A u \in Units : Finished(u) =>
          text[u] = "done" \/ image[u] \in {"queued", "done"} \/ u \in articles
    BY <1>0, <2>1, <2>2 DEF SetStatus, Status
  <2>q. \A u \in Units : image'[u] = "queued" => text'[u] \in Settled
    <3>1. loc[w].stage = "image" => text[loc[w].unit] \in Settled
      BY <1>3, <1>b DEF MarkQueued, At, KnownAt, Known, WorkPoints
    <3>2. loc[w].stage = "image" => text'[loc[w].unit] \in Settled
      BY <1>0, <1>a, <2>1, <3>1 DEF SetStatus
    <3>3. \A u \in Units : image'[u] = "queued" =>
            image[u] = "queued" \/ (loc[w].stage = "image" /\ u = loc[w].unit)
      BY <1>0, <2>1 DEF SetStatus, Status
    <3> QED
      BY <1>s, <3>2, <3>3
  <2> QED
    BY <1>0, <1>s, <1>3, <2>3, <2>q DEF MarkQueued, Backed
<1>4. ASSUME NEW w \in Workers, TextDone(w) PROVE Backed'
  <2>1. loc[w].unit \in articles
    BY <1>4, <1>b DEF TextDone, At, KnownAt
  <2>2. \A u \in Units : Finished(u) =>
          text[u] = "done" \/ image[u] \in {"queued", "done"} \/ u \in articles
    BY <1>0, <1>4, <2>1 DEF TextDone, SetStatus, Status
  <2>3. text'[loc[w].unit] \in Settled
    BY <1>0, <1>a, <1>4 DEF TextDone, SetStatus, Status, Settled
  <2>q. image' = image
    BY <1>4 DEF TextDone, SetStatus
  <2> QED
    BY <1>0, <1>s, <1>4, <2>1, <2>2, <2>3, <2>q DEF TextDone, Backed
<1>5. ASSUME NEW w \in Workers, ImageDone(w) PROVE Backed'
  <2>1. loc[w].unit \in articles
    BY <1>5, <1>b DEF ImageDone, At, KnownAt, Known, WorkPoints
  <2>2. \A u \in Units : Finished(u) =>
          text[u] = "done" \/ image[u] \in {"queued", "done"} \/ u \in articles
    BY <1>0, <1>5, <2>1 DEF ImageDone, SetStatus, Status
  <2>q. \A u \in Units : image'[u] = "queued" => image[u] = "queued"
    BY <1>0, <1>5 DEF ImageDone, SetStatus, Status
  <2> QED
    BY <1>0, <1>s, <1>5, <2>2, <2>q DEF ImageDone, Backed
<1>6. ASSUME ~ \E w \in Workers : Insert(w) \/ Reclaim(w) \/ MarkQueued(w) \/ Throw(w)
                                    \/ TextDone(w) \/ ImageDone(w)
      PROVE  Backed'
  <2>1. text' = text /\ image' = image /\ linked' = linked
    BY <1>6, NextCases
       DEF board, Start, Count, Select, Send, Remain, Pick, More, Write, Crash, TextLands,
           Deliver, ReadUnit, Ack, Retry, Evict, Lost, Early
  <2> QED
    BY <1>0, <1>s, <2>1 DEF Backed
<1> QED
  BY <1>1, <1>2, <1>3, <1>4, <1>5, <1>6

LEMMA QueueKnownStep == TInv /\ WInv /\ Next => QueueKnown'
<1> SUFFICES ASSUME TInv, WInv, Next, NEW m \in Messages, queue'[m] > 0 PROVE Known(m.unit, m.stage)'
  BY DEF QueueKnown
<1> USE Bounds
<1>0. LocType /\ QueueType /\ ListsHeld
  BY DEF TInv
<1>a. \A w \in Workers : loc[w].unit \in Units /\ loc[w].stage \in Stages /\ loc[w].todo \subseteq Units
  BY <1>0 DEF LocType, Locals
<1>b. \A w \in Workers : KnownAt(w)
  BY DEF WInv, LocKnown
<1>c. m.unit \in Units /\ m.stage \in Stages
  BY DEF Messages
<1>1. ASSUME queue[m] > 0 PROVE Known(m.unit, m.stage)
  BY <1>1 DEF WInv, QueueKnown
<1>2. ASSUME NEW n, Put(n) PROVE queue[m] > 0 \/ m = n
  BY <1>0, <1>2 DEF Put, QueueType
<1>3. ASSUME NEW d \in Drivers, Send(d) PROVE Known(m.unit, m.stage)
  <2>1. Min(loc[d].todo) \in loc[d].todo
    BY <1>0, <1>a, <1>3, LeastUnit DEF Send, At, ListsHeld
  <2>2. Known(Min(loc[d].todo), loc[d].stage)
    BY <1>b, <1>3, <2>1 DEF Send, At, KnownAt
  <2>3. Put([unit |-> Min(loc[d].todo), stage |-> loc[d].stage, tries |-> 0])
    BY <1>3 DEF Send
  <2> QED
    BY <1>1, <1>2, <2>2, <2>3
<1>4. ASSUME NEW c \in Consumers, Retry(c) \/ Evict(c) PROVE Known(m.unit, m.stage)
  <2>1. loc[c].pc \in WorkPoints
    BY <1>4 DEF Retry, Evict, At, WInv, ConsumersConsume, WorkPoints, ConsumerPoints,
                GeneratorPoints
  <2>2. Known(loc[c].unit, loc[c].stage)
    BY <1>b, <2>1 DEF KnownAt
  <2>3. UNCHANGED queue \/ Put(Message(c, loc[c].tries + 1))
    BY <1>4 DEF Retry, Evict, Redeliver
  <2> QED
    BY <1>1, <1>2, <2>2, <2>3 DEF Message
<1>5. ASSUME NEW c \in Consumers, Deliver(c) PROVE queue[m] > 0
  <2>1. PICK n \in Messages : queue[n] > 0 /\ queue' = [queue EXCEPT ![n] = @ - 1]
    BY <1>5 DEF Deliver
  <2> QED
    BY <1>0, <2>1 DEF QueueType
<1>6. ASSUME UNCHANGED queue PROVE queue[m] > 0
  BY <1>6
<1>7. Known(m.unit, m.stage)
  BY <1>1, <1>3, <1>4, <1>5, <1>6, NextCases
     DEF Start, Count, Insert, Reclaim, Select, MarkQueued, Remain, Pick, More, Write, Crash,
         Throw, TextLands, TextDone, ImageDone, ReadUnit, Ack, Lost, Early
<1> QED
  BY <1>c, <1>7, KnownStays

LEMMA ConsumersStep == TInv /\ WInv /\ Next => ConsumersConsume'
<1> SUFFICES ASSUME TInv, WInv, Next PROVE ConsumersConsume'
  OBVIOUS
<1> USE Bounds
<1>0. LocType /\ ConsumersConsume
  BY DEF TInv, WInv
<1>d. \A d \in Drivers : d \notin Consumers
  BY ParametersAssumption
<1> DEFINE Fine(c) == \/ loc'[c].pc = "idle" /\ loc'[c].stage = "text"
                      \/ loc'[c].pc \in ConsumerPoints \cup GeneratorPoints
<1>1. ASSUME NEW w \in Workers, \A v \in Workers \ {w} : loc'[v] = loc[v],
             w \in Consumers => Fine(w)
      PROVE  ConsumersConsume'
  BY <1>0, <1>1 DEF ConsumersConsume
<1>2. ASSUME NEW d \in Drivers, \A v \in Workers \ {d} : loc'[v] = loc[v]
      PROVE  ConsumersConsume'
  BY <1>1, <1>2, <1>d
<1>3. ASSUME NEW w \in Workers, Throw(w) \/ TextLands(w) \/ TextDone(w) \/ ImageDone(w)
      PROVE  ConsumersConsume'
  <2>1. PICK p : Goto(w, p) /\ (w \in Consumers => p \in {"ack", "retry", "landed"})
    BY <1>3, <1>d DEF Throw, TextLands, TextDone, ImageDone, Return
  <2>2. (\A v \in Workers \ {w} : loc'[v] = loc[v]) /\ loc'[w].pc = p
    BY <1>0, <2>1, GotoFrame
  <2> QED
    BY <1>1, <2>1, <2>2 DEF ConsumerPoints, GeneratorPoints
<1>4. ASSUME NEW c \in Consumers, Deliver(c) \/ ReadUnit(c) PROVE ConsumersConsume'
  <2>1. (\A v \in Workers \ {c} : loc'[v] = loc[v]) /\ loc'[c].pc \in {"read", "ack", "generate"}
    <3>1. CASE Deliver(c)
      <4>1. PICK m \in Messages :
              loc' = [loc EXCEPT ![c].pc = "read", ![c].unit = m.unit,
                                 ![c].stage = m.stage, ![c].tries = m.tries]
        BY <3>1 DEF Deliver
      <4> QED
        BY <1>0, <4>1 DEF LocType, Locals
    <3>2. CASE ReadUnit(c)
      BY <1>0, <3>2 DEF ReadUnit, Goto, LocType, Locals
    <3> QED
      BY <1>4, <3>1, <3>2
  <2> QED
    BY <1>1, <2>1 DEF ConsumerPoints, GeneratorPoints
<1>5. ASSUME NEW w \in Workers, Exit(w) PROVE ConsumersConsume'
  BY <1>0, <1>1, <1>5, ExitFrame DEF Idle
<1>6. ASSUME NEW d \in Drivers,
             Start(d) \/ Count(d) \/ Insert(d) \/ Reclaim(d) \/ Select(d) \/ Send(d)
               \/ MarkQueued(d) \/ Remain(d) \/ Pick(d) \/ More(d)
      PROVE  ConsumersConsume'
  <2>1. \A v \in Workers \ {d} : loc'[v] = loc[v]
    BY <1>0, <1>6
       DEF Start, Count, Insert, Reclaim, Select, Send, MarkQueued, Remain, Pick, More, Goto,
           LocType
  <2> QED
    BY <1>2, <2>1
<1>7. ASSUME NEW u \in Units, Lost(u) \/ Early(u) PROVE ConsumersConsume'
  BY <1>0, <1>7 DEF Lost, Early, ConsumersConsume
<1> QED
  BY <1>3, <1>4, <1>5, <1>6, <1>7, NextCases DEF Write, Crash, Ack, Retry, Evict

LEMMA WStep == TInv /\ WInv /\ [Next]_vars => WInv'
<1>1. TInv /\ WInv /\ Next => WInv'
  BY LocKnownStep, RowsStep, BackedStep, QueueKnownStep, ConsumersStep DEF WInv
<1>2. WInv /\ UNCHANGED vars => WInv'
  BY DEF WInv, vars, board, RowsWhole, Backed, QueueKnown, LocKnown, ConsumersConsume, KnownAt,
         Known
<1> QED
  BY <1>1, <1>2

(* Nothing is done, linked, illustrated or announced for illustration      *)
(* before its article exists, for any number of units, drivers, consumers, *)
(* losses and copies (generateOneTextUnit, generateOneImageUnit).          *)
THEOREM ArticlesComeFirst == Spec => []ArticleFirst
<1>1. Spec => [](TInv /\ WInv)
  BY TInit, TStep, WInit, WStep, PTL DEF Spec
<1>2. TInv /\ WInv => ArticleFirst
  <2> SUFFICES ASSUME TInv, WInv, NEW u \in Units \ articles
               PROVE  /\ text[u] # "done" /\ u \notin linked
                      /\ image[u] \notin {"queued", "done"}
                      /\ \A m \in Messages : m.unit = u /\ m.stage = "image" => queue[m] = 0
                      /\ \A c \in Consumers : loc[c].stage = "image" => loc[c].unit # u
    BY DEF ArticleFirst
  <2>1. text[u] # "done" /\ u \notin linked /\ image[u] \notin {"queued", "done"}
    BY DEF WInv, Backed
  <2>2. ASSUME NEW m \in Messages, m.unit = u, m.stage = "image" PROVE queue[m] = 0
    <3>1. ~ (queue[m] > 0)
      BY <2>2 DEF WInv, QueueKnown, Known
    <3>2. queue[m] \in Nat
      BY DEF TInv, QueueType
    <3> QED
      BY <3>1, <3>2
  <2>3. ASSUME NEW c \in Consumers, loc[c].stage = "image" PROVE loc[c].unit # u
    <3>1. loc[c].pc \in WorkPoints
      BY <2>3 DEF WInv, ConsumersConsume, WorkPoints, ConsumerPoints, GeneratorPoints
    <3>2. Known(loc[c].unit, loc[c].stage)
      BY <3>1, Bounds DEF WInv, LocKnown, KnownAt
    <3> QED
      BY <2>3, <3>2 DEF Known
  <2> QED
    BY <2>1, <2>2, <2>3
<1> QED
  BY <1>1, <1>2, PTL

-----------------------------------------------------------------------------
(* Settled stays settled                                                   *)

(* A finished unit is never opened again: the driver's late mark and the   *)
(* reclaim only take open units, and every other write settles            *)
(* (enqueueProvisionUnits, recordUnitFailure, the two generators).         *)
THEOREM SettledUnitsStay == Spec => SettledStays
<1>1. Spec => [](TInv /\ WInv)
  BY TInit, TStep, WInit, WStep, PTL DEF Spec
<1>2. TInv /\ WInv /\ [Next]_vars
        => [\A u \in Units : /\ text[u] \in Settled => text'[u] \in Settled
                             /\ image[u] \in Settled => image'[u] \in Settled]_vars
  BY SettledStep
<1> QED
  BY <1>1, <1>2, PTL DEF Spec, SettledStays

-----------------------------------------------------------------------------
(* The attempts behind a failure                                           *)

(* attempt_count is shared by both stages and written from a value read    *)
(* before the AI call, but of an open text it counts only texts that threw, *)
(* and so does the value every generator of a text carries.                *)
CountsCovered ==
  \A u \in Units : text[u] \notin Settled => attempts[u] <= thrown["text"][u]

HeldCovered ==
  \A w \in Workers :
    At(w, "generate") /\ loc[w].stage = "text" => loc[w].tried <= thrown["text"][loc[w].unit]

AInv == CountsCovered /\ HeldCovered /\ TextTriedEnough

LEMMA AInit == Init => AInv
BY Bounds DEF Init, AInv, CountsCovered, HeldCovered, TextTriedEnough, Idle, At, Stages

LEMMA CountsAreNumbers ==
  ASSUME TInv
  PROVE  /\ \A u \in Units : attempts[u] \in Nat /\ thrown["text"][u] \in Nat
         /\ \A w \in Workers : /\ loc[w].tried \in Nat /\ loc[w].unit \in Units
                               /\ loc[w].stage \in Stages
<1>1. thrown["text"] \in [Units -> 0 .. throws] /\ attempts \in [Units -> 0 .. throws]
  BY DEF TInv, CountType, Stages
<1> QED
  BY <1>1, Bounds DEF TInv, LocType, Locals

(* The catch of a generator: only there a text fails, and only there the   *)
(* attempts change.                                                        *)
LEMMA ThrowCovered ==
  ASSUME TInv, WInv, AInv, NEW w \in Workers, Throw(w)
  PROVE  AInv'
<1> DEFINE u == loc[w].unit
           s == loc[w].stage
           spent == loc[w].tried + 1 >= MaxUnitAttempts
<1>0. LocType /\ BoardType /\ u \in Units /\ s \in Stages /\ MaxUnitAttempts \in Nat
      /\ loc[w].tried \in Nat
  BY CountsAreNumbers, ParametersAssumption DEF TInv
<1>1. \A v \in Units : attempts[v] \in Nat /\ thrown["text"][v] \in Nat
  BY CountsAreNumbers
<1>2. /\ At(w, "generate")
      /\ attempts' = [attempts EXCEPT ![u] = loc[w].tried + 1]
      /\ SetStatus(s, IF spent THEN {u} ELSE {}, "failed")
      /\ thrown' = [thrown EXCEPT ![s][u] = @ + 1]
  BY DEF Throw
<1>3. PICK p \in {"more", "ack", "retry"} : Goto(w, p)
  BY DEF Throw, Return
<1>4. (\A v \in Workers \ {w} : loc'[v] = loc[v]) /\ ~ At(w, "generate")'
  BY <1>0, <1>3, GotoFrame DEF At
<1>5. /\ thrown["text"] \in [Units -> 0 .. throws] /\ attempts \in [Units -> 0 .. throws]
      /\ thrown \in [Stages -> [Units -> 0 .. throws]]
  BY DEF TInv, CountType, Stages
<1>6. /\ attempts'[u] = loc[w].tried + 1
      /\ \A v \in Units \ {u} : attempts'[v] = attempts[v]
  BY <1>0, <1>2, <1>5
<1>7. CASE s = "text"
  <2>1. thrown'["text"] = [thrown["text"] EXCEPT ![u] = @ + 1]
    BY <1>2, <1>5, <1>7 DEF Stages
  <2>2. /\ thrown'["text"][u] = thrown["text"][u] + 1
        /\ \A v \in Units \ {u} : thrown'["text"][v] = thrown["text"][v]
    BY <1>0, <1>5, <2>1
  <2>3. loc[w].tried <= thrown["text"][u]
    BY <1>2, <1>7 DEF AInv, HeldCovered
  <2>4. attempts'[u] <= thrown'["text"][u]
    BY <1>0, <1>1, <1>6, <2>2, <2>3
  <2>5. /\ \A v \in Units \ {u} : text'[v] = text[v]
        /\ text'[u] = IF spent THEN "failed" ELSE text[u]
    BY <1>0, <1>2, <1>7 DEF SetStatus, Status
  <2>6. CountsCovered'
    BY <1>1, <1>6, <2>2, <2>4, <2>5 DEF AInv, CountsCovered
  <2>7. HeldCovered'
    BY <1>0, <1>1, <1>4, <2>2, CountsAreNumbers DEF AInv, HeldCovered, At
  <2>8. spent => thrown'["text"][u] >= MaxUnitAttempts
    BY <1>0, <1>1, <2>2, <2>3
  <2>9. TextTriedEnough'
    BY <1>0, <1>1, <2>2, <2>5, <2>8 DEF AInv, TextTriedEnough
  <2> QED
    BY <2>6, <2>7, <2>9 DEF AInv
<1>8. CASE s = "image"
  <2>1. text[u] \in Settled
    BY <1>2, <1>8 DEF At, WInv, LocKnown, KnownAt, Known, WorkPoints
  <2>2. thrown'["text"] = thrown["text"] /\ text' = text
    BY <1>2, <1>5, <1>8 DEF Stages, SetStatus
  <2>3. CountsCovered'
    BY <1>6, <2>1, <2>2 DEF AInv, CountsCovered
  <2>4. HeldCovered' /\ TextTriedEnough'
    BY <1>4, <2>2 DEF AInv, HeldCovered, TextTriedEnough, At
  <2> QED
    BY <2>3, <2>4 DEF AInv
<1> QED
  BY <1>0, <1>7, <1>8 DEF Stages

(* Elsewhere no text fails.                                                *)
LEMMA FailsOnlyInThrow ==
  ASSUME TInv, Next, \A w \in Workers : ~ Throw(w), NEW u \in Units, text'[u] = "failed"
  PROVE  text[u] = "failed"
<1> USE Bounds
<1>0. LocType /\ BoardType
  BY DEF TInv
<1>a. \A w \in Workers : loc[w].stage \in Stages
  BY <1>0 DEF LocType, Locals
<1>1. ASSUME NEW d \in Drivers, Insert(d) PROVE text[u] = "failed"
  BY <1>0, <1>1 DEF Insert
<1>2. ASSUME NEW s \in Stages, NEW us, NEW v, v # "failed", SetStatus(s, us, v)
      PROVE  text[u] = "failed"
  BY <1>0, <1>2 DEF SetStatus, Status
<1>3. ASSUME NEW w \in Workers, Reclaim(w) \/ MarkQueued(w) \/ TextDone(w) \/ ImageDone(w)
      PROVE  text[u] = "failed"
  BY <1>2, <1>3, <1>a DEF Reclaim, MarkQueued, TextDone, ImageDone, Stages
<1>4. CASE UNCHANGED text
  BY <1>4
<1> QED
  BY <1>1, <1>3, <1>4, NextCases
     DEF board, Start, Count, Select, Send, Remain, Pick, More, Write, Crash, TextLands,
         Deliver, ReadUnit, Ack, Retry, Evict, Lost, Early

(* What a generator of a text carries was read of an open text.            *)
LEMMA HeldStep ==
  ASSUME TInv, AInv, Next, UNCHANGED <<attempts, thrown>>
  PROVE  HeldCovered'
<1> USE Bounds
<1>0. LocType /\ BoardType
  BY DEF TInv
<1>1. ASSUME NEW w \in Workers, \A v \in Workers \ {w} : loc'[v] = loc[v],
             At(w, "generate")' /\ loc'[w].stage = "text"
               => loc'[w].tried <= thrown["text"][loc'[w].unit]
      PROVE  HeldCovered'
  BY <1>1 DEF AInv, HeldCovered, At
<1>2. ASSUME NEW w \in Workers,
             Exit(w) \/ \E p \in Points \ {"generate"} : Goto(w, p)
      PROVE  HeldCovered'
  BY <1>0, <1>1, <1>2, ExitFrame, GotoFrame DEF At, Idle
<1>3. ASSUME NEW d \in Drivers,
             \/ Start(d) \/ Count(d) \/ Insert(d) \/ Reclaim(d) \/ Select(d) \/ Send(d)
             \/ MarkQueued(d) \/ Remain(d) \/ More(d)
      PROVE  HeldCovered'
  <2>1. (\A v \in Workers \ {d} : loc'[v] = loc[v]) /\ ~ At(d, "generate")'
    <3>1. CASE Start(d) \/ Count(d) \/ Insert(d)
      <4>1. FirstPoint # "generate"
        BY DEF FirstPoint
      <4> QED
        BY <1>0, <3>1, <4>1 DEF Start, Count, Insert, At, LocType, Locals
    <3>2. CASE Reclaim(d) \/ Select(d) \/ Send(d)
      BY <1>0, <3>2 DEF Reclaim, Select, Send, Goto, At, LocType, Locals
    <3>3. CASE MarkQueued(d) \/ Remain(d) \/ More(d)
      BY <1>0, <3>3 DEF MarkQueued, Remain, More, At, LocType, Locals
    <3> QED
      BY <1>3, <3>1, <3>2, <3>3
  <2> QED
    BY <1>1, <2>1
<1>4. ASSUME NEW d \in Drivers, Pick(d) PROVE HeldCovered'
  <2> DEFINE pending == With(loc[d].stage, {"pending"})
  <2>1. CASE pending = {}
    <3>1. loc' = [loc EXCEPT ![d].pc = "write", ![d].more = FALSE]
      BY <1>4, <2>1 DEF Pick
    <3> QED
      BY <1>0, <1>1, <3>1 DEF At, LocType, Locals
  <2>2. CASE pending # {}
    <3> DEFINE u == Min(pending)
    <3>1. u \in pending
      BY <1>0, <2>2, LeastUnit DEF With, Gate, BoardType
    <3>2. loc' = [loc EXCEPT ![d].pc = "generate", ![d].unit = u, ![d].tried = attempts[u]]
      BY <1>4, <2>2 DEF Pick
    <3>3. loc[d].stage = "text" => u \in Units /\ text[u] \notin Settled
      BY <3>1 DEF With, Gate, Status, Settled
    <3>4. loc[d].stage = "text" => attempts[u] <= thrown["text"][u]
      BY <3>3 DEF AInv, CountsCovered
    <3> HIDE DEF u
    <3>5. /\ \A v \in Workers \ {d} : loc'[v] = loc[v]
          /\ loc'[d].stage = loc[d].stage /\ loc'[d].unit = u /\ loc'[d].tried = attempts[u]
      BY <1>0, <3>2 DEF LocType, Locals
    <3> QED
      BY <1>1, <3>4, <3>5
  <2> QED
    BY <2>1, <2>2
<1>5. ASSUME NEW c \in Consumers, ReadUnit(c) PROVE HeldCovered'
  <2>1. CASE Status(loc[c].stage)[loc[c].unit] \in Settled
    BY <1>2, <1>5, <2>1 DEF ReadUnit, Points, ConsumerPoints
  <2>2. CASE Status(loc[c].stage)[loc[c].unit] \notin Settled
    <3>1. loc' = [loc EXCEPT ![c].pc = "generate", ![c].tried = attempts[loc[c].unit]]
      BY <1>5, <2>2 DEF ReadUnit
    <3>2. loc[c].unit \in Units
      BY <1>0 DEF LocType, Locals
    <3>3. loc[c].stage = "text" => attempts[loc[c].unit] <= thrown["text"][loc[c].unit]
      BY <2>2, <3>2 DEF AInv, CountsCovered, Status
    <3>4. /\ \A v \in Workers \ {c} : loc'[v] = loc[v]
          /\ loc'[c].stage = loc[c].stage /\ loc'[c].unit = loc[c].unit
          /\ loc'[c].tried = attempts[loc[c].unit]
      BY <1>0, <3>1 DEF LocType, Locals
    <3> QED
      BY <1>1, <3>3, <3>4
  <2> QED
    BY <2>1, <2>2
<1>6. ASSUME NEW c \in Consumers, Deliver(c) PROVE HeldCovered'
  <2>1. PICK m \in Messages :
          loc' = [loc EXCEPT ![c].pc = "read", ![c].unit = m.unit,
                             ![c].stage = m.stage, ![c].tries = m.tries]
    BY <1>6 DEF Deliver
  <2>2. (\A v \in Workers \ {c} : loc'[v] = loc[v]) /\ ~ At(c, "generate")'
    BY <1>0, <2>1 DEF At, LocType, Locals
  <2> QED
    BY <1>1, <2>2
<1>7. ASSUME NEW w \in Workers, Throw(w) \/ TextLands(w) \/ TextDone(w) \/ ImageDone(w)
      PROVE  HeldCovered'
  BY <1>2, <1>7 DEF Throw, TextLands, TextDone, ImageDone, Return, Points, DriverPoints,
                    ConsumerPoints, GeneratorPoints
<1>8. ASSUME NEW w \in Workers, Write(w) \/ Crash(w) \/ Ack(w) \/ Retry(w) \/ Evict(w)
      PROVE  HeldCovered'
  BY <1>2, <1>8 DEF Write, Crash, Ack, Retry, Evict
<1>9. ASSUME NEW u \in Units, Lost(u) \/ Early(u) PROVE HeldCovered'
  BY <1>9 DEF Lost, Early, AInv, HeldCovered, At
<1> QED
  BY <1>3, <1>4, <1>5, <1>6, <1>7, <1>8, <1>9, NextCases

LEMMA AStep == TInv /\ WInv /\ AInv /\ [Next]_vars => AInv'
<1> SUFFICES ASSUME TInv, WInv, AInv, [Next]_vars PROVE AInv'
  OBVIOUS
<1>1. CASE UNCHANGED vars
  BY <1>1 DEF vars, board, AInv, CountsCovered, HeldCovered, TextTriedEnough, At
<1>2. CASE \E w \in Workers : Throw(w)
  BY <1>2, ThrowCovered
<1>3. CASE Next /\ \A w \in Workers : ~ Throw(w)
  <2>1. UNCHANGED <<attempts, thrown>>
    BY <1>3, NextCases
       DEF board, Start, Count, Insert, Reclaim, Select, Send, MarkQueued, Remain, Pick, More,
           Write, Crash, TextLands, TextDone, ImageDone, Deliver, ReadUnit, Ack, Retry, Evict,
           Lost, Early
  <2>2. CountsCovered'
    BY <2>1, SettledStep DEF AInv, CountsCovered
  <2>3. TextTriedEnough'
    BY <1>3, <2>1, FailsOnlyInThrow DEF AInv, TextTriedEnough
  <2> QED
    BY <1>3, <2>1, <2>2, <2>3, HeldStep DEF AInv
<1> QED
  BY <1>1, <1>2, <1>3

(* TextTriedEnough: a unit loses its text only after MaxUnitAttempts       *)
(* generations of it threw, though overlapping consumers count from the    *)
(* same value and text and image share the counter (recordUnitFailure).    *)
THEOREM TextIsTriedEnough == Spec => []TextTriedEnough
<1>1. Spec => [](TInv /\ WInv /\ AInv)
  BY TInit, TStep, WInit, WStep, AInit, AStep, PTL DEF Spec
<1>2. AInv => TextTriedEnough
  BY DEF AInv
<1> QED
  BY <1>1, <1>2, PTL

-----------------------------------------------------------------------------
(* The barrier between the stages, one driver at a time                    *)

OneDriver == \A d, e \in Drivers : d = e

TextClosed == \A u \in Units : text[u] \in Settled \cup {"absent"}

BInv ==
  /\ \A d \in Drivers : loc[d].pc # "idle" => loc[d].stage = pointer
  /\ \A d \in Drivers : loc[d].pc \in {"count", "insert"} => loc[d].stage = "text"
  /\ \A d \in Drivers : loc[d].pc \in {"reclaim", "select", "send", "mark", "remain"} => useQueue
  /\ \A d \in Drivers : loc[d].pc \in {"pick", "generate", "landed", "more"} => ~ useQueue
  /\ useQueue \/ \A u \in Units : text[u] # "queued"
  /\ pointer # "text" => TextClosed
  /\ \A d \in Drivers :
       loc[d].pc = "write" /\ loc[d].stage = "text" /\ ~ loc[d].more => TextClosed

LEMMA BInit == Init => BInv
BY Bounds DEF Init, BInv, Idle, TextClosed

(* Only an INSERT of the plan opens a unit.                                *)
LEMMA ClosedStays ==
  ASSUME TInv, Next, TextClosed, \A d \in Drivers : ~ Insert(d)
  PROVE  TextClosed'
<1> USE Bounds
<1>0. LocType /\ BoardType
  BY DEF TInv
<1>a. \A w \in Workers : loc[w].unit \in Units /\ loc[w].stage \in Stages
  BY <1>0 DEF LocType, Locals
<1>1. ASSUME NEW s \in Stages, NEW us, NEW v, SetStatus(s, us, v),
             v \in Settled \/ \A u \in Units \cap us : Status(s)[u] \in {"pending", "queued"}
      PROVE  TextClosed'
  BY <1>0, <1>1 DEF SetStatus, Status, TextClosed, Settled, Stages
<1>2. ASSUME NEW w \in Workers, Reclaim(w) \/ MarkQueued(w) PROVE TextClosed'
  BY <1>1, <1>2, <1>a DEF Reclaim, MarkQueued
<1>3. ASSUME NEW w \in Workers, Throw(w) \/ TextDone(w) \/ ImageDone(w) PROVE TextClosed'
  BY <1>1, <1>3, <1>a DEF Throw, TextDone, ImageDone, Settled, Stages
<1>4. ASSUME ~ \E w \in Workers : Reclaim(w) \/ MarkQueued(w) \/ Throw(w) \/ TextDone(w)
                                    \/ ImageDone(w)
      PROVE  TextClosed'
  <2>1. text' = text
    BY <1>4, NextCases
       DEF board, Start, Count, Select, Send, Remain, Pick, More, Write, Crash, TextLands,
           Deliver, ReadUnit, Ack, Retry, Evict, Lost, Early
  <2> QED
    BY <2>1 DEF TextClosed
<1> QED
  BY <1>2, <1>3, <1>4

(* Without a queue binding nothing is queued.                              *)
LEMMA NoneQueued ==
  ASSUME TInv, BInv, Next, ~ useQueue, NEW u \in Units
  PROVE  text'[u] # "queued"
<1> USE Bounds
<1>0. LocType /\ BoardType /\ text[u] # "queued"
  BY DEF TInv, BInv
<1>a. \A w \in Workers : loc[w].stage \in Stages
  BY <1>0 DEF LocType, Locals
<1>1. ASSUME NEW d \in Drivers, Insert(d) PROVE text'[u] # "queued"
  BY <1>0, <1>1 DEF Insert
<1>2. ASSUME NEW s \in Stages, NEW us, NEW v, v # "queued", SetStatus(s, us, v)
      PROVE  text'[u] # "queued"
  BY <1>0, <1>2 DEF SetStatus, Status
<1>3. ASSUME NEW w \in Workers, Reclaim(w) \/ Throw(w) \/ TextDone(w) \/ ImageDone(w)
      PROVE  text'[u] # "queued"
  BY <1>2, <1>3, <1>a DEF Reclaim, Throw, TextDone, ImageDone, Stages
<1>4. \A d \in Drivers : ~ MarkQueued(d)
  BY DEF MarkQueued, At, BInv
<1>5. ASSUME ~ \E w \in Workers : Insert(w) \/ Reclaim(w) \/ Throw(w) \/ TextDone(w)
                                    \/ ImageDone(w)
      PROVE  text'[u] # "queued"
  <2>1. text' = text
    BY <1>4, <1>5, NextCases
       DEF board, Start, Count, Select, Send, Remain, Pick, More, Write, Crash, TextLands,
           Deliver, ReadUnit, Ack, Retry, Evict, Lost, Early
  <2> QED
    BY <1>0, <2>1
<1>6. CASE \E d \in Drivers : Insert(d)
  BY <1>1, <1>6
<1>7. CASE \A d \in Drivers : ~ Insert(d)
  BY <1>3, <1>4, <1>7, NextCases, <1>0
     DEF board, Start, Count, Select, Send, Remain, Pick, More, Write, Crash, TextLands,
         Deliver, ReadUnit, Ack, Retry, Evict, Lost, Early
<1> QED
  BY <1>6, <1>7

(* Where a step of the driver, or of somebody else, leaves the driver.     *)
DriverFine(d) ==
  /\ loc[d].pc # "idle" => loc[d].stage = pointer
  /\ loc[d].pc \in {"count", "insert"} => loc[d].stage = "text"
  /\ loc[d].pc \in {"reclaim", "select", "send", "mark", "remain"} => useQueue
  /\ loc[d].pc \in {"pick", "generate", "landed", "more"} => ~ useQueue
  /\ loc[d].pc = "write" /\ loc[d].stage = "text" /\ ~ loc[d].more => TextClosed

LEMMA BStep == OneDriver /\ TInv /\ BInv /\ Next => BInv'
<1> SUFFICES ASSUME OneDriver, TInv, BInv, Next PROVE BInv'
  OBVIOUS
<1> USE Bounds
<1>0. LocType /\ BoardType /\ FrameType
  BY DEF TInv
<1>a. useQueue' = useQueue
  BY NextCases
     DEF Start, Count, Insert, Reclaim, Select, Send, MarkQueued, Remain, Pick, More, Write,
         Crash, Throw, TextLands, TextDone, ImageDone, Deliver, ReadUnit, Ack, Retry, Evict,
         Lost, Early
<1>b. useQueue' \/ \A u \in Units : text'[u] # "queued"
  BY <1>a, NoneQueued
<1>c. \A d \in Drivers : DriverFine(d)
  BY DEF BInv, DriverFine
<1>d. \A d \in Drivers : d \notin Consumers /\ \A e \in Drivers : e = d
  BY ParametersAssumption DEF OneDriver
<1>1. ASSUME pointer' # "text" => TextClosed', \A d \in Drivers : DriverFine(d)'
      PROVE  BInv'
  BY <1>b, <1>1 DEF BInv, DriverFine
<1>2. ASSUME UNCHANGED pointer, \A d \in Drivers : ~ Insert(d)
      PROVE  pointer' # "text" => TextClosed'
  BY <1>2, ClosedStays DEF BInv
<1>3. ASSUME UNCHANGED pointer, \A d \in Drivers : ~ Insert(d) /\ loc'[d] = loc[d]
      PROVE  BInv'
  <2>1. \A d \in Drivers : DriverFine(d)'
    BY <1>a, <1>c, <1>3, ClosedStays DEF DriverFine
  <2> QED
    BY <1>1, <1>2, <1>3, <2>1
<1>4. ASSUME NEW d \in Drivers, UNCHANGED pointer, ~ Insert(d),
             loc'[d].pc \in {"reclaim", "select", "send", "mark", "remain", "pick", "count",
                             "insert", "generate", "landed", "more", "ack", "retry", "idle"},
             loc'[d].pc # "idle" => loc'[d].stage = pointer,
             loc'[d].pc \in {"count", "insert"} => loc'[d].stage = "text",
             loc'[d].pc \in {"reclaim", "select", "send", "mark", "remain"} => useQueue,
             loc'[d].pc \in {"pick", "generate", "landed", "more"} => ~ useQueue
      PROVE  BInv'
  <2>1. DriverFine(d)'
    BY <1>a, <1>4 DEF DriverFine
  <2> QED
    BY <1>1, <1>2, <1>4, <1>d, <2>1
<1>5. ASSUME NEW d \in Drivers, UNCHANGED pointer, ~ Insert(d),
             loc'[d].pc = "write", loc[d].pc # "idle", loc'[d].stage = loc[d].stage,
             loc[d].stage = "text" /\ ~ loc'[d].more => TextClosed
      PROVE  BInv'
  <2>1. TextClosed => TextClosed'
    BY <1>5, <1>d, ClosedStays
  <2>2. DriverFine(d)'
    BY <1>a, <1>c, <1>5, <2>1 DEF DriverFine
  <2> QED
    BY <1>1, <1>2, <1>5, <1>d, <2>2
<1>6. ASSUME NEW d \in Drivers, Start(d) PROVE BInv'
  <2>1. /\ loc'[d].stage = pointer
        /\ loc'[d].pc = IF pointer = "text" THEN "count" ELSE FirstPoint
    BY <1>0, <1>6 DEF Start, LocType, Locals
  <2>2. UNCHANGED pointer /\ ~ Insert(d)
    BY <1>6 DEF Start, Insert, At
  <2> QED
    BY <1>4, <2>1, <2>2 DEF FirstPoint
<1>7. ASSUME NEW d \in Drivers, Count(d) PROVE BInv'
  <2>1. /\ loc'[d].stage = loc[d].stage
        /\ loc'[d].pc \in {"insert", FirstPoint}
    BY <1>0, <1>7 DEF Count, LocType, Locals
  <2>2. UNCHANGED pointer /\ ~ Insert(d) /\ loc[d].stage = "text" /\ pointer = "text"
    BY <1>7, <1>c DEF Count, Insert, At, DriverFine
  <2> QED
    BY <1>4, <2>1, <2>2 DEF FirstPoint
<1>8. ASSUME NEW d \in Drivers, Insert(d) PROVE BInv'
  <2>1. /\ loc'[d].stage = loc[d].stage
        /\ loc'[d].pc \in {"insert", FirstPoint}
    BY <1>0, <1>8 DEF Insert, LocType, Locals
  <2>2. UNCHANGED pointer /\ loc[d].stage = "text" /\ pointer = "text"
    BY <1>8, <1>c DEF Insert, At, DriverFine
  <2>3. DriverFine(d)'
    BY <1>a, <2>1, <2>2 DEF DriverFine, FirstPoint
  <2> QED
    BY <1>1, <1>d, <2>2, <2>3
<1>9. ASSUME NEW d \in Drivers, Reclaim(d) \/ Select(d) \/ Send(d) \/ MarkQueued(d) PROVE BInv'
  <2>1. /\ loc'[d].stage = loc[d].stage
        /\ loc'[d].pc \in {"select", "send", "mark", "remain"}
    BY <1>0, <1>9 DEF Reclaim, Select, Send, MarkQueued, Goto, LocType, Locals
  <2>2. UNCHANGED pointer /\ ~ Insert(d) /\ loc[d].stage = pointer /\ useQueue
    BY <1>9, <1>c DEF Reclaim, Select, Send, MarkQueued, Insert, At, DriverFine
  <2> QED
    BY <1>4, <2>1, <2>2
<1>10. ASSUME NEW d \in Drivers, Remain(d) PROVE BInv'
  <2>1. /\ loc'[d].stage = loc[d].stage /\ loc'[d].pc = "write"
        /\ loc'[d].more = (With(loc[d].stage, {"pending", "queued"}) # {})
    BY <1>0, <1>10 DEF Remain, LocType, Locals
  <2>2. UNCHANGED pointer /\ ~ Insert(d) /\ loc[d].pc # "idle"
    BY <1>10 DEF Remain, Insert, At
  <2>3. ASSUME loc[d].stage = "text", ~ loc'[d].more PROVE TextClosed
    BY <1>0, <2>1, <2>3 DEF With, Gate, Status, TextClosed, BoardType, Statuses
  <2> QED
    BY <1>5, <2>1, <2>2, <2>3
<1>11. ASSUME NEW d \in Drivers, More(d) PROVE BInv'
  <2>1. /\ loc'[d].stage = loc[d].stage /\ loc'[d].pc = "write"
        /\ loc'[d].more = (With(loc[d].stage, {"pending"}) # {})
    BY <1>0, <1>11 DEF More, LocType, Locals
  <2>2. UNCHANGED pointer /\ ~ Insert(d) /\ loc[d].pc # "idle" /\ ~ useQueue
    BY <1>11, <1>c DEF More, Insert, At, DriverFine
  <2>3. ASSUME loc[d].stage = "text", ~ loc'[d].more PROVE TextClosed
    <3>1. \A u \in Units : text[u] # "queued" /\ text[u] # "pending"
      BY <2>1, <2>2, <2>3 DEF BInv, With, Gate, Status
    <3> QED
      BY <1>0, <3>1 DEF TextClosed, BoardType, Statuses
  <2> QED
    BY <1>5, <2>1, <2>2, <2>3
<1>12. ASSUME NEW d \in Drivers, Pick(d) PROVE BInv'
  <2> DEFINE pending == With(loc[d].stage, {"pending"})
  <2>1. UNCHANGED pointer /\ ~ Insert(d) /\ loc[d].pc # "idle" /\ ~ useQueue
        /\ loc[d].stage = pointer
    BY <1>12, <1>c DEF Pick, Insert, At, DriverFine
  <2>2. CASE pending = {}
    <3>1. loc' = [loc EXCEPT ![d].pc = "write", ![d].more = FALSE]
      BY <1>12, <2>2 DEF Pick
    <3>2. loc'[d].stage = loc[d].stage /\ loc'[d].pc = "write"
      BY <1>0, <3>1 DEF LocType, Locals
    <3>3. ASSUME loc[d].stage = "text" PROVE TextClosed
      <4>1. \A u \in Units : text[u] # "queued" /\ text[u] # "pending"
        BY <2>1, <2>2, <3>3 DEF BInv, With, Gate, Status
      <4> QED
        BY <1>0, <4>1 DEF TextClosed, BoardType, Statuses
    <3> QED
      BY <1>5, <2>1, <3>2, <3>3
  <2>3. CASE pending # {}
    <3> DEFINE u == Min(pending)
    <3>1. loc' = [loc EXCEPT ![d].pc = "generate", ![d].unit = u, ![d].tried = attempts[u]]
      BY <1>12, <2>3 DEF Pick
    <3> HIDE DEF u
    <3>2. loc'[d].stage = loc[d].stage /\ loc'[d].pc = "generate"
      BY <1>0, <3>1 DEF LocType, Locals
    <3> QED
      BY <1>4, <2>1, <3>2
  <2> QED
    BY <2>2, <2>3
<1>13. ASSUME NEW d \in Drivers, Exit(d), UNCHANGED pointer PROVE BInv'
  <2>1. loc'[d].pc = "idle" /\ loc'[d] = Idle
    BY <1>0, <1>13, ExitFrame DEF Idle
  <2>2. DriverFine(d)'
    BY <2>1 DEF DriverFine
  <2>3. CASE Insert(d)
    BY <1>8, <2>3
  <2>4. CASE ~ Insert(d)
    BY <1>1, <1>2, <1>13, <1>d, <2>2, <2>4
  <2> QED
    BY <2>3, <2>4
<1>14. ASSUME NEW d \in Drivers, Write(d) PROVE BInv'
  <2>1. loc'[d] = Idle /\ loc'[d].pc = "idle"
    BY <1>0, <1>14, ExitFrame DEF Write, Idle
  <2>2. DriverFine(d)'
    BY <2>1 DEF DriverFine
  <2>3. loc[d].pc = "write" /\ loc[d].stage = pointer /\ ~ Insert(d)
    BY <1>14, <1>c DEF Write, Insert, At, DriverFine
  <2>4. text' = text
    BY <1>14 DEF Write, board
  <2>5. pointer' # "text" => TextClosed
    <3>1. CASE loc[d].more
      BY <1>14, <2>3, <3>1 DEF Write, BInv
    <3>2. CASE ~ loc[d].more /\ loc[d].stage = "text"
      BY <1>c, <2>3, <3>2 DEF DriverFine
    <3>3. CASE loc[d].stage # "text"
      BY <2>3, <3>3 DEF BInv
    <3> QED
      BY <3>1, <3>2, <3>3
  <2> QED
    BY <1>1, <1>d, <2>2, <2>4, <2>5 DEF TextClosed
<1>15. ASSUME NEW w \in Workers, Throw(w) \/ TextLands(w) \/ TextDone(w) \/ ImageDone(w)
       PROVE  BInv'
  <2>1. UNCHANGED pointer /\ loc[w].pc \in {"generate", "landed"}
        /\ \A d \in Drivers : ~ Insert(d) \/ d # w
    BY <1>15 DEF Throw, TextLands, TextDone, ImageDone, At, Insert
  <2>2. PICK p \in {"more", "ack", "retry", "landed"} :
          Goto(w, p) /\ (w \in Drivers => p \in {"more", "landed"})
    BY <1>15 DEF Throw, TextLands, TextDone, ImageDone, Return
  <2>3. /\ \A v \in Workers \ {w} : loc'[v] = loc[v]
        /\ loc'[w].pc = p /\ loc'[w].stage = loc[w].stage
    BY <1>0, <2>2, GotoFrame
  <2>4. \A d \in Drivers : ~ Insert(d)
    <3> SUFFICES ASSUME NEW d \in Drivers, Insert(d) PROVE FALSE
      OBVIOUS
    <3>1. loc'[d] = loc[d] /\ loc[d].todo \subseteq Units
      BY <1>0, <2>1, <2>3 DEF LocType, Locals
    <3>2. Min(loc[d].todo) \in loc[d].todo
      BY <3>1, LeastUnit DEF Insert, At, TInv, ListsHeld
    <3>3. loc'[d].todo = loc[d].todo \ {Min(loc[d].todo)}
      BY <1>0 DEF Insert, LocType, Locals
    <3> QED
      BY <3>1, <3>2, <3>3
  <2>5. CASE w \in Drivers
    <3>1. loc[w].stage = pointer /\ ~ useQueue
      BY <1>c, <2>1, <2>5 DEF DriverFine
    <3> QED
      BY <1>4, <2>1, <2>2, <2>3, <2>4, <2>5, <3>1
  <2>6. CASE w \notin Drivers
    BY <1>3, <2>1, <2>3, <2>4, <2>6
  <2> QED
    BY <2>5, <2>6
<1>16. ASSUME NEW c \in Consumers,
              Deliver(c) \/ ReadUnit(c) \/ Ack(c) \/ Retry(c) \/ Evict(c)
       PROVE  BInv'
  <2>1. \A v \in Workers \ {c} : loc'[v] = loc[v]
    BY <1>0, <1>16 DEF Deliver, ReadUnit, Ack, Retry, Evict, Goto, Exit, LocType
  <2>2. UNCHANGED <<pointer, text>>
    BY <1>16 DEF Deliver, ReadUnit, Ack, Retry, Evict, board
  <2>3. \A d \in Drivers : loc'[d] = loc[d]
    BY <1>d, <2>1
  <2>4. \A d \in Drivers : DriverFine(d)'
    BY <1>a, <1>c, <2>2, <2>3 DEF DriverFine, TextClosed
  <2> QED
    BY <1>1, <2>2, <2>4 DEF BInv, TextClosed
<1>17. ASSUME NEW u \in Units, Lost(u) \/ Early(u) PROVE BInv'
  BY <1>17 DEF Lost, Early, BInv, TextClosed
<1> QED
  BY <1>6, <1>7, <1>8, <1>9, <1>10, <1>11, <1>12, <1>13, <1>14, <1>15, <1>16, <1>17, NextCases
     DEF Crash

(* With one driver at a time, any number of consumers, losses and copies:  *)
(* the text stage is left only when every unit it wrote is settled, though *)
(* "remaining" is read some statements before the pointer moves.  Two      *)
(* drivers break it: the second counts the plan the first still inserts    *)
(* (enqueueProvisionUnits, generate15HomepageArticlesStep).                *)
THEOREM TextStageIsLeftClosed == OneDriver => (Spec => []TextBarrier)
<1> SUFFICES ASSUME OneDriver PROVE Spec => []TextBarrier
  OBVIOUS
<1>1. BInv /\ UNCHANGED vars => BInv'
  BY DEF BInv, vars, board, TextClosed
<1>2. TInv /\ BInv /\ [Next]_vars => BInv'
  BY <1>1, BStep
<1>3. Spec => [](TInv /\ BInv)
  BY <1>2, TInit, TStep, BInit, PTL DEF Spec
<1>4. BInv => TextBarrier
  BY DEF BInv, TextBarrier, TextClosed
<1> QED
  BY <1>3, <1>4, PTL

-----------------------------------------------------------------------------
(* One copy of every text                                                  *)

(* What is about of a text unit: its messages, and the consumers that hold *)
(* one, the settled one included whose acknowledgement may still be lost.  *)
NoMessages(u) == \A m \in Messages : m.unit = u /\ m.stage = "text" => queue[m] = 0
Holds(c, u) == loc[c].pc # "idle" /\ loc[c].stage = "text" /\ loc[c].unit = u
NoToken(u) == NoMessages(u) /\ \A c \in Consumers : ~ Holds(c, u)

Solo(u) ==
  /\ \A m, n \in Messages :
       /\ m.unit = u /\ m.stage = "text" /\ queue[m] > 0
       /\ n.unit = u /\ n.stage = "text" /\ queue[n] > 0
       => m = n /\ queue[m] = 1
  /\ \A c \in Consumers :
       Holds(c, u) => NoMessages(u) /\ \A e \in Consumers : Holds(e, u) => e = c

(* The driver has sent the unit and not yet marked it.                     *)
Marking(u) ==
  \E d \in Drivers : At(d, "mark") /\ loc[d].stage = "text" /\ loc[d].unit = u

Unsent(d) == IF At(d, "mark") THEN loc[d].todo \ {loc[d].unit} ELSE loc[d].todo

GeneratesText(w) == loc[w].stage = "text" /\ loc[w].pc \in {"generate", "landed"}

(* An open unit that is to be sent has no copy, nor has one that is to be  *)
(* reclaimed; so no text has two, and only an open one is generated.       *)
Orderly ==
  /\ \A u \in Units : Solo(u)
  /\ \A u \in Units : text[u] \in {"absent", "pending"} => NoToken(u) \/ Marking(u)
  /\ \A d \in Drivers : loc[d].stage = "text" /\ loc[d].pc \in {"send", "mark"} =>
       \A u \in Unsent(d) : text[u] = "pending"
  /\ \A u \in Units : text[u] = "queued" /\ u \notin fresh => NoToken(u)
  /\ \A w \in Workers : GeneratesText(w) => text[loc[w].unit] \notin Settled
  /\ \A c \in Consumers : loc[c].stage = "text" /\ At(c, "ack") => text[loc[c].unit] \in Settled

(* Without a queue binding there is no queue.                              *)
QueueOff ==
  ~ useQueue => /\ \A m \in Messages : queue[m] = 0
                /\ \A c \in Consumers : At(c, "idle")
                /\ \A u \in Units : image[u] # "queued"

UInv == QueueOff /\ (Undisturbed => Orderly)

LEMMA UInit == Init => UInv
BY Bounds DEF Init, UInv, QueueOff, Orderly, Solo, NoToken, NoMessages, Holds, Idle, At,
              GeneratesText

(* Which action writes a text, and which locals it finds.                  *)
LEMMA TextMoves ==
  ASSUME TInv, WInv, Next, NEW u \in Units, text'[u] # text[u]
  PROVE  \/ \E d \in Drivers : Insert(d) /\ text[u] = "absent" /\ text'[u] = "pending"
         \/ \E d \in Drivers : /\ Reclaim(d) /\ text[u] = "queued" /\ u \notin fresh
                               /\ text'[u] = "pending"
         \/ \E d \in Drivers : /\ MarkQueued(d) /\ loc[d].unit = u /\ text[u] = "pending"
                               /\ text'[u] = "queued" /\ u \in fresh'
         \/ \E w \in Workers : /\ Throw(w) /\ GeneratesText(w) /\ loc[w].unit = u
                               /\ text'[u] = "failed"
         \/ \E w \in Workers : /\ TextDone(w) /\ GeneratesText(w) /\ loc[w].unit = u
                               /\ text'[u] = "done"
<1> USE Bounds
<1>0. LocType /\ BoardType
  BY DEF TInv
<1>a. \A w \in Workers : loc[w].stage \in Stages
  BY <1>0 DEF LocType, Locals
<1>1. ASSUME NEW d \in Drivers, Insert(d) PROVE text[u] = "absent" /\ text'[u] = "pending"
  BY <1>0, <1>1 DEF Insert
<1>2. ASSUME NEW d \in Drivers, Reclaim(d)
      PROVE  text[u] = "queued" /\ u \notin fresh /\ text'[u] = "pending"
  BY <1>0, <1>2 DEF Reclaim, SetStatus, Status
<1>3. ASSUME NEW d \in Drivers, MarkQueued(d)
      PROVE  loc[d].unit = u /\ text[u] = "pending" /\ text'[u] = "queued" /\ u \in fresh'
  BY <1>0, <1>3 DEF MarkQueued, SetStatus, Status
<1>4. ASSUME NEW w \in Workers, Throw(w)
      PROVE  GeneratesText(w) /\ loc[w].unit = u /\ text'[u] = "failed"
  BY <1>0, <1>4 DEF Throw, SetStatus, Status, GeneratesText, At
<1>5. ASSUME NEW w \in Workers, TextDone(w)
      PROVE  GeneratesText(w) /\ loc[w].unit = u /\ text'[u] = "done"
  BY <1>0, <1>5 DEF TextDone, SetStatus, Status, GeneratesText, At, WInv, LocKnown, KnownAt
<1>6. ASSUME NEW w \in Workers, ImageDone(w) PROVE FALSE
  BY <1>6 DEF ImageDone, SetStatus
<1>7. ~ UNCHANGED text
  OBVIOUS
<1> QED
  BY <1>1, <1>2, <1>3, <1>4, <1>5, <1>6, <1>7, NextCases
     DEF board, Start, Count, Select, Send, Remain, Pick, More, Write, Crash, TextLands,
         Deliver, ReadUnit, Ack, Retry, Evict, Lost, Early

(* Every action moves the locals of its own invocation.                    *)
LEMMA DriverFrame ==
  ASSUME LocType, NEW d \in Drivers,
         \/ Start(d) \/ Count(d) \/ Insert(d) \/ Reclaim(d) \/ Select(d) \/ Send(d)
         \/ MarkQueued(d) \/ Remain(d) \/ Pick(d) \/ More(d) \/ Write(d) \/ Crash(d)
  PROVE  \A v \in Workers \ {d} : loc'[v] = loc[v]
BY DEF Start, Count, Insert, Reclaim, Select, Send, MarkQueued, Remain, Pick, More, Write,
       Crash, Goto, Exit, LocType

LEMMA ConsumerFrame ==
  ASSUME LocType, NEW c \in Consumers,
         Deliver(c) \/ ReadUnit(c) \/ Ack(c) \/ Retry(c) \/ Evict(c)
  PROVE  \A v \in Workers \ {c} : loc'[v] = loc[v]
BY DEF Deliver, ReadUnit, Ack, Retry, Evict, Goto, Exit, LocType

LEMMA GeneratorFrame ==
  ASSUME LocType, NEW w \in Workers, Throw(w) \/ TextLands(w) \/ TextDone(w) \/ ImageDone(w)
  PROVE  /\ \A v \in Workers \ {w} : loc'[v] = loc[v]
         /\ loc'[w].unit = loc[w].unit /\ loc'[w].stage = loc[w].stage
         /\ loc[w].pc \in {"generate", "landed"}
         /\ loc'[w].pc \in {"more", "ack", "retry", "landed"}
         /\ ~ TextLands(w) => loc'[w].pc # "landed"
         /\ w \in Drivers => loc'[w].pc \in {"more", "landed"}
<1>1. PICK p \in {"more", "ack", "retry", "landed"} :
        /\ Goto(w, p)
        /\ ~ TextLands(w) => p # "landed"
        /\ w \in Drivers => p \in {"more", "landed"}
  BY DEF Throw, TextLands, TextDone, ImageDone, Return
<1>2. loc[w].pc \in {"generate", "landed"}
  BY DEF Throw, TextLands, TextDone, ImageDone, At
<1> QED
  BY <1>1, <1>2, GotoFrame

LEMMA DriverStill ==
  ASSUME OneDriver, TInv, Next, NEW d \in Drivers, loc'[d] # loc[d]
  PROVE  \/ Start(d) \/ Count(d) \/ Insert(d) \/ Reclaim(d) \/ Select(d) \/ Send(d)
         \/ MarkQueued(d) \/ Remain(d) \/ Pick(d) \/ More(d) \/ Write(d) \/ Crash(d)
         \/ Throw(d) \/ TextLands(d) \/ TextDone(d) \/ ImageDone(d)
<1>0. LocType /\ d \in Workers /\ d \notin Consumers /\ \A e \in Drivers : e = d
  BY Bounds, ParametersAssumption DEF TInv, OneDriver
<1>1. ASSUME NEW c \in Consumers, Deliver(c) \/ ReadUnit(c) \/ Ack(c) \/ Retry(c) \/ Evict(c)
      PROVE  FALSE
  BY <1>0, <1>1, ConsumerFrame
<1>2. ASSUME NEW w \in Workers, Throw(w) \/ TextLands(w) \/ TextDone(w) \/ ImageDone(w)
      PROVE  w = d
  BY <1>0, <1>2, GeneratorFrame
<1>3. ASSUME NEW u \in Units, Lost(u) \/ Early(u) PROVE FALSE
  BY <1>3 DEF Lost, Early
<1> QED
  BY <1>0, <1>1, <1>2, <1>3, NextCases

LEMMA ConsumerStill ==
  ASSUME TInv, Next, NEW c \in Consumers, loc'[c] # loc[c]
  PROVE  \/ Deliver(c) \/ ReadUnit(c) \/ Ack(c) \/ Retry(c) \/ Evict(c)
         \/ Throw(c) \/ TextLands(c) \/ TextDone(c) \/ ImageDone(c)
<1>0. LocType /\ c \in Workers /\ c \notin Drivers
  BY Bounds, ParametersAssumption DEF TInv
<1>1. ASSUME NEW d \in Drivers,
             \/ Start(d) \/ Count(d) \/ Insert(d) \/ Reclaim(d) \/ Select(d) \/ Send(d)
             \/ MarkQueued(d) \/ Remain(d) \/ Pick(d) \/ More(d) \/ Write(d) \/ Crash(d)
      PROVE  FALSE
  BY <1>0, <1>1, DriverFrame
<1>2. ASSUME NEW w \in Workers, Throw(w) \/ TextLands(w) \/ TextDone(w) \/ ImageDone(w)
      PROVE  w = c
  BY <1>0, <1>2, GeneratorFrame
<1>3. ASSUME NEW e \in Consumers, Deliver(e) \/ ReadUnit(e) \/ Ack(e) \/ Retry(e) \/ Evict(e)
      PROVE  e = c
  BY <1>0, <1>3, ConsumerFrame
<1>4. ASSUME NEW u \in Units, Lost(u) \/ Early(u) PROVE FALSE
  BY <1>4 DEF Lost, Early
<1> QED
  BY <1>1, <1>2, <1>3, <1>4, NextCases

-----------------------------------------------------------------------------
(* Copies come from Send alone                                             *)

LEMMA TokensStay ==
  ASSUME NEW u \in Units, UNCHANGED queue, \A c \in Consumers : Holds(c, u)' => Holds(c, u)
  PROVE  (Solo(u) => Solo(u)') /\ (NoToken(u) => NoToken(u)')
BY DEF Solo, NoToken, NoMessages

(* A delivery turns a message into a holder.                               *)
LEMMA DeliverTokens ==
  ASSUME TInv, NEW u \in Units, NEW c \in Consumers, Deliver(c)
  PROVE  (Solo(u) => Solo(u)') /\ (NoToken(u) => NoToken(u)')
<1>0. LocType /\ QueueType /\ c \in Workers
  BY Bounds DEF TInv
<1>1. PICK m \in Messages :
        /\ queue[m] > 0
        /\ queue' = [queue EXCEPT ![m] = @ - 1]
        /\ loc' = [loc EXCEPT ![c].pc = "read", ![c].unit = m.unit,
                              ![c].stage = m.stage, ![c].tries = m.tries]
  BY DEF Deliver
<1>2. /\ \A v \in Workers \ {c} : loc'[v] = loc[v]
      /\ loc'[c].pc = "read" /\ loc'[c].unit = m.unit /\ loc'[c].stage = m.stage
  BY <1>0, <1>1 DEF LocType, Locals
<1>3. /\ \A n \in Messages : queue[n] \in Nat
      /\ queue'[m] = queue[m] - 1
      /\ \A n \in Messages \ {m} : queue'[n] = queue[n]
  BY <1>0, <1>1 DEF QueueType
<1>4. loc[c].pc = "idle"
  BY DEF Deliver, At
<1>5. /\ Holds(c, u)' <=> m.unit = u /\ m.stage = "text"
      /\ \A e \in Consumers \ {c} : Holds(e, u)' <=> Holds(e, u)
  BY <1>2, Bounds DEF Holds
<1>6. CASE m.unit = u /\ m.stage = "text"
  <2>1. ~ NoToken(u)
    BY <1>1, <1>6 DEF NoToken, NoMessages
  <2>2. ASSUME Solo(u) PROVE Solo(u)'
    <3>1. \A e \in Consumers : ~ Holds(e, u)
      BY <1>1, <1>6, <2>2 DEF Solo, NoMessages
    <3>2. NoMessages(u)'
      BY <1>1, <1>3, <1>6, <2>2 DEF Solo, NoMessages
    <3> QED
      BY <1>5, <3>1, <3>2 DEF Solo, NoMessages
  <2> QED
    BY <2>1, <2>2
<1>7. CASE ~ (m.unit = u /\ m.stage = "text")
  <2>1. \A n \in Messages : n.unit = u /\ n.stage = "text" => queue'[n] = queue[n]
    BY <1>3, <1>7
  <2>2. \A e \in Consumers : Holds(e, u)' => Holds(e, u) /\ e # c
    BY <1>5, <1>7
  <2> QED
    BY <2>1, <2>2 DEF Solo, NoToken, NoMessages
<1> QED
  BY <1>6, <1>7

(* A retry, or a loss, turns the holder into a message, or into nothing.   *)
LEMMA RedeliverTokens ==
  ASSUME TInv, NEW u \in Units, NEW c \in Consumers, ~ At(c, "idle"), Redeliver(c), Exit(c)
  PROVE  (Solo(u) => Solo(u)') /\ (NoToken(u) => NoToken(u)')
<1>0. LocType /\ QueueType /\ c \in Workers
  BY Bounds DEF TInv
<1>1. (\A v \in Workers \ {c} : loc'[v] = loc[v]) /\ loc'[c] = Idle
  BY <1>0, ExitFrame
<1>2. \A e \in Consumers : Holds(e, u)' => Holds(e, u) /\ e # c
  BY <1>1, Bounds DEF Holds, Idle
<1>3. CASE UNCHANGED queue
  BY <1>2, <1>3, TokensStay
<1>4. CASE loc[c].tries < MaxRetries /\ Put(Message(c, loc[c].tries + 1))
  <2> DEFINE m == Message(c, loc[c].tries + 1)
  <2>1. m \in Messages /\ m.unit = loc[c].unit /\ m.stage = loc[c].stage
    BY <1>0, <1>4, Bounds DEF Message, Messages, LocType, Locals
  <2>2. queue' = [queue EXCEPT ![m] = @ + 1]
    BY <1>4 DEF Put
  <2> HIDE DEF m
  <2>3. /\ \A n \in Messages : queue[n] \in Nat
        /\ queue'[m] = queue[m] + 1
        /\ \A n \in Messages \ {m} : queue'[n] = queue[n]
    BY <1>0, <2>1, <2>2 DEF QueueType
  <2>4. CASE m.unit = u /\ m.stage = "text"
    <3>1. Holds(c, u)
      BY <2>1, <2>4 DEF Holds, At
    <3>2. ~ NoToken(u)
      BY <3>1 DEF NoToken
    <3>3. ASSUME Solo(u) PROVE Solo(u)'
      <4>1. NoMessages(u) /\ \A e \in Consumers : Holds(e, u) => e = c
        BY <3>1, <3>3 DEF Solo
      <4>2. \A e \in Consumers : ~ Holds(e, u)'
        BY <1>2, <4>1
      <4>3. queue'[m] = 1
        BY <2>1, <2>3, <2>4, <4>1 DEF NoMessages
      <4>4. \A n \in Messages : n.unit = u /\ n.stage = "text" /\ queue'[n] > 0 => n = m
        BY <2>3, <4>1 DEF NoMessages
      <4> QED
        BY <4>2, <4>3, <4>4 DEF Solo
    <3> QED
      BY <3>2, <3>3
  <2>5. CASE ~ (m.unit = u /\ m.stage = "text")
    <3>1. \A n \in Messages : n.unit = u /\ n.stage = "text" => queue'[n] = queue[n]
      BY <2>3, <2>5
    <3> QED
      BY <1>2, <3>1 DEF Solo, NoToken, NoMessages
  <2> QED
    BY <2>4, <2>5
<1> QED
  BY <1>3, <1>4 DEF Redeliver

LEMMA TokenStep ==
  ASSUME TInv, Next, \A d \in Drivers : ~ Send(d), NEW u \in Units
  PROVE  (Solo(u) => Solo(u)') /\ (NoToken(u) => NoToken(u)')
<1>0. LocType /\ (\A c \in Consumers : c \notin Drivers)
  BY ParametersAssumption DEF TInv
<1>1. ASSUME NEW d \in Drivers,
             \/ Start(d) \/ Count(d) \/ Insert(d) \/ Reclaim(d) \/ Select(d)
             \/ MarkQueued(d) \/ Remain(d) \/ Pick(d) \/ More(d) \/ Write(d) \/ Crash(d)
      PROVE  UNCHANGED queue /\ \A c \in Consumers : Holds(c, u)' => Holds(c, u)
  <2>1. UNCHANGED queue
    BY <1>1 DEF Start, Count, Insert, Reclaim, Select, MarkQueued, Remain, Pick, More, Write,
                Crash
  <2>2. \A c \in Consumers : loc'[c] = loc[c]
    BY <1>0, <1>1, Bounds, DriverFrame
  <2> QED
    BY <2>1, <2>2 DEF Holds
<1>2. ASSUME NEW w \in Workers, Throw(w) \/ TextLands(w) \/ TextDone(w) \/ ImageDone(w)
      PROVE  UNCHANGED queue /\ \A c \in Consumers : Holds(c, u)' => Holds(c, u)
  <2>1. UNCHANGED queue
    BY <1>2 DEF Throw, TextLands, TextDone, ImageDone
  <2> QED
    BY <1>0, <1>2, <2>1, Bounds, GeneratorFrame DEF Holds
<1>3. ASSUME NEW c \in Consumers, ReadUnit(c) \/ Ack(c)
      PROVE  UNCHANGED queue /\ \A e \in Consumers : Holds(e, u)' => Holds(e, u)
  <2>1. UNCHANGED queue /\ loc[c].pc # "idle"
    BY <1>3 DEF ReadUnit, Ack, At
  <2>2. \A e \in Consumers \ {c} : loc'[e] = loc[e]
    BY <1>0, <1>3, Bounds, ConsumerFrame
  <2>3. loc'[c].pc = "idle" \/ (loc'[c].unit = loc[c].unit /\ loc'[c].stage = loc[c].stage)
    BY <1>0, <1>3, Bounds DEF ReadUnit, Ack, Goto, Exit, Idle, LocType, Locals
  <2> QED
    BY <2>1, <2>2, <2>3 DEF Holds
<1>4. ASSUME NEW v \in Units, Lost(v) \/ Early(v)
      PROVE  UNCHANGED queue /\ \A c \in Consumers : Holds(c, u)' => Holds(c, u)
  BY <1>4 DEF Lost, Early, Holds
<1>5. ASSUME NEW c \in Consumers, Retry(c) \/ Evict(c)
      PROVE  (Solo(u) => Solo(u)') /\ (NoToken(u) => NoToken(u)')
  BY <1>5, RedeliverTokens DEF Retry, Evict, At
<1> QED
  BY <1>1, <1>2, <1>3, <1>4, <1>5, TokensStay, DeliverTokens, NextCases

(* A send makes the one message of a unit that had no copy.                *)
LEMMA SendTokens ==
  ASSUME TInv, NEW u \in Units, NEW d \in Drivers, Send(d)
  PROVE  /\ loc[d].stage # "text" \/ u # Min(loc[d].todo) =>
              (Solo(u) => Solo(u)') /\ (NoToken(u) => NoToken(u)')
         /\ NoToken(u) => Solo(u)'
<1> DEFINE m == [unit |-> Min(loc[d].todo), stage |-> loc[d].stage, tries |-> 0]
<1>0. LocType /\ QueueType /\ ListsHeld /\ d \in Workers /\ d \notin Consumers
  BY Bounds, ParametersAssumption DEF TInv
<1>1. m \in Messages
  <2>1. Min(loc[d].todo) \in Units /\ loc[d].stage \in Stages
    BY <1>0, LeastUnit DEF Send, At, ListsHeld, LocType, Locals
  <2> QED
    BY <2>1, Bounds DEF Messages
<1>2. queue' = [queue EXCEPT ![m] = @ + 1]
  BY DEF Send, Put
<1>3. \A c \in Consumers : Holds(c, u)' <=> Holds(c, u)
  BY <1>0, Bounds, DriverFrame DEF Holds
<1>4. m.unit = Min(loc[d].todo) /\ m.stage = loc[d].stage
  OBVIOUS
<1> HIDE DEF m
<1>5. /\ \A n \in Messages : queue[n] \in Nat
      /\ queue'[m] = queue[m] + 1
      /\ \A n \in Messages \ {m} : queue'[n] = queue[n]
  BY <1>0, <1>1, <1>2 DEF QueueType
<1>6. ASSUME loc[d].stage # "text" \/ u # Min(loc[d].todo)
      PROVE  (Solo(u) => Solo(u)') /\ (NoToken(u) => NoToken(u)')
  <2>1. \A n \in Messages : n.unit = u /\ n.stage = "text" => queue'[n] = queue[n]
    BY <1>4, <1>5, <1>6
  <2> QED
    BY <1>3, <2>1 DEF Solo, NoToken, NoMessages
<1>7. ASSUME NoToken(u) PROVE Solo(u)'
  <2>1. \A n \in Messages : n.unit = u /\ n.stage = "text" /\ queue'[n] > 0 =>
          n = m /\ queue'[n] = 1
    BY <1>5, <1>7 DEF NoToken, NoMessages
  <2> QED
    BY <1>3, <1>7, <2>1 DEF Solo, NoToken
<1> QED
  BY <1>6, <1>7

-----------------------------------------------------------------------------
(* The order is kept                                                       *)

Context ==
  OneDriver /\ TInv /\ WInv /\ BInv /\ QueueOff /\ Orderly /\ Next /\ Undisturbed'

LEMMA BindingStays == ASSUME Next PROVE useQueue' = useQueue
BY NextCases
   DEF Start, Count, Insert, Reclaim, Select, Send, MarkQueued, Remain, Pick, More, Write, Crash,
       Throw, TextLands, TextDone, ImageDone, Deliver, ReadUnit, Ack, Retry, Evict, Lost, Early

(* A queue that is not there stays empty.                                  *)
LEMMA QueueOffStep == OneDriver /\ TInv /\ BInv /\ QueueOff /\ Next => QueueOff'
<1> SUFFICES ASSUME OneDriver, TInv, BInv, QueueOff, Next, ~ useQueue'
             PROVE  /\ \A m \in Messages : queue'[m] = 0
                    /\ \A c \in Consumers : At(c, "idle")'
                    /\ \A u \in Units : image'[u] # "queued"
  BY DEF QueueOff
<1>0. LocType /\ BoardType /\ Drivers \subseteq Workers /\ \A c \in Consumers : c \in Workers
  BY Bounds DEF TInv
<1>z. ~ useQueue
  BY BindingStays
<1>a. /\ \A m \in Messages : queue[m] = 0
      /\ \A c \in Consumers : At(c, "idle")
      /\ \A u \in Units : image[u] # "queued"
  BY <1>z DEF QueueOff
<1>b. \A d \in Drivers : ~ Send(d) /\ ~ MarkQueued(d)
  BY <1>z DEF Send, MarkQueued, At, BInv
<1>c. \A c \in Consumers : ~ (Deliver(c) \/ ReadUnit(c) \/ Ack(c) \/ Retry(c) \/ Evict(c))
  <2> SUFFICES ASSUME NEW c \in Consumers
               PROVE  ~ (Deliver(c) \/ ReadUnit(c) \/ Ack(c) \/ Retry(c) \/ Evict(c))
    OBVIOUS
  <2>1. At(c, "idle") /\ ~ At(c, "read") /\ ~ At(c, "ack") /\ ~ At(c, "retry")
    BY <1>a DEF At
  <2>2. ASSUME Deliver(c) PROVE FALSE
    <3>1. PICK m \in Messages : queue[m] > 0
      BY <2>2 DEF Deliver
    <3> QED
      BY <1>a, <3>1
  <2> QED
    BY <2>1, <2>2 DEF ReadUnit, Ack, Retry, Evict
<1>d. \A c \in Consumers : ~ (Throw(c) \/ TextLands(c) \/ TextDone(c) \/ ImageDone(c))
  BY <1>a DEF Throw, TextLands, TextDone, ImageDone, At
<1>e. UNCHANGED queue
  BY <1>b, <1>c, NextCases
     DEF Start, Count, Insert, Reclaim, Select, Remain, Pick, More, Write, Crash,
         Throw, TextLands, TextDone, ImageDone, Lost, Early
<1>1. \A m \in Messages : queue'[m] = 0
  BY <1>a, <1>e
<1>2. ASSUME NEW c \in Consumers PROVE At(c, "idle")'
  BY <1>a, <1>c, <1>d, ConsumerStill DEF At
<1>3. ASSUME NEW u \in Units PROVE image'[u] # "queued"
  <2>1. ASSUME NEW s \in Stages, NEW us, NEW v, v # "queued", SetStatus(s, us, v)
        PROVE  image'[u] # "queued"
    BY <1>0, <1>a, <2>1 DEF SetStatus, Status
  <2>2. ASSUME NEW w \in Workers, Reclaim(w) \/ Throw(w) \/ TextDone(w) \/ ImageDone(w)
        PROVE  image'[u] # "queued"
    BY <1>0, <2>1, <2>2 DEF Reclaim, Throw, TextDone, ImageDone, Stages, LocType, Locals
  <2>3. ASSUME NEW d \in Drivers, Insert(d) PROVE image'[u] # "queued"
    BY <1>a, <2>3 DEF Insert
  <2>4. CASE UNCHANGED image
    BY <1>a, <2>4
  <2> QED
    BY <1>0, <1>b, <1>c, <2>2, <2>3, <2>4, NextCases
       DEF board, Start, Count, Select, Remain, Pick, More, Write, Crash, TextLands, Lost, Early
<1> QED
  BY <1>1, <1>2, <1>3 DEF QueueOff

(* The unit the driver sends is open and has no copy.                      *)
LEMMA SendsUncopied ==
  ASSUME Context, NEW d \in Drivers, Send(d), loc[d].stage = "text"
  PROVE  /\ Min(loc[d].todo) \in Units
         /\ text[Min(loc[d].todo)] = "pending"
         /\ NoToken(Min(loc[d].todo))
<1>1. At(d, "send") /\ d \in Workers
  BY Bounds DEF Send
<1>2. loc[d].todo \subseteq Units /\ Min(loc[d].todo) \in loc[d].todo
  BY <1>1, LeastUnit DEF Context, TInv, LocType, Locals, ListsHeld, At
<1>3. text[Min(loc[d].todo)] = "pending"
  BY <1>1, <1>2 DEF Context, Orderly, Unsent, At
<1>4. ~ Marking(Min(loc[d].todo))
  BY <1>1 DEF Context, OneDriver, Marking, At
<1> QED
  BY <1>2, <1>3, <1>4 DEF Context, Orderly

(* Nobody else is about a text that is being generated.                    *)
LEMMA GeneratesAlone ==
  ASSUME Context, NEW w \in Workers, GeneratesText(w), NEW v \in Workers, GeneratesText(v),
         loc[v].unit = loc[w].unit
  PROVE  v = w
<1>1. \A x \in Workers : x \in Drivers \/ x \in Consumers
  BY DEF Workers
<1>2. \A d \in Drivers : GeneratesText(d) => ~ useQueue
  BY DEF Context, BInv, GeneratesText
<1>3. ~ useQueue => \A c \in Consumers : ~ GeneratesText(c)
  BY DEF Context, QueueOff, GeneratesText, At
<1>4. \A c \in Consumers : GeneratesText(c) => Holds(c, loc[c].unit)
  BY DEF GeneratesText, Holds
<1>5. loc[w].unit \in Units
  BY DEF Context, TInv, LocType, Locals
<1> QED
  BY <1>1, <1>2, <1>3, <1>4, <1>5 DEF Context, OneDriver, Orderly, Solo

(* ... not even a message of it.                                           *)
LEMMA GeneratorHasToken ==
  ASSUME Context, NEW w \in Workers, GeneratesText(w), NoToken(loc[w].unit)
  PROVE  w \in Drivers
BY DEF Workers, GeneratesText, NoToken, Holds

LEMMA SoloKept == ASSUME Context, NEW u \in Units PROVE Solo(u)'
<1>1. Solo(u)
  BY DEF Context, Orderly
<1>2. CASE \A d \in Drivers : ~ Send(d)
  BY <1>1, <1>2, TokenStep DEF Context
<1>3. ASSUME NEW d \in Drivers, Send(d) PROVE Solo(u)'
  <2>1. CASE loc[d].stage = "text" /\ u = Min(loc[d].todo)
    BY <1>3, <2>1, SendsUncopied, SendTokens DEF Context
  <2>2. CASE ~ (loc[d].stage = "text" /\ u = Min(loc[d].todo))
    BY <1>1, <1>3, <2>2, SendTokens DEF Context
  <2> QED
    BY <2>1, <2>2
<1> QED
  BY <1>2, <1>3

(* A unit without a copy gets one from the send that is then marked.       *)
LEMMA UncopiedKept ==
  ASSUME Context, NEW u \in Units, NoToken(u)
  PROVE  NoToken(u)' \/ (text[u] = "pending" /\ text'[u] = text[u] /\ Marking(u)')
<1>1. CASE \A d \in Drivers : ~ Send(d)
  BY <1>1, TokenStep DEF Context
<1>2. ASSUME NEW d \in Drivers, Send(d)
      PROVE  NoToken(u)' \/ (text[u] = "pending" /\ text'[u] = text[u] /\ Marking(u)')
  <2>1. CASE loc[d].stage = "text" /\ u = Min(loc[d].todo)
    <3>1. loc' = [loc EXCEPT ![d].pc = "mark", ![d].unit = u] /\ text' = text
      BY <1>2, <2>1 DEF Send, board
    <3>2. loc'[d].pc = "mark" /\ loc'[d].unit = u /\ loc'[d].stage = "text"
      BY <2>1, <3>1, Bounds DEF Context, TInv, LocType, Locals
    <3> QED
      BY <1>2, <2>1, <3>1, <3>2, SendsUncopied DEF Marking, At
  <2>2. CASE ~ (loc[d].stage = "text" /\ u = Min(loc[d].todo))
    BY <1>2, <2>2, SendTokens DEF Context
  <2> QED
    BY <2>1, <2>2
<1> QED
  BY <1>1, <1>2

LEMMA ToSendKept ==
  ASSUME Context, NEW u \in Units, text'[u] \in {"absent", "pending"}
  PROVE  NoToken(u)' \/ Marking(u)'
<1>1. CASE NoToken(u)
  BY <1>1, UncopiedKept
<1>2. CASE ~ NoToken(u) /\ text[u] \in {"absent", "pending"}
  <2>1. PICK d \in Drivers : At(d, "mark") /\ loc[d].stage = "text" /\ loc[d].unit = u
    BY <1>2 DEF Context, Orderly, Marking
  <2>2. useQueue /\ text[u] # "absent" /\ d \in Workers
    BY <2>1, Bounds DEF At, Context, BInv, WInv, LocKnown, KnownAt, Known, WorkPoints
  <2>3. ~ MarkQueued(d)
    <3>1. ASSUME MarkQueued(d) PROVE text'[u] = "queued"
      BY <1>2, <2>1, <2>2, <3>1
         DEF MarkQueued, SetStatus, Status, Context, TInv, BoardType
    <3> QED
      BY <3>1
  <2>4. ~ Crash(d)
    <3> SUFFICES ASSUME Crash(d) PROVE FALSE
      OBVIOUS
    <3>1. crashes \in Nat /\ crashes' = crashes + 1
      BY Bounds DEF Crash, Context, TInv, FrameType
    <3>2. useQueue'
      BY <2>2, BindingStays DEF Context
    <3> QED
      BY <3>1, <3>2 DEF Context, Undisturbed
  <2>5. loc'[d] = loc[d]
    BY <2>1, <2>3, <2>4, DriverStill
       DEF Context, At, Start, Count, Insert, Reclaim, Select, Send, Remain, Pick, More, Write,
           Throw, TextLands, TextDone, ImageDone
  <2> QED
    BY <2>1, <2>5 DEF Marking, At
<1>3. CASE text[u] \notin {"absent", "pending"}
  <2>1. text[u] = "queued" /\ u \notin fresh
    BY <1>3, TextMoves DEF Context
  <2>2. NoToken(u)
    BY <2>1 DEF Context, Orderly
  <2> QED
    BY <1>1, <2>2
<1> QED
  BY <1>1, <1>2, <1>3

(* What the driver has read as pending and not yet sent stays so.          *)
LEMMA UnsentStays ==
  ASSUME Context, NEW d \in Drivers, loc[d].stage = "text", loc[d].pc \in {"send", "mark"},
         NEW u \in Unsent(d)
  PROVE  text'[u] = "pending"
<1>1. u \in Units /\ text[u] = "pending"
  <2>1. loc[d].todo \subseteq Units
    BY Bounds DEF Context, TInv, LocType, Locals
  <2> QED
    BY <2>1 DEF Context, Orderly, Unsent
<1>2. \A e \in Drivers : e = d
  BY DEF Context, OneDriver
<1>3. ~ (At(d, "mark") /\ loc[d].unit = u)
  BY DEF Unsent
<1>4. NoToken(u)
  BY <1>1, <1>2, <1>3 DEF Context, Orderly, Marking
<1>5. ASSUME NEW w \in Workers, GeneratesText(w), loc[w].unit = u PROVE FALSE
  <2>1. w \in Drivers
    BY <1>4, <1>5, GeneratorHasToken
  <2> QED
    BY <1>2, <1>5, <2>1 DEF GeneratesText
<1>6. \A e \in Drivers : ~ (MarkQueued(e) /\ loc[e].unit = u)
  BY <1>2, <1>3 DEF MarkQueued
<1> QED
  BY <1>1, <1>5, <1>6, TextMoves DEF Context

LEMMA UnsentKept ==
  ASSUME Context, NEW d \in Drivers, loc'[d].stage = "text", loc'[d].pc \in {"send", "mark"},
         NEW u \in Unsent(d)'
  PROVE  text'[u] = "pending"
<1>0. LocType /\ d \in Workers
  BY Bounds DEF Context, TInv
<1>1. CASE loc'[d] = loc[d]
  BY <1>1, UnsentStays DEF Unsent, At
<1>2. CASE Select(d)
  <2>1. loc' = [loc EXCEPT ![d].todo = With(loc[d].stage, {"pending"}),
                           ![d].pc = IF With(loc[d].stage, {"pending"}) = {}
                                       THEN "remain" ELSE "send"]
    BY <1>2 DEF Select
  <2>2. loc'[d].todo = With(loc[d].stage, {"pending"}) /\ loc[d].stage = "text"
    BY <1>0, <2>1 DEF LocType, Locals
  <2>3. u \in loc'[d].todo
    BY DEF Unsent
  <2> QED
    BY <1>2, <2>2, <2>3 DEF Select, board, With, Status
<1>3. CASE Send(d)
  <2>1. loc' = [loc EXCEPT ![d].pc = "mark", ![d].unit = Min(loc[d].todo)]
    BY <1>3 DEF Send
  <2>2. loc'[d].todo = loc[d].todo /\ loc[d].stage = "text"
    BY <1>0, <2>1 DEF LocType, Locals
  <2>3. u \in Unsent(d) /\ loc[d].pc = "send"
    BY <1>3, <2>2 DEF Unsent, At, Send
  <2> QED
    BY <2>2, <2>3, UnsentStays
<1>4. CASE MarkQueued(d)
  <2>1. loc' = [loc EXCEPT ![d].todo = loc[d].todo \ {loc[d].unit},
                           ![d].pc = IF loc[d].todo = {loc[d].unit} THEN "remain" ELSE "send"]
    BY <1>4 DEF MarkQueued
  <2>2. loc'[d].todo = loc[d].todo \ {loc[d].unit} /\ loc[d].stage = "text"
    BY <1>0, <2>1 DEF LocType, Locals
  <2>3. u \in Unsent(d) /\ loc[d].pc = "mark"
    BY <1>4, <2>2 DEF Unsent, At, MarkQueued
  <2> QED
    BY <2>2, <2>3, UnsentStays
<1>5. ASSUME \/ Start(d) \/ Count(d) \/ Insert(d) \/ Reclaim(d) \/ Remain(d) \/ Pick(d)
             \/ More(d) \/ Write(d) \/ Crash(d)
      PROVE  FALSE
  <2>1. CASE Start(d) \/ Count(d) \/ Insert(d)
    <3>1. loc'[d].pc \in {"count", "insert", FirstPoint}
      BY <1>0, <2>1 DEF Start, Count, Insert, LocType, Locals
    <3> QED
      BY <3>1 DEF FirstPoint
  <2>2. CASE Reclaim(d) \/ Remain(d) \/ More(d)
    <3>1. loc'[d].pc \in {"select", "write"}
      BY <1>0, <2>2 DEF Reclaim, Remain, More, Goto, LocType, Locals
    <3> QED
      BY <3>1
  <2>3. CASE Pick(d)
    <3> DEFINE v == Min(With(loc[d].stage, {"pending"}))
    <3>1. \/ loc' = [loc EXCEPT ![d].pc = "write", ![d].more = FALSE]
          \/ loc' = [loc EXCEPT ![d].pc = "generate", ![d].unit = v, ![d].tried = attempts[v]]
      BY <2>3 DEF Pick
    <3> HIDE DEF v
    <3>2. loc'[d].pc \in {"write", "generate"}
      BY <1>0, <3>1 DEF LocType, Locals
    <3> QED
      BY <3>2
  <2>4. CASE Write(d) \/ Crash(d)
    <3>1. loc'[d].pc = "idle"
      BY <1>0, <2>4, ExitFrame DEF Write, Crash, Idle
    <3> QED
      BY <3>1
  <2> QED
    BY <1>5, <2>1, <2>2, <2>3, <2>4
<1>6. ASSUME Throw(d) \/ TextLands(d) \/ TextDone(d) \/ ImageDone(d) PROVE FALSE
  BY <1>0, <1>6, GeneratorFrame
<1> QED
  BY <1>1, <1>2, <1>3, <1>4, <1>5, <1>6, DriverStill DEF Context

(* A queued unit grows stale only when none of its copies is left.         *)
LEMMA FreshEnds ==
  ASSUME Next, NEW u \in Units, u \in fresh, u \notin fresh'
  PROVE  Lost(u) \/ Early(u)
<1>1. \A v \in Units : Lost(v) \/ Early(v) => v = u
  BY DEF Lost, Early
<1> QED
  BY <1>1, NextCases
     DEF board, Start, Count, Insert, Reclaim, Select, Send, MarkQueued, Remain, Pick, More,
         Write, Crash, Throw, TextLands, TextDone, ImageDone, Deliver, ReadUnit, Ack, Retry, Evict

LEMMA UnqueuedKept ==
  ASSUME Context, NEW u \in Units, text'[u] = "queued", u \notin fresh'
  PROVE  NoToken(u)'
<1>1. text[u] = "queued"
  BY TextMoves DEF Context
<1>2. CASE u \notin fresh
  <2>1. NoToken(u)
    BY <1>1, <1>2 DEF Context, Orderly
  <2> QED
    BY <1>1, <2>1, UncopiedKept
<1>3. CASE u \in fresh
  <2>1. ~ Early(u)
    <3> SUFFICES ASSUME Early(u) PROVE FALSE
      OBVIOUS
    <3>1. early \in Nat /\ early' = early + 1
      BY Bounds DEF Early, Context, TInv, FrameType
    <3> QED
      BY <3>1 DEF Context, Undisturbed
  <2>2. Lost(u)
    BY <1>3, <2>1, FreshEnds DEF Context
  <2>3. PICK s \in Stages : Queued(u, s) /\ ~ About(u, s)
    BY <2>2 DEF Lost
  <2>4. s = "text"
    <3>1. s # "image"
      BY <1>1, <2>3 DEF Queued, Status, Context, WInv, Backed, Settled
    <3> QED
      BY <3>1 DEF Stages
  <2>5. NoMessages(u)
    BY <2>3, <2>4 DEF About, NoMessages, Context, TInv, QueueType
  <2>6. ASSUME NEW c \in Consumers, Holds(c, u) PROVE FALSE
    <3>1. loc[c].pc \in ConsumerPoints \cup GeneratorPoints
      BY <2>6 DEF Holds, Context, WInv, ConsumersConsume
    <3>2. At(c, "ack")
      BY <2>3, <2>4, <2>6, <3>1 DEF About, Holds, ConsumerPoints, GeneratorPoints, At
    <3> QED
      BY <1>1, <2>6, <3>2 DEF Holds, Context, Orderly, Settled
  <2>7. UNCHANGED <<queue, loc>>
    BY <2>2 DEF Lost
  <2> QED
    BY <2>5, <2>6, <2>7 DEF NoToken, NoMessages, Holds
<1> QED
  BY <1>2, <1>3

(* Only an open text is generated.                                         *)
LEMMA GeneratingStaysOpen ==
  ASSUME Context, NEW w \in Workers, GeneratesText(w), GeneratesText(w)',
         loc'[w].unit = loc[w].unit
  PROVE  text'[loc'[w].unit] \notin Settled
<1> DEFINE u == loc[w].unit
<1>1. LocType /\ u \in Units /\ text[u] \notin Settled
  BY DEF Context, TInv, LocType, Locals, Orderly
<1>2. ASSUME text'[u] # text[u], text'[u] \in Settled PROVE FALSE
  <2>1. PICK v \in Workers : (Throw(v) \/ TextDone(v)) /\ GeneratesText(v) /\ loc[v].unit = u
    BY <1>1, <1>2, TextMoves DEF Context, Settled
  <2>2. v = w
    BY <2>1, GeneratesAlone
  <2>3. ~ TextLands(w)
    BY <1>2 DEF TextLands, board
  <2>4. loc'[w].pc \in {"more", "ack", "retry"}
    BY <1>1, <2>1, <2>2, <2>3, GeneratorFrame
  <2> QED
    BY <2>4 DEF GeneratesText
<1> QED
  BY <1>1, <1>2

LEMMA GeneratesOpen ==
  ASSUME Context, NEW w \in Workers, GeneratesText(w)'
  PROVE  text'[loc'[w].unit] \notin Settled
<1>0. /\ LocType /\ BoardType /\ ListsHeld
      /\ \A d \in Drivers : d \in Workers
      /\ w \in Drivers \/ w \in Consumers
  BY Bounds DEF Context, TInv, Workers
<1>1. CASE GeneratesText(w) /\ loc'[w].unit = loc[w].unit
  BY <1>1, GeneratingStaysOpen
<1>2. CASE ~ (GeneratesText(w) /\ loc'[w].unit = loc[w].unit)
  <2>1. loc'[w] # loc[w]
    BY <1>2 DEF GeneratesText
  <2>2. ~ (Throw(w) \/ TextLands(w) \/ TextDone(w) \/ ImageDone(w))
    BY <1>0, <1>2, GeneratorFrame DEF GeneratesText
  <2>3. CASE w \in Drivers
    <3>1. ASSUME Start(w) \/ Count(w) \/ Insert(w) PROVE FALSE
      <4>1. loc'[w].pc \in {"count", "insert", FirstPoint}
        BY <1>0, <3>1 DEF Start, Count, Insert, LocType, Locals
      <4> QED
        BY <4>1 DEF FirstPoint, GeneratesText
    <3>2. ASSUME Reclaim(w) \/ Select(w) \/ Send(w) \/ MarkQueued(w) \/ Remain(w) \/ More(w)
          PROVE  FALSE
      <4>1. loc'[w].pc \in {"select", "write", "remain", "send", "mark"}
        BY <1>0, <3>2
           DEF Reclaim, Select, Send, MarkQueued, Remain, More, Goto, LocType, Locals
      <4> QED
        BY <4>1 DEF GeneratesText
    <3>3. ASSUME Write(w) \/ Crash(w) PROVE FALSE
      <4>1. loc'[w].pc = "idle"
        BY <1>0, <3>3, ExitFrame DEF Write, Crash, Idle
      <4> QED
        BY <4>1 DEF GeneratesText
    <3>4. ASSUME Pick(w) PROVE text'[loc'[w].unit] \notin Settled
      <4> DEFINE pending == With(loc[w].stage, {"pending"})
                 v == Min(pending)
      <4>1. CASE pending = {}
        <5>1. loc' = [loc EXCEPT ![w].pc = "write", ![w].more = FALSE]
          BY <3>4, <4>1 DEF Pick
        <5>2. loc'[w].pc = "write"
          BY <1>0, <5>1 DEF LocType, Locals
        <5> QED
          BY <5>2 DEF GeneratesText
      <4>2. CASE pending # {}
        <5>1. v \in pending
          BY <1>0, <4>2, LeastUnit DEF With, Gate, BoardType
        <5>2. loc' = [loc EXCEPT ![w].pc = "generate", ![w].unit = v, ![w].tried = attempts[v]]
          BY <3>4, <4>2 DEF Pick
        <5>3. loc[w].stage = "text" => text[v] = "pending"
          BY <5>1 DEF With, Status
        <5>4. text' = text
          BY <3>4 DEF Pick, board
        <5> HIDE DEF v, pending
        <5>5. loc'[w].unit = v /\ loc'[w].stage = loc[w].stage
          BY <1>0, <5>2 DEF LocType, Locals
        <5> QED
          BY <5>3, <5>4, <5>5 DEF GeneratesText, Settled
      <4> QED
        BY <4>1, <4>2
    <3> QED
      BY <2>1, <2>2, <2>3, <3>1, <3>2, <3>3, <3>4, DriverStill DEF Context
  <2>4. CASE w \in Consumers
    <3>1. ASSUME Deliver(w) PROVE FALSE
      <4>1. PICK m \in Messages :
              loc' = [loc EXCEPT ![w].pc = "read", ![w].unit = m.unit,
                                 ![w].stage = m.stage, ![w].tries = m.tries]
        BY <3>1 DEF Deliver
      <4>2. loc'[w].pc = "read"
        BY <1>0, <4>1 DEF LocType, Locals
      <4> QED
        BY <4>2 DEF GeneratesText
    <3>2. ASSUME Ack(w) \/ Retry(w) \/ Evict(w) PROVE FALSE
      <4>1. loc'[w].pc = "idle"
        BY <1>0, <3>2, ExitFrame DEF Ack, Retry, Evict, Idle
      <4> QED
        BY <4>1 DEF GeneratesText
    <3>3. ASSUME ReadUnit(w) PROVE text'[loc'[w].unit] \notin Settled
      <4>1. CASE Status(loc[w].stage)[loc[w].unit] \in Settled
        <5>1. Goto(w, "ack")
          BY <3>3, <4>1 DEF ReadUnit
        <5>2. loc'[w].pc = "ack"
          BY <1>0, <5>1, GotoFrame
        <5> QED
          BY <5>2 DEF GeneratesText
      <4>2. CASE Status(loc[w].stage)[loc[w].unit] \notin Settled
        <5>1. loc' = [loc EXCEPT ![w].pc = "generate", ![w].tried = attempts[loc[w].unit]]
          BY <3>3, <4>2 DEF ReadUnit
        <5>2. loc'[w].unit = loc[w].unit /\ loc'[w].stage = loc[w].stage
          BY <1>0, <5>1 DEF LocType, Locals
        <5>3. text' = text
          BY <3>3 DEF ReadUnit, board
        <5> QED
          BY <4>2, <5>2, <5>3 DEF GeneratesText, Status
      <4> QED
        BY <4>1, <4>2
    <3> QED
      BY <2>1, <2>2, <2>4, <3>1, <3>2, <3>3, ConsumerStill DEF Context
  <2> QED
    BY <1>0, <2>3, <2>4
<1> QED
  BY <1>1, <1>2

(* A message of a text is acknowledged once the text is settled.           *)
LEMMA AcksSettled ==
  ASSUME Context, NEW c \in Consumers, loc'[c].stage = "text", At(c, "ack")'
  PROVE  text'[loc'[c].unit] \in Settled
<1>0. LocType /\ BoardType /\ c \in Workers /\ c \notin Drivers
  BY Bounds, ParametersAssumption DEF Context, TInv
<1>a. loc[c].unit \in Units /\ loc[c].stage \in Stages
  BY <1>0 DEF LocType, Locals
<1>1. CASE text[loc[c].unit] \in Settled /\ loc'[c].unit = loc[c].unit
  BY <1>1, <1>a, SettledStep DEF Context
<1>2. CASE loc'[c] = loc[c]
  BY <1>1, <1>2 DEF Context, Orderly, At
<1>3. CASE ReadUnit(c)
  <2>1. CASE Status(loc[c].stage)[loc[c].unit] \in Settled
    <3>1. Goto(c, "ack")
      BY <1>3, <2>1 DEF ReadUnit
    <3>2. loc'[c].unit = loc[c].unit /\ loc[c].stage = "text"
      BY <1>0, <3>1, GotoFrame
    <3> QED
      BY <1>1, <2>1, <3>2 DEF Status
  <2>2. CASE Status(loc[c].stage)[loc[c].unit] \notin Settled
    <3>1. loc' = [loc EXCEPT ![c].pc = "generate", ![c].tried = attempts[loc[c].unit]]
      BY <1>3, <2>2 DEF ReadUnit
    <3>2. loc'[c].pc = "generate"
      BY <1>0, <3>1 DEF LocType, Locals
    <3> QED
      BY <3>2 DEF At
  <2> QED
    BY <2>1, <2>2
<1>4. ASSUME Deliver(c) PROVE FALSE
  <2>1. PICK m \in Messages :
          loc' = [loc EXCEPT ![c].pc = "read", ![c].unit = m.unit,
                             ![c].stage = m.stage, ![c].tries = m.tries]
    BY <1>4 DEF Deliver
  <2>2. loc'[c].pc = "read"
    BY <1>0, <2>1 DEF LocType, Locals
  <2> QED
    BY <2>2 DEF At
<1>5. ASSUME Ack(c) \/ Retry(c) \/ Evict(c) PROVE FALSE
  <2>1. loc'[c].pc = "idle"
    BY <1>0, <1>5, ExitFrame DEF Ack, Retry, Evict, Idle
  <2> QED
    BY <2>1 DEF At
<1>6. ASSUME TextLands(c) PROVE FALSE
  <2>1. loc'[c].pc = "landed"
    BY <1>0, <1>6, GotoFrame DEF TextLands
  <2> QED
    BY <2>1 DEF At
<1>7. ASSUME Throw(c) \/ TextDone(c) \/ ImageDone(c)
      PROVE  text'[loc'[c].unit] \in Settled
  <2>1. loc'[c].unit = loc[c].unit /\ loc[c].stage = "text"
    BY <1>0, <1>7, GeneratorFrame
  <2>2. CASE Throw(c)
    <3>1. loc[c].tried + 1 >= MaxUnitAttempts
      <4> SUFFICES ASSUME ~ (loc[c].tried + 1 >= MaxUnitAttempts) PROVE FALSE
        OBVIOUS
      <4>1. Goto(c, "retry")
        BY <1>0, <2>2 DEF Throw, Return
      <4>2. loc'[c].pc = "retry"
        BY <1>0, <4>1, GotoFrame
      <4> QED
        BY <4>2 DEF At
    <3>2. SetStatus("text", {loc[c].unit}, "failed")
      BY <2>1, <2>2, <3>1 DEF Throw
    <3> QED
      BY <1>a, <2>1, <3>2 DEF SetStatus, Settled
  <2>3. CASE TextDone(c)
    BY <1>a, <2>1, <2>3 DEF TextDone, SetStatus, Settled
  <2>4. CASE ImageDone(c)
    BY <2>1, <2>4 DEF ImageDone
  <2> QED
    BY <1>7, <2>2, <2>3, <2>4
<1> QED
  BY <1>2, <1>3, <1>4, <1>5, <1>6, <1>7, ConsumerStill DEF Context

(* What disturbs is counted, and the counts only grow.                     *)
LEMMA DisturbedStays == ASSUME TInv, Next, Undisturbed' PROVE Undisturbed
<1>1. early \in Nat /\ crashes \in Nat
  BY Bounds DEF TInv, FrameType
<1>2. early' = early \/ early' = early + 1
  BY NextCases
     DEF counters, Start, Count, Insert, Reclaim, Select, Send, MarkQueued, Remain, Pick, More,
         Write, Crash, Throw, TextLands, TextDone, ImageDone, Deliver, ReadUnit, Ack, Retry,
         Evict, Lost, Early
<1>3. crashes' = crashes \/ crashes' = crashes + 1
  BY NextCases
     DEF counters, Start, Count, Insert, Reclaim, Select, Send, MarkQueued, Remain, Pick, More,
         Write, Crash, Throw, TextLands, TextDone, ImageDone, Deliver, ReadUnit, Ack, Retry,
         Evict, Lost, Early
<1>4. useQueue' = useQueue
  BY BindingStays
<1> QED
  BY <1>1, <1>2, <1>3, <1>4 DEF Undisturbed

LEMMA UStep == OneDriver /\ TInv /\ WInv /\ BInv /\ UInv /\ [Next]_vars => UInv'
<1>1. CASE UNCHANGED vars
  BY <1>1 DEF vars, board, counters, UInv, QueueOff, Undisturbed, Orderly, Solo, NoToken,
              NoMessages, Holds, Marking, Unsent, GeneratesText, At
<1>2. ASSUME OneDriver, TInv, WInv, BInv, UInv, Next PROVE UInv'
  <2>1. QueueOff'
    BY <1>2, QueueOffStep DEF UInv
  <2>2. ASSUME Undisturbed' PROVE Orderly'
    <3>1. Context
      BY <1>2, <2>2, DisturbedStays DEF Context, UInv
    <3>2. Units' = Units
      BY DEF Units
    <3> QED
      BY <3>1, SoloKept, ToSendKept, UnsentKept, UnqueuedKept, GeneratesOpen, AcksSettled
         DEF Orderly
  <2> QED
    BY <2>1, <2>2 DEF UInv
<1> QED
  BY <1>1, <1>2

LEMMA UAlways == OneDriver => (Spec => [](TInv /\ WInv /\ BInv /\ UInv))
<1> SUFFICES ASSUME OneDriver PROVE Spec => [](TInv /\ WInv /\ BInv /\ UInv)
  OBVIOUS
<1>1. BInv /\ UNCHANGED vars => BInv'
  BY DEF BInv, vars, board, TextClosed
<1>2. TInv /\ WInv /\ BInv /\ UInv /\ [Next]_vars => (TInv /\ WInv /\ BInv /\ UInv)'
  BY <1>1, TStep, WStep, BStep, UStep
<1> QED
  BY <1>2, TInit, WInit, BInit, UInit, PTL DEF Spec

(* With one driver at a time, no unit reclaimed before its message is gone *)
(* and no queue driver lost: a finished text is never declared failed.     *)
(* Retries, lost consumers and their redeliveries do not disturb this: the *)
(* one copy of a unit finds it settled (processProvisionMessage).          *)
THEOREM DoneTextsStay == OneDriver => (Spec => DoneStaysDone)
<1> SUFFICES ASSUME OneDriver PROVE Spec => DoneStaysDone
  OBVIOUS
<1> DEFINE Kept == Undisturbed' => \A u \in Units : text[u] = "done" => text'[u] = "done"
<1>1. TInv /\ WInv /\ BInv /\ UInv /\ [Next]_vars => [Kept]_vars
  <2> SUFFICES ASSUME TInv, WInv, BInv, UInv, Next, Undisturbed', NEW u \in Units,
                      text[u] = "done", text'[u] # "done"
               PROVE  FALSE
    OBVIOUS
  <2>1. \A w \in Workers : GeneratesText(w) => loc[w].unit # u
    BY DisturbedStays DEF UInv, Orderly, Settled
  <2> QED
    BY <2>1, TextMoves
<1> QED
  BY <1>1, UAlways, PTL DEF DoneStaysDone, Spec

-----------------------------------------------------------------------------
(* The image stage is left closed                                          *)

ImageClosed == \A u \in Gate("image") : image[u] \in Settled

CInv ==
  /\ pointer = "over" => ImageClosed
  /\ \A d \in Drivers :
       At(d, "write") /\ loc[d].stage = "image" /\ ~ loc[d].more => ImageClosed

LEMMA CInit == Init => CInv
BY Bounds DEF Init, CInv, Idle, At

(* No text is open once the text stage is left, so none is generated and   *)
(* the image stage gets no further unit.                                   *)
LEMMA NoTextMoves ==
  ASSUME Context, TextClosed, pointer # "text"
  PROVE  UNCHANGED <<text, linked>>
<1>0. LocType /\ BoardType
  BY DEF Context, TInv
<1>1. ASSUME NEW w \in Workers, GeneratesText(w) PROVE FALSE
  <2>1. loc[w].unit \in Units /\ text[loc[w].unit] \notin Settled
    BY <1>0, <1>1 DEF Context, Orderly, LocType, Locals
  <2>2. text[loc[w].unit] # "absent"
    BY <1>1 DEF GeneratesText, Context, WInv, LocKnown, KnownAt, Known, WorkPoints
  <2> QED
    BY <2>1, <2>2 DEF TextClosed
<1>2. \A d \in Drivers : ~ Insert(d)
  BY DEF Context, BInv, Insert, At
<1>3. ASSUME NEW u \in Units PROVE text'[u] = text[u]
  <2>1. text[u] \notin {"pending", "queued"}
    BY DEF TextClosed, Settled
  <2> QED
    BY <1>1, <1>2, <2>1, TextMoves DEF Context
<1>4. text' \in [Units -> Statuses]
  BY BoardStep DEF Context, BoardType
<1>5. text' = text
  BY <1>0, <1>3, <1>4 DEF BoardType
<1>6. \A w \in Workers : ~ TextDone(w)
  BY <1>1 DEF TextDone, At, GeneratesText, Context, WInv, LocKnown, KnownAt
<1>7. linked' = linked
  BY <1>6, NextCases
     DEF Context, board, Start, Count, Insert, Reclaim, Select, Send, MarkQueued, Remain, Pick,
         More, Write, Crash, Throw, TextLands, ImageDone, Deliver, ReadUnit, Ack, Retry, Evict,
         Lost, Early
<1> QED
  BY <1>5, <1>7

LEMMA ImageClosedStays ==
  ASSUME Context, ImageClosed, pointer # "text"
  PROVE  ImageClosed'
<1>1. TextClosed
  BY DEF Context, BInv
<1>2. Gate("image")' = Gate("image")
  <2>1. useQueue' = useQueue
    BY BindingStays DEF Context
  <2> QED
    BY <1>1, <2>1, NoTextMoves DEF Gate
<1>3. Gate("image") \subseteq Units
  BY DEF Gate, Context, TInv, BoardType
<1> QED
  BY <1>2, <1>3, SettledStep DEF ImageClosed, Context

(* A unit the image stage may work on has a row, hence an image status.    *)
LEMMA ImageIsThere ==
  ASSUME TInv, WInv, NEW u \in Gate("image"), image[u] \notin {"pending", "queued"}
  PROVE  image[u] \in Settled
<1>1. u \in Units /\ text[u] # "absent"
  BY DEF Gate, TInv, BoardType, WInv, Backed, Settled
<1> QED
  BY <1>1 DEF TInv, BoardType, Statuses, WInv, RowsWhole

(* A driver that finds nothing left has the stage closed before it.        *)
LEMMA NothingLeft ==
  ASSUME Context, NEW d \in Drivers, loc[d].stage = "image",
         \/ At(d, "remain") /\ With("image", {"pending", "queued"}) = {}
         \/ (At(d, "pick") \/ At(d, "more")) /\ With("image", {"pending"}) = {}
  PROVE  ImageClosed /\ pointer # "text"
<1>1. pointer = "image"
  BY DEF Context, BInv, At
<1>2. CASE With("image", {"pending", "queued"}) = {}
  <2>1. \A u \in Gate("image") : image[u] \notin {"pending", "queued"}
    BY <1>2 DEF With, Status
  <2> QED
    BY <1>1, <2>1, ImageIsThere DEF ImageClosed, Context
<1>3. CASE ~ useQueue /\ With("image", {"pending"}) = {}
  <2>1. \A u \in Gate("image") : image[u] # "pending"
    BY <1>3 DEF With, Status
  <2>2. \A u \in Gate("image") : image[u] # "queued"
    BY <1>3 DEF Context, QueueOff, Gate, TInv, BoardType
  <2> QED
    BY <1>1, <2>1, <2>2, ImageIsThere DEF ImageClosed, Context
<1> QED
  BY <1>2, <1>3 DEF Context, BInv, At

LEMMA WritesClosed ==
  ASSUME Context, CInv, NEW d \in Drivers,
         At(d, "write")', loc'[d].stage = "image", ~ loc'[d].more
  PROVE  ImageClosed'
<1>0. LocType /\ d \in Workers
  BY Bounds DEF Context, TInv
<1>1. CASE loc'[d] = loc[d]
  <2>1. loc[d].stage = pointer /\ ImageClosed
    BY <1>1 DEF CInv, Context, BInv, At
  <2> QED
    BY <1>1, <2>1, ImageClosedStays
<1>2. CASE Remain(d)
  <2>1. loc' = [loc EXCEPT ![d].pc = "write",
                           ![d].more = (With(loc[d].stage, {"pending", "queued"}) # {})]
    BY <1>2 DEF Remain
  <2>2. loc[d].stage = "image" /\ loc'[d].more = (With(loc[d].stage, {"pending", "queued"}) # {})
    BY <1>0, <2>1 DEF LocType, Locals
  <2> QED
    BY <1>2, <2>2, NothingLeft, ImageClosedStays DEF Remain
<1>3. CASE More(d)
  <2>1. loc' = [loc EXCEPT ![d].pc = "write",
                           ![d].more = (With(loc[d].stage, {"pending"}) # {})]
    BY <1>3 DEF More
  <2>2. loc[d].stage = "image" /\ loc'[d].more = (With(loc[d].stage, {"pending"}) # {})
    BY <1>0, <2>1 DEF LocType, Locals
  <2> QED
    BY <1>3, <2>2, NothingLeft, ImageClosedStays DEF More
<1>4. CASE Pick(d)
  <2> DEFINE pending == With(loc[d].stage, {"pending"})
             v == Min(pending)
  <2>1. CASE pending = {}
    <3>1. loc' = [loc EXCEPT ![d].pc = "write", ![d].more = FALSE]
      BY <1>4, <2>1 DEF Pick
    <3>2. loc[d].stage = "image"
      BY <1>0, <3>1 DEF LocType, Locals
    <3> QED
      BY <1>4, <2>1, <3>2, NothingLeft, ImageClosedStays DEF Pick
  <2>2. CASE pending # {}
    <3>1. loc' = [loc EXCEPT ![d].pc = "generate", ![d].unit = v, ![d].tried = attempts[v]]
      BY <1>4, <2>2 DEF Pick
    <3> HIDE DEF v, pending
    <3>2. loc'[d].pc = "generate"
      BY <1>0, <3>1 DEF LocType, Locals
    <3> QED
      BY <3>2 DEF At
  <2> QED
    BY <2>1, <2>2
<1>5. ASSUME Start(d) \/ Count(d) \/ Insert(d) PROVE FALSE
  <2>1. loc'[d].pc \in {"count", "insert", FirstPoint}
    BY <1>0, <1>5 DEF Start, Count, Insert, LocType, Locals
  <2> QED
    BY <2>1 DEF FirstPoint, At
<1>6. ASSUME Reclaim(d) \/ Select(d) \/ Send(d) \/ MarkQueued(d) PROVE FALSE
  <2>1. loc'[d].pc \in {"select", "remain", "send", "mark"}
    BY <1>0, <1>6 DEF Reclaim, Select, Send, MarkQueued, Goto, LocType, Locals
  <2> QED
    BY <2>1 DEF At
<1>7. ASSUME Write(d) \/ Crash(d) PROVE FALSE
  <2>1. loc'[d].pc = "idle"
    BY <1>0, <1>7, ExitFrame DEF Write, Crash, Idle
  <2> QED
    BY <2>1 DEF At
<1>8. ASSUME Throw(d) \/ TextLands(d) \/ TextDone(d) \/ ImageDone(d) PROVE FALSE
  BY <1>0, <1>8, GeneratorFrame DEF At
<1> QED
  BY <1>1, <1>2, <1>3, <1>4, <1>5, <1>6, <1>7, <1>8, DriverStill DEF Context

LEMMA OverClosed ==
  ASSUME Context, CInv, pointer' = "over"
  PROVE  ImageClosed'
<1>1. CASE pointer = "over"
  BY <1>1, ImageClosedStays DEF CInv
<1>2. CASE pointer # "over"
  <2>1. PICK d \in Drivers : Write(d)
    BY <1>2, NextCases
       DEF Context, Start, Count, Insert, Reclaim, Select, Send, MarkQueued, Remain, Pick, More,
           Crash, Throw, TextLands, TextDone, ImageDone, Deliver, ReadUnit, Ack, Retry, Evict,
           Lost, Early
  <2>2. loc[d].stage = pointer /\ pointer \in Stages /\ At(d, "write")
    BY <1>2, <2>1 DEF Write, Context, BInv, TInv, FrameType, At
  <2>3. ~ loc[d].more /\ loc[d].stage = "image"
    BY <1>2, <2>1, <2>2 DEF Write, Stages
  <2> QED
    BY <2>2, <2>3, ImageClosedStays DEF CInv
<1> QED
  BY <1>1, <1>2

LEMMA CStep ==
  OneDriver /\ TInv /\ WInv /\ BInv /\ UInv /\ (Undisturbed => CInv) /\ [Next]_vars
    => (Undisturbed => CInv)'
<1>1. CASE UNCHANGED vars
  BY <1>1 DEF vars, board, counters, Undisturbed, CInv, ImageClosed, Gate, At
<1>2. ASSUME OneDriver, TInv, WInv, BInv, UInv, Undisturbed => CInv, Next, Undisturbed'
      PROVE  CInv'
  <2>1. Context /\ CInv
    BY <1>2, DisturbedStays DEF Context, UInv
  <2> QED
    BY <2>1, WritesClosed, OverClosed DEF CInv
<1> QED
  BY <1>1, <1>2

(* With one driver at a time, no unit reclaimed before its message is gone *)
(* and no queue driver lost: the image stage is left only when every unit  *)
(* it may illustrate is settled, in both the queue and the serial path     *)
(* (enqueueProvisionUnits, generateOrAssignArticleImagesStep), though the  *)
(* last look at the rows is one statement and the pointer's move another.  *)
THEOREM ImageStageIsLeftClosed == OneDriver => (Spec => []ImageBarrier)
<1> SUFFICES ASSUME OneDriver PROVE Spec => []ImageBarrier
  OBVIOUS
<1>1. Spec => [](Undisturbed => CInv)
  BY UAlways, CInit, CStep, PTL DEF Spec
<1>2. (Undisturbed => CInv) => ImageBarrier
  BY DEF CInv, ImageClosed, ImageBarrier
<1> QED
  BY <1>1, <1>2, PTL
=============================================================================
