--------------------------- MODULE ProvisionUnits ---------------------------
(***************************************************************************)
(* The two chunked provisioning steps (site-provisioning/steps.ts): the    *)
(* starter-article units of one site, the drivers that materialize and     *)
(* enqueue them, the provisioning queue and the consumers that generate    *)
(* one unit each, text first and images after.  Without a queue binding a  *)
(* driver generates one unit inline.  One action per D1 statement, queue   *)
(* operation or AI call; the AI call itself lasts as long as it likes.     *)
(***************************************************************************)
EXTENDS Integers, FiniteSets, FiniteSetsExt

CONSTANTS
  UnitCount,                    \* STARTER_ARTICLE_TARGET
  Drivers,                      \* invocations that run the chunked steps
  Consumers,                    \* queue() invocations, max_concurrency
  MaxUnitAttempts,              \* MAX_UNIT_ATTEMPTS
  MaxRetries,                   \* max_retries of the queue
  MaxThrows,                    \* bound: generators that throw
  MaxEvictions,                 \* bound: consumers lost
  MaxCrashes,                   \* bound: drivers lost
  MaxEarly                      \* bound: reclaims of a unit still in flight

ASSUME ParametersAssumption ==
  /\ UnitCount \in Nat \ {0}
  /\ Drivers \cap Consumers = {}
  /\ MaxUnitAttempts \in Nat \ {0}
  /\ {MaxRetries, MaxThrows, MaxEvictions, MaxCrashes, MaxEarly} \subseteq Nat

Units == 0 .. (UnitCount - 1)
Stages == {"text", "image"}
Settled == {"done", "failed"}
Workers == Drivers \cup Consumers

VARIABLES
  useQueue,                     \* is env.PROVISION_QUEUE bound?
  pointer,                      \* the job's current step: text, image, over
  text, image,                  \* text_status and image_status by unit
  linked,                       \* units whose article_id is set
  attempts,                     \* attempt_count by unit
  fresh,                        \* units written less than RECLAIM_S ago
  articles,                     \* units whose articles row exists
  queue,                        \* queued messages: how many copies of each
  loc,                          \* program point and locals of each invocation
  thrown,                       \* history: generations that threw, by stage
  throws, evictions, crashes, early

board == <<text, image, linked, attempts, fresh>>
counters == <<throws, evictions, crashes, early>>
vars == <<useQueue, pointer, board, articles, queue, loc, thrown, counters>>

Messages == [unit : Units, stage : Stages, tries : 0 .. MaxRetries]

DriverPoints == {"count", "insert", "reclaim", "select", "send", "mark",
                 "remain", "pick", "more", "write"}
ConsumerPoints == {"read", "ack", "retry"}
GeneratorPoints == {"generate", "landed"}

Idle == [pc |-> "idle", stage |-> "text", unit |-> 0, tried |-> 0, tries |-> 0,
         todo |-> {}, more |-> FALSE]

TypeOK ==
  /\ useQueue \in BOOLEAN
  /\ pointer \in Stages \cup {"over"}
  /\ text \in [Units -> {"absent", "pending", "queued"} \cup Settled]
  /\ image \in [Units -> {"absent", "pending", "queued"} \cup Settled]
  /\ linked \subseteq Units
  /\ attempts \in [Units -> 0 .. MaxThrows]
  /\ fresh \subseteq Units
  /\ articles \subseteq Units
  /\ queue \in [Messages -> Nat]
  /\ loc \in [Workers ->
       [pc : {"idle"} \cup DriverPoints \cup ConsumerPoints \cup GeneratorPoints,
        stage : Stages, unit : Units, tried : 0 .. MaxThrows,
        tries : 0 .. MaxRetries, todo : SUBSET Units, more : BOOLEAN]]
  /\ thrown \in [Stages -> [Units -> 0 .. MaxThrows]]
  /\ throws \in 0 .. MaxThrows
  /\ evictions \in 0 .. MaxEvictions
  /\ crashes \in 0 .. MaxCrashes
  /\ early \in 0 .. MaxEarly

-----------------------------------------------------------------------------
(* Helpers                                                                 *)

At(w, point) == loc[w].pc = point
Goto(w, point) == loc' = [loc EXCEPT ![w].pc = point]
Exit(w) == loc' = [loc EXCEPT ![w] = Idle]

(* The status column of a stage, and a write of it to a set of units.      *)
Status(s) == IF s = "text" THEN text ELSE image

SetStatus(s, us, status) ==
  LET column == [u \in Units |-> IF u \in us THEN status ELSE Status(s)[u]]
  IN  /\ text' = IF s = "text" THEN column ELSE text
      /\ image' = IF s = "image" THEN column ELSE image

(* Mutation of Gate: the image stage does not look at the text.            *)
AnyUnit(s) == Units

(* Units of a stage that still need work: in the image stage the consumer  *)
(* path asks for text 'done', the serial path for an article_id.           *)
Gate(s) == IF s = "text" THEN Units
           ELSE IF useQueue THEN {u \in Units : text[u] = "done"} ELSE linked

With(s, statuses) == {u \in Gate(s) : Status(s)[u] \in statuses}

(* Both paths begin with their own first statement.                        *)
FirstPoint == IF useQueue THEN "reclaim" ELSE "pick"

Put(m) == queue' = [queue EXCEPT ![m] = @ + 1]
Message(w, tries) == [unit |-> loc[w].unit, stage |-> loc[w].stage, tries |-> tries]

(* message.retry(), or a lost consumer: delivered again until max_retries, *)
(* then the dead-letter queue has it.                                      *)
Redeliver(c) ==
  IF loc[c].tries < MaxRetries THEN Put(Message(c, loc[c].tries + 1))
                               ELSE UNCHANGED queue

(* A copy of a unit's message is still about: in the queue, or with a      *)
(* consumer that will still act on it.                                     *)
About(u, s) ==
  \/ \E m \in Messages : m.unit = u /\ m.stage = s /\ queue[m] > 0
  \/ \E c \in Consumers : /\ loc[c].pc \in {"read", "retry"} \cup GeneratorPoints
                          /\ loc[c].unit = u
                          /\ loc[c].stage = s

-----------------------------------------------------------------------------
Init ==
  /\ useQueue \in BOOLEAN
  /\ pointer = "text"
  /\ text = [u \in Units |-> "absent"]
  /\ image = [u \in Units |-> "absent"]
  /\ linked = {}
  /\ attempts = [u \in Units |-> 0]
  /\ fresh = {}
  /\ articles = {}
  /\ queue = [m \in Messages |-> 0]
  /\ loc = [w \in Workers |-> Idle]
  /\ thrown = [s \in Stages |-> [u \in Units |-> 0]]
  /\ throws = 0 /\ evictions = 0 /\ crashes = 0 /\ early = 0

-----------------------------------------------------------------------------
(* The step handlers                                                       *)

(* The runner reads the pointer and calls the step's handler.              *)
Start(d) ==
  /\ At(d, "idle")
  /\ pointer \in Stages
  /\ loc' = [loc EXCEPT ![d].stage = pointer,
                        ![d].pc = IF pointer = "text" THEN "count" ELSE FirstPoint]
  /\ UNCHANGED <<useQueue, pointer, board, articles, queue, thrown, counters>>

(* countArticleUnits: no row at all asks for the plan and its rows.        *)
Count(d) ==
  /\ At(d, "count")
  /\ loc' = IF \A u \in Units : text[u] = "absent"
              THEN [loc EXCEPT ![d].pc = "insert", ![d].todo = Units]
              ELSE [loc EXCEPT ![d].pc = FirstPoint]
  /\ UNCHANGED <<useQueue, pointer, board, articles, queue, thrown, counters>>

(* INSERT OR IGNORE of one unit row of the plan.                           *)
Insert(d) ==
  /\ At(d, "insert")
  /\ LET u == Min(loc[d].todo)
         new == IF text[u] = "absent" THEN {u} ELSE {}
     IN  /\ text' = [v \in Units |-> IF v \in new THEN "pending" ELSE text[v]]
         /\ image' = [v \in Units |-> IF v \in new THEN "pending" ELSE image[v]]
         /\ fresh' = fresh \cup new
         /\ loc' = [loc EXCEPT ![d].todo = @ \ {u},
                               ![d].pc = IF loc[d].todo = {u} THEN FirstPoint ELSE "insert"]
  /\ UNCHANGED <<useQueue, pointer, linked, attempts, articles, queue, thrown, counters>>

-----------------------------------------------------------------------------
(* enqueueProvisionUnits                                                   *)

(* Mutation of Reclaim: a stale 'queued' stays queued.                     *)
ReclaimNothing(d) ==
  /\ At(d, "reclaim")
  /\ Goto(d, "select")
  /\ UNCHANGED <<useQueue, pointer, board, articles, queue, thrown, counters>>

Reclaim(d) ==
  /\ At(d, "reclaim")
  /\ LET stale == {u \in Units \ fresh : Status(loc[d].stage)[u] = "queued"}
     IN  /\ SetStatus(loc[d].stage, stale, "pending")
         /\ fresh' = fresh \cup stale
  /\ Goto(d, "select")
  /\ UNCHANGED <<useQueue, pointer, linked, attempts, articles, queue, thrown, counters>>

Select(d) ==
  /\ At(d, "select")
  /\ LET pending == With(loc[d].stage, {"pending"})
     IN  loc' = [loc EXCEPT ![d].todo = pending,
                            ![d].pc = IF pending = {} THEN "remain" ELSE "send"]
  /\ UNCHANGED <<useQueue, pointer, board, articles, queue, thrown, counters>>

Send(d) ==
  /\ At(d, "send")
  /\ LET u == Min(loc[d].todo)
     IN  /\ Put([unit |-> u, stage |-> loc[d].stage, tries |-> 0])
         /\ loc' = [loc EXCEPT ![d].pc = "mark", ![d].unit = u]
  /\ UNCHANGED <<useQueue, pointer, board, articles, thrown, counters>>

(* Mutation of MarkQueued: WHERE ... 'pending' dropped.                    *)
MarkAnything(d) ==
  /\ At(d, "mark")
  /\ LET u == loc[d].unit
     IN  /\ SetStatus(loc[d].stage, {u}, "queued")
         /\ fresh' = fresh \cup {u}
         /\ loc' = [loc EXCEPT ![d].todo = @ \ {u},
                               ![d].pc = IF loc[d].todo = {u} THEN "remain" ELSE "send"]
  /\ UNCHANGED <<useQueue, pointer, linked, attempts, articles, queue, thrown, counters>>

(* UPDATE ... 'queued' WHERE ... 'pending', after the send.                *)
MarkQueued(d) ==
  /\ At(d, "mark")
  /\ LET u == loc[d].unit
         mine == IF Status(loc[d].stage)[u] = "pending" THEN {u} ELSE {}
     IN  /\ SetStatus(loc[d].stage, mine, "queued")
         /\ fresh' = fresh \cup mine
         /\ loc' = [loc EXCEPT ![d].todo = @ \ {u},
                               ![d].pc = IF loc[d].todo = {u} THEN "remain" ELSE "send"]
  /\ UNCHANGED <<useQueue, pointer, linked, attempts, articles, queue, thrown, counters>>

(* Mutation of Remain: units in flight are not counted.                    *)
RemainPending(d) ==
  /\ At(d, "remain")
  /\ loc' = [loc EXCEPT ![d].pc = "write",
                        ![d].more = With(loc[d].stage, {"pending"}) # {}]
  /\ UNCHANGED <<useQueue, pointer, board, articles, queue, thrown, counters>>

Remain(d) ==
  /\ At(d, "remain")
  /\ loc' = [loc EXCEPT ![d].pc = "write",
                        ![d].more = With(loc[d].stage, {"pending", "queued"}) # {}]
  /\ UNCHANGED <<useQueue, pointer, board, articles, queue, thrown, counters>>

(* persistInProgress or advanceJobPointer, from the snapshot.              *)
Write(d) ==
  /\ At(d, "write")
  /\ pointer' = IF loc[d].more THEN loc[d].stage
                ELSE IF loc[d].stage = "text" THEN "image" ELSE "over"
  /\ Exit(d)
  /\ UNCHANGED <<useQueue, board, articles, queue, thrown, counters>>

-----------------------------------------------------------------------------
(* The generators, inline in a driver or in a consumer                     *)

(* Serial path: selectNextPendingUnit.                                     *)
Pick(d) ==
  /\ At(d, "pick")
  /\ LET pending == With(loc[d].stage, {"pending"})
     IN  loc' = IF pending = {}
                  THEN [loc EXCEPT ![d].pc = "write", ![d].more = FALSE]
                  ELSE [loc EXCEPT ![d].pc = "generate", ![d].unit = Min(pending),
                                   ![d].tried = attempts[Min(pending)]]
  /\ UNCHANGED <<useQueue, pointer, board, articles, queue, thrown, counters>>

(* A generator returns to the serial step, or to the queue's consumer.     *)
Return(w, outcome) == Goto(w, IF w \in Drivers THEN "more" ELSE outcome)

(* Mutation of Throw: given up one attempt short.                          *)
ThrowGivesUp(w) ==
  /\ At(w, "generate")
  /\ throws < MaxThrows
  /\ throws' = throws + 1
  /\ LET u == loc[w].unit
         s == loc[w].stage
         spent == loc[w].tried + 2 >= MaxUnitAttempts
     IN  /\ attempts' = [attempts EXCEPT ![u] = loc[w].tried + 1]
         /\ SetStatus(s, IF spent THEN {u} ELSE {}, "failed")
         /\ fresh' = fresh \cup {u}
         /\ thrown' = [thrown EXCEPT ![s][u] = @ + 1]
         /\ Return(w, IF spent THEN "ack" ELSE "retry")
  /\ UNCHANGED <<useQueue, pointer, linked, articles, queue, evictions, crashes, early>>

(* The generator throws and recordUnitFailure counts from the attempts     *)
(* read before the call.  Text and image share the one counter.            *)
Throw(w) ==
  /\ At(w, "generate")
  /\ throws < MaxThrows
  /\ throws' = throws + 1
  /\ LET u == loc[w].unit
         s == loc[w].stage
         spent == loc[w].tried + 1 >= MaxUnitAttempts
     IN  /\ attempts' = [attempts EXCEPT ![u] = loc[w].tried + 1]
         /\ SetStatus(s, IF spent THEN {u} ELSE {}, "failed")
         /\ fresh' = fresh \cup {u}
         /\ thrown' = [thrown EXCEPT ![s][u] = @ + 1]
         /\ Return(w, IF spent THEN "ack" ELSE "retry")
  /\ UNCHANGED <<useQueue, pointer, linked, articles, queue, evictions, crashes, early>>

(* INSERT OR IGNORE of the article under the planned slug.                 *)
TextLands(w) ==
  /\ At(w, "generate")
  /\ loc[w].stage = "text"
  /\ articles' = articles \cup {loc[w].unit}
  /\ Goto(w, "landed")
  /\ UNCHANGED <<useQueue, pointer, board, queue, thrown, counters>>

(* text_status = 'done' and article_id, whatever the status is by now.     *)
TextDone(w) ==
  /\ At(w, "landed")
  /\ SetStatus("text", {loc[w].unit}, "done")
  /\ linked' = linked \cup {loc[w].unit}
  /\ fresh' = fresh \cup {loc[w].unit}
  /\ Return(w, "ack")
  /\ UNCHANGED <<useQueue, pointer, attempts, articles, queue, thrown, counters>>

(* With or without a media row the image is settled.                       *)
ImageDone(w) ==
  /\ At(w, "generate")
  /\ loc[w].stage = "image"
  /\ SetStatus("image", {loc[w].unit}, "done")
  /\ fresh' = fresh \cup {loc[w].unit}
  /\ Return(w, "ack")
  /\ UNCHANGED <<useQueue, pointer, linked, attempts, articles, queue, thrown, counters>>

(* Mutation of More: the second look is dropped.                           *)
MoreNever(d) ==
  /\ At(d, "more")
  /\ loc' = [loc EXCEPT ![d].pc = "write", ![d].more = FALSE]
  /\ UNCHANGED <<useQueue, pointer, board, articles, queue, thrown, counters>>

(* Serial path: is another unit pending?                                   *)
More(d) ==
  /\ At(d, "more")
  /\ loc' = [loc EXCEPT ![d].pc = "write",
                        ![d].more = With(loc[d].stage, {"pending"}) # {}]
  /\ UNCHANGED <<useQueue, pointer, board, articles, queue, thrown, counters>>

-----------------------------------------------------------------------------
(* The queue and its consumers                                             *)

Deliver(c) ==
  /\ At(c, "idle")
  /\ \E m \in Messages :
       /\ queue[m] > 0
       /\ queue' = [queue EXCEPT ![m] = @ - 1]
       /\ loc' = [loc EXCEPT ![c].pc = "read", ![c].unit = m.unit,
                             ![c].stage = m.stage, ![c].tries = m.tries]
  /\ UNCHANGED <<useQueue, pointer, board, articles, thrown, counters>>

(* Mutation of ReadUnit: a settled unit is generated again.                *)
ReadAnyUnit(c) ==
  /\ At(c, "read")
  /\ loc' = [loc EXCEPT ![c].pc = "generate", ![c].tried = attempts[loc[c].unit]]
  /\ UNCHANGED <<useQueue, pointer, board, articles, queue, thrown, counters>>

(* processProvisionMessage: a settled unit is skipped.                     *)
ReadUnit(c) ==
  /\ At(c, "read")
  /\ IF Status(loc[c].stage)[loc[c].unit] \in Settled
       THEN Goto(c, "ack")
       ELSE loc' = [loc EXCEPT ![c].pc = "generate",
                               ![c].tried = attempts[loc[c].unit]]
  /\ UNCHANGED <<useQueue, pointer, board, articles, queue, thrown, counters>>

Ack(c) ==
  /\ At(c, "ack")
  /\ Exit(c)
  /\ UNCHANGED <<useQueue, pointer, board, articles, queue, thrown, counters>>

Retry(c) ==
  /\ At(c, "retry")
  /\ Redeliver(c)
  /\ Exit(c)
  /\ UNCHANGED <<useQueue, pointer, board, articles, thrown, counters>>

(* The consumer is lost before it answers the queue, or a statement throws. *)
Evict(c) ==
  /\ ~ At(c, "idle")
  /\ evictions < MaxEvictions
  /\ evictions' = evictions + 1
  /\ Redeliver(c)
  /\ Exit(c)
  /\ UNCHANGED <<useQueue, pointer, board, articles, thrown, throws, crashes, early>>

(* The driver is lost: what it wrote and sent stays.                       *)
Crash(d) ==
  /\ ~ At(d, "idle")
  /\ crashes < MaxCrashes
  /\ crashes' = crashes + 1
  /\ Exit(d)
  /\ UNCHANGED <<useQueue, pointer, board, articles, queue, thrown, throws, evictions, early>>

-----------------------------------------------------------------------------
(* Time: a unit's row grows older than PROVISION_QUEUE_RECLAIM_S           *)

Queued(u, s) == u \in fresh /\ Status(s)[u] = "queued"

(* ... because its message is gone,                                        *)
Lost(u) ==
  /\ \E s \in Stages : Queued(u, s) /\ ~ About(u, s)
  /\ fresh' = fresh \ {u}
  /\ UNCHANGED <<useQueue, pointer, text, image, linked, attempts, articles, queue, loc,
                 thrown, counters>>

(* ... or while it still waits or is being worked on.                      *)
Early(u) ==
  /\ early < MaxEarly
  /\ \E s \in Stages : Queued(u, s) /\ About(u, s)
  /\ early' = early + 1
  /\ fresh' = fresh \ {u}
  /\ UNCHANGED <<useQueue, pointer, text, image, linked, attempts, articles, queue, loc,
                 thrown, throws, evictions, crashes>>

-----------------------------------------------------------------------------
Step(d) ==
  \/ Count(d) \/ Insert(d)
  \/ Reclaim(d) \/ Select(d) \/ Send(d) \/ MarkQueued(d) \/ Remain(d)
  \/ Pick(d) \/ More(d)
  \/ Write(d)

Generate(w) == Throw(w) \/ TextLands(w) \/ TextDone(w) \/ ImageDone(w)

Consume(c) == ReadUnit(c) \/ Ack(c) \/ Retry(c)

Next ==
  \/ \E d \in Drivers : Start(d) \/ Step(d) \/ Crash(d)
  \/ \E w \in Workers : Generate(w)
  \/ \E c \in Consumers : Deliver(c) \/ Consume(c) \/ Evict(c)
  \/ \E u \in Units : Lost(u) \/ Early(u)

Spec == Init /\ [][Next]_vars

(* The cron keeps starting the step, an invocation runs on until it        *)
(* returns or is lost, the queue delivers and time passes.                 *)
Fairness ==
  /\ WF_vars(\E d \in Drivers : Start(d))
  /\ \A d \in Drivers : WF_vars(Step(d))
  /\ \A w \in Workers : WF_vars(Generate(w))
  /\ WF_vars(\E c \in Consumers : Deliver(c))
  /\ \A c \in Consumers : WF_vars(Consume(c))
  /\ \A u \in Units : WF_vars(Lost(u))

FairSpec == Spec /\ Fairness

-----------------------------------------------------------------------------
(* Properties                                                              *)

(* No write loses a unit that is finished: MarkQueued and the reclaim only *)
(* take a unit that is still open, whatever the consumers did since the    *)
(* driver read it, whoever is lost and however often a message arrives.    *)
SettledStays ==
  [][\A u \in Units : /\ text[u] \in Settled => text'[u] \in Settled
                      /\ image[u] \in Settled => image'[u] \in Settled]_vars

(* Nothing is done, linked or illustrated before its article exists: the   *)
(* text stage commits the article first, and the image stage, its queue    *)
(* messages and their consumers included, never reaches a unit whose text  *)
(* failed.                                                                 *)
ArticleFirst ==
  \A u \in Units \ articles :
    /\ text[u] # "done"
    /\ u \notin linked
    /\ image[u] \notin {"queued", "done"}
    /\ \A m \in Messages : m.unit = u /\ m.stage = "image" => queue[m] = 0
    /\ \A c \in Consumers : loc[c].stage = "image" => loc[c].unit # u

(* The text stage is left only when every unit it wrote is settled, though *)
(* "remaining" was read some statements before the pointer moves.          *)
TextBarrier ==
  pointer # "text" => \A u \in Units : text[u] \in Settled \cup {"absent"}

(* No unit can be worked on twice: no unit was reclaimed while its message *)
(* was still about, no driver was lost between a send and its mark.        *)
Undisturbed == early = 0 /\ (useQueue => crashes = 0)

(* Undisturbed, the image stage is left only when every unit it may        *)
(* illustrate is settled.  Disturbed it is not: a late duplicate of a text *)
(* unit finishes after the image stage was left without it.                *)
ImageBarrier ==
  Undisturbed /\ pointer = "over" => \A u \in Gate("image") : image[u] \in Settled

(* A unit loses its text only after MaxUnitAttempts generations threw, even *)
(* when overlapping consumers count from the same attempts.                *)
TextTriedEnough ==
  \A u \in Units : text[u] = "failed" => thrown["text"][u] >= MaxUnitAttempts

(* Undisturbed, a finished text is never declared failed: the redelivery   *)
(* of a message finds its unit settled.                                    *)
DoneStaysDone ==
  [][Undisturbed' => \A u \in Units : text[u] = "done" => text'[u] = "done"]_vars

(* However messages are lost, repeated or given up by the queue, the two   *)
(* stages end: a unit left 'queued' is reclaimed and sent again.           *)
StagesEnd == <>[](pointer = "over")
=============================================================================
