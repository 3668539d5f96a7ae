--------------------------- MODULE FunnelVariants ---------------------------
(***************************************************************************)
(* The variants of one LeadGen funnel and its A/B tests: the admin         *)
(* handlers that add, fork, save and delete variants and create, start and *)
(* stop tests, and the sessions that are bucketed over the active variants *)
(* at funnel entry.  One action per D1 statement or batch; what a handler  *)
(* has read stays in its locals.  Shares are counted in parts of Whole,    *)
(* which stands for 10000 basis points; labels are A = 1, B = 2, ...       *)
(***************************************************************************)
EXTENDS Integers, FiniteSets, FiniteSetsExt

CONSTANTS
  Admins,                       \* concurrent admin requests
  Sessions,                     \* visitor sessions
  Tests,                        \* ids of A/B tests
  None,                         \* no test
  Whole,                        \* 10000 basis points
  Bucket(_, _, _),              \* abBucket: a hash of test, revision, session
  MaxVariants,                  \* bound: variants ever inserted; also labels
  MaxRevision,                  \* bound: revisions of a test
  MaxOps,                       \* bound: admin requests in all
  MaxVisits                     \* bound: funnel entries in all

ASSUME ParametersAssumption ==
  /\ None \notin Tests
  /\ Whole \in Nat \ {0}
  /\ MaxVariants \in Nat \ {0, 1}
  /\ MaxRevision \in Nat \ {0}
  /\ {MaxOps, MaxVisits} \subseteq Nat

ASSUME BucketAssumption ==
  \A t \in Tests, r \in 1 .. MaxRevision, s \in Sessions : Bucket(t, r, s) \in 0 .. Whole - 1

VARIABLES
  made, var,                    \* the variants, by id: 1 .. made were inserted
  test,                         \* status and revision of each test
  adm,                          \* program point and locals of each request
  ses,                          \* program point and locals of each session
  counted,                      \* history: variant a session got, per revision
  stale,                        \* history: tests hit by an overtaken check
  ops, visits                   \* the two bounded counters

arms == <<made, var>>
rows == <<arms, test>>
public == <<ses, counted, visits>>
vars == <<rows, adm, public, stale, ops>>

Ids == 1 .. MaxVariants
Labels == 1 .. MaxVariants
Revisions == 1 .. MaxRevision

Idle == [pc |-> "idle", var |-> 1, label |-> 1, share |-> 0, todo |-> {},
         arms |-> {}, test |-> None, held |-> FALSE]
Away == [pc |-> "away", test |-> None, revision |-> 1]

TypeOK ==
  /\ made \in 0 .. MaxVariants
  /\ var \in [Ids -> [active : BOOLEAN, label : Labels, share : 0 .. Whole]]
  /\ test \in [Tests -> [status : {"none", "draft", "running", "stopped"},
                         revision : Revisions]]
  /\ adm \in [Admins ->
       [pc : {"idle", "existing", "add", "test", "arms", "fork", "put",
              "frozen", "siblings", "delete", "other", "sum", "start"},
        var : Ids, label : Labels, share : 0 .. Whole,
        todo : SUBSET {"label", "share"}, arms : SUBSET Ids,
        test : Tests \cup {None}, held : BOOLEAN]]
  /\ ses \in [Sessions -> [pc : {"away", "arms"}, test : Tests \cup {None},
                           revision : Revisions]]
  /\ counted \in [Sessions -> [Tests -> [Revisions -> 0 .. MaxVariants]]]
  /\ stale \subseteq Tests
  /\ ops \in 0 .. MaxOps
  /\ visits \in 0 .. MaxVisits

-----------------------------------------------------------------------------
(* Helpers                                                                 *)

Active == {v \in 1 .. made : var[v].active}
Running == {t \in Tests : test[t].status = "running"}

(* What the arms are picked by: their labels and shares.                   *)
Allocation == [v \in Active |-> var[v]]

Total(alloc, vs) == MapThenSumSet(LAMBDA v : alloc[v].share, vs)

(* validateAbAllocations: at least one arm, shares that add up.            *)
Adds(alloc) == DOMAIN alloc # {} /\ Total(alloc, DOMAIN alloc) = Whole

(* pickVariantByBucket: arms by label, ties by id; the first one whose     *)
(* cumulative share exceeds the bucket, else the last.                     *)
Pick(b, alloc) ==
  LET vs == DOMAIN alloc
      upTo(v) == {w \in vs : \/ alloc[w].label < alloc[v].label
                             \/ alloc[w].label = alloc[v].label /\ w <= v}
      past == {v \in vs : Total(alloc, upTo(v)) > b}
      first(ws) == CHOOSE v \in ws : ws \cap upTo(v) = {v}
      last(ws) == CHOOSE v \in ws : ws \subseteq upTo(v)
  IN  IF past = {} THEN last(vs) ELSE first(past)

Working(a, point) == adm[a].pc = point
Leave(a) == adm' = [adm EXCEPT ![a] = Idle]
Begin(a) == adm[a].pc = "idle" /\ ops < MaxOps /\ ops' = ops + 1
Goto(a, locals) == adm' = [adm EXCEPT ![a] = locals]

(* Overtaken: the request looked (its local held, which is history), what  *)
(* it found no longer holds at the write, and the write hits these tests.  *)
(* They stay stale until a start that finds shares which still add up.     *)
Note(a, hit) == stale' = IF adm[a].held THEN stale \cup hit ELSE stale

Reads == UNCHANGED <<rows, public, stale>>
Step == Reads /\ UNCHANGED ops

-----------------------------------------------------------------------------
(* A quote is created with one funnel and one variant that takes all; or a *)
(* test has run, was forked and stopped: two arms and its third revision.  *)
Init ==
  /\ \/ /\ made = 1
        /\ var = [v \in Ids |-> [active |-> v = 1, label |-> 1, share |-> Whole]]
        /\ test = [t \in Tests |-> [status |-> "none", revision |-> 1]]
     \/ /\ made = 2 /\ MaxRevision > 2
        /\ var = [v \in Ids |->
                    [active |-> v <= 2, label |-> IF v = 2 THEN 2 ELSE 1,
                     share |-> IF v = 2 THEN Whole \div 2 ELSE Whole - Whole \div 2]]
        /\ \E t \in Tests :
             test = [u \in Tests |-> IF u = t THEN [status |-> "stopped", revision |-> 3]
                                     ELSE [status |-> "none", revision |-> 1]]
  /\ adm = [a \in Admins |-> Idle]
  /\ ses = [s \in Sessions |-> Away]
  /\ counted = [s \in Sessions |-> [t \in Tests |-> [r \in Revisions |-> 0]]]
  /\ stale = {}
  /\ ops = 0 /\ visits = 0

-----------------------------------------------------------------------------
(* POST funnels/:id/variants: only into a funnel without one               *)

Add(a) ==
  /\ Begin(a)
  /\ Running = {}
  /\ Goto(a, [Idle EXCEPT !.pc = "existing"])
  /\ Reads

AddExisting(a) ==
  /\ Working(a, "existing")
  /\ IF Active # {} THEN Leave(a)
     ELSE Goto(a, [adm[a] EXCEPT !.pc = "add", !.held = TRUE])
  /\ Step

AddWrite(a) ==
  /\ Working(a, "add")
  /\ made < MaxVariants
  /\ made' = made + 1
  /\ var' = [var EXCEPT ![made + 1] = [active |-> TRUE, label |-> adm[a].label,
                                       share |-> Whole]]
  /\ Note(a, Running)
  /\ Leave(a)
  /\ UNCHANGED <<test, public, ops>>

-----------------------------------------------------------------------------
(* POST variants/:id/fork: the second arm of a running test                *)

Fork(a) ==
  /\ Begin(a)
  /\ \E v \in Active :
       Goto(a, [Idle EXCEPT !.pc = "test", !.var = v, !.share = var[v].share])
  /\ Reads

ForkTest(a) ==
  /\ Working(a, "test")
  /\ \E t \in IF Running = {} THEN {None} ELSE Running :
       Goto(a, [adm[a] EXCEPT !.pc = "arms", !.test = t])
  /\ Step

(* One active variant and a running test, or no active variant at all.     *)
ForkArms(a) ==
  /\ Working(a, "arms")
  /\ IF Active = {} \/ (adm[a].test # None /\ Cardinality(Active) = 1)
       THEN Goto(a, [adm[a] EXCEPT !.pc = "fork", !.arms = Active, !.held = TRUE,
                                   !.label = Cardinality(Active) + 1])
       ELSE Leave(a)
  /\ Step

(* The sibling keeps what it has.                                          *)
ForkWithoutRebalance(a) ==
  /\ Working(a, "fork")
  /\ made < MaxVariants
  /\ made' = made + 1
  /\ LET t == adm[a].test
         bootstrap == adm[a].arms # {}
         half == Whole \div 2
     IN  /\ bootstrap => test[t].revision < MaxRevision
         /\ var' = [var EXCEPT ![made + 1] =
                      [active |-> TRUE, label |-> adm[a].label,
                       share |-> IF bootstrap THEN half ELSE adm[a].share]]
         /\ test' = IF bootstrap THEN [test EXCEPT ![t].revision = @ + 1] ELSE test
         /\ Note(a, IF Active = adm[a].arms /\ (bootstrap => t \in Running)
                      THEN {} ELSE Running)
  /\ Leave(a)
  /\ UNCHANGED <<public, ops>>

(* One batch: the copy, and, when it joins a sibling, equal shares for     *)
(* both and a new revision of the test that was read, whatever its status  *)
(* is by now.  An odd part goes to the sibling.                            *)
ForkBatch(a) ==
  /\ Working(a, "fork")
  /\ made < MaxVariants
  /\ made' = made + 1
  /\ LET t == adm[a].test
         bootstrap == adm[a].arms # {}
         half == Whole \div 2
     IN  /\ bootstrap => test[t].revision < MaxRevision
         /\ var' = [v \in Ids |->
              IF v = made + 1
                THEN [active |-> TRUE, label |-> adm[a].label,
                      share |-> IF bootstrap THEN half ELSE adm[a].share]
              ELSE IF v \in adm[a].arms THEN [var[v] EXCEPT !.share = Whole - half]
              ELSE var[v]]
         /\ test' = IF bootstrap THEN [test EXCEPT ![t].revision = @ + 1] ELSE test
         /\ Note(a, IF Active = adm[a].arms /\ (bootstrap => t \in Running)
                      THEN {} ELSE Running)
  /\ Leave(a)
  /\ UNCHANGED <<public, ops>>

-----------------------------------------------------------------------------
(* PUT variants/:id: the request merged over the row as it was read        *)

(* The range of the share is not looked at.                                *)
PutAnything(a) ==
  /\ Begin(a)
  /\ \E v \in Active, label \in Labels, share \in 0 .. Whole + 1 :
       LET todo == (IF label # var[v].label THEN {"label"} ELSE {})
                     \cup (IF share # var[v].share THEN {"share"} ELSE {})
       IN  Goto(a, [Idle EXCEPT !.pc = "put", !.var = v, !.label = label,
                                !.share = share, !.todo = todo, !.held = (todo = {})])
  /\ Reads

Put(a) ==
  /\ Begin(a)
  /\ \E v \in Active, label \in Labels, share \in 0 .. Whole :
       LET todo == (IF label # var[v].label THEN {"label"} ELSE {})
                     \cup (IF share # var[v].share THEN {"share"} ELSE {})
       IN  Goto(a, [Idle EXCEPT !.pc = "put", !.var = v, !.label = label,
                                !.share = share, !.todo = todo, !.held = (todo = {})])
  /\ Reads

(* The label check is missing.                                             *)
PutRelabels(a) ==
  /\ Working(a, "put") /\ "label" \in adm[a].todo
  /\ Goto(a, [adm[a] EXCEPT !.todo = @ \ {"label"}])
  /\ Step

(* A changed label, then a changed share, is refused while a test runs.    *)
PutLabel(a) ==
  /\ Working(a, "put") /\ "label" \in adm[a].todo
  /\ IF Running # {} THEN Leave(a)
     ELSE Goto(a, [adm[a] EXCEPT !.todo = @ \ {"label"}, !.held = TRUE])
  /\ Step

PutShare(a) ==
  /\ Working(a, "put") /\ adm[a].todo = {"share"}
  /\ IF Running # {} THEN Leave(a)
     ELSE Goto(a, [adm[a] EXCEPT !.todo = {}, !.held = TRUE])
  /\ Step

(* Label and share are written in any case, by id.                         *)
PutBatch(a) ==
  /\ Working(a, "put") /\ adm[a].todo = {}
  /\ LET v == adm[a].var
         row == [var[v] EXCEPT !.label = adm[a].label, !.share = adm[a].share]
     IN  IF v \in Active
           THEN /\ var' = [var EXCEPT ![v] = row]
                /\ Note(a, IF row = var[v] THEN {} ELSE Running)
           ELSE UNCHANGED <<var, stale>>
  /\ Leave(a)
  /\ UNCHANGED <<made, test, public, ops>>

-----------------------------------------------------------------------------
(* DELETE variants/:id                                                     *)

Delete(a) ==
  /\ Begin(a)
  /\ \E v \in Active : Goto(a, [Idle EXCEPT !.pc = "frozen", !.var = v])
  /\ Reads

DeleteFrozen(a) ==
  /\ Working(a, "frozen")
  /\ IF Running # {} THEN Leave(a) ELSE Goto(a, [adm[a] EXCEPT !.pc = "siblings"])
  /\ Step

DeleteSiblings(a) ==
  /\ Working(a, "siblings")
  /\ IF Cardinality(Active) <= 1 THEN Leave(a)
     ELSE Goto(a, [adm[a] EXCEPT !.pc = "delete", !.held = TRUE])
  /\ Step

DeleteBatch(a) ==
  /\ Working(a, "delete")
  /\ var' = [var EXCEPT ![adm[a].var].active = FALSE]
  /\ Note(a, Running)
  /\ Leave(a)
  /\ UNCHANGED <<made, test, public, ops>>

-----------------------------------------------------------------------------
(* The tests: POST experiments, experiments/:id/start, experiments/:id/stop *)

Create(a) ==
  /\ Begin(a)
  /\ \E t \in Tests :
       /\ test[t].status = "none"
       /\ test' = [test EXCEPT ![t] = [status |-> "draft", revision |-> 1]]
  /\ UNCHANGED <<arms, adm, public, stale>>

Start(a) ==
  /\ Begin(a)
  /\ \E t \in Tests :
       /\ test[t].status \in {"draft", "stopped"}
       /\ Goto(a, [Idle EXCEPT !.pc = "other", !.test = t])
  /\ Reads

StartOther(a) ==
  /\ Working(a, "other")
  /\ IF Running \subseteq {adm[a].test}
       THEN Goto(a, [adm[a] EXCEPT !.pc = "sum"])
       ELSE Leave(a)
  /\ Step

StartSum(a) ==
  /\ Working(a, "sum")
  /\ IF Adds(Allocation) THEN Goto(a, [adm[a] EXCEPT !.pc = "start", !.held = TRUE])
     ELSE Leave(a)
  /\ Step

(* A test starts afresh, unless the shares were changed since the look.    *)
Restart(a, t) ==
  stale' = IF adm[a].held /\ ~Adds(Allocation) THEN stale \cup {t} ELSE stale \ {t}

(* The revision stays.                                                     *)
StartSameRevision(a) ==
  /\ Working(a, "start")
  /\ LET t == adm[a].test
     IN  /\ Running \subseteq {t}
         /\ test' = [test EXCEPT ![t].status = "running"]
         /\ Restart(a, t)
  /\ Leave(a)
  /\ UNCHANGED <<arms, public, ops>>

(* The unique index on running tests lets the update through.              *)
StartWrite(a) ==
  /\ Working(a, "start")
  /\ LET t == adm[a].test
     IN  /\ Running \subseteq {t} /\ test[t].revision < MaxRevision
         /\ test' = [test EXCEPT ![t] = [status |-> "running", revision |-> @.revision + 1]]
         /\ Restart(a, t)
  /\ Leave(a)
  /\ UNCHANGED <<arms, public, ops>>

(* No question asked: a draft may be stopped too.                          *)
Stop(a) ==
  /\ Begin(a)
  /\ \E t \in Tests :
       /\ test[t].status # "none"
       /\ test' = [test EXCEPT ![t].status = "stopped"]
  /\ UNCHANGED <<arms, adm, public, stale>>

(* A request that is refused, fails, or finds its row gone.                *)
Refuse(a) == adm[a].pc # "idle" /\ Leave(a) /\ Step

-----------------------------------------------------------------------------
(* GET /lg, assignVariantForFunnel                                         *)

Enter(s) ==
  /\ ses[s].pc = "away" /\ visits < MaxVisits
  /\ visits' = visits + 1
  /\ \E t \in Running :
       ses' = [ses EXCEPT ![s] = [pc |-> "arms", test |-> t, revision |-> test[t].revision]]
  /\ UNCHANGED <<rows, adm, counted, stale, ops>>

(* The arms are read after the test, and neither the test nor its revision *)
(* is looked at again: whatever the arms are by now, the session is        *)
(* bucketed over them and counted under what it read before.               *)
Assign(s) ==
  /\ ses[s].pc = "arms"
  /\ LET t == ses[s].test
         r == ses[s].revision
     IN  counted' = IF Active = {} THEN counted
                    ELSE [counted EXCEPT ![s][t][r] = Pick(Bucket(t, r, s), Allocation)]
  /\ ses' = [ses EXCEPT ![s] = Away]
  /\ UNCHANGED <<rows, adm, stale, ops, visits>>

-----------------------------------------------------------------------------
AdminStep(a) ==
  \/ Add(a) \/ AddExisting(a) \/ AddWrite(a)
  \/ Fork(a) \/ ForkTest(a) \/ ForkArms(a) \/ ForkBatch(a)
  \/ Put(a) \/ PutLabel(a) \/ PutShare(a) \/ PutBatch(a)
  \/ Delete(a) \/ DeleteFrozen(a) \/ DeleteSiblings(a) \/ DeleteBatch(a)
  \/ Create(a) \/ Start(a) \/ StartOther(a) \/ StartSum(a) \/ StartWrite(a)
  \/ Stop(a) \/ Refuse(a)

Next ==
  \/ \E a \in Admins : AdminStep(a)
  \/ \E s \in Sessions : Enter(s) \/ Assign(s)

Spec == Init /\ [][Next]_vars

-----------------------------------------------------------------------------
(* Properties                                                              *)

(* A running test is alone and gives away all of the traffic: shares are   *)
(* set by three handlers and added up by one, which looks before it        *)
(* writes.  Only a test hit by an overtaken check may be off, and only     *)
(* until it is started again.                                              *)
SplitHolds ==
  /\ Cardinality(Running) <= 1
  /\ \A t \in Running \ stale : Adds(Allocation)

(* "a funnel must always have something to serve": its last active variant *)
(* is not deleted (deleteVariantHandler).                                  *)
NeverEmpty == Active # {}

(* Under one revision of a running test the arms, their order and their    *)
(* shares are frozen: every change of them comes with a new revision.      *)
(* Again a test hit by an overtaken check is excepted, and no other.       *)
Frozen ==
  [][\A t \in Tests \ stale' :
       /\ test[t].status = "running" /\ test'[t].status = "running"
       /\ test'[t].revision = test[t].revision
       => /\ Active' = Active
          /\ \A v \in Active : var'[v] = var[v]]_vars

(* A session that comes back under the same test and revision gets the     *)
(* variant it had: it is counted for another one only if the test stopped  *)
(* or moved on to a new revision between the session's two reads, over     *)
(* stops, edits, forks and restarts in between.                            *)
Sticky ==
  [][\A s \in Sessions, t \in Tests \ stale', r \in Revisions :
       counted[s][t][r] \notin {0, counted'[s][t][r]} =>
         ~ (t \in Running /\ test[t].revision = r)]_vars
=============================================================================
