------------------------- MODULE ListicleExperiments -------------------------
(***************************************************************************)
(* The article-level A/B experiments of one listicle: the admin handlers   *)
(* that create, start and stop an experiment, fork and save versions, and  *)
(* the visitors who are assigned to a version at the edge.  One action per *)
(* D1 statement or batch; what a handler has read stays in its locals.     *)
(* Shares are counted in parts of Whole, which stands for 100 per cent.    *)
(***************************************************************************)
EXTENDS Integers, FiniteSets, FiniteSetsExt

CONSTANTS
  Admins,                       \* concurrent admin requests
  Visitors,                     \* browsers, each with its ko_sid cookie
  Experiments,                  \* ids of experiments
  None,                         \* NULL in active_experiment_id, experiment_id
  Whole,                        \* 100 per cent
  MaxVersions,                  \* bound: versions of the article
  MaxOps,                       \* bound: admin requests in all
  MaxVisits                     \* bound: page views in all

ASSUME ParametersAssumption ==
  /\ None \notin Experiments
  /\ Whole \in Nat \ {0}
  /\ MaxVersions \in Nat \ {0}
  /\ {MaxOps, MaxVisits} \subseteq Nat

VARIABLES
  article,                      \* published, some other status, or deleted
  active,                       \* listicle_articles.active_experiment_id
  exps,                         \* status of each experiment
  made, ver,                    \* the versions, by id: 1 .. made exist
  adm,                          \* program point and locals of each request
  vis,                          \* program point and locals of each visitor
  bucket,                       \* lstBucket(ko_sid, experiment)
  counted,                      \* history: version a visitor was counted for
  stale,                        \* history: experiments hit by an overtaken check
  doubled,                      \* history: created by a list with a version twice
  ops, visits                   \* the two bounded counters

rows == <<article, active, exps, made, ver>>
public == <<vis, bucket, counted, visits>>
history == <<stale, doubled>>
vars == <<rows, adm, public, history, ops>>

Ids == 1 .. MaxVersions
Bodies == {"old", "new"}
Statuses == {"none", "draft", "running", "stopped"}
Rows == [exp : Experiments \cup {None}, share : 0 .. Whole, control : BOOLEAN,
         body : Bodies]

Idle == [pc |-> "idle", exp |-> None, ver |-> 1, born |-> "draft", arms |-> {},
         held |-> FALSE]
Away == [pc |-> "away", exp |-> None, arm |-> 0, control |-> 0]

TypeOK ==
  /\ article \in {"other", "published", "deleted"}
  /\ active \in Experiments \cup {None}
  /\ exps \in [Experiments -> Statuses]
  /\ made \in 0 .. MaxVersions
  /\ ver \in [Ids -> Rows]
  /\ adm \in [Admins -> [pc : {"idle", "create", "arms", "start", "stop", "joinable",
                               "fork", "editable", "tree", "save", "publish"},
                         exp : Experiments \cup {None}, ver : Ids,
                         born : {"draft", "running"}, arms : SUBSET Ids,
                         held : BOOLEAN]]
  /\ vis \in [Visitors -> [pc : {"away", "versions", "experiment"},
                           exp : Experiments \cup {None},
                           arm : 0 .. MaxVersions, control : 0 .. MaxVersions]]
  /\ bucket \in [Visitors -> [Experiments -> 0 .. Whole - 1]]
  /\ counted \in [Visitors -> [Experiments -> 0 .. MaxVersions]]
  /\ stale \subseteq Experiments /\ doubled \subseteq Experiments
  /\ ops \in 0 .. MaxOps
  /\ visits \in 0 .. MaxVisits

-----------------------------------------------------------------------------
(* Helpers                                                                 *)

Versions == 1 .. made
Arms(e) == {v \in Versions : ver[v].exp = e}
Running == {e \in Experiments : exps[e] = "running"}

Total(share, vs) == MapThenSumSet(LAMBDA v : share[v], vs)

(* A list of versions with shares that add up and one control, as it ends  *)
(* up in the rows: where it names a version twice the last entry wins, and *)
(* shares or the control of earlier entries are lost.                      *)
Listed(vs, twice) ==
  {s \in [share : [vs -> 0 .. Whole], control : SUBSET vs] :
     IF twice THEN Total(s.share, vs) <= Whole /\ Cardinality(s.control) <= 1
     ELSE Total(s.share, vs) = Whole /\ Cardinality(s.control) = 1}

(* What the start handler asks of the final state, one entry per version.  *)
Splits(vs) == Listed(vs, FALSE)

Shares(e) == [v \in Arms(e) |-> ver[v].share]
Controls(e) == {v \in Arms(e) : ver[v].control}

(* pickArmIndex: the first arm, in the order of ids, whose cumulative      *)
(* share exceeds the bucket; the last one when the shares do not add up.   *)
Pick(b, shares) ==
  LET arms == DOMAIN shares
      past == {v \in arms : Total(shares, {w \in arms : w <= v}) > b}
  IN  IF past = {} THEN Max(arms) ELSE Min(past)

(* controlVersion: the control flag wins, else the first version.          *)
ControlVersion ==
  LET controls == {v \in Versions : ver[v].control}
  IN  Min(IF controls = {} THEN Versions ELSE controls)

Working(a, point) == article # "deleted" /\ adm[a].pc = point
Leave(a) == adm' = [adm EXCEPT ![a] = Idle]
Begin(a) == adm[a].pc = "idle" /\ article # "deleted" /\ ops < MaxOps /\ ops' = ops + 1
Goto(a, locals) == adm' = [adm EXCEPT ![a] = locals]

(* Overtaken: what the request rests on held when it looked (its local     *)
(* held, which is history), no longer holds at the write, and the write    *)
(* hits these experiments.                                                 *)
Note(a, hit) == stale' = IF adm[a].held THEN stale \cup hit ELSE stale

Reads == UNCHANGED <<rows, public, history>>

-----------------------------------------------------------------------------
(* An article is created with one control version that takes everything.   *)
Init ==
  /\ article = "other"
  /\ active = None
  /\ exps = [e \in Experiments |-> "none"]
  /\ made = 1
  /\ ver = [v \in Ids |-> [exp |-> None, share |-> Whole, control |-> TRUE, body |-> "old"]]
  /\ adm = [a \in Admins |-> Idle]
  /\ vis = [s \in Visitors |-> Away]
  /\ bucket \in [Visitors -> [Experiments -> 0 .. Whole - 1]]
  /\ counted = [s \in Visitors |-> [e \in Experiments |-> 0]]
  /\ stale = {} /\ doubled = {}
  /\ ops = 0 /\ visits = 0

-----------------------------------------------------------------------------
(* POST articles/:id/experiments                                           *)

(* The pre-check for the clean path.                                       *)
Create(a) ==
  /\ Begin(a)
  /\ Running = {}
  /\ \E born \in {"draft", "running"} :
       Goto(a, [Idle EXCEPT !.pc = "create", !.born = born, !.arms = Versions,
                            !.held = TRUE])
  /\ Reads

(* The unique index on running experiments lets the status through.        *)
Admitted(e, status) == status = "running" => Running \subseteq {e}

(* One batch: the experiment, its arms, the article's pointer.  An arm is  *)
(* a version of the article, whichever experiment it is in, or a new one;  *)
(* shares and controls were checked by the entry, not by the version.      *)
CreateBatch(a) ==
  /\ Working(a, "create")
  /\ \E e \in Experiments, old \in SUBSET adm[a].arms, fresh, twice \in BOOLEAN :
       LET last == IF fresh THEN made + 1 ELSE made
           arms == IF fresh THEN old \cup {last} ELSE old
       IN  /\ exps[e] = "none" /\ arms # {} /\ last <= MaxVersions
           /\ twice => old # {}
           /\ Admitted(e, adm[a].born)
           /\ exps' = [exps EXCEPT ![e] = adm[a].born]
           /\ made' = last
           /\ \E s \in Listed(arms, twice) :
                ver' = [v \in Ids |->
                  IF v \notin arms THEN ver[v]
                  ELSE [exp |-> e, share |-> s.share[v], control |-> v \in s.control,
                        body |-> ver[v].body]]
           /\ active' = IF adm[a].born = "running" THEN e ELSE active
           /\ doubled' = IF twice THEN doubled \cup {e} ELSE doubled
           /\ Note(a, {f \in Running : Arms(f) \cap arms # {}})
  /\ Leave(a)
  /\ UNCHANGED <<article, public, ops>>

-----------------------------------------------------------------------------
(* POST experiments/:id/start                                              *)

(* Any status but running may be started.                                  *)
StartAny(a) ==
  /\ Begin(a)
  /\ \E e \in Experiments :
       /\ exps[e] \in {"draft", "stopped"}
       /\ Goto(a, [Idle EXCEPT !.pc = "arms", !.exp = e, !.held = (exps[e] = "draft")])
  /\ Reads

Start(a) ==
  /\ Begin(a)
  /\ \E e \in Experiments :
       /\ exps[e] = "draft"
       /\ Goto(a, [Idle EXCEPT !.pc = "arms", !.exp = e, !.held = TRUE])
  /\ Reads

StartVersions(a) ==
  /\ Working(a, "arms")
  /\ IF Arms(adm[a].exp) = {} THEN Leave(a)
     ELSE Goto(a, [adm[a] EXCEPT !.pc = "start", !.arms = Arms(adm[a].exp)])
  /\ Reads
  /\ UNCHANGED ops

(* The shares of the request are taken as they come.                       *)
StartUnchecked(a) ==
  /\ Working(a, "start")
  /\ LET e == adm[a].exp
     IN  /\ Admitted(e, "running")
         /\ exps' = [exps EXCEPT ![e] = "running"]
         /\ active' = e
         /\ doubled' = doubled \ {e}
         /\ Note(a, IF exps[e] = "draft" /\ Arms(e) = adm[a].arms THEN {} ELSE {e})
  /\ Leave(a)
  /\ UNCHANGED <<article, made, ver, public, ops>>

(* The split the request asks for is written to the versions that were     *)
(* read, by id.                                                            *)
StartBatch(a) ==
  /\ Working(a, "start")
  /\ LET e == adm[a].exp
     IN  /\ Admitted(e, "running")
         /\ \E s \in Splits(adm[a].arms) :
              ver' = [v \in Ids |->
                IF v \notin adm[a].arms THEN ver[v]
                ELSE [ver[v] EXCEPT !.share = s.share[v], !.control = (v \in s.control)]]
         /\ exps' = [exps EXCEPT ![e] = "running"]
         /\ active' = e
         /\ doubled' = doubled \ {e}
         /\ Note(a, IF exps[e] = "draft" /\ Arms(e) = adm[a].arms THEN {} ELSE {e})
  /\ Leave(a)
  /\ UNCHANGED <<article, made, public, ops>>

-----------------------------------------------------------------------------
(* POST experiments/:id/stop                                               *)

Stop(a) ==
  /\ Begin(a)
  /\ \E e \in Running : Goto(a, [Idle EXCEPT !.pc = "stop", !.exp = e])
  /\ Reads

(* The pointer is cleared whatever it points at.                           *)
StopClears(a) ==
  /\ Working(a, "stop")
  /\ exps' = [exps EXCEPT ![adm[a].exp] = "stopped"]
  /\ active' = None
  /\ Leave(a)
  /\ UNCHANGED <<article, made, ver, public, history, ops>>

(* The pointer is cleared only where it points at this experiment.         *)
StopBatch(a) ==
  /\ Working(a, "stop")
  /\ exps' = [exps EXCEPT ![adm[a].exp] = "stopped"]
  /\ active' = IF active = adm[a].exp THEN None ELSE active
  /\ Leave(a)
  /\ UNCHANGED <<article, made, ver, public, history, ops>>

-----------------------------------------------------------------------------
(* POST versions/:id/fork                                                  *)

(* Joining asks for a source that has an experiment.                       *)
Fork(a) ==
  /\ Begin(a)
  /\ \E v \in Versions, join \in BOOLEAN :
       /\ join => ver[v].exp # None
       /\ Goto(a, [Idle EXCEPT !.pc = IF join THEN "joinable" ELSE "fork", !.ver = v,
                               !.exp = IF join THEN ver[v].exp ELSE None])
  /\ Reads

Joinable(a) ==
  /\ Working(a, "joinable")
  /\ IF exps[adm[a].exp] = "draft"
       THEN Goto(a, [adm[a] EXCEPT !.pc = "fork", !.held = TRUE])
       ELSE Leave(a)
  /\ Reads
  /\ UNCHANGED ops

(* A copy with a share of its own, never the control, in the experiment    *)
(* that was read with the source; its contents are as some read before the *)
(* batch has found them.                                                   *)
ForkBatch(a) ==
  /\ Working(a, "fork")
  /\ made < MaxVersions
  /\ made' = made + 1
  /\ \E share \in 0 .. Whole, body \in Bodies :
       ver' = [ver EXCEPT ![made + 1] =
                 [exp |-> adm[a].exp, share |-> share, control |-> FALSE, body |-> body]]
  /\ Note(a, {adm[a].exp} \cap Running)
  /\ Leave(a)
  /\ UNCHANGED <<article, active, exps, doubled, public, ops>>

-----------------------------------------------------------------------------
(* PUT versions/:id and POST versions/:id/new-revision                     *)

Put(a) ==
  /\ Begin(a)
  /\ \E v \in Versions :
       Goto(a, [Idle EXCEPT !.pc = IF ver[v].exp = None THEN "tree" ELSE "editable",
                            !.ver = v, !.exp = ver[v].exp, !.held = ver[v].exp = None])
  /\ Reads

(* The experiment's status is not looked at.                               *)
EditableAlways(a) ==
  /\ Working(a, "editable")
  /\ Goto(a, [adm[a] EXCEPT !.pc = "tree", !.held = (exps[adm[a].exp] # "running")])
  /\ Reads
  /\ UNCHANGED ops

(* A version of a running experiment is refused.                           *)
Editable(a) ==
  /\ Working(a, "editable")
  /\ IF exps[adm[a].exp] = "running"
       THEN Leave(a)
       ELSE Goto(a, [adm[a] EXCEPT !.pc = "tree", !.held = TRUE])
  /\ Reads
  /\ UNCHANGED ops

(* A change of structure or layout is refused once the article is          *)
(* published; a change of fields is not.                                   *)
Tree(a) ==
  /\ Working(a, "tree")
  /\ \/ article # "published" /\ Goto(a, [adm[a] EXCEPT !.pc = "save"])
     \/ article = "published" /\ Leave(a)
     \/ Goto(a, [adm[a] EXCEPT !.pc = "save"])
  /\ Reads
  /\ UNCHANGED ops

SaveBatch(a) ==
  /\ Working(a, "save")
  /\ \E body \in Bodies : ver' = [ver EXCEPT ![adm[a].ver].body = body]
  /\ Note(a, {ver[adm[a].ver].exp} \cap Running)
  /\ Leave(a)
  /\ UNCHANGED <<article, active, exps, made, doubled, public, ops>>

(* new-revision: no question asked; the request is the consent.            *)
NewRevision(a) ==
  /\ Begin(a)
  /\ \E v \in Versions, body \in Bodies : ver' = [ver EXCEPT ![v].body = body]
  /\ UNCHANGED <<article, active, exps, made, adm, public, history>>

-----------------------------------------------------------------------------
(* The article itself                                                      *)

(* publishArticle validates what it has read, then writes the status; the  *)
(* PATCH of the base fields writes any status.                             *)
Publish(a) ==
  /\ Begin(a)
  /\ Goto(a, [Idle EXCEPT !.pc = "publish"])
  /\ Reads

PublishWrite(a) ==
  /\ Working(a, "publish")
  /\ article' = "published"
  /\ Leave(a)
  /\ UNCHANGED <<active, exps, made, ver, public, history, ops>>

Patch(a) ==
  /\ Begin(a)
  /\ article' \in {"other", "published"}
  /\ UNCHANGED <<active, exps, made, ver, adm, public, history>>

(* The foreign keys take experiments and versions with it.                 *)
Delete(a) ==
  /\ Begin(a)
  /\ article' = "deleted"
  /\ active' = None
  /\ exps' = [e \in Experiments |-> "none"]
  /\ made' = 0
  /\ UNCHANGED <<ver, adm, public, history>>

(* A request that is refused, fails, or finds the article gone.            *)
Refuse(a) ==
  /\ adm[a].pc # "idle"
  /\ Leave(a)
  /\ Reads
  /\ UNCHANGED ops

-----------------------------------------------------------------------------
(* GET /:slug                                                              *)

Admin == <<rows, adm, history, ops, bucket>>

Arrive(s) ==
  /\ vis[s].pc = "away" /\ visits < MaxVisits
  /\ article = "published"
  /\ visits' = visits + 1
  /\ vis' = [vis EXCEPT ![s] = [Away EXCEPT !.pc = "versions", !.exp = active]]
  /\ UNCHANGED <<Admin, counted>>

(* Of the rows only the two candidates matter afterwards: the sticky pick  *)
(* among the arms, or the control when the experiment has none, and the    *)
(* control in case the experiment is not running.                          *)
LoadVersions(s) ==
  /\ vis[s].pc = "versions"
  /\ IF made = 0 THEN vis' = [vis EXCEPT ![s] = Away]
     ELSE LET e == vis[s].exp
              arms == IF e = None THEN {} ELSE Arms(e)
          IN  vis' = [vis EXCEPT ![s].pc = "experiment", ![s].control = ControlVersion,
                        ![s].arm = IF arms = {} THEN ControlVersion
                                   ELSE Pick(bucket[s][e], Shares(e))]
  /\ UNCHANGED <<Admin, counted, visits>>

(* loadRunningExperiment by the pointer read at first; who is served under *)
(* a running experiment is counted for it.                                 *)
Serve(s) ==
  /\ vis[s].pc = "experiment"
  /\ vis' = [vis EXCEPT ![s] = Away]
  /\ counted' = IF vis[s].exp \in Running
                THEN [counted EXCEPT ![s][vis[s].exp] = vis[s].arm] ELSE counted
  /\ UNCHANGED <<Admin, visits>>

-----------------------------------------------------------------------------
AdminStep(a) ==
  \/ Create(a) \/ CreateBatch(a)
  \/ Start(a) \/ StartVersions(a) \/ StartBatch(a)
  \/ Stop(a) \/ StopBatch(a)
  \/ Fork(a) \/ Joinable(a) \/ ForkBatch(a)
  \/ Put(a) \/ Editable(a) \/ Tree(a) \/ SaveBatch(a) \/ NewRevision(a)
  \/ Publish(a) \/ PublishWrite(a) \/ Patch(a) \/ Delete(a)
  \/ Refuse(a)

Visit(s) == Arrive(s) \/ LoadVersions(s) \/ Serve(s)

Next ==
  \/ \E a \in Admins : AdminStep(a)
  \/ \E s \in Visitors : Visit(s)

Spec == Init /\ [][Next]_vars

-----------------------------------------------------------------------------
(* Properties                                                              *)

(* The article points at its running experiment and at nothing else, and   *)
(* at most one runs, whichever starts, stops and creations overlap: the    *)
(* unique index, the conditional clearing and the batches together.        *)
PointerAgrees ==
  /\ \A e \in Experiments : exps[e] = "running" <=> active = e
  /\ Cardinality(Running) <= 1

(* A running experiment gives away the whole traffic and has one control.  *)
(* Two things may take shares or the control from it: a batch that went    *)
(* through on a check that had stopped to hold, and a creation whose list  *)
(* names a version twice, which leaves it short but never over-allocated.  *)
SplitHolds ==
  \A e \in Running \ stale :
    /\ Arms(e) # {}
    /\ Total(Shares(e), Arms(e)) <= Whole /\ Cardinality(Controls(e)) <= 1
    /\ e \notin doubled =>
         Total(Shares(e), Arms(e)) = Whole /\ Cardinality(Controls(e)) = 1

(* While an experiment runs its arms, their shares and their contents stay *)
(* what they were (a new revision is the operator's own consent), and a    *)
(* stopped experiment stays stopped; an overtaken check may break it for   *)
(* the experiment it was made for and for no other.                        *)
Locked ==
  [][\A e \in Experiments \ stale' :
       /\ exps[e] = "running" /\ exps'[e] = "running" =>
            /\ Arms(e)' = Arms(e)
            /\ \A v \in Arms(e) :
                 \/ ver'[v] = ver[v]
                 \/ ops' = ops + 1 /\ ver'[v] = [ver[v] EXCEPT !.body = ver'[v].body]
       /\ exps[e] = "stopped" => exps'[e] \in {"stopped", "none"}]_vars

(* A visitor is counted for the same version whenever he comes back under  *)
(* the same experiment, though pointer, versions and status are read one   *)
(* after the other while experiments start and stop.                       *)
Sticky ==
  [][\A s \in Visitors, e \in Experiments \ stale' :
       counted[s][e] # 0 => counted'[s][e] = counted[s][e]]_vars
=============================================================================
