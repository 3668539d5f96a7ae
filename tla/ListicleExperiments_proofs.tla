---------------------- MODULE ListicleExperiments_proofs ----------------------
(***************************************************************************)
(* Proofs about ListicleExperiments, for any number of admin requests,     *)
(* visitors, experiments and versions: the pointer agrees with the running *)
(* experiment, and a running experiment that no overtaken check has hit    *)
(* gives away all traffic, is locked, and keeps its visitors.              *)
(***************************************************************************)
EXTENDS ListicleExperiments, FiniteSetTheorems, WellFoundedInduction, TLAPS

-----------------------------------------------------------------------------
(* Least and greatest elements                                             *)

Below == {p \in Nat \X Nat : p[1] < p[2]}

LEMMA BelowWellFounded == IsWellFoundedOn(Below, Nat)
BY NatLessThanWellFounded DEF OpToRel, Below, IsWellFoundedOn

LEMMA BelowIs ==
  ASSUME NEW x \in Nat, NEW y \in Nat, x < y
  PROVE  <<x, y>> \in Below
BY DEF Below

(* A set of numbers has a least element ...                                *)
LEMMA MinIn ==
  ASSUME NEW S \in SUBSET Nat, S # {}
  PROVE  Min(S) \in S
<1>1. PICK x \in S : \A y \in S : ~ (<<y, x>> \in Below)
  BY BelowWellFounded, WFMin
<1>2. ASSUME NEW y \in S PROVE x =< y
  <2>1. x \in Nat /\ y \in Nat /\ ~ (y < x)
    BY <1>1, BelowIs
  <2> QED
    BY <2>1
<1> QED
  BY <1>2 DEF Min

(* ... and, when it is bounded, a greatest one.                            *)
LEMMA MaxIn ==
  ASSUME NEW n \in Nat, NEW S \in SUBSET (0 .. n), S # {}
  PROVE  Max(S) \in S
<1> DEFINE T == {n - x : x \in S}
<1>0. \A x \in S : x \in Nat /\ n - x \in Nat
  OBVIOUS
<1>1. T \in SUBSET Nat /\ T # {}
  <2>1. \E x \in S : n - x \in T
    OBVIOUS
  <2>2. T \in SUBSET Nat
    BY <1>0
  <2> QED
    BY <2>1, <2>2
<1>2. PICK t \in T : \A y \in T : ~ (<<y, t>> \in Below)
  BY <1>1, BelowWellFounded, WFMin
<1>3. PICK x \in S : t = n - x
  OBVIOUS
<1>4. ASSUME NEW y \in S PROVE x >= y
  <2>1. n - y \in T /\ n - y \in Nat /\ n - x \in Nat
    BY <1>0
  <2>2. ~ (n - y < n - x)
    BY <1>2, <1>3, <2>1, BelowIs
  <2>3. x \in Nat /\ y \in Nat
    OBVIOUS
  <2> QED
    BY <2>2, <2>3
<1> QED
  BY <1>4 DEF Max

(* pickArmIndex and controlVersion answer with one of the versions.        *)
LEMMA PickIn ==
  ASSUME NEW b, NEW shares, DOMAIN shares \in SUBSET Ids, DOMAIN shares # {}
  PROVE  Pick(b, shares) \in DOMAIN shares
<1>1. ASSUME NEW S \in SUBSET (DOMAIN shares), S # {} PROVE Min(S) \in S /\ Max(S) \in S
  <2>1. MaxVersions \in Nat /\ S \in SUBSET Nat /\ S \in SUBSET (0 .. MaxVersions)
    BY ParametersAssumption DEF Ids
  <2> QED
    BY <1>1, <2>1, MinIn, MaxIn
<1> DEFINE past == {v \in DOMAIN shares : Total(shares, {w \in DOMAIN shares : w <= v}) > b}
<1>2. Pick(b, shares) = IF past = {} THEN Max(DOMAIN shares) ELSE Min(past)
  BY DEF Pick
<1>3. past \in SUBSET (DOMAIN shares)
  OBVIOUS
<1> QED
  <2> HIDE DEF past
  <2>1. Max(DOMAIN shares) \in DOMAIN shares
    BY <1>1
  <2>2. ASSUME past # {} PROVE Min(past) \in DOMAIN shares
    BY <1>1, <1>3, <2>2
  <2> QED
    BY <1>2, <2>1, <2>2

LEMMA ControlIn ==
  ASSUME made \in 0 .. MaxVersions, made # 0
  PROVE  ControlVersion \in Versions
<1>1. \A S \in SUBSET Versions : S # {} => Min(S) \in S
  BY MinIn DEF Versions
<1>2. Versions # {}
  BY ParametersAssumption DEF Versions
<1> QED
  BY <1>1, <1>2 DEF ControlVersion

-----------------------------------------------------------------------------
(* The inductive invariant                                                 *)

Points == {"idle", "create", "arms", "start", "stop", "joinable",
           "fork", "editable", "tree", "save", "publish"}
Locals ==
  [pc : Points, exp : Experiments \cup {None}, ver : Ids,
   born : {"draft", "running"}, arms : SUBSET Ids, held : BOOLEAN]
Views ==
  [pc : {"away", "versions", "experiment"}, exp : Experiments \cup {None},
   arm : 0 .. MaxVersions, control : 0 .. MaxVersions]

(* The pointer of the article.                                             *)
PointerInv == \A e \in Experiments : exps[e] = "running" <=> active = e

(* What a request has checked, and what it then knows.                     *)
Checked(a) ==
  /\ adm[a].pc \in {"create", "arms", "start", "tree", "save"} => adm[a].held
  /\ adm[a].pc = "fork" /\ adm[a].exp # None => adm[a].held
  /\ adm[a].pc \in {"arms", "start", "stop", "joinable", "editable"} =>
       adm[a].exp \in Experiments
  /\ adm[a].pc = "start" => adm[a].arms # {}
  /\ article # "deleted" => adm[a].arms \subseteq Versions

AllChecked == \A a \in Admins : Checked(a)

(* An experiment that does not exist has no arms, and nobody works on it.  *)
OwnInv ==
  article # "deleted" =>
    \A e \in Experiments : exps[e] = "none" =>
      Arms(e) = {} /\ \A a \in Admins : adm[a].exp # e

GoneInv ==
  article = "deleted" => made = 0 /\ \A e \in Experiments : exps[e] = "none"

(* The arm a visitor belongs to, and who has been given it.                *)
Choice(s, e) == Pick(bucket[s][e], Shares(e))

VisitInv ==
  article # "deleted" =>
    \A s \in Visitors, e \in Experiments \ stale :
      vis[s].exp = e =>
        /\ exps[e] \in {"running", "stopped"}
        /\ vis[s].pc = "experiment" /\ exps[e] = "running" => vis[s].arm = Choice(s, e)

CountInv ==
  article # "deleted" =>
    \A s \in Visitors, e \in Experiments \ stale :
      /\ exps[e] \in {"none", "draft"} => counted[s][e] = 0
      /\ exps[e] = "running" /\ counted[s][e] # 0 => counted[s][e] = Choice(s, e)

IInv ==
  /\ TypeOK /\ PointerInv /\ AllChecked /\ OwnInv /\ GoneInv
  /\ SplitHolds /\ VisitInv /\ CountInv

-----------------------------------------------------------------------------
(* The step relation                                                       *)

Reading(a) ==
  \/ Create(a) \/ Start(a) \/ StartVersions(a) \/ Stop(a) \/ Fork(a) \/ Joinable(a)
  \/ Put(a) \/ Editable(a) \/ Tree(a) \/ Publish(a) \/ Refuse(a)

LEMMA NextCases ==
  ASSUME Next
  PROVE  \/ \E a \in Admins :
              \/ Reading(a)
              \/ CreateBatch(a) \/ StartBatch(a) \/ StopBatch(a) \/ ForkBatch(a)
              \/ SaveBatch(a) \/ NewRevision(a) \/ PublishWrite(a) \/ Patch(a) \/ Delete(a)
         \/ \E s \in Visitors : Arrive(s) \/ LoadVersions(s) \/ Serve(s)
BY DEF Next, AdminStep, Visit, Reading

LEMMA InitOK == Init => IInv
<1> SUFFICES ASSUME Init PROVE IInv
  OBVIOUS
<1>1. TypeOK
  <2>1. /\ 1 \in Ids /\ 1 \in 0 .. MaxVersions
        /\ Whole \in 0 .. Whole /\ {0} \subseteq 0 .. MaxVersions
    BY ParametersAssumption DEF Ids
  <2>2. ver \in [Ids -> Rows]
    BY <2>1 DEF Init, Rows, Bodies
  <2>3. adm \in [Admins -> [pc : {"idle", "create", "arms", "start", "stop", "joinable",
                               "fork", "editable", "tree", "save", "publish"},
                         exp : Experiments \cup {None}, ver : Ids,
                         born : {"draft", "running"}, arms : SUBSET Ids,
                         held : BOOLEAN]]
    BY <2>1 DEF Init, Idle
  <2>4. vis \in [Visitors -> [pc : {"away", "versions", "experiment"},
                           exp : Experiments \cup {None},
                           arm : 0 .. MaxVersions, control : 0 .. MaxVersions]]
    BY <2>1 DEF Init, Away
  <2>5. counted \in [Visitors -> [Experiments -> 0 .. MaxVersions]]
    BY <2>1 DEF Init
  <2>6. bucket \in [Visitors -> [Experiments -> 0 .. Whole - 1]]
    BY DEF Init
  <2>7. ops \in 0 .. MaxOps /\ visits \in 0 .. MaxVisits /\ made \in 0 .. MaxVersions
    BY <2>1, ParametersAssumption DEF Init
  <2>8. exps \in [Experiments -> Statuses]
        /\ stale \subseteq Experiments /\ doubled \subseteq Experiments
        /\ article \in {"other", "published", "deleted"} /\ active \in Experiments \cup {None}
    BY DEF Init, Statuses
  <2> QED
    BY <2>2, <2>3, <2>4, <2>5, <2>6, <2>7, <2>8 DEF TypeOK
<1>2. Running = {} /\ \A e \in Experiments : Arms(e) = {}
  BY ParametersAssumption DEF Init, Running, Arms, Versions, Ids
<1>3. PointerInv /\ GoneInv
  BY ParametersAssumption DEF Init, PointerInv, GoneInv
<1>4. AllChecked
  BY DEF Init, AllChecked, Checked, Idle
<1>5. OwnInv
  BY <1>2, ParametersAssumption DEF Init, OwnInv, Idle
<1>6. SplitHolds
  BY <1>2 DEF SplitHolds
<1>7. VisitInv /\ CountInv
  BY ParametersAssumption DEF Init, VisitInv, CountInv, Away
<1> QED
  BY <1>1, <1>3, <1>4, <1>5, <1>6, <1>7 DEF IInv

-----------------------------------------------------------------------------
(* Steps that only read                                                    *)

OthersStay(a) == \A q \in Admins \ {a} : adm'[q] = adm[q]

LEMMA GotoIs ==
  ASSUME TypeOK, NEW a \in Admins, NEW l \in Locals, Goto(a, l)
  PROVE  OthersStay(a) /\ adm'[a] = l /\ adm' \in [Admins -> Locals]
BY DEF TypeOK, Locals, Points, Goto, OthersStay

LEMMA IdleIs == Idle \in Locals
BY ParametersAssumption DEF Idle, Locals, Points, Ids

LEMMA LeaveIs ==
  ASSUME TypeOK, NEW a \in Admins, Leave(a)
  PROVE  OthersStay(a) /\ adm'[a] = Idle /\ adm' \in [Admins -> Locals]
BY IdleIs, GotoIs DEF Leave, Goto

LEMMA MoreOps ==
  ASSUME TypeOK, NEW a, Begin(a)
  PROVE  ops' \in 0 .. MaxOps
BY ParametersAssumption DEF TypeOK, Begin

(* Where a reading step leads, and with what.                              *)
LEMMA ReadingIs ==
  ASSUME IInv, NEW a \in Admins, Reading(a)
  PROVE  /\ UNCHANGED <<article, active, exps, made, ver, vis, bucket, counted, visits, stale, doubled>>
         /\ ops' \in 0 .. MaxOps
         /\ OthersStay(a) /\ adm' \in [Admins -> Locals]
         /\ Checked(a)'
         /\ adm'[a].exp \in {None, adm[a].exp}
              \/ exps[adm'[a].exp] # "none" \/ Arms(adm'[a].exp) # {}
<1> USE DEF Reading
<1>0. TypeOK /\ Checked(a)
  BY DEF IInv, AllChecked
<1>1. UNCHANGED <<article, active, exps, made, ver, vis, bucket, counted, visits, stale, doubled>>
  BY DEF Create, Start, StartVersions, Stop, Fork, Joinable, Put, Editable, Tree, Publish,
         Refuse, Reads, rows, public, history
<1>2. ops' \in 0 .. MaxOps
  BY <1>0, MoreOps DEF Create, Start, StartVersions, Stop, Fork, Joinable, Put, Editable, Tree,
         Publish, Refuse, TypeOK
<1> DEFINE Result == /\ OthersStay(a) /\ adm' \in [Admins -> Locals]
                     /\ Checked(a)'
                     /\ adm'[a].exp \in {None, adm[a].exp}
                          \/ exps[adm'[a].exp] # "none" \/ Arms(adm'[a].exp) # {}
<1>3. ASSUME NEW l \in Locals, Goto(a, l),
             l.pc \in {"create", "arms", "start", "tree", "save"} => l.held,
             l.pc = "fork" /\ l.exp # None => l.held,
             l.pc \in {"arms", "start", "stop", "joinable", "editable"} => l.exp \in Experiments,
             l.pc = "start" => l.arms # {},
             article # "deleted" => l.arms \subseteq Versions,
             \/ l.exp \in {None, adm[a].exp}
             \/ exps[l.exp] # "none" \/ Arms(l.exp) # {}
      PROVE  Result
  BY <1>0, <1>1, <1>3, GotoIs DEF Checked, Versions
<1> SUFFICES Result
  BY <1>1, <1>2
<1> HIDE DEF Result
<1>4. adm[a] \in Locals
  BY <1>0 DEF TypeOK, Locals, Points
<1>5. 1 \in Ids /\ Versions \in SUBSET Ids /\ None \notin Experiments
  BY <1>0, ParametersAssumption DEF TypeOK, Ids, Versions
<1>6. ASSUME NEW l, Goto(a, l), l = Idle PROVE Result
  BY <1>3, <1>6, IdleIs DEF Idle
<1>7. CASE Create(a)
  <2>1. PICK born \in {"draft", "running"} :
          Goto(a, [Idle EXCEPT !.pc = "create", !.born = born, !.arms = Versions, !.held = TRUE])
    BY <1>7 DEF Create
  <2> QED
    BY <2>1, <1>3, <1>5, IdleIs DEF Idle, Locals, Points
<1>8. CASE Start(a)
  <2>1. PICK e \in Experiments : exps[e] = "draft"
          /\ Goto(a, [Idle EXCEPT !.pc = "arms", !.exp = e, !.held = TRUE])
    BY <1>8 DEF Start
  <2> QED
    BY <2>1, <1>3, <1>5, IdleIs DEF Idle, Locals, Points
<1>9. CASE StartVersions(a)
  <2>1. CASE Arms(adm[a].exp) = {}
    BY <2>1, <1>9, <1>6 DEF StartVersions, Leave, Goto
  <2>2. CASE Arms(adm[a].exp) # {}
    <3>1. Arms(adm[a].exp) \in SUBSET Ids /\ Arms(adm[a].exp) \subseteq Versions
      BY <1>5 DEF Arms
    <3>2. adm[a].pc = "arms" /\ adm[a].held /\ adm[a].exp \in Experiments
      BY <1>9, <1>0 DEF StartVersions, Working, Checked
    <3> QED
      BY <2>2, <3>1, <3>2, <1>9, <1>3, <1>4 DEF StartVersions, Locals, Points
  <2> QED
    BY <2>1, <2>2
<1>10. CASE Stop(a)
  <2>1. PICK e \in Running : Goto(a, [Idle EXCEPT !.pc = "stop", !.exp = e])
    BY <1>10 DEF Stop
  <2> QED
    BY <2>1, <1>3, <1>5, IdleIs DEF Idle, Locals, Points, Running
<1>11. CASE Fork(a)
  <2>1. PICK v \in Versions, join \in BOOLEAN :
          /\ join => ver[v].exp # None
          /\ Goto(a, [Idle EXCEPT !.pc = IF join THEN "joinable" ELSE "fork", !.ver = v,
                                  !.exp = IF join THEN ver[v].exp ELSE None])
    BY <1>11 DEF Fork
  <2>2. v \in Ids /\ ver[v].exp \in Experiments \cup {None} /\ v \in Arms(ver[v].exp)
    BY <1>0, <1>5 DEF TypeOK, Rows, Arms
  <2>3. CASE join
    BY <2>1, <2>2, <2>3, <1>3, <1>5, IdleIs DEF Idle, Locals, Points
  <2>4. CASE ~join
    BY <2>1, <2>2, <2>4, <1>3, <1>5, IdleIs DEF Idle, Locals, Points
  <2> QED
    BY <2>3, <2>4
<1>12. CASE Joinable(a)
  <2>1. CASE exps[adm[a].exp] = "draft"
    BY <2>1, <1>12, <1>3, <1>4, <1>0 DEF Joinable, Checked, Locals, Points
  <2>2. CASE exps[adm[a].exp] # "draft"
    BY <2>2, <1>12, <1>6 DEF Joinable, Leave, Goto
  <2> QED
    BY <2>1, <2>2
<1>13. CASE Put(a)
  <2>1. PICK v \in Versions :
          Goto(a, [Idle EXCEPT !.pc = IF ver[v].exp = None THEN "tree" ELSE "editable",
                               !.ver = v, !.exp = ver[v].exp, !.held = ver[v].exp = None])
    BY <1>13 DEF Put
  <2>2. v \in Ids /\ ver[v].exp \in Experiments \cup {None} /\ v \in Arms(ver[v].exp)
    BY <1>0, <1>5 DEF TypeOK, Rows, Arms
  <2>3. CASE ver[v].exp = None
    BY <2>1, <2>2, <2>3, <1>3, <1>5, IdleIs DEF Idle, Locals, Points
  <2>4. CASE ver[v].exp # None
    BY <2>1, <2>2, <2>4, <1>3, <1>5, IdleIs DEF Idle, Locals, Points
  <2> QED
    BY <2>3, <2>4
<1>14. CASE Editable(a)
  <2>1. CASE exps[adm[a].exp] = "running"
    BY <2>1, <1>14, <1>6 DEF Editable, Leave, Goto
  <2>2. CASE exps[adm[a].exp] # "running"
    BY <2>2, <1>14, <1>3, <1>4, <1>0 DEF Editable, Checked, Locals, Points
  <2> QED
    BY <2>1, <2>2
<1>15. CASE Tree(a)
  <2>1. adm[a].held /\ article # "deleted"
    BY <1>15, <1>0 DEF Tree, Working, Checked
  <2>2. CASE Goto(a, [adm[a] EXCEPT !.pc = "save"])
    BY <2>1, <2>2, <1>3, <1>4, <1>0 DEF Checked, Locals, Points
  <2>3. CASE Leave(a)
    BY <2>3, <1>6 DEF Leave, Goto
  <2> QED
    BY <2>2, <2>3, <1>15 DEF Tree
<1>16. CASE Publish(a)
  BY <1>16, <1>3, <1>5, IdleIs DEF Publish, Idle, Locals, Points
<1>17. CASE Refuse(a)
  BY <1>17, <1>6 DEF Refuse, Leave, Goto
<1> QED
  BY <1>7, <1>8, <1>9, <1>10, <1>11, <1>12, <1>13, <1>14, <1>15, <1>16, <1>17

-----------------------------------------------------------------------------
(* What a step owes the experiments                                        *)

SplitOf(e) ==
  /\ Arms(e) # {}
  /\ Total(Shares(e), Arms(e)) <= Whole /\ Cardinality(Controls(e)) <= 1
  /\ e \notin doubled =>
       Total(Shares(e), Arms(e)) = Whole /\ Cardinality(Controls(e)) = 1

Keeps(e) ==
  /\ e \in doubled => e \in doubled'
  /\ Arms(e)' = Arms(e)
  /\ \A v \in Arms(e) :
       \/ ver'[v] = ver[v]
       \/ ops' = ops + 1 /\ ver'[v] = [ver[v] EXCEPT !.body = ver'[v].body]

(* What was overtaken stays on record, and no experiment is created twice. *)
(* Unless an overtaken check hit it, a running experiment keeps its arms   *)
(* and a stopped one stays stopped.                                        *)
Steady ==
  /\ stale \subseteq stale'
  /\ article' # "deleted" => article # "deleted"
  /\ \A e \in Experiments :
       article' # "deleted" /\ exps[e] # "none" => exps'[e] # "none"
  /\ \A e \in Experiments \ stale' :
       /\ exps[e] = "running" => exps'[e] \in {"running", "stopped", "none"}
       /\ exps[e] = "running" /\ exps'[e] = "running" => Keeps(e)
       /\ exps[e] = "stopped" => exps'[e] \in {"stopped", "none"}

(* An experiment that starts to run gives away all of the traffic.         *)
Fresh ==
  \A e \in Experiments \ stale' :
    exps[e] # "running" /\ exps'[e] = "running" => SplitOf(e)'

Good ==
  TypeOK' /\ PointerInv' /\ AllChecked' /\ OwnInv' /\ GoneInv' /\ Steady /\ Fresh

LEMMA VersionsAre ==
  ASSUME TypeOK
  PROVE  Versions \in SUBSET Ids
BY ParametersAssumption DEF TypeOK, Versions, Ids

LEMMA KeepsShares ==
  ASSUME TypeOK, NEW e \in Experiments, Keeps(e)
  PROVE  Shares(e)' = Shares(e) /\ Controls(e)' = Controls(e)
<1>1. \A v \in Arms(e) : ver[v] \in Rows
  BY VersionsAre DEF TypeOK, Arms
<1>2. \A v \in Arms(e) : ver'[v].share = ver[v].share /\ ver'[v].control = ver[v].control
  BY <1>1 DEF Keeps, Rows
<1>3. Arms(e)' = Arms(e)
  BY DEF Keeps
<1>4. Shares(e)' = Shares(e)
  BY <1>2, <1>3 DEF Shares
<1>5. Controls(e)' = Controls(e)
  BY <1>2, <1>3 DEF Controls
<1> QED
  BY <1>4, <1>5

LEMMA KeepsSplit ==
  ASSUME TypeOK, NEW e \in Experiments, Keeps(e), SplitOf(e)
  PROVE  SplitOf(e)'
BY KeepsShares DEF SplitOf, Keeps

LEMMA KeepsChoice ==
  ASSUME TypeOK, NEW e \in Experiments, Keeps(e), bucket' = bucket, NEW s \in Visitors
  PROVE  Choice(s, e)' = Choice(s, e)
BY KeepsShares DEF Choice

LEMMA SplitStep ==
  ASSUME TypeOK, SplitHolds, Steady, Fresh
  PROVE  SplitHolds'
<1> SUFFICES ASSUME NEW e \in Experiments \ stale', exps'[e] = "running"
             PROVE  SplitOf(e)'
  BY DEF SplitHolds, SplitOf, Running
<1>1. CASE exps[e] = "running"
  <2>1. Keeps(e) /\ e \notin stale
    BY <1>1 DEF Steady
  <2>2. SplitOf(e)
    BY <1>1, <2>1 DEF SplitHolds, SplitOf, Running
  <2> QED
    BY <2>1, <2>2, KeepsSplit
<1>2. CASE exps[e] # "running"
  BY <1>2 DEF Fresh
<1> QED
  BY <1>1, <1>2

(* Visitors are not disturbed by what happens to the rows.                 *)
LEMMA VisitorsKept ==
  ASSUME TypeOK, TypeOK', VisitInv, CountInv, Steady, UNCHANGED <<vis, bucket, counted>>
  PROVE  VisitInv' /\ CountInv'
<1>1. ASSUME article' # "deleted", NEW e \in Experiments \ stale'
      PROVE  /\ e \notin stale /\ article # "deleted"
             /\ exps[e] \in {"running", "stopped"} => exps'[e] \in {"running", "stopped"}
             /\ exps'[e] \in {"none", "draft"} => exps[e] \in {"none", "draft"}
             /\ exps'[e] = "running" /\ exps[e] \notin {"none", "draft"} =>
                  exps[e] = "running" /\ \A s \in Visitors : Choice(s, e)' = Choice(s, e)
  <2>1. exps[e] \in {"none", "draft", "running", "stopped"}
    BY DEF TypeOK, Statuses
  <2>2. /\ e \notin stale /\ article # "deleted"
        /\ exps[e] = "running" => exps'[e] \in {"running", "stopped", "none"}
        /\ exps[e] = "stopped" => exps'[e] \in {"stopped", "none"}
        /\ exps[e] # "none" => exps'[e] # "none"
        /\ exps[e] = "running" /\ exps'[e] = "running" => Keeps(e)
    BY <1>1 DEF Steady
  <2> QED
    BY <2>1, <2>2, KeepsChoice
<1>2. VisitInv'
  BY <1>1 DEF VisitInv
<1>3. CountInv'
  BY <1>1 DEF CountInv
<1> QED
  BY <1>2, <1>3

-----------------------------------------------------------------------------
(* Steps that leave the rows alone                                         *)

LEMMA RowsKeep ==
  ASSUME UNCHANGED <<made, ver, doubled>>, NEW e \in Experiments
  PROVE  Keeps(e)
BY DEF Keeps, Arms, Versions

LEMMA SameRows ==
  ASSUME UNCHANGED <<article, exps, made, ver, stale, doubled>>, TypeOK
  PROVE  Steady /\ Fresh
<1>1. \A e \in Experiments : Keeps(e)
  BY RowsKeep
<1>2. Steady
  BY <1>1 DEF Steady
<1> QED
  BY <1>2 DEF Fresh

LEMMA RestGood ==
  ASSUME IInv, TypeOK', UNCHANGED <<rows, adm, stale, doubled>>
  PROVE  Good
<1>1. Steady /\ Fresh
  BY SameRows DEF IInv, rows
<1>2. PointerInv'
  BY DEF IInv, PointerInv, rows
<1>3. AllChecked'
  BY DEF IInv, AllChecked, Checked, Versions, rows
<1>4. OwnInv' /\ GoneInv'
  BY DEF IInv, OwnInv, GoneInv, Arms, Versions, rows
<1> QED
  BY <1>1, <1>2, <1>3, <1>4 DEF Good

LEMMA ReadingGood ==
  ASSUME IInv, NEW a \in Admins, Reading(a)
  PROVE  Good
<1>1. /\ UNCHANGED <<article, active, exps, made, ver, vis, bucket, counted, visits, stale, doubled>>
      /\ ops' \in 0 .. MaxOps
      /\ OthersStay(a) /\ adm' \in [Admins -> Locals]
      /\ Checked(a)'
      /\ \/ adm'[a].exp \in {None, adm[a].exp}
         \/ exps[adm'[a].exp] # "none" \/ Arms(adm'[a].exp) # {}
  BY ReadingIs
<1>2. TypeOK'
  BY <1>1 DEF IInv, TypeOK, Locals, Points
<1>3. Steady /\ Fresh
  BY <1>1, SameRows DEF IInv
<1>4. PointerInv'
  BY <1>1 DEF IInv, PointerInv
<1>5. AllChecked'
  <2>1. ASSUME NEW q \in Admins, q # a PROVE Checked(q)'
    BY <1>1, <2>1 DEF IInv, AllChecked, Checked, OthersStay, Versions
  <2> QED
    BY <1>1, <2>1 DEF AllChecked
<1>6. OwnInv'
  <2>1. \A e \in Experiments : Arms(e)' = Arms(e)
    BY <1>1 DEF Arms, Versions
  <2>2. SUFFICES ASSUME article' # "deleted", NEW e \in Experiments, exps'[e] = "none"
                 PROVE  Arms(e)' = {} /\ \A q \in Admins : adm'[q].exp # e
    BY DEF OwnInv
  <2>3. exps[e] = "none" /\ Arms(e) = {} /\ \A q \in Admins : adm[q].exp # e
    BY <1>1, <2>2 DEF IInv, OwnInv
  <2>4. adm'[a].exp # e
    BY <1>1, <2>3, ParametersAssumption
  <2> QED
    BY <1>1, <2>1, <2>3, <2>4 DEF OthersStay
<1>7. GoneInv'
  BY <1>1 DEF IInv, GoneInv
<1> QED
  BY <1>2, <1>3, <1>4, <1>5, <1>6, <1>7 DEF Good

-----------------------------------------------------------------------------
(* The batches                                                             *)

(* A request that has come to its end.                                     *)
LEMMA LeaveChecks ==
  ASSUME IInv, NEW a \in Admins, Leave(a), article # "deleted", made' >= made,
         made' \in 0 .. MaxVersions
  PROVE  AllChecked' /\ adm' \in [Admins -> Locals]
<1>1. OthersStay(a) /\ adm'[a] = Idle /\ adm' \in [Admins -> Locals]
  BY LeaveIs DEF IInv
<1>2. Versions \subseteq Versions'
  BY DEF IInv, TypeOK, Versions
<1>3. ASSUME NEW q \in Admins, q # a PROVE Checked(q)'
  BY <1>1, <1>2, <1>3 DEF IInv, AllChecked, Checked, OthersStay
<1>4. Checked(a)'
  BY <1>1 DEF Checked, Idle
<1> QED
  BY <1>1, <1>3, <1>4 DEF AllChecked

LEMMA CheckedAt ==
  ASSUME IInv, NEW a \in Admins, NEW p, Working(a, p)
  PROVE  /\ article # "deleted" /\ adm[a].pc = p /\ adm[a] \in Locals
         /\ adm[a].arms \subseteq Versions
         /\ p \in {"create", "arms", "start", "tree", "save"} => adm[a].held
         /\ p = "fork" /\ adm[a].exp # None => adm[a].held
         /\ p \in {"arms", "start", "stop", "joinable", "editable"} => adm[a].exp \in Experiments
         /\ p = "start" => adm[a].arms # {}
         /\ adm[a].exp \in Experiments => exps[adm[a].exp] # "none"
BY DEF IInv, AllChecked, Checked, OwnInv, Working, TypeOK, Locals, Points

LEMMA StopGood ==
  ASSUME IInv, NEW a \in Admins, StopBatch(a)
  PROVE  Good
<1> DEFINE e == adm[a].exp
<1>1. e \in Experiments /\ exps[e] # "none" /\ article # "deleted"
  BY CheckedAt DEF StopBatch
<1>2. /\ exps' = [exps EXCEPT ![e] = "stopped"]
      /\ active' = IF active = e THEN None ELSE active
      /\ UNCHANGED <<article, made, ver, vis, bucket, counted, visits, stale, doubled, ops>>
      /\ Leave(a)
  BY DEF StopBatch, public, history
<1>3. TypeOK /\ PointerInv /\ OwnInv
  BY DEF IInv
<1>4. AllChecked' /\ adm' \in [Admins -> Locals]
  BY <1>1, <1>2, <1>3, LeaveChecks DEF TypeOK
<1>5. TypeOK'
  BY <1>1, <1>2, <1>3, <1>4 DEF TypeOK, Locals, Points, Statuses
<1>6. PointerInv'
  BY <1>1, <1>2, <1>3, ParametersAssumption DEF PointerInv, TypeOK
<1>7. OwnInv'
  <2>1. OthersStay(a) /\ adm'[a] = Idle
    BY <1>2, <1>3, LeaveIs
  <2>2. \A f \in Experiments : Arms(f)' = Arms(f)
    BY <1>2 DEF Arms, Versions
  <2> QED
    <3>1. SUFFICES ASSUME NEW f \in Experiments, exps'[f] = "none"
                   PROVE  Arms(f)' = {} /\ \A q \in Admins : adm'[q].exp # f
      BY DEF OwnInv
    <3>2. exps[f] = "none"
      BY <1>2, <1>3, <3>1 DEF TypeOK
    <3>3. Arms(f) = {} /\ \A q \in Admins : adm[q].exp # f
      BY <1>1, <1>3, <3>2 DEF OwnInv
    <3> QED
      BY <2>1, <2>2, <3>3, ParametersAssumption DEF OthersStay, Idle
<1>8. GoneInv'
  BY <1>1, <1>2 DEF GoneInv
<1>9. \A f \in Experiments : Keeps(f)
  BY <1>2, RowsKeep
<1>10. Steady
  BY <1>1, <1>2, <1>3, <1>9 DEF Steady, TypeOK
<1>11. Fresh
  BY <1>1, <1>2, <1>3 DEF Fresh, TypeOK
<1> QED
  BY <1>4, <1>5, <1>6, <1>7, <1>8, <1>10, <1>11 DEF Good

LEMMA PublishGood ==
  ASSUME IInv, NEW a \in Admins, PublishWrite(a)
  PROVE  Good
<1>1. article # "deleted"
  BY CheckedAt DEF PublishWrite
<1>2. /\ article' = "published"
      /\ UNCHANGED <<active, exps, made, ver, vis, bucket, counted, visits, stale, doubled, ops>>
      /\ Leave(a)
  BY DEF PublishWrite, public, history
<1>3. TypeOK /\ PointerInv /\ OwnInv
  BY DEF IInv
<1>4. AllChecked' /\ adm' \in [Admins -> Locals]
  BY <1>1, <1>2, <1>3, LeaveChecks DEF TypeOK
<1>5. TypeOK' /\ PointerInv' /\ GoneInv'
  BY <1>1, <1>2, <1>3, <1>4 DEF TypeOK, Locals, Points, PointerInv, GoneInv
<1>6. OwnInv'
  <2>1. OthersStay(a) /\ adm'[a] = Idle
    BY <1>2, <1>3, LeaveIs
  <2>2. \A f \in Experiments : Arms(f)' = Arms(f)
    BY <1>2 DEF Arms, Versions
  <2> QED
    BY <1>1, <1>2, <1>3, <2>1, <2>2, ParametersAssumption DEF OwnInv, OthersStay, Idle
<1>7. \A f \in Experiments : Keeps(f)
  BY <1>2, RowsKeep
<1>8. Steady /\ Fresh
  BY <1>1, <1>2, <1>7 DEF Steady, Fresh
<1> QED
  BY <1>4, <1>5, <1>6, <1>8 DEF Good

LEMMA PatchGood ==
  ASSUME IInv, NEW a \in Admins, Patch(a)
  PROVE  Good
<1>1. /\ article # "deleted" /\ article' \in {"other", "published"}
      /\ ops' \in 0 .. MaxOps
      /\ UNCHANGED <<active, exps, made, ver, adm, vis, bucket, counted, visits, stale, doubled>>
  BY MoreOps DEF Patch, Begin, public, history, IInv
<1>2. TypeOK' /\ PointerInv' /\ GoneInv'
  BY <1>1 DEF IInv, TypeOK, PointerInv, GoneInv
<1>3. AllChecked'
  BY <1>1 DEF IInv, AllChecked, Checked, Versions
<1>4. OwnInv'
  BY <1>1 DEF IInv, OwnInv, Arms, Versions
<1>5. \A f \in Experiments : Keeps(f)
  BY <1>1, RowsKeep
<1>6. Steady /\ Fresh
  BY <1>1, <1>5 DEF Steady, Fresh
<1> QED
  BY <1>2, <1>3, <1>4, <1>6 DEF Good

LEMMA DeleteGood ==
  ASSUME IInv, NEW a \in Admins, Delete(a)
  PROVE  Good
<1>1. /\ article' = "deleted" /\ active' = None /\ made' = 0
      /\ exps' = [e \in Experiments |-> "none"]
      /\ ops' \in 0 .. MaxOps
      /\ UNCHANGED <<ver, adm, vis, bucket, counted, visits, stale, doubled>>
  BY MoreOps DEF Delete, Begin, public, history, IInv
<1>2. 0 \in 0 .. MaxVersions
  BY ParametersAssumption
<1>3. TypeOK'
  BY <1>1, <1>2 DEF IInv, TypeOK, Statuses
<1>4. PointerInv' /\ OwnInv' /\ GoneInv'
  BY <1>1, ParametersAssumption DEF PointerInv, OwnInv, GoneInv
<1>5. AllChecked'
  BY <1>1 DEF IInv, AllChecked, Checked
<1>6. Steady /\ Fresh
  BY <1>1 DEF Steady, Fresh
<1> QED
  BY <1>3, <1>4, <1>5, <1>6 DEF Good

(* A save writes the contents of one version and nothing else.             *)
LEMMA BodyWrite ==
  ASSUME TypeOK, NEW v \in Ids, NEW body \in Bodies, ver' = [ver EXCEPT ![v].body = body]
  PROVE  /\ ver' \in [Ids -> Rows]
         /\ \A w \in Ids : ver'[w].exp = ver[w].exp /\ (w # v => ver'[w] = ver[w])
         /\ ver'[v] = [ver[v] EXCEPT !.body = ver'[v].body]
<1>1. ver \in [Ids -> Rows] /\ ver[v] \in Rows
  BY DEF TypeOK
<1>2. PICK row : row = [ver[v] EXCEPT !.body = body]
  OBVIOUS
<1>3. row \in Rows /\ row.exp = ver[v].exp /\ row.body = body
  BY <1>1, <1>2 DEF Rows
<1>4. ver' = [ver EXCEPT ![v] = row]
  BY <1>1, <1>2
<1> QED
  BY <1>1, <1>2, <1>3, <1>4

LEMMA SaveGood ==
  ASSUME IInv, NEW a \in Admins, SaveBatch(a)
  PROVE  Good
<1> DEFINE v == adm[a].ver
<1>1. article # "deleted" /\ adm[a].held /\ v \in Ids
  BY CheckedAt DEF SaveBatch, Locals
<1>2. PICK body \in Bodies : ver' = [ver EXCEPT ![v].body = body]
  BY DEF SaveBatch
<1>3. /\ UNCHANGED <<article, active, exps, made, doubled, vis, bucket, counted, visits, ops>>
      /\ stale' = stale \cup ({ver[v].exp} \cap Running)
      /\ Leave(a)
  BY <1>1 DEF SaveBatch, public, Note
<1>4. TypeOK /\ PointerInv /\ OwnInv
  BY DEF IInv
<1>5. AllChecked' /\ adm' \in [Admins -> Locals]
  BY <1>1, <1>3, <1>4, LeaveChecks DEF TypeOK
<1>6. /\ ver' \in [Ids -> Rows]
      /\ \A w \in Ids : ver'[w].exp = ver[w].exp /\ (w # v => ver'[w] = ver[w])
  BY <1>1, <1>2, <1>4, BodyWrite
<1>7. stale' \subseteq Experiments /\ doubled' \subseteq Experiments
  BY <1>3, <1>4 DEF TypeOK, Running
<1>8. TypeOK' /\ PointerInv' /\ GoneInv'
  BY <1>1, <1>3, <1>4, <1>5, <1>6, <1>7 DEF TypeOK, Locals, Points, PointerInv, GoneInv
<1>9. \A f \in Experiments : Arms(f)' = Arms(f)
  BY <1>3, <1>4, <1>6, VersionsAre DEF Arms, Versions
<1>10. OwnInv'
  <2>1. OthersStay(a) /\ adm'[a] = Idle
    BY <1>3, <1>4, LeaveIs
  <2> QED
    BY <1>1, <1>3, <1>4, <1>9, <2>1, ParametersAssumption DEF OwnInv, OthersStay, Idle
<1>11. Steady
  <2>1. ASSUME NEW f \in Experiments \ stale', exps[f] = "running" PROVE Keeps(f)
    <3>1. v \notin Arms(f)
      BY <1>3, <2>1 DEF Arms, Running
    <3>2. \A w \in Arms(f) : ver'[w] = ver[w]
      BY <1>4, <1>6, <3>1, VersionsAre DEF Arms
    <3> QED
      BY <1>3, <1>9, <3>2 DEF Keeps
  <2> QED
    BY <1>1, <1>3, <2>1 DEF Steady
<1>12. Fresh
  BY <1>3 DEF Fresh
<1> QED
  BY <1>5, <1>8, <1>10, <1>11, <1>12 DEF Good

LEMMA RevisionGood ==
  ASSUME IInv, NEW a \in Admins, NewRevision(a)
  PROVE  Good
<1>1. TypeOK /\ PointerInv /\ OwnInv
  BY DEF IInv
<1>2. PICK v \in Versions, body \in Bodies : ver' = [ver EXCEPT ![v].body = body]
  BY DEF NewRevision
<1>3. /\ article # "deleted" /\ ops' = ops + 1 /\ ops' \in 0 .. MaxOps
      /\ UNCHANGED <<article, active, exps, made, adm, vis, bucket, counted, visits, stale, doubled>>
  BY <1>1, MoreOps DEF NewRevision, Begin, public, history
<1>4. v \in Ids
  BY <1>1, VersionsAre
<1>5. /\ ver' \in [Ids -> Rows]
      /\ \A w \in Ids : ver'[w].exp = ver[w].exp /\ (w # v => ver'[w] = ver[w])
      /\ ver'[v] = [ver[v] EXCEPT !.body = ver'[v].body]
  BY <1>1, <1>2, <1>4, BodyWrite
<1>6. TypeOK' /\ PointerInv' /\ GoneInv'
  BY <1>1, <1>3, <1>5 DEF TypeOK, PointerInv, GoneInv
<1>7. AllChecked'
  BY <1>3 DEF IInv, AllChecked, Checked, Versions
<1>8. \A f \in Experiments : Arms(f)' = Arms(f)
  BY <1>1, <1>3, <1>5, VersionsAre DEF Arms, Versions
<1>9. OwnInv'
  BY <1>1, <1>3, <1>8 DEF OwnInv
<1>10. ASSUME NEW f \in Experiments PROVE Keeps(f)
  <2>1. \A w \in Arms(f) : w \in Ids
    BY <1>1, VersionsAre DEF Arms
  <2> QED
    BY <1>3, <1>5, <1>8, <2>1 DEF Keeps
<1>11. Steady /\ Fresh
  BY <1>3, <1>10 DEF Steady, Fresh
<1> QED
  BY <1>6, <1>7, <1>9, <1>11 DEF Good

LEMMA ForkGood ==
  ASSUME IInv, NEW a \in Admins, ForkBatch(a)
  PROVE  Good
<1> DEFINE e == adm[a].exp
<1> DEFINE new == made + 1
<1>1. /\ article # "deleted" /\ e \in Experiments \cup {None}
      /\ e # None => adm[a].held
      /\ e \in Experiments => exps[e] # "none"
  BY CheckedAt DEF ForkBatch, Locals
<1>2. PICK share \in 0 .. Whole, body \in Bodies :
        ver' = [ver EXCEPT ![new] =
                  [exp |-> e, share |-> share, control |-> FALSE, body |-> body]]
  BY DEF ForkBatch
<1>3. /\ made < MaxVersions /\ made' = new
      /\ UNCHANGED <<article, active, exps, doubled, vis, bucket, counted, visits, ops>>
      /\ stale' = IF adm[a].held THEN stale \cup ({e} \cap Running) ELSE stale
      /\ Leave(a)
  BY DEF ForkBatch, public, Note
<1>4. TypeOK /\ PointerInv /\ OwnInv
  BY DEF IInv
<1>5. made \in Nat /\ new \in Ids /\ new \in 0 .. MaxVersions /\ new >= made /\ new \notin Versions
  BY <1>3, <1>4, ParametersAssumption DEF TypeOK, Ids, Versions
<1>6. AllChecked' /\ adm' \in [Admins -> Locals]
  BY <1>1, <1>3, <1>5, LeaveChecks
<1>7. ver' \in [Ids -> Rows] /\ ver'[new].exp = e /\ \A w \in Versions : ver'[w] = ver[w]
  BY <1>1, <1>2, <1>4, <1>5, VersionsAre DEF TypeOK, Rows
<1>8. stale' \subseteq Experiments /\ doubled' \subseteq Experiments
  BY <1>3, <1>4 DEF TypeOK, Running
<1>9. TypeOK' /\ PointerInv' /\ GoneInv'
  BY <1>1, <1>3, <1>4, <1>5, <1>6, <1>7, <1>8 DEF TypeOK, Locals, Points, PointerInv, GoneInv
<1>10. Versions' = Versions \cup {new}
  BY <1>3, <1>5 DEF Versions
<1>11. ASSUME NEW f \in Experiments, f # e PROVE Arms(f)' = Arms(f) /\ Keeps(f)
  <2>1. Arms(f)' = Arms(f)
    BY <1>7, <1>10, <1>11 DEF Arms
  <2> QED
    BY <1>3, <1>7, <2>1 DEF Keeps, Arms
<1>12. OwnInv'
  <2>1. OthersStay(a) /\ adm'[a] = Idle
    BY <1>3, <1>4, LeaveIs
  <2>2. ASSUME NEW f \in Experiments, exps'[f] = "none"
        PROVE  Arms(f)' = {} /\ \A q \in Admins : adm'[q].exp # f
    <3>1. exps[f] = "none" /\ f # e
      BY <1>1, <1>3, <2>2
    <3>2. Arms(f) = {} /\ \A q \in Admins : adm[q].exp # f
      BY <1>1, <1>4, <3>1 DEF OwnInv
    <3> QED
      BY <1>11, <2>1, <3>1, <3>2, ParametersAssumption DEF OthersStay, Idle
  <2> QED
    BY <2>2 DEF OwnInv
<1>13. ASSUME NEW f \in Experiments \ stale', exps[f] = "running" PROVE Keeps(f)
  <2>1. f # e
    BY <1>1, <1>3, <1>13, ParametersAssumption DEF Running
  <2> QED
    BY <1>11, <2>1
<1>14. Steady
  BY <1>1, <1>3, <1>13 DEF Steady
<1>15. Fresh
  BY <1>3 DEF Fresh
<1> QED
  BY <1>6, <1>9, <1>12, <1>14, <1>15 DEF Good

(* The arms of a list, once written, are split as SplitHolds asks.         *)
LEMMA SplitMakes ==
  ASSUME NEW e, NEW arms, NEW twice \in BOOLEAN, NEW s \in Listed(arms, twice),
         arms # {}, Arms(e)' = arms, twice => e \in doubled',
         \A v \in arms : ver'[v].share = s.share[v] /\ ver'[v].control = (v \in s.control)
  PROVE  SplitOf(e)'
<1>1. /\ s.share \in [arms -> 0 .. Whole] /\ s.control \subseteq arms
      /\ Total(s.share, arms) <= Whole /\ Cardinality(s.control) <= 1
      /\ ~twice => Total(s.share, arms) = Whole /\ Cardinality(s.control) = 1
  BY ParametersAssumption DEF Listed
<1>2. Shares(e)' = s.share
  <2>1. Shares(e)' = [v \in arms |-> ver'[v].share]
    BY DEF Shares
  <2>2. [v \in arms |-> ver'[v].share] = [v \in arms |-> s.share[v]]
    OBVIOUS
  <2> QED
    BY <1>1, <2>1, <2>2
<1>3. Controls(e)' = s.control
  <2>1. Controls(e)' = {v \in arms : ver'[v].control}
    BY DEF Controls
  <2> QED
    BY <1>1, <2>1
<1> QED
  BY <1>1, <1>2, <1>3 DEF SplitOf

LEMMA StartGood ==
  ASSUME IInv, NEW a \in Admins, StartBatch(a)
  PROVE  Good
<1>0. PICK e : e = adm[a].exp
  OBVIOUS
<1> DEFINE arms == adm[a].arms
<1>1. /\ article # "deleted" /\ e \in Experiments /\ exps[e] # "none" /\ adm[a].held
      /\ arms \in SUBSET Versions /\ arms # {}
  BY <1>0, CheckedAt DEF StartBatch
<1>2. PICK s \in Splits(arms) :
        ver' = [v \in Ids |->
          IF v \notin arms THEN ver[v]
          ELSE [ver[v] EXCEPT !.share = s.share[v], !.control = (v \in s.control)]]
  BY <1>0 DEF StartBatch
<1>3. /\ Running \subseteq {e}
      /\ exps' = [exps EXCEPT ![e] = "running"] /\ active' = e
      /\ UNCHANGED <<article, made, vis, bucket, counted, visits, ops>>
      /\ doubled' = doubled \ {e}
      /\ stale' = stale \cup (IF exps[e] = "draft" /\ Arms(e) = arms THEN {} ELSE {e})
      /\ Leave(a)
  BY <1>0, <1>1 DEF StartBatch, public, Note, Admitted
<1>4. TypeOK /\ PointerInv /\ OwnInv
  BY DEF IInv
<1>5. AllChecked' /\ adm' \in [Admins -> Locals]
  BY <1>1, <1>3, <1>4, LeaveChecks DEF TypeOK
<1>6. s \in Listed(arms, FALSE) /\ \A v \in arms : s.share[v] \in 0 .. Whole
  BY DEF Splits, Listed
<1>7. /\ ver' \in [Ids -> Rows] /\ \A w \in Ids : ver'[w].exp = ver[w].exp
      /\ \A v \in arms : ver'[v].share = s.share[v] /\ ver'[v].control = (v \in s.control)
  <2>1. ASSUME NEW v \in Ids
        PROVE  /\ ver'[v] \in Rows /\ ver'[v].exp = ver[v].exp
               /\ v \in arms => ver'[v].share = s.share[v]
                               /\ ver'[v].control = (v \in s.control)
    <3>1. ver[v] \in Rows
      BY <1>4 DEF TypeOK
    <3>2. CASE v \in arms
      <4> DEFINE control == v \in s.control
      <4>1. control \in BOOLEAN
        OBVIOUS
      <4>2. ver'[v] = [ver[v] EXCEPT !.share = s.share[v], !.control = control]
        BY <1>2, <3>2
      <4> HIDE DEF control
      <4>3. /\ ver'[v] \in Rows /\ ver'[v].exp = ver[v].exp
            /\ ver'[v].share = s.share[v] /\ ver'[v].control = control
        BY <1>6, <3>1, <3>2, <4>1, <4>2 DEF Rows
      <4> QED
        BY <4>3 DEF control
    <3>3. CASE v \notin arms
      BY <1>2, <3>1, <3>3
    <3> QED
      BY <3>2, <3>3
  <2>2. ver' = [v \in Ids |-> ver'[v]]
    BY <1>2
  <2>3. arms \subseteq Ids
    BY <1>1, <1>4, VersionsAre
  <2> QED
    BY <2>1, <2>2, <2>3
<1>8. stale' \subseteq Experiments /\ doubled' \subseteq Experiments
  BY <1>1, <1>3, <1>4 DEF TypeOK
<1>9. TypeOK' /\ GoneInv'
  BY <1>1, <1>3, <1>4, <1>5, <1>7, <1>8 DEF TypeOK, Locals, Points, GoneInv, Statuses
<1>10. PointerInv'
  BY <1>1, <1>3, <1>4 DEF PointerInv, Running, TypeOK
<1>11. \A f \in Experiments : Arms(f)' = Arms(f)
  BY <1>3, <1>4, <1>7, VersionsAre DEF Arms, Versions
<1>12. OwnInv'
  <2>1. OthersStay(a) /\ adm'[a] = Idle
    BY <1>3, <1>4, LeaveIs
  <2>2. ASSUME NEW f \in Experiments, exps'[f] = "none"
        PROVE  Arms(f)' = {} /\ \A q \in Admins : adm'[q].exp # f
    <3>1. exps[f] = "none"
      BY <1>1, <1>3, <1>4, <2>2 DEF TypeOK
    <3>2. Arms(f) = {} /\ \A q \in Admins : adm[q].exp # f
      BY <1>1, <1>4, <3>1 DEF OwnInv
    <3> QED
      BY <1>11, <2>1, <3>2, ParametersAssumption DEF OthersStay, Idle
  <2> QED
    BY <2>2 DEF OwnInv
<1>13. Steady
  <2>1. \A f \in Experiments : exps[f] # "none" => exps'[f] # "none"
    BY <1>1, <1>3, <1>4 DEF TypeOK
  <2>2. ASSUME NEW f \in Experiments \ stale'
        PROVE  exps[f] # "running" /\ (exps[f] = "stopped" => exps'[f] = "stopped")
    BY <1>1, <1>3, <1>4, <2>2 DEF Running, TypeOK
  <2> QED
    BY <1>1, <1>3, <2>1, <2>2 DEF Steady
<1>14. Fresh
  <2>1. ASSUME NEW f \in Experiments \ stale', exps[f] # "running", exps'[f] = "running"
        PROVE  SplitOf(f)'
    <3>1. f = e
      BY <1>1, <1>3, <1>4, <2>1 DEF TypeOK
    <3>2. Arms(e) = arms
      BY <1>3, <2>1, <3>1
    <3>3. Arms(e)' = arms
      BY <1>1, <1>11, <3>2
    <3> QED
      BY <1>1, <1>6, <1>7, <3>1, <3>3, SplitMakes
  <2> QED
    BY <2>1 DEF Fresh
<1> QED
  BY <1>5, <1>9, <1>10, <1>12, <1>13, <1>14 DEF Good

LEMMA CreateGood ==
  ASSUME IInv, NEW a \in Admins, CreateBatch(a)
  PROVE  Good
<1>1. /\ article # "deleted" /\ adm[a].held /\ adm[a].arms \in SUBSET Versions
      /\ adm[a].born \in {"draft", "running"}
  BY CheckedAt DEF CreateBatch, Locals
<1>2. PICK e \in Experiments, old \in SUBSET adm[a].arms, fresh, twice \in BOOLEAN :
        LET last == IF fresh THEN made + 1 ELSE made
            arms == IF fresh THEN old \cup {last} ELSE old
        IN  /\ exps[e] = "none" /\ arms # {} /\ last <= MaxVersions
            /\ twice => old # {}
            /\ Admitted(e, adm[a].born)
            /\ exps' = [exps EXCEPT ![e] = adm[a].born]
            /\ made' = last
            /\ \E s \in Listed(arms, twice) :
                 ver' = [v \in Ids |->
                   IF v \notin arms THEN ver[v]
                   ELSE [exp |-> e, share |-> s.share[v], control |-> v \in s.control,
                         body |-> ver[v].body]]
            /\ active' = IF adm[a].born = "running" THEN e ELSE active
            /\ doubled' = IF twice THEN doubled \cup {e} ELSE doubled
            /\ Note(a, {f \in Running : Arms(f) \cap arms # {}})
  BY DEF CreateBatch
<1> DEFINE last == IF fresh THEN made + 1 ELSE made
<1> DEFINE arms == IF fresh THEN old \cup {last} ELSE old
<1>3. PICK s \in Listed(arms, twice) :
        ver' = [v \in Ids |->
          IF v \notin arms THEN ver[v]
          ELSE [exp |-> e, share |-> s.share[v], control |-> v \in s.control,
                body |-> ver[v].body]]
  BY <1>2
<1>4. /\ UNCHANGED <<article, vis, bucket, counted, visits, ops>>
      /\ stale' = stale \cup {f \in Running : Arms(f) \cap arms # {}}
      /\ doubled' = IF twice THEN doubled \cup {e} ELSE doubled
      /\ Leave(a)
  BY <1>1, <1>2 DEF CreateBatch, public, Note
<1>5. TypeOK /\ PointerInv /\ OwnInv
  BY DEF IInv
<1>6. /\ made \in Nat /\ made' \in Nat /\ made' >= made /\ made' \in 0 .. MaxVersions
      /\ made' = made \/ (made' = made + 1 /\ made' \in arms /\ made' \in Ids)
  BY <1>2, <1>5, ParametersAssumption DEF TypeOK, Ids
<1>7. arms \in SUBSET Ids /\ arms \subseteq Versions'
  <2>1. old \subseteq Versions /\ Versions \subseteq Versions' /\ Versions \subseteq Ids
    BY <1>1, <1>2, <1>5, <1>6, VersionsAre DEF Versions
  <2>2. fresh => last \in Ids /\ last \in Versions'
    BY <1>2, <1>6, ParametersAssumption DEF Versions, Ids
  <2> QED
    BY <1>2, <2>1, <2>2
<1>8. AllChecked' /\ adm' \in [Admins -> Locals]
  BY <1>1, <1>4, <1>6, LeaveChecks
<1>9. ASSUME NEW v \in Ids
      PROVE  /\ ver'[v] \in Rows
             /\ v \notin arms => ver'[v] = ver[v]
             /\ v \in arms => ver'[v].exp = e /\ ver'[v].share = s.share[v]
                              /\ ver'[v].control = (v \in s.control)
  <2>1. ver[v] \in Rows
    BY <1>5 DEF TypeOK
  <2>2. CASE v \in arms
    <3>1. ver'[v] = [exp |-> e, share |-> s.share[v], control |-> v \in s.control,
                     body |-> ver[v].body]
      BY <1>3, <2>2
    <3>2. s.share[v] \in 0 .. Whole
      BY <2>2 DEF Listed
    <3> QED
      BY <2>1, <2>2, <3>1, <3>2 DEF Rows
  <2>3. CASE v \notin arms
    BY <1>3, <2>1, <2>3
  <2> QED
    BY <2>2, <2>3
<1>10. ver' \in [Ids -> Rows]
  <2>1. ver' = [v \in Ids |-> ver'[v]]
    BY <1>3
  <2> QED
    BY <1>9, <2>1
<1>11. stale' \subseteq Experiments /\ doubled' \subseteq Experiments
  BY <1>4, <1>5 DEF TypeOK, Running
<1>12. exps' \in [Experiments -> Statuses] /\ active' \in Experiments \cup {None}
  BY <1>1, <1>2, <1>5 DEF TypeOK, Statuses
<1>13. TypeOK' /\ GoneInv'
  BY <1>1, <1>4, <1>5, <1>6, <1>8, <1>10, <1>11, <1>12 DEF TypeOK, Locals, Points, GoneInv
<1>14. PointerInv'
  <2>1. ASSUME NEW f \in Experiments PROVE exps'[f] = "running" <=> active' = f
    <3>1. exps[f] = "running" <=> active = f
      BY <1>5 DEF PointerInv
    <3>2. CASE adm[a].born = "running"
      BY <1>2, <1>5, <3>1, <3>2 DEF Admitted, Running, TypeOK
    <3>3. CASE adm[a].born = "draft"
      BY <1>2, <1>5, <3>1, <3>3 DEF TypeOK
    <3> QED
      BY <1>1, <3>2, <3>3
  <2> QED
    BY <2>1 DEF PointerInv
<1>15. Arms(e) = {} /\ \A q \in Admins : adm[q].exp # e
  BY <1>1, <1>2, <1>5 DEF OwnInv
<1>16. Arms(e)' = arms
  <2>1. ASSUME NEW v \in Versions', ver'[v].exp = e, v \notin arms PROVE FALSE
    <3>1. v \in Versions
      BY <1>6, <2>1 DEF Versions
    <3>2. v \in Ids
      BY <1>5, <3>1, VersionsAre
    <3>3. ver[v].exp = e
      BY <1>9, <2>1, <3>2
    <3> QED
      BY <1>15, <3>1, <3>3 DEF Arms
  <2>2. \A v \in arms : v \in Versions' /\ ver'[v].exp = e
    BY <1>7, <1>9
  <2> QED
    BY <2>1, <2>2 DEF Arms
<1>17. OwnInv'
  <2>1. OthersStay(a) /\ adm'[a] = Idle
    BY <1>4, <1>5, LeaveIs
  <2>2. ASSUME NEW f \in Experiments, exps'[f] = "none"
        PROVE  Arms(f)' = {} /\ \A q \in Admins : adm'[q].exp # f
    <3>1. exps[f] = "none" /\ f # e
      BY <1>1, <1>2, <1>5, <2>2 DEF TypeOK
    <3>2. Arms(f) = {} /\ \A q \in Admins : adm[q].exp # f
      BY <1>1, <1>5, <3>1 DEF OwnInv
    <3>3. ASSUME NEW v \in Versions', ver'[v].exp = f PROVE FALSE
      <4>1. v \in Ids
        BY <1>6, <3>3, ParametersAssumption DEF Versions, Ids
      <4>2. v \notin arms
        BY <1>9, <3>1, <3>3, <4>1
      <4>3. v \in Versions /\ ver[v].exp = f
        BY <1>6, <1>9, <3>3, <4>1, <4>2 DEF Versions
      <4> QED
        BY <3>2, <4>3 DEF Arms
    <3>4. Arms(f)' = {}
      BY <3>3 DEF Arms
    <3> QED
      BY <2>1, <3>2, <3>4, ParametersAssumption DEF OthersStay, Idle
  <2> QED
    BY <2>2 DEF OwnInv
<1>18. ASSUME NEW f \in Experiments \ stale', exps[f] = "running" PROVE Keeps(f)
  <2>1. Arms(f) \cap arms = {} /\ f # e
    BY <1>2, <1>4, <1>18 DEF Running
  <2>2. \A v \in Arms(f) : v \in Versions' /\ v \in Ids /\ ver'[v] = ver[v] /\ ver[v].exp = f
    BY <1>5, <1>6, <1>9, <2>1, VersionsAre DEF Arms, Versions
  <2>3. ASSUME NEW v \in Versions', ver'[v].exp = f PROVE v \in Arms(f)
    <3>1. v \in Ids
      BY <1>6, ParametersAssumption DEF Versions, Ids
    <3>2. v \notin arms
      BY <1>9, <2>1, <2>3, <3>1
    <3> QED
      BY <1>6, <1>9, <2>3, <3>1, <3>2 DEF Versions, Arms
  <2>4. Arms(f)' = Arms(f)
    BY <2>2, <2>3 DEF Arms
  <2> QED
    BY <1>4, <2>2, <2>4 DEF Keeps
<1>19. Steady
  <2>1. \A f \in Experiments : exps[f] # "none" => exps'[f] = exps[f]
    BY <1>2, <1>5 DEF TypeOK
  <2> QED
    BY <1>1, <1>4, <1>18, <2>1 DEF Steady
<1>20. Fresh
  <2>1. ASSUME NEW f \in Experiments \ stale', exps[f] # "running", exps'[f] = "running"
        PROVE  SplitOf(f)'
    <3>1. f = e
      BY <1>2, <1>5, <2>1 DEF TypeOK
    <3>2. \A v \in arms : ver'[v].share = s.share[v] /\ ver'[v].control = (v \in s.control)
      BY <1>7, <1>9
    <3>3. arms # {} /\ (twice => e \in doubled')
      BY <1>2, <1>4
    <3> QED
      BY <1>16, <3>1, <3>2, <3>3, SplitMakes
  <2> QED
    BY <2>1 DEF Fresh
<1> QED
  BY <1>8, <1>13, <1>14, <1>17, <1>19, <1>20 DEF Good

-----------------------------------------------------------------------------
(* Visitors                                                                *)

VisitChange(s, view) ==
  /\ view \in Views
  /\ vis' = [vis EXCEPT ![s] = view]
  /\ UNCHANGED <<rows, adm, stale, doubled, ops, bucket>>

LEMMA VisitGood ==
  ASSUME IInv, NEW s \in Visitors, NEW view, VisitChange(s, view),
         visits' \in 0 .. MaxVisits, counted' \in [Visitors -> [Experiments -> 0 .. MaxVersions]]
  PROVE  Good /\ vis' \in [Visitors -> Views]
<1>1. vis' \in [Visitors -> Views]
  BY DEF IInv, TypeOK, Views, VisitChange
<1>2. TypeOK'
  BY <1>1 DEF IInv, TypeOK, VisitChange, Views, rows
<1> QED
  BY <1>1, <1>2, RestGood DEF VisitChange

(* What the choice of a visitor rests on does not change under him.        *)
LEMMA VisitSame ==
  ASSUME UNCHANGED <<rows, adm, stale, doubled, ops, bucket>>, TypeOK,
         NEW s \in Visitors, NEW e \in Experiments
  PROVE  Choice(s, e)' = Choice(s, e)
BY RowsKeep, KeepsChoice DEF rows

LEMMA ArriveOK ==
  ASSUME IInv, NEW s \in Visitors, Arrive(s)
  PROVE  Good /\ VisitInv' /\ CountInv'
<1> DEFINE view == [Away EXCEPT !.pc = "versions", !.exp = active]
<1>1. TypeOK /\ PointerInv /\ VisitInv /\ CountInv
  BY DEF IInv
<1>2. 0 \in 0 .. MaxVersions /\ visits' \in 0 .. MaxVisits
  BY <1>1, ParametersAssumption DEF Arrive, TypeOK
<1>3. view \in Views /\ view.pc = "versions" /\ view.exp = active
  BY <1>1, <1>2 DEF Away, Views, TypeOK
<1>4. VisitChange(s, view) /\ counted' = counted
  BY <1>3 DEF Arrive, Admin, VisitChange, history
<1>5. Good
  BY <1>1, <1>2, <1>4, VisitGood DEF TypeOK
<1>6. /\ vis'[s].pc = "versions" /\ vis'[s].exp = active
      /\ \A t \in Visitors : t # s => vis'[t] = vis[t]
  BY <1>1, <1>3, <1>4 DEF VisitChange, TypeOK
<1>7. VisitInv'
  <2>1. SUFFICES ASSUME article' # "deleted", NEW t \in Visitors, NEW e \in Experiments \ stale',
                        vis'[t].exp = e
                 PROVE  /\ exps'[e] \in {"running", "stopped"}
                        /\ vis'[t].pc = "experiment" /\ exps'[e] = "running" =>
                             vis'[t].arm = Choice(t, e)'
    BY DEF VisitInv
  <2>2. Choice(t, e)' = Choice(t, e)
    BY <1>1, <1>4, VisitSame DEF VisitChange
  <2>3. CASE t = s
    BY <1>1, <1>4, <1>6, <2>1, <2>3 DEF PointerInv, VisitChange, rows
  <2>4. CASE t # s
    BY <1>1, <1>4, <1>6, <2>1, <2>2, <2>4 DEF VisitInv, VisitChange, rows
  <2> QED
    BY <2>3, <2>4
<1>8. CountInv'
  BY <1>1, <1>4, VisitSame DEF CountInv, VisitChange, rows
<1> QED
  BY <1>5, <1>7, <1>8

LEMMA LoadOK ==
  ASSUME IInv, NEW s \in Visitors, LoadVersions(s)
  PROVE  Good /\ VisitInv' /\ CountInv'
<1>1. TypeOK /\ VisitInv /\ CountInv /\ SplitHolds
  BY DEF IInv
<1>2. 0 \in 0 .. MaxVersions /\ Away \in Views
  BY ParametersAssumption DEF Away, Views
<1>3. PICK view \in Views :
        /\ vis' = [vis EXCEPT ![s] = view]
        /\ view = Away \/ (view.pc = "experiment" /\ view.exp = vis[s].exp
             /\ (vis[s].exp \in Experiments /\ Arms(vis[s].exp) # {} =>
                   view.arm = Choice(s, vis[s].exp)))
  <2>1. CASE made = 0
    BY <1>2, <2>1 DEF LoadVersions
  <2>2. CASE made # 0
    <3> DEFINE e == vis[s].exp
               arms == IF e = None THEN {} ELSE Arms(e)
               arm == IF arms = {} THEN ControlVersion ELSE Pick(bucket[s][e], Shares(e))
    <3>1. vis[s] \in Views /\ e \in Experiments \cup {None}
      BY <1>1 DEF TypeOK, Views
    <3>2. ControlVersion \in 0 .. MaxVersions
      BY <1>1, <2>2, ControlIn, VersionsAre DEF TypeOK, Ids
    <3>3. arm \in 0 .. MaxVersions
      <4>1. CASE arms = {}
        BY <3>2, <4>1
      <4>2. CASE arms # {}
        <5>1. DOMAIN Shares(e) \in SUBSET Ids /\ DOMAIN Shares(e) # {}
          BY <1>1, <4>2, VersionsAre DEF Shares, Arms
        <5>2. Pick(bucket[s][e], Shares(e)) \in Ids
          BY <5>1, PickIn
        <5> QED
          BY <4>2, <5>2 DEF Ids
      <4> QED
        BY <4>1, <4>2
    <3>4. vis' = [vis EXCEPT ![s].pc = "experiment", ![s].control = ControlVersion,
                             ![s].arm = arm]
      BY <2>2 DEF LoadVersions
    <3> HIDE DEF arm
    <3>5. PICK view : view = [vis[s] EXCEPT !.pc = "experiment", !.control = ControlVersion,
                                            !.arm = arm]
      OBVIOUS
    <3>6. /\ view \in Views /\ view.pc = "experiment" /\ view.exp = e /\ view.arm = arm
      BY <3>1, <3>2, <3>3, <3>5 DEF Views
    <3>7. vis' = [vis EXCEPT ![s] = view]
      BY <1>1, <3>4, <3>5 DEF TypeOK
    <3>8. e \in Experiments /\ Arms(e) # {} => arm = Choice(s, e)
      BY ParametersAssumption DEF arm, Choice
    <3> QED
      BY <3>6, <3>7, <3>8
  <2> QED
    BY <2>1, <2>2
<1>4. VisitChange(s, view) /\ UNCHANGED <<counted, visits>>
  BY <1>3 DEF LoadVersions, Admin, VisitChange, history
<1>5. Good
  BY <1>1, <1>4, VisitGood DEF TypeOK
<1>6. vis'[s] = view /\ \A t \in Visitors : t # s => vis'[t] = vis[t]
  BY <1>1, <1>3 DEF TypeOK
<1>7. VisitInv'
  <2>1. SUFFICES ASSUME article' # "deleted", NEW t \in Visitors, NEW e \in Experiments \ stale',
                        vis'[t].exp = e
                 PROVE  /\ exps'[e] \in {"running", "stopped"}
                        /\ vis'[t].pc = "experiment" /\ exps'[e] = "running" =>
                             vis'[t].arm = Choice(t, e)'
    BY DEF VisitInv
  <2>2. Choice(t, e)' = Choice(t, e) /\ exps' = exps /\ e \notin stale /\ article # "deleted"
    BY <1>1, <1>4, <2>1, VisitSame DEF VisitChange, rows
  <2>3. CASE t = s
    <3>1. view # Away /\ vis[s].exp = e
      BY <1>3, <1>6, <2>1, <2>3, ParametersAssumption DEF Away
    <3>2. exps[e] \in {"running", "stopped"}
      BY <1>1, <2>2, <3>1 DEF VisitInv
    <3>3. exps[e] = "running" => Arms(e) # {}
      BY <1>1, <2>2 DEF SplitHolds, Running
    <3> QED
      BY <1>3, <1>6, <2>2, <2>3, <3>1, <3>2, <3>3
  <2>4. CASE t # s
    BY <1>1, <1>6, <2>1, <2>2, <2>4 DEF VisitInv
  <2> QED
    BY <2>3, <2>4
<1>8. CountInv'
  BY <1>1, <1>4, VisitSame DEF CountInv, VisitChange, rows
<1> QED
  BY <1>5, <1>7, <1>8

LEMMA ServeOK ==
  ASSUME IInv, NEW s \in Visitors, Serve(s)
  PROVE  /\ Good /\ VisitInv' /\ CountInv'
         /\ \A t \in Visitors, e \in Experiments \ stale' :
              counted[t][e] # 0 => counted'[t][e] = counted[t][e]
<1>1. TypeOK /\ VisitInv /\ CountInv /\ GoneInv
  BY DEF IInv
<1>2. 0 \in 0 .. MaxVersions /\ Away \in Views
  BY ParametersAssumption DEF Away, Views
<1>3. VisitChange(s, Away) /\ visits' = visits /\ vis[s].pc = "experiment"
  BY <1>2 DEF Serve, Admin, VisitChange, history
<1>4. /\ \A t \in Visitors, e \in Experiments :
           ~ (t = s /\ vis[s].exp = e /\ e \in Running) => counted'[t][e] = counted[t][e]
      /\ \A e \in Experiments :
           vis[s].exp = e /\ e \in Running => counted'[s][e] = vis[s].arm
      /\ counted' \in [Visitors -> [Experiments -> 0 .. MaxVersions]]
  <2>1. vis[s].arm \in 0 .. MaxVersions
    BY <1>1 DEF TypeOK
  <2>2. CASE vis[s].exp \in Running
    <3>1. counted' = [counted EXCEPT ![s][vis[s].exp] = vis[s].arm]
      BY <2>2 DEF Serve
    <3>2. vis[s].exp \in Experiments
      BY <2>2 DEF Running
    <3> QED
      BY <1>1, <2>1, <2>2, <3>1, <3>2 DEF TypeOK
  <2>3. CASE vis[s].exp \notin Running
    BY <1>1, <2>3 DEF Serve, TypeOK
  <2> QED
    BY <2>2, <2>3
<1>5. Good
  BY <1>1, <1>3, <1>4, VisitGood DEF TypeOK
<1>6. vis'[s] = Away /\ \A t \in Visitors : t # s => vis'[t] = vis[t]
  BY <1>1, <1>3 DEF TypeOK, VisitChange
<1>7. /\ UNCHANGED <<article, exps, stale, doubled>>
      /\ \A t \in Visitors, e \in Experiments : Choice(t, e)' = Choice(t, e)
  BY <1>1, <1>3, VisitSame DEF VisitChange, rows
<1>8. VisitInv'
  BY <1>1, <1>6, <1>7, ParametersAssumption DEF VisitInv, Away
<1>9. ASSUME NEW e \in Experiments \ stale, vis[s].exp = e, e \in Running
      PROVE  /\ exps[e] = "running" /\ article # "deleted"
             /\ counted'[s][e] = Choice(s, e)
             /\ counted[s][e] # 0 => counted[s][e] = Choice(s, e)
  <2>1. exps[e] = "running" /\ article # "deleted"
    BY <1>1, <1>9 DEF Running, GoneInv
  <2>2. vis[s].arm = Choice(s, e)
    BY <1>1, <1>3, <1>9, <2>1 DEF VisitInv
  <2>3. counted[s][e] # 0 => counted[s][e] = Choice(s, e)
    BY <1>1, <1>9, <2>1 DEF CountInv
  <2> QED
    BY <1>4, <1>9, <2>1, <2>2, <2>3
<1>10. CountInv'
  <2>1. SUFFICES ASSUME article' # "deleted", NEW t \in Visitors, NEW e \in Experiments \ stale'
                 PROVE  /\ exps'[e] \in {"none", "draft"} => counted'[t][e] = 0
                        /\ exps'[e] = "running" /\ counted'[t][e] # 0 =>
                             counted'[t][e] = Choice(t, e)'
    BY DEF CountInv
  <2>2. CASE t = s /\ vis[s].exp = e /\ e \in Running
    BY <1>7, <1>9, <2>1, <2>2
  <2>3. CASE ~ (t = s /\ vis[s].exp = e /\ e \in Running)
    <3>1. counted'[t][e] = counted[t][e]
      BY <1>4, <2>3
    <3> QED
      BY <1>1, <1>7, <2>1, <3>1 DEF CountInv
  <2> QED
    BY <2>2, <2>3
<1>11. ASSUME NEW t \in Visitors, NEW e \in Experiments \ stale', counted[t][e] # 0
       PROVE  counted'[t][e] = counted[t][e]
  <2>1. CASE t = s /\ vis[s].exp = e /\ e \in Running
    BY <1>7, <1>9, <1>11, <2>1
  <2>2. CASE ~ (t = s /\ vis[s].exp = e /\ e \in Running)
    BY <1>4, <2>2
  <2> QED
    BY <2>1, <2>2
<1> QED
  BY <1>5, <1>8, <1>10, <1>11

-----------------------------------------------------------------------------
(* The theorems                                                            *)

LEMMA StepOK ==
  ASSUME IInv, [Next]_vars
  PROVE  /\ IInv' /\ Good
         /\ \A s \in Visitors, e \in Experiments \ stale' :
              counted[s][e] # 0 => counted'[s][e] = counted[s][e]
<1> DEFINE Counts == \A s \in Visitors, e \in Experiments \ stale' :
                       counted[s][e] # 0 => counted'[s][e] = counted[s][e]
<1>0. TypeOK /\ SplitHolds /\ VisitInv /\ CountInv
  BY DEF IInv
<1>1. ASSUME Good, UNCHANGED <<vis, bucket, counted>>
      PROVE  Good /\ VisitInv' /\ CountInv' /\ Counts
  BY <1>0, <1>1, VisitorsKept DEF Good
<1>2. Good /\ VisitInv' /\ CountInv' /\ Counts
  <2>1. CASE UNCHANGED vars
    <3>1. UNCHANGED <<rows, adm, stale, doubled, vis, bucket, counted, visits, ops>>
      BY <2>1 DEF vars, public, history
    <3>2. TypeOK'
      BY <1>0, <3>1 DEF TypeOK, rows
    <3> QED
      BY <1>1, <3>1, <3>2, RestGood
  <2>2. ASSUME NEW a \in Admins, Reading(a) PROVE Good /\ VisitInv' /\ CountInv' /\ Counts
    BY <1>1, <2>2, ReadingIs, ReadingGood
  <2>3. ASSUME NEW a \in Admins,
               \/ CreateBatch(a) \/ StartBatch(a) \/ StopBatch(a) \/ ForkBatch(a)
               \/ SaveBatch(a) \/ NewRevision(a) \/ PublishWrite(a) \/ Patch(a) \/ Delete(a)
        PROVE  Good /\ VisitInv' /\ CountInv' /\ Counts
    <3>1. Good
      BY <2>3, CreateGood, StartGood, StopGood, ForkGood, SaveGood, RevisionGood, PublishGood,
         PatchGood, DeleteGood
    <3>2. UNCHANGED <<vis, bucket, counted>>
      BY <2>3 DEF CreateBatch, StartBatch, StopBatch, ForkBatch, SaveBatch, NewRevision,
                  PublishWrite, Patch, Delete, public
    <3> QED
      BY <1>1, <3>1, <3>2
  <2>4. ASSUME NEW s \in Visitors, Arrive(s) \/ LoadVersions(s)
        PROVE  Good /\ VisitInv' /\ CountInv' /\ Counts
    <3>1. counted' = counted
      BY <2>4 DEF Arrive, LoadVersions
    <3> QED
      BY <2>4, <3>1, ArriveOK, LoadOK
  <2>5. ASSUME NEW s \in Visitors, Serve(s)
        PROVE  Good /\ VisitInv' /\ CountInv' /\ Counts
    BY <2>5, ServeOK
  <2> QED
    BY <2>1, <2>2, <2>3, <2>4, <2>5, NextCases
<1>3. SplitHolds'
  BY <1>0, <1>2, SplitStep DEF Good
<1> QED
  BY <1>2, <1>3 DEF Good, IInv

(* The invariant is inductive.                                             *)
THEOREM Inductive == Spec => []IInv
<1>1. Init => IInv
  BY InitOK
<1>2. IInv /\ [Next]_vars => IInv'
  BY StepOK
<1> QED
  BY <1>1, <1>2, PTL DEF Spec

(* Every variable keeps its type.                                          *)
THEOREM TypeCorrect == Spec => []TypeOK
<1>1. IInv => TypeOK
  BY DEF IInv
<1> QED
  BY <1>1, Inductive, PTL

(* However starts, stops, creations and deletions overlap, the article     *)
(* points at its running experiment, and at most one runs.                 *)
THEOREM PointerAlwaysAgrees == Spec => []PointerAgrees
<1>1. IInv => PointerAgrees
  <2>1. SUFFICES ASSUME IInv PROVE PointerAgrees
    OBVIOUS
  <2>2. PointerInv
    BY <2>1 DEF IInv
  <2>3. Running \subseteq {active}
    BY <2>2 DEF PointerInv, Running
  <2>4. IsFiniteSet({active}) /\ Cardinality({active}) = 1
    BY FS_Singleton
  <2>5. Cardinality(Running) <= 1
    BY <2>3, <2>4, FS_Subset
  <2> QED
    BY <2>2, <2>5 DEF PointerAgrees, PointerInv
<1> QED
  BY <1>1, Inductive, PTL

(* A running experiment that no overtaken check has hit gives away the     *)
(* whole traffic and has one control version, and it is short of that, but *)
(* never over, where its creation named a version twice.                   *)
THEOREM TrafficIsWhole == Spec => []SplitHolds
<1>1. IInv => SplitHolds
  BY DEF IInv
<1> QED
  BY <1>1, Inductive, PTL

(* The arms, shares and contents of a running experiment stay what they    *)
(* were and a stopped experiment stays stopped, for every experiment that  *)
(* no overtaken check has hit.                                             *)
THEOREM RunningIsLocked == Spec => Locked
<1>1. IInv /\ [Next]_vars =>
        [\A e \in Experiments \ stale' :
           /\ exps[e] = "running" /\ exps'[e] = "running" =>
                /\ Arms(e)' = Arms(e)
                /\ \A v \in Arms(e) :
                     \/ ver'[v] = ver[v]
                     \/ ops' = ops + 1 /\ ver'[v] = [ver[v] EXCEPT !.body = ver'[v].body]
           /\ exps[e] = "stopped" => exps'[e] \in {"stopped", "none"}]_vars
  BY StepOK DEF Good, Steady, Keeps
<1> QED
  BY <1>1, Inductive, PTL DEF Spec, Locked

(* A visitor is counted for one version of an experiment for as long as he *)
(* comes back, for every experiment that no overtaken check has hit.       *)
THEOREM VisitorsStick == Spec => Sticky
<1>1. IInv /\ [Next]_vars =>
        [\A s \in Visitors, e \in Experiments \ stale' :
           counted[s][e] # 0 => counted'[s][e] = counted[s][e]]_vars
  BY StepOK
<1> QED
  BY <1>1, Inductive, PTL DEF Spec, Sticky
=============================================================================
