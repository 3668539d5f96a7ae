------------------------ MODULE FunnelVariants_proofs ------------------------
(***************************************************************************)
(* Proofs about FunnelVariants, for any number of requests, sessions,      *)
(* tests and variants: at most one test runs, and every test that was not  *)
(* hit by an overtaken check gives away all of the traffic, has its arms   *)
(* frozen under a revision, and gives a session another variant only if it *)
(* stopped or moved on between the session's two reads.                    *)
(***************************************************************************)
EXTENDS FunnelVariants, FiniteSetTheorems, WellFoundedInduction, TLAPS

-----------------------------------------------------------------------------
(* The sum of two shares.  The sum of a set is a fold, a recursive function *)
(* on its subsets; for two elements that function can be written down.     *)

Some(s) == CHOOSE y \in s : TRUE
Body(alloc, it, s) == IF s = {} THEN 0 ELSE alloc[Some(s)].share + it[s \ {Some(s)}]
Sums(alloc, S, it) == it = [s \in SUBSET S |-> Body(alloc, it, s)]

LEMMA TotalIs ==
  ASSUME NEW alloc, NEW S
  PROVE  \E it : it = (CHOOSE f : Sums(alloc, S, f)) /\ Total(alloc, S) = it[S]
BY Zenon DEF Total, MapThenSumSet, MapThenFoldSet, Sums, Body, Some

LEMMA SomeIn ==
  ASSUME NEW s, s # {}
  PROVE  Some(s) \in s
BY DEF Some

LEMMA SumsWhen ==
  ASSUME NEW alloc, NEW S, NEW g, g = [s \in SUBSET S |-> g[s]],
         \A s \in SUBSET S : g[s] = Body(alloc, g, s)
  PROVE  Sums(alloc, S, g)
<1>1. [s \in SUBSET S |-> g[s]] = [s \in SUBSET S |-> Body(alloc, g, s)]
  OBVIOUS
<1> QED
  BY <1>1 DEF Sums

LEMMA TotalOfTwo ==
  ASSUME NEW alloc, NEW x, NEW y, x # y, alloc[x].share \in Nat, alloc[y].share \in Nat
  PROVE  Total(alloc, {x, y}) = alloc[x].share + alloc[y].share
<1> DEFINE S == {x, y}
           p == alloc[x].share
           q == alloc[y].share
<1>0. PICK g : g = [s \in SUBSET S |-> IF s = {} THEN 0 ELSE IF s = {x} THEN p
                                       ELSE IF s = {y} THEN q ELSE p + q]
  OBVIOUS
<1>1. \A s \in SUBSET S : s = {} \/ s = {x} \/ s = {y} \/ s = S
  OBVIOUS
<1>2. ASSUME NEW it, it[{}] = 0, it[{x}] = p, it[{y}] = q
      PROVE  /\ Body(alloc, it, {}) = 0
             /\ Body(alloc, it, {x}) = p
             /\ Body(alloc, it, {y}) = q
             /\ Body(alloc, it, S) = p + q
  <2>1. Some({x}) = x /\ Some({y}) = y /\ Some(S) \in S
    BY SomeIn
  <2>2. {x} \ {x} = {} /\ {y} \ {y} = {} /\ S \ {x} = {y} /\ S \ {y} = {x}
    OBVIOUS
  <2>3. Body(alloc, it, S) = p + q
    <3>1. CASE Some(S) = x
      <4>1. Body(alloc, it, S) = p + it[S \ {x}]
        BY <3>1 DEF Body
      <4> QED
        BY <1>2, <2>2, <4>1
    <3>2. CASE Some(S) = y
      <4>1. Body(alloc, it, S) = q + it[S \ {y}]
        BY <3>2 DEF Body
      <4>2. it[S \ {y}] = p
        BY <1>2, <2>2
      <4>3. q + p = p + q
        OBVIOUS
      <4> QED
        BY <4>1, <4>2, <4>3
    <3> QED
      BY <2>1, <3>1, <3>2
  <2>4. p + 0 = p /\ q + 0 = q
    OBVIOUS
  <2>5. Body(alloc, it, {x}) = p /\ Body(alloc, it, {y}) = q
    BY <1>2, <2>1, <2>2, <2>4 DEF Body
  <2> QED
    BY <2>3, <2>5 DEF Body
<1>3. g[{}] = 0 /\ g[{x}] = p /\ g[{y}] = q /\ g[S] = p + q
  BY <1>0
<1>4. \E it : Sums(alloc, S, it)
  <2>1. \A s \in SUBSET S : g[s] = Body(alloc, g, s)
    <3>1. g[{}] = Body(alloc, g, {}) /\ g[{x}] = Body(alloc, g, {x})
          /\ g[{y}] = Body(alloc, g, {y}) /\ g[S] = Body(alloc, g, S)
      <4> HIDE DEF S, p, q
      <4> QED
        BY <1>2, <1>3
    <3> QED
      <4> HIDE DEF S
      <4> QED
        BY <1>1, <3>1
  <2>2. g = [s \in SUBSET S |-> g[s]]
    BY <1>0
  <2>3. Sums(alloc, S, g)
    <3> HIDE DEF S
    <3> QED
      BY <2>1, <2>2, SumsWhen
  <2> QED
    BY <2>3
<1>5. PICK it : Sums(alloc, S, it) /\ Total(alloc, S) = it[S]
  BY <1>4, TotalIs
<1>6. \A s \in SUBSET S : it[s] = Body(alloc, it, s)
  BY <1>5 DEF Sums
<1>7. it[{}] = 0
  BY <1>6 DEF Body
<1>8. it[{x}] = p /\ it[{y}] = q
  <2>1. Some({x}) = x /\ Some({y}) = y
    BY SomeIn
  <2>2. {x} \ {x} = {} /\ {y} \ {y} = {} /\ p + 0 = p /\ q + 0 = q
    OBVIOUS
  <2> QED
    BY <1>6, <1>7, <2>1, <2>2 DEF Body
<1>9. it[S] = p + q
  BY <1>2, <1>6, <1>7, <1>8
<1> QED
  BY <1>5, <1>9

-----------------------------------------------------------------------------
(* The pick                                                                *)

Below == {p \in Nat \X Nat : p[1] < p[2]}

LEMMA BelowWellFounded == IsWellFoundedOn(Below, Nat)
BY NatLessThanWellFounded DEF OpToRel, Below, IsWellFoundedOn

LEMMA Least ==
  ASSUME NEW S \in SUBSET Nat, S # {}
  PROVE  \E x \in S : \A y \in S : x <= y
<1>1. PICK x \in S : \A y \in S : ~ (<<y, x>> \in Below)
  BY BelowWellFounded, WFMin
<1>2. ASSUME NEW y \in S PROVE x <= y
  <2>1. x \in Nat /\ y \in Nat /\ ~ (y < x)
    BY <1>1 DEF Below
  <2> QED
    BY <2>1
<1> QED
  BY <1>2

LEMMA Greatest ==
  ASSUME NEW n \in Nat, NEW S \in SUBSET (0 .. n), S # {}
  PROVE  \E x \in S : \A y \in S : y <= x
<1> DEFINE T == {n - x : x \in S}
<1>1. \A x \in S : x \in Nat /\ n - x \in Nat
  OBVIOUS
<1>2. T \in SUBSET Nat /\ T # {}
  <2>1. \E x \in S : n - x \in T
    OBVIOUS
  <2>2. T \in SUBSET Nat
    BY <1>1
  <2> QED
    BY <2>1, <2>2
<1>3. PICK t \in T : \A u \in T : t <= u
  BY <1>2, Least
<1>4. PICK x \in S : t = n - x
  OBVIOUS
<1>5. ASSUME NEW y \in S PROVE y <= x
  <2>1. n - x <= n - y
    BY <1>3, <1>4
  <2> QED
    BY <1>1, <2>1
<1> QED
  BY <1>5

(* The order the arms are picked in: by label, ties by id.                 *)
Before(alloc, w, v) ==
  alloc[w].label < alloc[v].label \/ (alloc[w].label = alloc[v].label /\ w <= v)

Labelled(alloc, ws) ==
  ws \in SUBSET (0 .. MaxVariants) /\ \A v \in ws : alloc[v].label \in 0 .. MaxVariants

LEMMA FirstExists ==
  ASSUME NEW alloc, NEW ws, Labelled(alloc, ws), ws # {}
  PROVE  \E v \in ws : \A w \in ws : Before(alloc, v, w)
<1> DEFINE labels == {alloc[v].label : v \in ws}
<1>1. MaxVariants \in Nat /\ \A v \in ws : v \in Nat /\ alloc[v].label \in Nat
  BY ParametersAssumption DEF Labelled
<1>2. labels \in SUBSET Nat /\ labels # {}
  BY <1>1
<1>3. PICK l \in labels : \A k \in labels : l <= k
  BY <1>2, Least
<1> DEFINE least == {v \in ws : alloc[v].label = l}
<1>4. least \in SUBSET Nat /\ least # {}
  BY <1>1, <1>3
<1>5. PICK v \in least : \A w \in least : v <= w
  BY <1>4, Least
<1>6. ASSUME NEW w \in ws PROVE Before(alloc, v, w)
  <2>1. l <= alloc[w].label /\ l \in Nat /\ alloc[w].label \in Nat /\ alloc[v].label = l
    BY <1>1, <1>3, <1>5
  <2>2. CASE alloc[w].label = l
    BY <1>5, <2>1, <2>2 DEF Before
  <2>3. CASE alloc[w].label # l
    BY <2>1, <2>3 DEF Before
  <2> QED
    BY <2>2, <2>3
<1> QED
  BY <1>5, <1>6

LEMMA LastExists ==
  ASSUME NEW alloc, NEW ws, Labelled(alloc, ws), ws # {}
  PROVE  \E v \in ws : \A w \in ws : Before(alloc, w, v)
<1> DEFINE labels == {alloc[v].label : v \in ws}
<1>1. MaxVariants \in Nat /\ \A v \in ws : v \in Nat /\ alloc[v].label \in Nat
  BY ParametersAssumption DEF Labelled
<1>2. labels \in SUBSET (0 .. MaxVariants) /\ labels # {}
  BY <1>1 DEF Labelled
<1>3. PICK l \in labels : \A k \in labels : k <= l
  BY <1>1, <1>2, Greatest
<1> DEFINE last == {v \in ws : alloc[v].label = l}
<1>4. last \in SUBSET (0 .. MaxVariants) /\ last # {}
  BY <1>1, <1>3 DEF Labelled
<1>5. PICK v \in last : \A w \in last : w <= v
  BY <1>1, <1>4, Greatest
<1>6. ASSUME NEW w \in ws PROVE Before(alloc, w, v)
  <2>1. alloc[w].label <= l /\ l \in Nat /\ alloc[w].label \in Nat /\ alloc[v].label = l
    BY <1>1, <1>3, <1>5
  <2>2. CASE alloc[w].label = l
    BY <1>5, <2>1, <2>2 DEF Before
  <2>3. CASE alloc[w].label # l
    BY <2>1, <2>3 DEF Before
  <2> QED
    BY <2>2, <2>3
<1> QED
  BY <1>5, <1>6

(* pickVariantByBucket answers with one of the arms.                       *)
LEMMA PickIn ==
  ASSUME NEW b, NEW alloc, Labelled(alloc, DOMAIN alloc), DOMAIN alloc # {}
  PROVE  Pick(b, alloc) \in DOMAIN alloc
<1> DEFINE vs == DOMAIN alloc
           upTo(v) == {w \in vs : \/ alloc[w].label < alloc[v].label
                                  \/ alloc[w].label = alloc[v].label /\ w <= v}
           past == {v \in vs : Total(alloc, upTo(v)) > b}
           first(ws) == CHOOSE v \in ws : ws \cap upTo(v) = {v}
           last(ws) == CHOOSE v \in ws : ws \subseteq upTo(v)
<1>1. Pick(b, alloc) = IF past = {} THEN last(vs) ELSE first(past)
  BY DEF Pick
<1>2. \A v, w \in vs : w \in upTo(v) <=> Before(alloc, w, v)
  BY DEF Before
<1>3. past \in SUBSET vs
  OBVIOUS
<1>4. last(vs) \in vs
  <2>1. \E v \in vs : vs \subseteq upTo(v)
    BY <1>2, LastExists
  <2> QED
    BY <2>1
<1>5. ASSUME past # {} PROVE first(past) \in past
  <2>1. Labelled(alloc, past)
    BY <1>3 DEF Labelled
  <2>2. PICK v \in past : \A w \in past : Before(alloc, v, w)
    BY <1>5, <2>1, FirstExists
  <2>3. past \cap upTo(v) = {v}
    <3>1. ASSUME NEW w \in past, Before(alloc, w, v) PROVE w = v
      <4>1. Before(alloc, v, w)
        BY <2>2
      <4>2. /\ w \in Nat /\ v \in Nat /\ alloc[w].label \in Nat /\ alloc[v].label \in Nat
        BY <2>1, ParametersAssumption DEF Labelled
      <4> QED
        BY <3>1, <4>1, <4>2 DEF Before
    <3>2. Before(alloc, v, v)
      BY <2>2
    <3> HIDE DEF past, upTo
    <3> QED
      BY <1>2, <1>3, <3>1, <3>2
  <2>4. \E x \in past : past \cap upTo(x) = {x}
    BY <2>3
  <2> HIDE DEF past, upTo
  <2> QED
    BY <2>4
<1>6. CASE past = {}
  <2>1. Pick(b, alloc) = last(vs)
    BY <1>1, <1>6
  <2> QED
    BY <1>4, <2>1
<1>7. CASE past # {}
  <2>1. Pick(b, alloc) = first(past)
    BY <1>1, <1>7
  <2>2. first(past) \in past
    BY <1>5, <1>7
  <2> QED
    BY <1>3, <2>1, <2>2
<1> QED
  BY <1>6, <1>7

-----------------------------------------------------------------------------
(* The inductive invariant                                                 *)

Points == {"idle", "existing", "add", "test", "arms", "fork", "put",
           "frozen", "siblings", "delete", "other", "sum", "start"}
Locals ==
  [pc : Points, var : Ids, label : Labels, share : 0 .. Whole,
   todo : SUBSET {"label", "share"}, arms : SUBSET Ids,
   test : Tests \cup {None}, held : BOOLEAN]
Variants == [active : BOOLEAN, label : Labels, share : 0 .. Whole]
Entries == [pc : {"away", "arms"}, test : Tests \cup {None}, revision : Revisions]

(* What a request has found, and what it then knows.                       *)
Knows(l) ==
  /\ l.pc \in {"add", "fork", "delete", "start"} => l.held
  /\ l.pc = "put" /\ l.todo = {} => l.held
  /\ l.pc \in {"other", "sum", "start"} => l.test \in Tests
  /\ l.pc = "fork" =>
       l.arms = {} \/ (l.test \in Tests /\ \E v \in Ids : l.arms = {v})

AllKnow == \A a \in Admins : Knows(adm[a])

OneRuns == \A t, u \in Running : t = u

WholeInv == \A t \in Running \ stale : Adds(Allocation)

(* The arm that a session is given under a revision.                       *)
Chosen(t, r, s) == Pick(Bucket(t, r, s), Allocation)

(* A session between its two reads, and what sessions were counted for,    *)
(* belong to revisions that there have been.                               *)
Reached(t, r) == t \in Tests /\ test[t].status # "none" /\ r <= test[t].revision

Entered == \A s \in Sessions : ses[s].pc = "arms" => Reached(ses[s].test, ses[s].revision)

CountInv ==
  \A s \in Sessions, t \in Tests, r \in Revisions :
    counted[s][t][r] # 0 =>
      /\ Reached(t, r)
      /\ t \in Running \ stale /\ r = test[t].revision => counted[s][t][r] = Chosen(t, r, s)

IInv == TypeOK /\ AllKnow /\ OneRuns /\ WholeInv /\ Entered /\ CountInv

-----------------------------------------------------------------------------
(* The step relation                                                       *)

Reading(a) ==
  \/ Add(a) \/ AddExisting(a) \/ Fork(a) \/ ForkTest(a) \/ ForkArms(a)
  \/ Put(a) \/ PutLabel(a) \/ PutShare(a)
  \/ Delete(a) \/ DeleteFrozen(a) \/ DeleteSiblings(a)
  \/ Start(a) \/ StartOther(a) \/ StartSum(a) \/ Refuse(a)

LEMMA NextCases ==
  ASSUME Next
  PROVE  \/ \E a \in Admins :
              \/ Reading(a)
              \/ AddWrite(a) \/ ForkBatch(a) \/ PutBatch(a) \/ DeleteBatch(a)
              \/ Create(a) \/ StartWrite(a) \/ Stop(a)
         \/ \E s \in Sessions : Enter(s) \/ Assign(s)
BY DEF Next, AdminStep, Reading

LEMMA Halves ==
  /\ Whole \div 2 \in 0 .. Whole /\ Whole - Whole \div 2 \in 0 .. Whole
  /\ (Whole - Whole \div 2) + Whole \div 2 = Whole
BY ParametersAssumption

LEMMA InitOK == Init => IInv
<1> SUFFICES ASSUME Init PROVE IInv
  OBVIOUS
<1>1. /\ {1, 2} \subseteq Ids /\ {1, 2} \subseteq Labels /\ 1 \in Revisions
      /\ {0, 1, 2} \subseteq 0 .. MaxVariants /\ {0, Whole} \subseteq 0 .. Whole
      /\ 0 \in 0 .. MaxOps /\ 0 \in 0 .. MaxVisits
  BY ParametersAssumption DEF Ids, Labels, Revisions
<1>2. var \in [Ids -> Variants] /\ made \in 0 .. MaxVariants
  <2>1. CASE made = 1 /\ var = [v \in Ids |-> [active |-> v = 1, label |-> 1, share |-> Whole]]
    BY <1>1, <2>1 DEF Variants
  <2>2. CASE /\ made = 2
             /\ var = [v \in Ids |->
                         [active |-> v <= 2, label |-> IF v = 2 THEN 2 ELSE 1,
                          share |-> IF v = 2 THEN Whole \div 2 ELSE Whole - Whole \div 2]]
    BY <1>1, <2>2, Halves DEF Variants
  <2> QED
    BY <2>1, <2>2 DEF Init
<1>3. /\ test \in [Tests -> [status : {"none", "draft", "running", "stopped"},
                             revision : Revisions]]
      /\ Running = {}
  <2>1. CASE test = [t \in Tests |-> [status |-> "none", revision |-> 1]]
    BY <1>1, <2>1 DEF Running
  <2>2. ASSUME NEW t \in Tests, MaxRevision > 2,
               test = [u \in Tests |-> IF u = t THEN [status |-> "stopped", revision |-> 3]
                                       ELSE [status |-> "none", revision |-> 1]]
        PROVE  /\ test \in [Tests -> [status : {"none", "draft", "running", "stopped"},
                                      revision : Revisions]]
               /\ Running = {}
    <3>1. 3 \in Revisions
      BY <2>2, ParametersAssumption DEF Revisions
    <3> QED
      BY <1>1, <2>2, <3>1 DEF Running
  <2> QED
    BY <2>1, <2>2 DEF Init
<1>4. adm \in [Admins -> Locals] /\ AllKnow
  BY <1>1 DEF Init, Idle, Locals, Points, AllKnow, Knows
<1>5. ses \in [Sessions -> Entries]
  BY <1>1 DEF Init, Away, Entries
<1>6. /\ counted \in [Sessions -> [Tests -> [Revisions -> 0 .. MaxVariants]]]
      /\ \A s \in Sessions, t \in Tests, r \in Revisions : counted[s][t][r] = 0
  BY <1>1 DEF Init
<1>7. TypeOK
  BY <1>1, <1>2, <1>3, <1>4, <1>5, <1>6 DEF Init, TypeOK, Variants, Locals, Points, Entries
<1>8. OneRuns /\ WholeInv
  BY <1>3 DEF OneRuns, WholeInv
<1>9. Entered
  BY DEF Init, Entered, Away
<1>10. CountInv
  BY <1>6 DEF CountInv
<1> QED
  BY <1>4, <1>7, <1>8, <1>9, <1>10 DEF IInv

LEMMA GotoIs ==
  ASSUME TypeOK, NEW a \in Admins, NEW l \in Locals, adm' = [adm EXCEPT ![a] = l]
  PROVE  adm' \in [Admins -> Locals] /\ (AllKnow /\ Knows(l) => AllKnow')
BY DEF TypeOK, Locals, Points, AllKnow

LEMMA IdleIs == Idle \in Locals /\ Knows(Idle)
BY ParametersAssumption DEF Idle, Locals, Points, Knows, Ids, Labels

LEMMA LeaveIs ==
  ASSUME IInv, NEW a \in Admins, Leave(a)
  PROVE  adm' \in [Admins -> Locals] /\ AllKnow'
BY IdleIs, GotoIs DEF Leave, IInv

LEMMA MoreOps ==
  ASSUME TypeOK, NEW a, Begin(a)
  PROVE  ops' \in 0 .. MaxOps
BY ParametersAssumption DEF TypeOK, Begin

LEMMA ActiveIn ==
  ASSUME TypeOK
  PROVE  Active \in SUBSET Ids /\ Ids \in SUBSET (0 .. MaxVariants) /\ IsFiniteSet(Active)
<1>1. Active \in SUBSET Ids /\ Ids \in SUBSET (0 .. MaxVariants)
  BY ParametersAssumption DEF TypeOK, Active, Ids
<1>2. IsFiniteSet(Ids)
  BY FS_Interval, ParametersAssumption DEF Ids
<1> QED
  BY <1>1, <1>2, FS_Subset

LEMMA OneElement ==
  ASSUME NEW S, IsFiniteSet(S), Cardinality(S) = 1
  PROVE  \E x : S = {x}
<1>1. S # {}
  BY FS_EmptySet
<1>2. PICK x : x \in S
  BY <1>1
<1>3. IsFiniteSet(S \ {x}) /\ Cardinality(S \ {x}) = Cardinality(S) - 1
  BY <1>2, FS_RemoveElement
<1>4. S \ {x} = {}
  BY <1>3, FS_EmptySet
<1> QED
  BY <1>2, <1>4

LEMMA ReadingIs ==
  ASSUME IInv, NEW a \in Admins, Reading(a)
  PROVE  /\ UNCHANGED <<made, var, test, ses, counted, visits, stale>>
         /\ ops' \in 0 .. MaxOps
         /\ adm' \in [Admins -> Locals] /\ AllKnow'
<1>0. TypeOK /\ Knows(adm[a]) /\ adm[a] \in Locals /\ None \notin Tests
  BY ParametersAssumption DEF IInv, AllKnow, TypeOK, Locals, Points
<1>1. UNCHANGED <<made, var, test, ses, counted, visits, stale>>
  BY DEF Reading, Add, AddExisting, Fork, ForkTest, ForkArms, Put, PutLabel, PutShare, Delete,
         DeleteFrozen, DeleteSiblings, Start, StartOther, StartSum, Refuse, Step, Reads, rows,
         arms, public
<1>2. ops' \in 0 .. MaxOps
  BY <1>0, MoreOps
     DEF Reading, Add, AddExisting, Fork, ForkTest, ForkArms, Put, PutLabel, PutShare, Delete,
         DeleteFrozen, DeleteSiblings, Start, StartOther, StartSum, Refuse, Step, TypeOK
<1> DEFINE Result == adm' \in [Admins -> Locals] /\ AllKnow'
<1>3. ASSUME NEW l \in Locals, Goto(a, l), Knows(l) PROVE Result
  BY <1>0, <1>3, GotoIs DEF Goto, IInv
<1>4. ASSUME Leave(a) PROVE Result
  BY <1>4, LeaveIs
<1> SUFFICES Result
  BY <1>1, <1>2
<1> HIDE DEF Result
<1>5. /\ 1 \in Ids /\ 1 \in Labels /\ 2 \in Labels /\ 0 \in 0 .. Whole
      /\ Active \in SUBSET Ids /\ \A v \in Active : var[v] \in Variants
  <2>1. 1 \in Ids /\ 1 \in Labels /\ 2 \in Labels /\ 0 \in 0 .. Whole
    BY ParametersAssumption DEF Ids, Labels
  <2>2. Active \in SUBSET Ids /\ var \in [Ids -> Variants]
    BY <1>0, ActiveIn DEF TypeOK, Variants
  <2> QED
    BY <2>1, <2>2
<1>6. CASE Add(a)
  BY <1>6, <1>3, <1>5 DEF Add, Idle, Locals, Points, Knows
<1>7. CASE AddExisting(a)
  BY <1>0, <1>7, <1>3, <1>4 DEF AddExisting, Locals, Points, Knows
<1>8. CASE Fork(a)
  <2>1. PICK v \in Active :
          Goto(a, [Idle EXCEPT !.pc = "test", !.var = v, !.share = var[v].share])
    BY <1>8 DEF Fork
  <2>2. v \in Ids /\ var[v].share \in 0 .. Whole
    BY <1>5 DEF Variants
  <2> QED
    BY <1>3, <1>5, <2>1, <2>2 DEF Idle, Locals, Points, Knows
<1>9. CASE ForkTest(a)
  <2>1. PICK t \in Tests \cup {None} : Goto(a, [adm[a] EXCEPT !.pc = "arms", !.test = t])
    BY <1>9 DEF ForkTest, Running
  <2> QED
    BY <1>0, <1>3, <2>1 DEF Locals, Points, Knows
<1>10. CASE ForkArms(a)
  <2>1. CASE Active = {} \/ (adm[a].test # None /\ Cardinality(Active) = 1)
    <3>1. PICK l : l = [adm[a] EXCEPT !.pc = "fork", !.arms = Active, !.held = TRUE,
                                      !.label = Cardinality(Active) + 1]
      OBVIOUS
    <3>2. Cardinality(Active) + 1 \in Labels
      <4>1. Cardinality(Active) \in {0, 1}
        BY <2>1, FS_EmptySet
      <4> QED
        BY <1>5, <4>1
    <3>3. Active = {} \/ (adm[a].test \in Tests /\ \E v \in Ids : Active = {v})
      BY <1>0, <1>5, <2>1, ActiveIn, OneElement DEF Locals
    <3>4. l \in Locals /\ l.pc = "fork" /\ l.arms = Active /\ l.held /\ l.test = adm[a].test
      BY <1>0, <1>5, <3>1, <3>2 DEF Locals, Points
    <3>5. Knows(l)
      BY <3>3, <3>4 DEF Knows
    <3> QED
      BY <1>10, <1>3, <2>1, <3>1, <3>4, <3>5 DEF ForkArms
  <2>2. CASE ~ (Active = {} \/ (adm[a].test # None /\ Cardinality(Active) = 1))
    BY <1>10, <1>4, <2>2 DEF ForkArms
  <2> QED
    BY <2>1, <2>2
<1>11. CASE Put(a)
  <2>1. PICK v \in Active, label \in Labels, share \in 0 .. Whole,
             todo \in SUBSET {"label", "share"} :
          Goto(a, [Idle EXCEPT !.pc = "put", !.var = v, !.label = label, !.share = share,
                               !.todo = todo, !.held = (todo = {})])
    BY <1>11 DEF Put
  <2> QED
    BY <1>3, <1>5, <2>1 DEF Idle, Locals, Points, Knows
<1>12. CASE PutLabel(a)
  BY <1>0, <1>12, <1>3, <1>4 DEF PutLabel, Locals, Points, Knows, Working
<1>13. CASE PutShare(a)
  BY <1>0, <1>13, <1>3, <1>4 DEF PutShare, Locals, Points, Knows, Working
<1>14. CASE Delete(a)
  <2>1. PICK v \in Active : Goto(a, [Idle EXCEPT !.pc = "frozen", !.var = v])
    BY <1>14 DEF Delete
  <2> QED
    BY <1>3, <1>5, <2>1 DEF Idle, Locals, Points, Knows
<1>15. CASE DeleteFrozen(a)
  BY <1>0, <1>15, <1>3, <1>4 DEF DeleteFrozen, Locals, Points, Knows
<1>16. CASE DeleteSiblings(a)
  BY <1>0, <1>16, <1>3, <1>4 DEF DeleteSiblings, Locals, Points, Knows
<1>17. CASE Start(a)
  <2>1. PICK t \in Tests : Goto(a, [Idle EXCEPT !.pc = "other", !.test = t])
    BY <1>17 DEF Start
  <2> QED
    BY <1>3, <1>5, <2>1 DEF Idle, Locals, Points, Knows
<1>18. CASE StartOther(a)
  BY <1>0, <1>18, <1>3, <1>4 DEF StartOther, Locals, Points, Knows, Working
<1>19. CASE StartSum(a)
  BY <1>0, <1>19, <1>3, <1>4 DEF StartSum, Locals, Points, Knows, Working
<1>20. CASE Refuse(a)
  BY <1>20, <1>4 DEF Refuse
<1> QED
  BY <1>6, <1>7, <1>8, <1>9, <1>10, <1>11, <1>12, <1>13, <1>14, <1>15, <1>16, <1>17, <1>18,
     <1>19, <1>20 DEF Reading

-----------------------------------------------------------------------------
(* What a step owes the tests                                              *)

(* Under a revision of a running test the arms are frozen.                 *)
FrozenStep ==
  \A t \in Tests \ stale' :
    /\ test[t].status = "running" /\ test'[t].status = "running"
    /\ test'[t].revision = test[t].revision
    => /\ Active' = Active
       /\ \A v \in Active : var'[v] = var[v]

(* A test never gets younger, and a start, the only way out of stale, is a *)
(* new revision.                                                           *)
Grows ==
  \A t \in Tests :
    /\ t \in stale \ stale' => test[t].revision < test'[t].revision
    /\ test[t].status # "none" =>
         /\ test'[t].status # "none"
         /\ test[t].revision <= test'[t].revision
         /\ test[t].status # "running" /\ test'[t].status = "running" =>
              test[t].revision < test'[t].revision

RowsGood == TypeOK' /\ AllKnow' /\ OneRuns' /\ WholeInv' /\ FrozenStep

LEMMA ReachedStays ==
  ASSUME IInv, TypeOK', Grows, NEW t \in Tests, NEW r \in Revisions, Reached(t, r)
  PROVE  Reached(t, r)'
<1>1. r \in Nat /\ test[t].revision \in Nat /\ test'[t].revision \in Nat
  BY DEF IInv, TypeOK, Revisions
<1>2. test[t].status # "none" /\ r <= test[t].revision
  BY DEF Reached
<1>3. test'[t].status # "none" /\ test[t].revision <= test'[t].revision
  BY <1>2 DEF Grows
<1> QED
  BY <1>1, <1>2, <1>3 DEF Reached

LEMMA EnteredKept ==
  ASSUME IInv, TypeOK', Grows, ses' = ses
  PROVE  Entered'
<1> SUFFICES ASSUME NEW s \in Sessions, ses[s].pc = "arms"
             PROVE  Reached(ses[s].test, ses[s].revision)'
  BY DEF Entered
<1>1. PICK t, r : t = ses[s].test /\ r = ses[s].revision
  OBVIOUS
<1>2. Reached(t, r) /\ t \in Tests /\ r \in Revisions
  BY <1>1 DEF IInv, Entered, Reached, TypeOK
<1>3. Reached(t, r)'
  BY <1>2, ReachedStays
<1>4. t = ses'[s].test /\ r = ses'[s].revision
  BY <1>1
<1> QED
  BY <1>3, <1>4 DEF Reached

LEMMA CountsKept ==
  ASSUME IInv, TypeOK', Grows, FrozenStep, counted' = counted
  PROVE  CountInv'
<1> SUFFICES ASSUME NEW s \in Sessions, NEW t \in Tests, NEW r \in Revisions,
                    counted[s][t][r] # 0
             PROVE  /\ Reached(t, r)'
                    /\ t \in Running' \ stale' /\ r = test'[t].revision =>
                         counted[s][t][r] = Chosen(t, r, s)'
  BY DEF CountInv
<1>1. /\ Reached(t, r)
      /\ t \in Running \ stale /\ r = test[t].revision => counted[s][t][r] = Chosen(t, r, s)
  BY DEF IInv, CountInv
<1>2. r \in Nat /\ test[t].revision \in Nat /\ test'[t].revision \in Nat
  BY DEF IInv, TypeOK, Revisions
<1>3. /\ test[t].status # "none" /\ r <= test[t].revision
      /\ test[t].revision <= test'[t].revision
      /\ t \in stale \ stale' => test[t].revision < test'[t].revision
      /\ test[t].status # "running" /\ test'[t].status = "running" =>
            test[t].revision < test'[t].revision
  BY <1>1 DEF Grows, Reached
<1>4. ASSUME t \in Running' \ stale', r = test'[t].revision
      PROVE  counted[s][t][r] = Chosen(t, r, s)'
  <2>1. test'[t].status = "running"
    BY <1>4 DEF Running
  <2>2. test[t].revision = r /\ test[t].status = "running" /\ t \notin stale
    BY <1>2, <1>3, <1>4, <2>1
  <2>3. Active' = Active /\ \A v \in Active : var'[v] = var[v]
    BY <1>4, <2>1, <2>2 DEF FrozenStep
  <2>4. Allocation' = Allocation
    BY <2>3 DEF Allocation
  <2>5. Chosen(t, r, s)' = Chosen(t, r, s)
    BY <2>4 DEF Chosen
  <2> QED
    BY <1>1, <2>2, <2>5 DEF Running
<1> QED
  BY <1>1, <1>4, ReachedStays

LEMMA SameTests ==
  ASSUME TypeOK, UNCHANGED test, stale \subseteq stale'
  PROVE  Grows
<1>1. \A t \in Tests : test[t].revision \in Nat
  BY DEF TypeOK, Revisions
<1> QED
  BY <1>1 DEF Grows

LEMMA SameRows ==
  ASSUME IInv, UNCHANGED <<made, var, test, stale>>
  PROVE  OneRuns' /\ WholeInv' /\ FrozenStep /\ Grows
<1>1. Active' = Active /\ Running' = Running
  BY DEF Active, Running
<1>2. Allocation' = Allocation
  BY <1>1 DEF Allocation
<1>3. OneRuns'
  BY <1>1 DEF IInv, OneRuns
<1>4. WholeInv'
  <2>1. Adds(Allocation)' <=> Adds(Allocation)
    BY <1>2 DEF Adds
  <2> QED
    BY <1>1, <2>1 DEF IInv, WholeInv
<1>5. FrozenStep
  BY <1>1 DEF FrozenStep
<1>6. Grows
  BY SameTests DEF IInv
<1> QED
  BY <1>3, <1>4, <1>5, <1>6

(* A step that writes nothing but the variants, and hits every running     *)
(* test that it changes something for.                                     *)
LEMMA QuietWrite ==
  ASSUME IInv, UNCHANGED <<test, counted>>, TypeOK', AllKnow', stale \subseteq stale',
         Running \subseteq stale' \/ UNCHANGED <<made, var>>
  PROVE  RowsGood /\ Grows
<1>1. Running' = Running
  BY DEF Running
<1>2. OneRuns' /\ Grows
  BY <1>1, SameTests DEF IInv, OneRuns
<1>3. CASE Running \subseteq stale'
  BY <1>1, <1>2, <1>3 DEF RowsGood, WholeInv, FrozenStep, Running
<1>4. CASE UNCHANGED <<made, var>>
  <2>1. Active' = Active
    BY <1>4 DEF Active
  <2>2. Allocation' = Allocation
    BY <1>4, <2>1 DEF Allocation
  <2>3. Adds(Allocation)' <=> Adds(Allocation)
    BY <2>2 DEF Adds
  <2>4. WholeInv'
    BY <1>1, <2>3 DEF WholeInv, IInv
  <2>5. FrozenStep
    BY <1>4, <2>1 DEF FrozenStep
  <2> QED
    BY <1>2, <2>4, <2>5 DEF RowsGood
<1> QED
  BY <1>3, <1>4

-----------------------------------------------------------------------------
(* The writes                                                              *)

LEMMA KnowsAt ==
  ASSUME IInv, NEW a \in Admins
  PROVE  TypeOK /\ Knows(adm[a]) /\ adm[a] \in Locals /\ var \in [Ids -> Variants]
BY DEF IInv, AllKnow, TypeOK, Locals, Points, Variants

LEMMA AddGood ==
  ASSUME IInv, NEW a \in Admins, AddWrite(a)
  PROVE  RowsGood /\ Grows
<1> DEFINE new == made + 1
<1>1. /\ made < MaxVariants /\ made' = new
      /\ var' = [var EXCEPT ![new] = [active |-> TRUE, label |-> adm[a].label,
                                      share |-> Whole]]
      /\ UNCHANGED <<test, ses, counted, visits, ops>>
      /\ Leave(a)
  BY DEF AddWrite, public
<1>2. TypeOK /\ adm[a].held /\ adm[a].label \in Labels /\ var \in [Ids -> Variants]
  BY KnowsAt DEF AddWrite, Working, Knows, Locals
<1>3. stale' = stale \cup Running
  BY <1>2 DEF AddWrite, Note
<1>4. adm' \in [Admins -> Locals] /\ AllKnow'
  BY <1>1, LeaveIs
<1>5. new \in Ids /\ new \in 0 .. MaxVariants
  BY <1>1, <1>2, ParametersAssumption DEF TypeOK, Ids
<1>6. var' \in [Ids -> Variants]
  <2>1. PICK row : row = [active |-> TRUE, label |-> adm[a].label, share |-> Whole]
    OBVIOUS
  <2>2. row \in Variants
    BY <1>2, <2>1, ParametersAssumption DEF Variants
  <2>3. var' = [var EXCEPT ![new] = row]
    BY <1>1, <2>1
  <2> QED
    BY <1>2, <1>5, <2>2, <2>3
<1>7. stale' \subseteq Tests
  BY <1>2, <1>3 DEF TypeOK, Running
<1>8. TypeOK'
  BY <1>1, <1>2, <1>4, <1>5, <1>6, <1>7 DEF TypeOK, Locals, Points, Variants
<1> QED
  BY <1>1, <1>3, <1>4, <1>8, QuietWrite

LEMMA PutGood ==
  ASSUME IInv, NEW a \in Admins, PutBatch(a)
  PROVE  RowsGood /\ Grows
<1>0. PICK v : v = adm[a].var
  OBVIOUS
<1>1. /\ UNCHANGED <<made, test, ses, counted, visits, ops>>
      /\ Leave(a)
  BY DEF PutBatch, public
<1>2. TypeOK /\ adm[a].held /\ v \in Ids /\ adm[a].label \in Labels /\ adm[a].share \in 0 .. Whole
      /\ var \in [Ids -> Variants]
  BY <1>0, KnowsAt DEF PutBatch, Working, Knows, Locals
<1>3. adm' \in [Admins -> Locals] /\ AllKnow'
  BY <1>1, LeaveIs
<1>4. PICK row : row = [var[v] EXCEPT !.label = adm[a].label, !.share = adm[a].share]
  OBVIOUS
<1>5. row \in Variants
  BY <1>2, <1>4 DEF Variants
<1>6. \/ UNCHANGED <<var, stale>>
      \/ /\ var' = [var EXCEPT ![v] = row]
         /\ stale' = stale \cup (IF row = var[v] THEN {} ELSE Running)
  BY <1>0, <1>2, <1>4 DEF PutBatch, Note
<1>7. var' \in [Ids -> Variants]
  BY <1>2, <1>5, <1>6
<1>8. stale' \subseteq Tests
  BY <1>2, <1>6 DEF TypeOK, Running
<1>9. TypeOK'
  BY <1>1, <1>2, <1>3, <1>7, <1>8 DEF TypeOK, Locals, Points, Variants
<1>10. stale \subseteq stale' /\ (Running \subseteq stale' \/ var' = var)
  <2>1. row = var[v] => [var EXCEPT ![v] = row] = var
    BY <1>2
  <2> QED
    BY <1>6, <2>1
<1> QED
  BY <1>1, <1>3, <1>9, <1>10, QuietWrite

LEMMA DeleteGood ==
  ASSUME IInv, NEW a \in Admins, DeleteBatch(a)
  PROVE  RowsGood /\ Grows
<1>0. PICK v : v = adm[a].var
  OBVIOUS
<1>1. /\ UNCHANGED <<made, test, ses, counted, visits, ops>>
      /\ Leave(a)
      /\ var' = [var EXCEPT ![v].active = FALSE]
  BY <1>0 DEF DeleteBatch, public
<1>2. TypeOK /\ adm[a].held /\ v \in Ids /\ var \in [Ids -> Variants]
  BY <1>0, KnowsAt DEF DeleteBatch, Working, Knows, Locals
<1>3. stale' = stale \cup Running
  BY <1>2 DEF DeleteBatch, Note
<1>4. adm' \in [Admins -> Locals] /\ AllKnow'
  BY <1>1, LeaveIs
<1>5. PICK row : row = [var[v] EXCEPT !.active = FALSE]
  OBVIOUS
<1>6. row \in Variants /\ var' = [var EXCEPT ![v] = row]
  BY <1>1, <1>2, <1>5 DEF Variants
<1>7. var' \in [Ids -> Variants]
  BY <1>2, <1>6
<1>8. stale' \subseteq Tests
  BY <1>2, <1>3 DEF TypeOK, Running
<1>9. TypeOK'
  BY <1>1, <1>2, <1>4, <1>7, <1>8 DEF TypeOK, Locals, Points, Variants
<1> QED
  BY <1>1, <1>3, <1>4, <1>9, QuietWrite

LEMMA ForkGood ==
  ASSUME IInv, NEW a \in Admins, ForkBatch(a)
  PROVE  RowsGood /\ Grows
<1>0. PICK t, olds, half : t = adm[a].test /\ olds = adm[a].arms /\ half = Whole \div 2
  OBVIOUS
<1> DEFINE new == made + 1
           share == IF olds # {} THEN half ELSE adm[a].share
<1>1. /\ made < MaxVariants /\ made' = new
      /\ UNCHANGED <<ses, counted, visits, ops>>
      /\ Leave(a)
  BY DEF ForkBatch, public
<1>2. /\ TypeOK /\ adm[a].held /\ adm[a].label \in Labels /\ adm[a].share \in 0 .. Whole
      /\ var \in [Ids -> Variants]
      /\ olds = {} \/ (t \in Tests /\ \E v \in Ids : olds = {v})
  BY <1>0, KnowsAt DEF ForkBatch, Working, Knows, Locals
<1>3. stale' = stale \cup (IF Active = olds /\ (olds # {} => t \in Running) THEN {} ELSE Running)
  BY <1>0, <1>2 DEF ForkBatch, Note
<1>4. adm' \in [Admins -> Locals] /\ AllKnow'
  BY <1>1, LeaveIs
<1>5. /\ made \in Nat /\ new \in Ids /\ new \in 0 .. MaxVariants /\ new \in 1 .. new
      /\ new \notin 1 .. made
  BY <1>1, <1>2, ParametersAssumption DEF TypeOK, Ids
<1>6. half \in 0 .. Whole /\ Whole - half \in 0 .. Whole /\ (Whole - half) + half = Whole
  BY <1>0, Halves
<1>7. var' = [v \in Ids |->
        IF v = new THEN [active |-> TRUE, label |-> adm[a].label, share |-> share]
        ELSE IF v \in olds THEN [var[v] EXCEPT !.share = Whole - half]
        ELSE var[v]]
  BY <1>0 DEF ForkBatch
<1>8. ASSUME NEW v \in Ids
      PROVE  /\ var'[v] \in Variants
             /\ v = new => var'[v].active /\ var'[v].share = share
             /\ v # new => var'[v].active = var[v].active
             /\ v # new /\ v \in olds => var'[v].share = Whole - half
  <2>1. var[v] \in Variants
    BY <1>2
  <2>2. CASE v = new
    <3>1. var'[v] = [active |-> TRUE, label |-> adm[a].label, share |-> share]
      BY <1>7, <2>2
    <3>2. share \in 0 .. Whole
      BY <1>2, <1>6
    <3> QED
      BY <1>2, <2>2, <3>1, <3>2 DEF Variants
  <2>3. CASE v # new /\ v \in olds
    <3>1. var'[v] = [var[v] EXCEPT !.share = Whole - half]
      BY <1>7, <2>3
    <3> QED
      BY <1>6, <2>1, <2>3, <3>1 DEF Variants
  <2>4. CASE v # new /\ v \notin olds
    BY <1>7, <2>1, <2>4
  <2> QED
    BY <2>2, <2>3, <2>4
<1>9. var' \in [Ids -> Variants]
  <2>1. var' = [v \in Ids |-> var'[v]]
    BY <1>7
  <2> QED
    BY <1>8, <2>1
<1>10. stale' \subseteq Tests
  BY <1>2, <1>3 DEF TypeOK, Running
<1>11. Active' = Active \cup {new}
  <2>1. 1 .. new = (1 .. made) \cup {new} /\ 1 .. new \subseteq Ids
    BY <1>5, ParametersAssumption DEF Ids
  <2> QED
    BY <1>1, <1>5, <1>8, <2>1 DEF Active
<1>12. CASE olds = {}
  <2>1. test' = test
    BY <1>0, <1>12 DEF ForkBatch
  <2>2. TypeOK'
    BY <1>1, <1>2, <1>4, <1>5, <1>9, <1>10, <2>1 DEF TypeOK, Locals, Points, Variants
  <2>3. Running \subseteq stale'
    <3>1. CASE Active = {}
      <4>1. ~ Adds(Allocation)
        BY <3>1 DEF Adds, Allocation
      <4>2. Running \subseteq stale
        BY <4>1 DEF IInv, WholeInv
      <4> QED
        BY <1>3, <4>2
    <3>2. CASE Active # {}
      BY <1>3, <1>12, <3>2
    <3> QED
      BY <3>1, <3>2
  <2>4. stale \subseteq stale'
    BY <1>3
  <2> QED
    BY <1>1, <1>4, <2>1, <2>2, <2>3, <2>4, QuietWrite
<1>13. CASE olds # {}
  <2>1. PICK w \in Ids : olds = {w} /\ t \in Tests
    BY <1>2, <1>13
  <2>2. test[t].revision < MaxRevision /\ test' = [test EXCEPT ![t].revision = @ + 1]
    BY <1>0, <1>13 DEF ForkBatch
  <2>3. test[t].revision + 1 \in Revisions /\ \A u \in Tests : test[u].revision \in Nat
    BY <1>2, <2>1, <2>2, ParametersAssumption DEF TypeOK, Revisions
  <2>4. \A u \in Tests :
          /\ test'[u].status = test[u].status
          /\ test'[u].revision = IF u = t THEN test[u].revision + 1 ELSE test[u].revision
    BY <1>2, <2>1, <2>2 DEF TypeOK
  <2>5. test' \in [Tests -> [status : {"none", "draft", "running", "stopped"},
                             revision : Revisions]]
    <3>1. test[t].status \in {"none", "draft", "running", "stopped"}
      BY <1>2, <2>1 DEF TypeOK
    <3>2. [test[t] EXCEPT !.revision = @ + 1] \in
            [status : {"none", "draft", "running", "stopped"}, revision : Revisions]
      BY <1>2, <2>1, <2>3, <3>1 DEF TypeOK
    <3>3. test' = [test EXCEPT ![t] = [test[t] EXCEPT !.revision = @ + 1]]
      BY <2>2
    <3> QED
      BY <1>2, <2>1, <3>2, <3>3 DEF TypeOK
  <2>6. TypeOK'
    BY <1>1, <1>2, <1>4, <1>5, <1>9, <1>10, <2>5 DEF TypeOK, Locals, Points, Variants
  <2>7. Running' = Running
    BY <2>4 DEF Running
  <2>8. OneRuns'
    BY <2>7 DEF IInv, OneRuns
  <2>9. Grows
    <3>1. stale \subseteq stale'
      BY <1>3
    <3>2. ASSUME NEW u \in Tests
          PROVE  test[u].revision <= test'[u].revision /\ test'[u].status = test[u].status
      <4>1. test[u].revision <= test[u].revision + 1 /\ test[u].revision <= test[u].revision
        BY <2>3
      <4> QED
        BY <2>4, <4>1
    <3> QED
      BY <3>1, <3>2 DEF Grows
  <2>10. FrozenStep
    <3>1. ASSUME NEW u \in Tests \ stale', test[u].status = "running"
          PROVE  test'[u].revision # test[u].revision
      <4>1. t \in Running /\ u \in Running
        BY <1>3, <1>13, <3>1 DEF Running
      <4>2. u = t
        BY <4>1 DEF IInv, OneRuns
      <4> QED
        BY <2>3, <2>4, <4>2
    <3> QED
      BY <3>1 DEF FrozenStep
  <2>11. WholeInv'
    <3>1. SUFFICES ASSUME NEW u \in Running \ stale' PROVE Adds(Allocation)'
      BY <2>7 DEF WholeInv
    <3>2. Active = {w} /\ Active' = {w, new} /\ w # new
      BY <1>3, <1>5, <1>11, <2>1, <3>1 DEF Active
    <3>3. var'[w].share = Whole - half /\ var'[new].share = half
      BY <1>5, <1>8, <1>13, <2>1, <3>2
    <3>4. PICK alloc : alloc = [v \in Active' |-> var'[v]]
      OBVIOUS
    <3>5. /\ alloc[w].share = Whole - half /\ alloc[new].share = half
          /\ DOMAIN alloc = {w, new}
      BY <3>2, <3>3, <3>4
    <3>6. Total(alloc, {w, new}) = (Whole - half) + half
      BY <1>6, <3>2, <3>5, TotalOfTwo
    <3>7. Adds(alloc)
      BY <1>6, <3>5, <3>6 DEF Adds
    <3>8. Allocation' = alloc
      BY <3>4 DEF Allocation
    <3> QED
      BY <3>7, <3>8 DEF Adds
  <2> QED
    BY <1>4, <2>6, <2>8, <2>9, <2>10, <2>11 DEF RowsGood
<1> QED
  BY <1>12, <1>13

(* The tests are written and the variants are not.                         *)
LEMMA TestWrite ==
  ASSUME IInv, TypeOK', AllKnow', OneRuns', UNCHANGED <<made, var, counted>>, Grows,
         \A t \in Running' \ stale' : Adds(Allocation)
  PROVE  RowsGood /\ Grows
<1>1. Active' = Active
  BY DEF Active
<1>2. Allocation' = Allocation
  BY <1>1 DEF Allocation
<1>3. Adds(Allocation)' <=> Adds(Allocation)
  BY <1>2 DEF Adds
<1>4. WholeInv'
  BY <1>3 DEF WholeInv
<1>5. FrozenStep
  BY <1>1 DEF FrozenStep
<1> QED
  BY <1>4, <1>5 DEF RowsGood

LEMMA CreateGood ==
  ASSUME IInv, NEW a \in Admins, Create(a)
  PROVE  RowsGood /\ Grows
<1>1. PICK t \in Tests :
        /\ test[t].status = "none"
        /\ test' = [test EXCEPT ![t] = [status |-> "draft", revision |-> 1]]
  BY DEF Create
<1>2. TypeOK /\ ops' \in 0 .. MaxOps /\ UNCHANGED <<made, var, adm, ses, counted, visits, stale>>
  BY MoreOps DEF IInv, Create, Begin, arms, public
<1>3. 1 \in Revisions /\ \A u \in Tests : test[u].revision \in Nat
  BY <1>2, ParametersAssumption DEF TypeOK, Revisions
<1>4. \A u \in Tests : (u # t => test'[u] = test[u]) /\ (u = t => test'[u].status = "draft")
  BY <1>1, <1>2 DEF TypeOK
<1>5. test' \in [Tests -> [status : {"none", "draft", "running", "stopped"},
                           revision : Revisions]]
  BY <1>1, <1>2, <1>3 DEF TypeOK
<1>6. TypeOK' /\ AllKnow'
  BY <1>2, <1>5 DEF TypeOK, AllKnow, IInv
<1>7. Running' = Running
  BY <1>1, <1>4 DEF Running
<1>8. OneRuns' /\ Grows
  BY <1>1, <1>2, <1>3, <1>4, <1>7 DEF IInv, OneRuns, Grows
<1> QED
  BY <1>2, <1>6, <1>7, <1>8, TestWrite DEF IInv, WholeInv

LEMMA StopGood ==
  ASSUME IInv, NEW a \in Admins, Stop(a)
  PROVE  RowsGood /\ Grows
<1>1. PICK t \in Tests :
        test[t].status # "none" /\ test' = [test EXCEPT ![t].status = "stopped"]
  BY DEF Stop
<1>2. TypeOK /\ ops' \in 0 .. MaxOps /\ UNCHANGED <<made, var, adm, ses, counted, visits, stale>>
  BY MoreOps DEF IInv, Stop, Begin, arms, public
<1>3. \A u \in Tests : test[u].revision \in Nat
  BY <1>2 DEF TypeOK, Revisions
<1>4. \A u \in Tests : /\ test'[u].revision = test[u].revision
                       /\ test'[u].status = IF u = t THEN "stopped" ELSE test[u].status
  BY <1>1, <1>2 DEF TypeOK
<1>5. test' \in [Tests -> [status : {"none", "draft", "running", "stopped"},
                           revision : Revisions]]
  BY <1>1, <1>2 DEF TypeOK
<1>6. TypeOK' /\ AllKnow'
  BY <1>2, <1>5 DEF TypeOK, AllKnow, IInv
<1>7. Running' \subseteq Running
  BY <1>4 DEF Running
<1>8. OneRuns' /\ Grows
  BY <1>2, <1>3, <1>4, <1>7 DEF IInv, OneRuns, Grows
<1> QED
  BY <1>2, <1>6, <1>7, <1>8, TestWrite DEF IInv, WholeInv

LEMMA StartGood ==
  ASSUME IInv, NEW a \in Admins, StartWrite(a)
  PROVE  RowsGood /\ Grows
<1>0. PICK t : t = adm[a].test
  OBVIOUS
<1>1. /\ Running \subseteq {t} /\ test[t].revision < MaxRevision
      /\ test' = [test EXCEPT ![t] = [status |-> "running", revision |-> @.revision + 1]]
      /\ UNCHANGED <<made, var, ses, counted, visits, ops>>
      /\ Leave(a)
  BY <1>0 DEF StartWrite, arms, public
<1>2. TypeOK /\ t \in Tests /\ adm[a].held
  BY <1>0, KnowsAt DEF StartWrite, Working, Knows
<1>3. stale' = IF Adds(Allocation) THEN stale \ {t} ELSE stale \cup {t}
  BY <1>0, <1>2 DEF StartWrite, Restart
<1>4. adm' \in [Admins -> Locals] /\ AllKnow'
  BY <1>1, LeaveIs
<1>5. test[t].revision + 1 \in Revisions /\ \A u \in Tests : test[u].revision \in Nat
  BY <1>1, <1>2, ParametersAssumption DEF TypeOK, Revisions
<1>6. /\ \A u \in Tests : u # t => test'[u] = test[u]
      /\ test'[t].status = "running" /\ test'[t].revision = test[t].revision + 1
  BY <1>1, <1>2 DEF TypeOK
<1>7. test' \in [Tests -> [status : {"none", "draft", "running", "stopped"},
                           revision : Revisions]]
  BY <1>1, <1>2, <1>5 DEF TypeOK
<1>8. stale' \subseteq Tests
  BY <1>2, <1>3 DEF TypeOK
<1>9. TypeOK'
  BY <1>1, <1>2, <1>4, <1>7, <1>8 DEF TypeOK, Locals, Points
<1>10. Running' \subseteq {t}
  BY <1>1, <1>6 DEF Running
<1>11. OneRuns'
  BY <1>10 DEF OneRuns
<1>12. Grows
  <2> SUFFICES ASSUME NEW u \in Tests
               PROVE  /\ u \in stale \ stale' => test[u].revision < test'[u].revision
                      /\ test[u].revision <= test'[u].revision
                      /\ test[u].status # "none" => test'[u].status # "none"
                      /\ test[u].status # "running" /\ test'[u].status = "running" =>
                           test[u].revision < test'[u].revision
    BY DEF Grows
  <2>1. test[u].revision < test[u].revision + 1 /\ test[u].revision <= test[u].revision
    BY <1>5
  <2>2. CASE u = t
    BY <1>5, <1>6, <2>1, <2>2
  <2>3. CASE u # t
    BY <1>3, <1>6, <2>1, <2>3
  <2> QED
    BY <2>2, <2>3
<1>13. \A u \in Running' \ stale' : Adds(Allocation)
  BY <1>3, <1>10
<1> QED
  BY <1>1, <1>4, <1>9, <1>11, <1>12, <1>13, TestWrite

-----------------------------------------------------------------------------
(* The theorems                                                            *)

SessionStep(s) ==
  /\ UNCHANGED <<made, var, test, adm, stale, ops>>
  /\ ses' \in [Sessions -> Entries] /\ visits' \in 0 .. MaxVisits

LEMMA EnterIs ==
  ASSUME IInv, NEW s \in Sessions, Enter(s)
  PROVE  SessionStep(s) /\ counted' = counted /\ Entered'
<1>1. PICK t \in Running :
        ses' = [ses EXCEPT ![s] = [pc |-> "arms", test |-> t, revision |-> test[t].revision]]
  BY DEF Enter
<1>2. TypeOK /\ t \in Tests /\ test[t].revision \in Revisions /\ test[t].status = "running"
  BY DEF IInv, TypeOK, Running
<1>3. ses' \in [Sessions -> Entries]
  BY <1>1, <1>2 DEF TypeOK, Entries
<1>4. visits' \in 0 .. MaxVisits
  BY <1>2, ParametersAssumption DEF TypeOK, Enter
<1>5. UNCHANGED <<made, var, test, adm, stale, ops, counted>>
  BY DEF Enter, rows, arms
<1>6. \A z \in Sessions :
        \/ ses'[z] = ses[z]
        \/ ses'[z].test = t /\ ses'[z].revision = test[t].revision
  BY <1>1, <1>2 DEF TypeOK
<1>7. Entered'
  <2>1. SUFFICES ASSUME NEW z \in Sessions, ses'[z].pc = "arms"
                 PROVE  Reached(ses'[z].test, ses'[z].revision)
    BY <1>5 DEF Entered, Reached
  <2>2. Reached(t, test[t].revision)
    BY <1>2 DEF Reached, Revisions
  <2>3. CASE ses'[z] = ses[z]
    BY <2>1, <2>3 DEF IInv, Entered
  <2> QED
    BY <1>6, <2>2, <2>3
<1> QED
  BY <1>3, <1>4, <1>5, <1>7 DEF SessionStep

(* A session is bucketed over the arms of now, whatever test and revision  *)
(* it has read: what it had under them is overwritten.                     *)
LEMMA AssignIs ==
  ASSUME IInv, NEW s \in Sessions, Assign(s)
  PROVE  /\ SessionStep(s) /\ Entered'
         /\ counted' \in [Sessions -> [Tests -> [Revisions -> 0 .. MaxVariants]]]
         /\ \/ counted' = counted
            \/ \E t \in Tests, r \in Revisions :
                 /\ Reached(t, r)
                 /\ counted'[s][t][r] = Chosen(t, r, s)
                 /\ \A z \in Sessions, u \in Tests, q \in Revisions :
                      ~ (z = s /\ u = t /\ q = r) => counted'[z][u][q] = counted[z][u][q]
<1>1. PICK t, r : t = ses[s].test /\ r = ses[s].revision
  OBVIOUS
<1>2. TypeOK /\ r \in Revisions /\ t \in Tests /\ Reached(t, r)
  BY <1>1 DEF IInv, TypeOK, Assign, Entered, Reached
<1>3. 1 \in Revisions
  BY ParametersAssumption DEF Revisions
<1>4. ses' \in [Sessions -> Entries] /\ ses' = [ses EXCEPT ![s] = Away]
  BY <1>2, <1>3 DEF TypeOK, Entries, Assign, Away
<1>5. SessionStep(s)
  BY <1>2, <1>4 DEF Assign, SessionStep, rows, arms, TypeOK
<1>6. Entered'
  <2>1. SUFFICES ASSUME NEW z \in Sessions, ses'[z].pc = "arms"
                 PROVE  Reached(ses'[z].test, ses'[z].revision)
    BY <1>5 DEF Entered, Reached, SessionStep
  <2>2. ses'[z] = ses[z]
    BY <1>2, <1>4, <2>1 DEF TypeOK, Away
  <2> QED
    BY <2>1, <2>2 DEF IInv, Entered
<1>7. CASE Active # {}
  <2>1. counted' = [counted EXCEPT ![s][t][r] = Chosen(t, r, s)]
    BY <1>1, <1>7 DEF Assign, Chosen
  <2>2. Chosen(t, r, s) \in 0 .. MaxVariants
    <3>1. DOMAIN Allocation = Active
      BY DEF Allocation
    <3>2. Labelled(Allocation, Active)
      <4>1. Active \in SUBSET (0 .. MaxVariants)
        BY <1>2, ActiveIn
      <4>2. \A v \in Active : Allocation[v].label \in 0 .. MaxVariants
        BY <1>2, ActiveIn, ParametersAssumption DEF Allocation, TypeOK, Labels
      <4> QED
        BY <4>1, <4>2 DEF Labelled
    <3>3. Chosen(t, r, s) \in Active
      BY <1>7, <3>1, <3>2, PickIn DEF Chosen
    <3> QED
      BY <3>2, <3>3 DEF Labelled
  <2>3. /\ counted'[s][t][r] = Chosen(t, r, s)
        /\ \A z \in Sessions, u \in Tests, q \in Revisions :
             ~ (z = s /\ u = t /\ q = r) => counted'[z][u][q] = counted[z][u][q]
    BY <1>2, <2>1 DEF TypeOK
  <2>4. counted' \in [Sessions -> [Tests -> [Revisions -> 0 .. MaxVariants]]]
    BY <1>2, <2>1, <2>2 DEF TypeOK
  <2> QED
    BY <1>2, <1>5, <1>6, <2>3, <2>4
<1>8. CASE Active = {}
  <2>1. counted' = counted
    BY <1>8 DEF Assign
  <2> QED
    BY <1>2, <1>5, <1>6, <2>1 DEF TypeOK
<1> QED
  BY <1>7, <1>8

(* Another variant under a revision means that the test has left it.       *)
StickyStep ==
  \A s \in Sessions, t \in Tests \ stale', r \in Revisions :
    counted[s][t][r] \notin {0, counted'[s][t][r]} =>
      ~ (t \in Running /\ test[t].revision = r)

LEMMA AssignGood ==
  ASSUME IInv, NEW s \in Sessions, Assign(s)
  PROVE  RowsGood /\ Entered' /\ CountInv' /\ StickyStep
<1>1. /\ UNCHANGED <<made, var, test, adm, stale, ops>>
      /\ ses' \in [Sessions -> Entries] /\ visits' \in 0 .. MaxVisits
      /\ counted' \in [Sessions -> [Tests -> [Revisions -> 0 .. MaxVariants]]]
      /\ Entered'
  BY AssignIs DEF SessionStep
<1>2. TypeOK' /\ AllKnow'
  BY <1>1 DEF IInv, TypeOK, Entries, AllKnow
<1>3. RowsGood /\ Grows /\ FrozenStep
  BY <1>1, <1>2, SameRows DEF RowsGood
<1>4. CASE counted' = counted
  BY <1>1, <1>2, <1>3, <1>4, CountsKept DEF StickyStep
<1>5. CASE counted' # counted
  <2>1. PICK t \in Tests, r \in Revisions :
          /\ Reached(t, r)
          /\ counted'[s][t][r] = Chosen(t, r, s)
          /\ \A z \in Sessions, u \in Tests, q \in Revisions :
               ~ (z = s /\ u = t /\ q = r) => counted'[z][u][q] = counted[z][u][q]
    BY <1>5, AssignIs
  <2>2. ASSUME NEW z \in Sessions, NEW u \in Tests, NEW q \in Revisions
        PROVE  Chosen(u, q, z)' = Chosen(u, q, z) /\ (Reached(u, q)' <=> Reached(u, q))
    <3>1. Active' = Active
      BY <1>1 DEF Active
    <3>2. Allocation' = Allocation
      BY <1>1, <3>1 DEF Allocation
    <3> QED
      BY <1>1, <3>2 DEF Chosen, Reached
  <2>3. CountInv'
    <3>0. Running' = Running
      BY <1>1 DEF Running
    <3>1. SUFFICES ASSUME NEW z \in Sessions, NEW u \in Tests, NEW q \in Revisions,
                          counted'[z][u][q] # 0
                   PROVE  /\ Reached(u, q)
                          /\ u \in Running \ stale /\ q = test[u].revision =>
                               counted'[z][u][q] = Chosen(u, q, z)
      BY <1>1, <2>2, <3>0 DEF CountInv
    <3>2. CASE z = s /\ u = t /\ q = r
      BY <2>1, <3>2
    <3>3. CASE ~ (z = s /\ u = t /\ q = r)
      BY <2>1, <3>1, <3>3 DEF IInv, CountInv
    <3> QED
      BY <3>2, <3>3
  <2>4. StickyStep
    <3>1. SUFFICES ASSUME NEW z \in Sessions, NEW u \in Tests \ stale, NEW q \in Revisions,
                          counted[z][u][q] \notin {0, counted'[z][u][q]},
                          u \in Running /\ test[u].revision = q
                   PROVE  FALSE
      BY <1>1 DEF StickyStep
    <3>2. z = s /\ u = t /\ q = r
      BY <2>1, <3>1
    <3>3. counted[z][u][q] = Chosen(u, q, z)
      BY <3>1 DEF IInv, CountInv
    <3> QED
      BY <2>1, <3>1, <3>2, <3>3
  <2> QED
    BY <1>1, <1>3, <2>3, <2>4
<1> QED
  BY <1>4, <1>5

LEMMA StepOK ==
  ASSUME IInv, [Next]_vars
  PROVE  IInv' /\ FrozenStep /\ StickyStep
<1>1. ASSUME RowsGood, Grows, UNCHANGED <<counted, ses>> \/ (counted' = counted /\ Entered')
      PROVE  RowsGood /\ Entered' /\ CountInv' /\ StickyStep
  <2>1. Entered'
    BY <1>1, EnteredKept DEF RowsGood
  <2> QED
    BY <1>1, <2>1, CountsKept DEF RowsGood, StickyStep
<1>2. RowsGood /\ Entered' /\ CountInv' /\ StickyStep
  <2>1. CASE UNCHANGED vars
    <3>1. UNCHANGED <<made, var, test, adm, ses, counted, visits, stale, ops>>
      BY <2>1 DEF vars, rows, arms, public
    <3>2. TypeOK' /\ AllKnow'
      BY <3>1 DEF IInv, TypeOK, AllKnow
    <3>3. RowsGood /\ Grows
      BY <3>1, <3>2, SameRows DEF RowsGood
    <3> QED
      BY <1>1, <3>1, <3>3
  <2>2. ASSUME NEW a \in Admins, Reading(a) PROVE RowsGood /\ Entered' /\ CountInv' /\ StickyStep
    <3>1. /\ UNCHANGED <<made, var, test, ses, counted, visits, stale>>
          /\ ops' \in 0 .. MaxOps
          /\ adm' \in [Admins -> Locals] /\ AllKnow'
      BY <2>2, ReadingIs
    <3>2. TypeOK'
      BY <3>1 DEF IInv, TypeOK, Locals, Points
    <3>3. RowsGood /\ Grows
      BY <3>1, <3>2, SameRows DEF RowsGood
    <3> QED
      BY <1>1, <3>1, <3>3
  <2>3. ASSUME NEW a \in Admins,
               \/ AddWrite(a) \/ ForkBatch(a) \/ PutBatch(a) \/ DeleteBatch(a)
               \/ Create(a) \/ StartWrite(a) \/ Stop(a)
        PROVE  RowsGood /\ Entered' /\ CountInv' /\ StickyStep
    <3>1. RowsGood /\ Grows
      BY <2>3, AddGood, ForkGood, PutGood, DeleteGood, CreateGood, StartGood, StopGood
    <3>2. UNCHANGED <<counted, ses>>
      BY <2>3 DEF AddWrite, ForkBatch, PutBatch, DeleteBatch, Create, StartWrite, Stop, public
    <3> QED
      BY <1>1, <3>1, <3>2
  <2>4. ASSUME NEW s \in Sessions, Enter(s) PROVE RowsGood /\ Entered' /\ CountInv' /\ StickyStep
    <3>1. /\ UNCHANGED <<made, var, test, adm, stale, ops, counted>>
          /\ ses' \in [Sessions -> Entries] /\ visits' \in 0 .. MaxVisits
          /\ Entered'
      BY <2>4, EnterIs DEF SessionStep
    <3>2. TypeOK' /\ AllKnow'
      BY <3>1 DEF IInv, TypeOK, Entries, AllKnow
    <3>3. RowsGood /\ Grows
      BY <3>1, <3>2, SameRows DEF RowsGood
    <3> QED
      BY <1>1, <3>1, <3>3
  <2>5. ASSUME NEW s \in Sessions, Assign(s) PROVE RowsGood /\ Entered' /\ CountInv' /\ StickyStep
    BY <2>5, AssignGood
  <2> QED
    BY <2>1, <2>2, <2>3, <2>4, <2>5, NextCases
<1> QED
  BY <1>2 DEF RowsGood, IInv

(* The invariant is inductive.                                             *)
THEOREM Inductive == Spec => []IInv
<1>1. Init => IInv
  BY InitOK
<1>2. IInv /\ [Next]_vars => IInv'
  BY StepOK
<1> QED
  BY <1>1, <1>2, PTL DEF Spec

(* Every variable keeps its type.                                          *)
THEOREM TypeCorrect == Spec => []TypeOK
<1>1. IInv => TypeOK
  BY DEF IInv
<1> QED
  BY <1>1, Inductive, PTL

(* SplitHolds: at most one test runs, and unless a check was overtaken at  *)
(* its cost it gives away all of the traffic; the fork's two halves add up *)
(* whatever Whole is.                                                      *)
THEOREM TrafficIsWhole == Spec => []SplitHolds
<1>1. IInv => SplitHolds
  <2>1. SUFFICES ASSUME IInv PROVE SplitHolds
    OBVIOUS
  <2>2. Cardinality(Running) <= 1
    <3>1. CASE Running = {}
      BY <3>1, FS_EmptySet
    <3>2. CASE Running # {}
      <4>1. PICK t : t \in Running
        BY <3>2
      <4>2. Running = {t}
        BY <2>1, <4>1 DEF IInv, OneRuns
      <4>3. Cardinality({t}) = 1
        BY FS_Singleton
      <4> QED
        BY <4>2, <4>3
    <3> QED
      BY <3>1, <3>2
  <2> QED
    BY <2>1, <2>2 DEF IInv, SplitHolds, WholeInv
<1> QED
  BY <1>1, Inductive, PTL

(* Frozen: unless a check was overtaken at its cost, the arms of a running *)
(* test change only with its revision.                                     *)
THEOREM ArmsAreFrozen == Spec => Frozen
<1>1. IInv /\ [Next]_vars =>
        [\A t \in Tests \ stale' :
           /\ test[t].status = "running" /\ test'[t].status = "running"
           /\ test'[t].revision = test[t].revision
           => /\ Active' = Active
              /\ \A v \in Active : var'[v] = var[v]]_vars
  BY StepOK DEF FrozenStep
<1> QED
  BY <1>1, Inductive, PTL DEF Spec, Frozen

(* Sticky: however often a session enters, it is counted for another       *)
(* variant under a revision only after the test has left that revision.    *)
THEOREM SessionsStick == Spec => Sticky
<1>1. IInv /\ [Next]_vars =>
        [\A s \in Sessions, t \in Tests \ stale', r \in Revisions :
           counted[s][t][r] \notin {0, counted'[s][t][r]} =>
             ~ (t \in Running /\ test[t].revision = r)]_vars
  BY StepOK DEF StickyStep
<1> QED
  BY <1>1, Inductive, PTL DEF Spec, Sticky
=============================================================================
