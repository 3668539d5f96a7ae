------------------------- MODULE Publishing_proofs -------------------------
(***************************************************************************)
(* Proofs about Publishing, for any number of editors, crons, visitors,    *)
(* documents and paths and any bounds: types, the inductive invariant, and *)
(* from it that a transition is visible once it has answered and that what *)
(* publish rendered is in the version history.                             *)
(***************************************************************************)
EXTENDS Publishing, TLAPS

-----------------------------------------------------------------------------
(* Types                                                                   *)

(* What a writer or a visitor between two requests holds is well typed.    *)
LEMMA RestType ==
  /\ Rest \in Locals /\ Holds(Rest)
  /\ \A copy \in Copies \cup {NoCopy} : Quiet(copy) \in Requests
<1>1. Len(Wipes) \in Nat
  BY ParametersAssumption
<1>2. Rest \in Locals
  BY <1>1 DEF Rest, Locals, WriterPoints, Ops, Marks, Start
<1>5. Holds(Rest)
  BY DEF Rest, Holds
<1>3. (CHOOSE p \in Paths : TRUE) \in Paths
  BY ParametersAssumption
<1>4. \A copy \in Copies \cup {NoCopy} : Quiet(copy) \in Requests
  BY <1>3 DEF Quiet, Requests, VisitorPoints, Marks, Start
<1> QED
  BY <1>2, <1>4, <1>5

(* The types hold of a newly created article.                              *)
LEMMA TypeInit == Init => TypeOK
<1> SUFFICES ASSUME Init PROVE TypeOK
  OBVIOUS
<1>1. row \in Rows
  BY DEF Init, Rows
<1>2. snaps \in Seq(Docs) /\ cache \subseteq Entries
  BY DEF Init
<1>3. site \in [content : Nat \ {0}, settings : Nat \ {0}]
  BY DEF Init
<1>4. WritersType
  BY RestType DEF Init, WritersType
<1>5. rd \in [Visitors -> Requests]
  BY RestType DEF Init
<1>6. rev \in Nat /\ kept \in Marks /\ ops \in 0 .. MaxOps /\ crashes \in 0 .. MaxCrashes
  BY ParametersAssumption DEF Init, Marks, Start
<1>7. floor \in [1 .. site.content -> Nat]
  BY DEF Init
<1> QED
  BY <1>1, <1>2, <1>3, <1>4, <1>5, <1>6, <1>7 DEF TypeOK

(* The updates of a writer's locals that the statements make.              *)
LEMMA UpdateType ==
  ASSUME NEW w \in Locals, NEW point \in WriterPoints, NEW n \in Nat,
         NEW left \in 0 .. Len(Wipes)
  PROVE  /\ [w EXCEPT !.pc = point, !.num = n] \in Locals
         /\ [w EXCEPT !.pc = point, !.left = left] \in Locals
         /\ [w EXCEPT !.left = left] \in Locals
         /\ [w EXCEPT !.pc = point, !.wrote.rev = n] \in Locals
         /\ [w EXCEPT !.pc = point, !.op = "save", !.wrote.settings = n, !.left = left]
              \in Locals
<1>1. [w EXCEPT !.pc = point, !.num = n] \in Locals
  BY DEF Locals
<1>2. [w EXCEPT !.pc = point, !.left = left] \in Locals
  BY DEF Locals
<1>3. [w EXCEPT !.left = left] \in Locals
  BY DEF Locals
<1>4. /\ [w.wrote EXCEPT !.rev = n] \in Marks
      /\ [w.wrote EXCEPT !.settings = n] \in Marks
  BY DEF Locals, Marks
<1>5. [w EXCEPT !.pc = point, !.wrote.rev = n] \in Locals
  <2>1. [w EXCEPT !.pc = point, !.wrote = [w.wrote EXCEPT !.rev = n]] \in Locals
    BY <1>4 DEF Locals
  <2>2. [w EXCEPT !.pc = point].wrote = w.wrote
    BY DEF Locals
  <2> QED
    BY <2>1, <2>2
<1>6. [w EXCEPT !.pc = point, !.op = "save", !.wrote.settings = n, !.left = left] \in Locals
  <2>1. [w EXCEPT !.pc = point, !.op = "save", !.wrote = [w.wrote EXCEPT !.settings = n],
                  !.left = left] \in Locals
    BY <1>4 DEF Locals, Ops
  <2>2. [w EXCEPT !.pc = point, !.op = "save"].wrote = w.wrote
    BY DEF Locals
  <2> QED
    BY <2>1, <2>2
<1> QED
  BY <1>1, <1>2, <1>3, <1>5, <1>6

(* A writer may take any well-typed locals.                                *)
LEMMA SetType ==
  ASSUME WritersType, NEW e \in Writers, NEW w \in Locals, Holds(w),
         ed' = [ed EXCEPT ![e] = w]
  PROVE  WritersType'
BY DEF WritersType

(* Entering a request with the document it needs keeps the writers typed.  *)
LEMMA EnterType ==
  ASSUME WritersType, NEW e \in Writers, NEW op \in Ops,
         NEW point \in WriterPoints, NEW doc \in Docs \cup {NoDoc},
         NEW pick \in Docs \cup {NoDoc}, Enter(e, op, point, doc, pick),
         point = "chosen" \/ doc \in Docs, op = "restore" => pick \in Docs,
         point # "wipe"
  PROVE  WritersType'
<1> DEFINE w == [Rest EXCEPT !.pc = point, !.op = op, !.doc = doc, !.pick = pick]
<1>1. w \in Locals
  BY RestType DEF Locals
<1>2. w.pc = point /\ w.op = op /\ w.doc = doc /\ w.pick = pick
  BY RestType DEF Locals
<1>3. ed' = [ed EXCEPT ![e] = w]
  BY DEF Enter
<1> HIDE DEF w
<1>4. Holds(w)
  BY <1>2 DEF Holds
<1> QED
  BY <1>1, <1>3, <1>4, SetType

(* So does leaving it.                                                     *)
LEMMA LeaveType ==
  ASSUME WritersType, NEW e \in Writers, Leave(e)
  PROVE  WritersType'
BY RestType, SetType DEF Leave

(* Moving on keeps the document.                                           *)
LEMMA GotoType ==
  ASSUME WritersType, NEW e \in Writers, NEW point \in WriterPoints, Goto(e, point),
         ed[e].doc \in Docs
  PROVE  WritersType'
<1> DEFINE w == [ed[e] EXCEPT !.pc = point]
<1>1. ed[e] \in Locals /\ Holds(ed[e])
  BY DEF WritersType
<1>2. w \in Locals /\ Holds(w)
  BY <1>1 DEF Locals, Holds
<1>3. ed' = [ed EXCEPT ![e] = w]
  BY DEF Goto
<1> QED
  BY <1>2, <1>3, SetType

(* A checked transition names a writer's operation and holds the row's     *)
(* document.                                                               *)
LEMMA TransitionType ==
  ASSUME TypeOK, NEW e \in Writers,
         NEW op \in {"publish", "unpublish", "archive", "schedule", "cancel"},
         Transition(e, op)
  PROVE  WritersType'
<1>1. row.json \in Docs /\ WritersType
  BY DEF TypeOK, Rows
<1>2. PICK point \in {"count", "write"} : Enter(e, op, point, row.json, NoDoc)
  BY DEF Transition
<1> QED
  BY <1>1, <1>2, EnterType DEF Ops, WriterPoints

(* What a writer's step may rely on.                                       *)
LEMMA TypeFacts ==
  ASSUME TypeOK, NEW e \in Writers
  PROVE  /\ row \in Rows /\ snaps \in Seq(Docs)
         /\ site \in [content : Nat \ {0}, settings : Nat \ {0}]
         /\ site.content \in Nat \ {0} /\ site.settings \in Nat \ {0}
         /\ cache \subseteq Entries /\ WritersType /\ ed[e] \in Locals /\ Holds(ed[e])
         /\ rd \in [Visitors -> Requests] /\ rev \in Nat
         /\ floor \in [1 .. site.content -> Nat]
         /\ kept \in Marks /\ ops \in 0 .. MaxOps /\ crashes \in 0 .. MaxCrashes
         /\ MaxOps \in Nat /\ MaxCrashes \in Nat
         /\ Len(Wipes) \in Nat /\ row.json \in Docs
BY ParametersAssumption DEF TypeOK, Rows, WritersType

(* Every request that begins keeps the types.                              *)
LEMMA RequestType ==
  ASSUME TypeOK, NEW e \in Writers,
         \/ Begin(e) \/ BeginRestore(e) \/ BeginPreview(e) \/ Patch(e) \/ SaveSettings(e)
         \/ Select(e) \/ Crash(e)
  PROVE  TypeOK'
<1> USE TypeFacts
<1>1. CASE Begin(e)
  <2>1. WritersType'
    BY <1>1, TransitionType DEF Begin
  <2> QED
    BY <1>1, <2>1 DEF Begin, Request, history, TypeOK
<1>2. CASE BeginRestore(e)
  <2>1. PICK n \in DOMAIN snaps : Enter(e, "restore", "count", row.json, snaps[n])
    BY <1>2 DEF BeginRestore
  <2>2. snaps[n] \in Docs
    BY <2>1
  <2>3. WritersType'
    BY <2>1, <2>2, EnterType DEF Ops, WriterPoints
  <2> QED
    BY <1>2, <2>3 DEF BeginRestore, Request, history, TypeOK
<1>3. CASE BeginPreview(e)
  <2>1. WritersType'
    BY <1>3, EnterType DEF BeginPreview, Ops, WriterPoints
  <2> QED
    BY <1>3, <2>1 DEF BeginPreview, Request, history, TypeOK
<1>4. CASE Patch(e)
  <2>1. row' \in Rows
    BY <1>4 DEF Patch, Rows
  <2>2. ops' = ops + 1 /\ ops < MaxOps
        /\ UNCHANGED <<snaps, site, cache, ed, rd, rev, floor, kept, crashes>>
    BY <1>4 DEF Patch, Request, history
  <2> QED
    BY <2>1, <2>2 DEF TypeOK, WritersType
<1>5. CASE SaveSettings(e)
  <2> DEFINE w == [Rest EXCEPT !.pc = "wipe", !.op = "save",
                               !.wrote.settings = site.settings + 1, !.left = Len(Wipes)]
  <2>1. site' = [site EXCEPT !.settings = site.settings + 1]
    BY <1>5 DEF SaveSettings
  <2>2. site' \in [content : Nat \ {0}, settings : Nat \ {0}] /\ site'.content = site.content
    BY <2>1
  <2>8. "wipe" \in WriterPoints /\ site.settings + 1 \in Nat /\ Len(Wipes) \in 0 .. Len(Wipes)
    BY DEF WriterPoints
  <2>9. w.pc = "wipe" /\ w.op = "save"
    BY RestType DEF Locals
  <2>3. w \in Locals /\ w.pc = "wipe" /\ w.op = "save"
    BY <2>8, <2>9, RestType, UpdateType
  <2>5. ed' = [ed EXCEPT ![e] = w]
    BY <1>5 DEF SaveSettings
  <2> HIDE DEF w
  <2>4. Holds(w)
    BY <2>3 DEF Holds
  <2>6. WritersType'
    BY <2>3, <2>4, <2>5, SetType
  <2>7. ops' = ops + 1 /\ ops < MaxOps
        /\ UNCHANGED <<row, snaps, cache, rd, rev, floor, kept, crashes>>
    BY <1>5 DEF SaveSettings, Request, history
  <2> QED
    BY <2>2, <2>6, <2>7 DEF TypeOK
<1>6. CASE Select(e)
  <2>1. WritersType'
    BY <1>6, EnterType DEF Select, Ops, WriterPoints
  <2> QED
    BY <1>6, <2>1 DEF Select, history, counters, TypeOK
<1>7. CASE Crash(e)
  <2>1. WritersType'
    BY <1>7, LeaveType DEF Crash
  <2> QED
    BY <1>7, <2>1 DEF Crash, history, TypeOK
<1> QED
  BY <1>1, <1>2, <1>3, <1>4, <1>5, <1>6, <1>7

(* Every statement of a writer keeps the types.                            *)
LEMMA RunType ==
  ASSUME TypeOK, NEW e \in Writers, Run(e)
  PROVE  TypeOK'
<1> USE TypeFacts
<1>0. ed[e] \in Locals
  OBVIOUS
<1>1. CASE ReadChosen(e)
  <2>1. Transition(e, "publish") \/ Leave(e)
    BY <1>1 DEF ReadChosen
  <2>2. WritersType'
    BY <2>1, TransitionType, LeaveType
  <2> QED
    BY <1>1, <2>2 DEF ReadChosen, history, counters, TypeOK
<1>2. CASE Latest(e)
  <2>1. ed[e].doc \in Docs
    BY <1>2 DEF Latest, Working, Holds
  <2>2. Leave(e) \/ Goto(e, "count")
    BY <1>2 DEF Latest
  <2>3. WritersType'
    BY <2>1, <2>2, LeaveType, GotoType DEF WriterPoints
  <2> QED
    BY <1>2, <2>3 DEF Latest, history, counters, TypeOK
<1>3. CASE CountVersions(e)
  <2> DEFINE w == [ed[e] EXCEPT !.pc = "insert", !.num = Len(snaps) + 1]
  <2>6. "insert" \in WriterPoints /\ Len(snaps) + 1 \in Nat /\ 0 \in 0 .. Len(Wipes)
    BY DEF WriterPoints
  <2>4. w \in Locals
    BY <1>0, <2>6, UpdateType
  <2>5. w.doc = ed[e].doc /\ w.op = ed[e].op /\ w.pick = ed[e].pick /\ ed[e].pc = "count"
    BY <1>3 DEF Locals, CountVersions, Working
  <2>1. w \in Locals /\ Holds(w)
    BY <2>4, <2>5 DEF Holds
  <2>2. ed' = [ed EXCEPT ![e] = w]
    BY <1>3 DEF CountVersions
  <2>3. WritersType'
    BY <2>1, <2>2, SetType
  <2> QED
    BY <1>3, <2>3 DEF CountVersions, history, counters, TypeOK
<1>4. CASE InsertVersion(e)
  <2>1. ed[e].doc \in Docs
    BY <1>4 DEF InsertVersion, Working, Holds
  <2>2. snaps' \in Seq(Docs)
    BY <1>4, <2>1 DEF InsertVersion
  <2>3. Leave(e) \/ Goto(e, "write")
    BY <1>4 DEF InsertVersion
  <2>4. WritersType'
    BY <2>1, <2>3, LeaveType, GotoType DEF WriterPoints
  <2> QED
    BY <1>4, <2>2, <2>4 DEF InsertVersion, history, counters, TypeOK
<1>5. CASE NumberTaken(e)
  <2>1. WritersType'
    BY <1>5, LeaveType DEF NumberTaken
  <2> QED
    BY <1>5, <2>1 DEF NumberTaken, history, counters, TypeOK
<1>6. ASSUME Public(e), row' \in Rows
      PROVE  TypeOK'
  <2> DEFINE w == [ed[e] EXCEPT !.pc = "bump", !.wrote.rev = rev + 1]
  <2>5. "bump" \in WriterPoints /\ rev + 1 \in Nat /\ 0 \in 0 .. Len(Wipes)
    BY DEF WriterPoints
  <2>6. w \in Locals
    BY <1>0, <2>5, UpdateType
  <2>7. w.pc = "bump" /\ w.op = ed[e].op /\ w.pick = ed[e].pick
    BY DEF Locals
  <2>1. w \in Locals /\ Holds(w)
    BY <2>6, <2>7 DEF Holds
  <2>2. ed' = [ed EXCEPT ![e] = w]
    BY <1>6 DEF Public
  <2>3. WritersType'
    BY <2>1, <2>2, SetType
  <2>4. rev' \in Nat
    BY <1>6 DEF Public
  <2> QED
    BY <1>6, <2>3, <2>4 DEF Public, counters, TypeOK
<1>7. ASSUME Private(e), row' \in Rows
      PROVE  TypeOK'
  <2>1. WritersType'
    BY <1>7, LeaveType DEF Private
  <2> QED
    BY <1>7, <2>1 DEF Private, history, counters, TypeOK
<1>8. CASE WritePublished(e)
  <2>1. row' \in Rows
    BY <1>8 DEF WritePublished, Rows, Statuses, Locals
  <2> QED
    BY <1>6, <1>8, <2>1 DEF WritePublished
<1>9. CASE WriteRetracted(e)
  <2>1. Target(ed[e].op) \in Statuses
    BY <1>9 DEF WriteRetracted, Target, Statuses
  <2>2. row' \in Rows
    BY <1>9, <2>1 DEF WriteRetracted, Rows
  <2> QED
    BY <1>6, <1>9, <2>2 DEF WriteRetracted
<1>10. CASE WriteScheduled(e)
  <2>1. row' \in Rows
    BY <1>10 DEF WriteScheduled, Rows, Statuses
  <2> QED
    BY <1>7, <1>10, <2>1 DEF WriteScheduled
<1>11. CASE WriteCancelled(e)
  <2>1. row' \in Rows
    BY <1>11 DEF WriteCancelled, Rows, Statuses
  <2> QED
    BY <1>7, <1>11, <2>1 DEF WriteCancelled
<1>12. CASE WriteRestored(e)
  <2>1. row' \in Rows
    BY <1>12 DEF WriteRestored, Rows, Holds
  <2> QED
    BY <1>7, <1>12, <2>1 DEF WriteRestored
<1>13. CASE Bump(e)
  <2> DEFINE w == [ed[e] EXCEPT !.pc = "wipe", !.left = Len(Wipes)]
  <2>1. site' = [site EXCEPT !.content = site.content + 1]
    BY <1>13 DEF Bump
  <2>2. site' \in [content : Nat \ {0}, settings : Nat \ {0}]
        /\ site'.content = site.content + 1
    BY <2>1
  <2>3. floor' \in [1 .. site'.content -> Nat]
    BY <1>13, <2>2 DEF Bump
  <2>9. "wipe" \in WriterPoints /\ Len(Wipes) \in 0 .. Len(Wipes)
    BY DEF WriterPoints
  <2>7. w \in Locals
    BY <1>0, <2>9, UpdateType
  <2>8. w.pc = "wipe" /\ w.op = ed[e].op /\ w.pick = ed[e].pick
    BY DEF Locals
  <2>4. w \in Locals /\ Holds(w)
    BY <2>7, <2>8 DEF Holds
  <2>5. ed' = [ed EXCEPT ![e] = w]
    BY <1>13 DEF Bump
  <2>6. WritersType'
    BY <2>4, <2>5, SetType
  <2> QED
    BY <1>13, <2>2, <2>3, <2>6 DEF Bump, counters, TypeOK
<1>14. CASE Wipe(e)
  <2> DEFINE w == [ed[e] EXCEPT !.left = ed[e].left - 1]
  <2>1. ed[e].left - 1 \in 0 .. Len(Wipes)
    BY <1>14 DEF Wipe, Locals
  <2>2. w \in Locals /\ Holds(w)
    BY <2>1 DEF Locals, Holds
  <2>3. ed' = [ed EXCEPT ![e] = w]
    BY <1>14 DEF Wipe
  <2>4. WritersType' /\ cache' \subseteq Entries
    BY <1>14, <2>2, <2>3, SetType DEF Wipe
  <2> QED
    BY <1>14, <2>4 DEF Wipe, history, counters, TypeOK
<1>15. CASE Answer(e)
  <2>1. ed[e].wrote \in Marks
    BY DEF Locals
  <2>2. kept' \in Marks
    BY <1>15, <2>1 DEF Answer, Marks, Later
  <2>3. WritersType'
    BY <1>15, LeaveType DEF Answer
  <2> QED
    BY <1>15, <2>2, <2>3 DEF Answer, counters, TypeOK
<1> QED
  BY <1>1, <1>2, <1>3, <1>4, <1>5, <1>8, <1>9, <1>10, <1>11, <1>12, <1>13, <1>14, <1>15
     DEF Run

(* What a visitor's step may rely on.                                      *)
LEMMA VisitorFacts ==
  ASSUME TypeOK, NEW v \in Visitors
  PROVE  /\ rd \in [Visitors -> Requests] /\ rd[v] \in Requests
         /\ rd[v].copy \in Copies \cup {NoCopy} /\ rd[v].due \in Marks
         /\ rd[v].path \in Paths /\ rd[v].tag \in Nat /\ rd[v].rev \in Nat
         /\ rd[v].settings \in Nat
         /\ cache \subseteq Entries /\ site.content \in Nat /\ site.settings \in Nat
         /\ rev \in Nat /\ kept \in Marks
BY DEF TypeOK, Requests

(* A request that goes on, ends, or is answered stays well typed.          *)
LEMMA RequestStates ==
  ASSUME TypeOK, NEW v \in Visitors, NEW point \in VisitorPoints,
         NEW copy \in Copies \cup {NoCopy}
  PROVE  /\ Reach(v, point) => rd' \in [Visitors -> Requests]
         /\ rd' = [rd EXCEPT ![v] = Quiet(copy)] => rd' \in [Visitors -> Requests]
         /\ rd' = [rd EXCEPT ![v] = Answered(v, copy)] => rd' \in [Visitors -> Requests]
<1> USE VisitorFacts
<1>1. [rd[v] EXCEPT !.pc = point] \in Requests
  BY DEF Requests
<1>2. Quiet(copy) \in Requests
  BY RestType
<1>3. Answered(v, copy) \in Requests
  BY <1>2 DEF Answered, Requests, VisitorPoints
<1>4. Reach(v, point) => rd' \in [Visitors -> Requests]
  BY <1>1 DEF Reach
<1>5. rd' = [rd EXCEPT ![v] = Quiet(copy)] => rd' \in [Visitors -> Requests]
  BY <1>2
<1>6. rd' = [rd EXCEPT ![v] = Answered(v, copy)] => rd' \in [Visitors -> Requests]
  BY <1>3
<1> QED
  BY <1>4, <1>5, <1>6

(* A page becomes the browser's copy.                                      *)
LEMMA KeepType ==
  ASSUME TypeOK, NEW v \in Visitors, NEW page, Keep(v, page),
         page.path \in Paths, page.tag \in Nat, page.rev \in Nat, page.settings \in Nat
  PROVE  rd' \in [Visitors -> Requests]
<1>1. [path |-> page.path, tag |-> page.tag, rev |-> page.rev, settings |-> page.settings]
        \in Copies
  BY DEF Copies
<1>2. "answered" \in VisitorPoints
  BY DEF VisitorPoints
<1> QED
  BY <1>1, <1>2, RequestStates DEF Keep

(* A page put in a layer is an entry.                                      *)
LEMMA StoreType ==
  ASSUME TypeOK, NEW v \in Visitors, NEW layer \in {"kv", "edge"}, Store(v, layer)
  PROVE  cache' \subseteq Entries
<1>1. [layer |-> layer, path |-> rd[v].path, tag |-> rd[v].tag, rev |-> rd[v].rev,
       settings |-> rd[v].settings] \in Entries
  BY VisitorFacts DEF Entries
<1> QED
  BY <1>1, VisitorFacts DEF Store

(* Every step of a visitor keeps the types.                                *)
LEMMA VisitType ==
  ASSUME TypeOK, NEW v \in Visitors, Visit(v)
  PROVE  TypeOK'
<1> USE VisitorFacts
<1>0. VisitorPoints = {"idle", "gate", "check", "kv", "article", "settings", "put",
                       "mirror", "answered"}
  BY DEF VisitorPoints
<1>a. ASSUME rd' \in [Visitors -> Requests], cache' \subseteq Entries,
             UNCHANGED <<row, snaps, site, ed, history, counters>>
      PROVE  TypeOK'
  BY <1>a DEF TypeOK, WritersType, history, counters
<1>1. CASE Arrive(v)
  <2>1. PICK p \in Paths :
          rd' = [rd EXCEPT ![v] =
                   [Quiet(rd[v].copy) EXCEPT
                      !.pc = IF p \in Gated THEN "gate" ELSE "check",
                      !.path = p, !.tag = site.content, !.due = kept]]
    BY <1>1 DEF Arrive
  <2>2. Quiet(rd[v].copy) \in Requests
    BY RestType
  <2>3. [Quiet(rd[v].copy) EXCEPT !.pc = IF p \in Gated THEN "gate" ELSE "check",
                                  !.path = p, !.tag = site.content, !.due = kept]
          \in Requests
    BY <1>0, <2>2 DEF Requests
  <2>4. rd' \in [Visitors -> Requests]
    BY <2>1, <2>3
  <2> QED
    BY <1>1, <1>a, <2>4 DEF Arrive
<1>2. CASE Gate(v)
  <2>1. Reach(v, "check") \/ rd' = [rd EXCEPT ![v] = Quiet(rd[v].copy)]
    BY <1>2 DEF Gate
  <2>2. rd' \in [Visitors -> Requests]
    BY <1>0, <2>1, RequestStates
  <2> QED
    BY <1>2, <1>a, <2>2 DEF Gate
<1>3. CASE NotModified(v)
  <2>1. rd' \in [Visitors -> Requests]
    BY <1>0, <1>3, RequestStates DEF NotModified
  <2> QED
    BY <1>3, <1>a, <2>1 DEF NotModified
<1>4. ASSUME NEW layer \in {"kv", "edge"}, NEW next \in {"kv", "article"},
             Lookup(v, layer, next)
      PROVE  TypeOK'
  <2>1. CASE Reach(v, next)
    BY <1>0, <1>4, <1>a, <2>1, RequestStates DEF Lookup
  <2>2. CASE \E x \in Entry(v, layer) : Keep(v, x)
    <3>1. PICK x \in Entry(v, layer) : Keep(v, x)
      BY <2>2
    <3>2. x \in Entries
      BY <3>1 DEF Entry
    <3>3. x.path \in Paths /\ x.tag \in Nat /\ x.rev \in Nat /\ x.settings \in Nat
      BY <3>2 DEF Entries
    <3>4. rd' \in [Visitors -> Requests]
      BY <3>1, <3>3, KeepType
    <3> QED
      BY <1>4, <1>a, <3>4 DEF Lookup
  <2> QED
    BY <1>4, <2>1, <2>2 DEF Lookup
<1>5. CASE RenderArticle(v)
  <2>1. [rd[v] EXCEPT !.pc = "settings", !.rev = rev] \in Requests
    BY <1>0 DEF Requests
  <2>2. rd' \in [Visitors -> Requests]
    BY <1>0, <1>5, <2>1, RequestStates DEF RenderArticle
  <2> QED
    BY <1>5, <1>a, <2>2 DEF RenderArticle
<1>6. CASE RenderSettings(v)
  <2>1. [rd[v] EXCEPT !.pc = "put", !.settings = site.settings] \in Requests
    BY <1>0 DEF Requests
  <2>2. rd' \in [Visitors -> Requests]
    BY <1>6, <2>1 DEF RenderSettings
  <2> QED
    BY <1>6, <1>a, <2>2 DEF RenderSettings
<1>7. CASE PutKv(v)
  <2>1. cache' \subseteq Entries /\ rd' \in [Visitors -> Requests]
    BY <1>0, <1>7, StoreType, RequestStates DEF PutKv
  <2> QED
    BY <1>7, <1>a, <2>1 DEF PutKv
<1>8. CASE PutEdge(v)
  <2>1. cache' \subseteq Entries /\ rd' \in [Visitors -> Requests]
    BY <1>8, StoreType, KeepType DEF PutEdge
  <2> QED
    BY <1>8, <1>a, <2>1 DEF PutEdge
<1>9. CASE GiveUp(v)
  <2>1. rd' \in [Visitors -> Requests]
    BY <1>0, <1>9, RequestStates DEF GiveUp
  <2> QED
    BY <1>9, <1>a, <2>1 DEF GiveUp
<1> QED
  BY <1>1, <1>2, <1>3, <1>4, <1>5, <1>6, <1>7, <1>8, <1>9 DEF Visit, LookupEdge, LookupKv

(* Time passing, and pages expiring, keep the types; so does stuttering.   *)
LEMMA TypeStep == TypeOK /\ [Next]_vars => TypeOK'
<1> SUFFICES ASSUME TypeOK, [Next]_vars PROVE TypeOK'
  OBVIOUS
<1>1. CASE Clock
  <2>1. row' \in Rows
    BY <1>1 DEF Clock, TypeOK, Rows
  <2> QED
    BY <1>1, <2>1 DEF Clock, TypeOK, WritersType, history, counters
<1>2. ASSUME NEW x \in cache, Expire(x) PROVE TypeOK'
  BY <1>2 DEF Expire, TypeOK, WritersType, history, counters
<1>3. CASE UNCHANGED vars
  BY <1>3 DEF vars, TypeOK, WritersType, history, counters
<1> QED
  BY <1>1, <1>2, <1>3, RequestType, RunType, VisitType DEF Next

(* Every reachable state is well typed: in particular every document a     *)
(* writer carries between its read and its write is one (workflow/), and   *)
(* no wipe runs past its prefixes.                                         *)
THEOREM TypeCorrect == Spec => []TypeOK
<1> QED
  BY TypeInit, TypeStep, PTL DEF Spec

-----------------------------------------------------------------------------
(* The inductive invariant                                                 *)

(* IInv apart from the types: the ages of pages and promises.              *)
Ages ==
  /\ FloorInv
  /\ kept.rev <= floor[site.content]
  /\ \A x \in cache : AsNewAs(x.tag, x.rev)
  /\ \A e \in Writers : WriterInv(e)
  /\ \A v \in Visitors : VisitorInv(v)

(* What the ages compare are naturals, and content_version has a floor.    *)
LEMMA AgeFacts ==
  ASSUME TypeOK
  PROVE  /\ site.content \in Nat \ {0} /\ DOMAIN floor = 1 .. site.content
         /\ \A n \in 1 .. site.content : floor[n] \in Nat
         /\ site.content \in DOMAIN floor
         /\ rev \in Nat /\ kept.rev \in Nat
         /\ \A x \in cache : x.tag \in Nat /\ x.rev \in Nat
         /\ \A e \in Writers : ed[e] \in Locals /\ ed[e].wrote.rev \in Nat
         /\ \A v \in Visitors : rd[v] \in Requests /\ rd[v].tag \in Nat /\ rd[v].rev \in Nat
                                  /\ rd[v].due.rev \in Nat
                                  /\ rd[v].copy \in Copies \cup {NoCopy}
         /\ \A copy \in Copies : copy.tag \in Nat /\ copy.rev \in Nat
BY DEF TypeOK, Marks, Entries, WritersType, Locals, Requests, Copies

(* The invariant holds of a newly created article.                         *)
LEMMA SafeInit == Init => SnapInv /\ Ages
<1> SUFFICES ASSUME Init PROVE SnapInv /\ Ages
  OBVIOUS
<1>1. \A e \in Writers : ed[e].pc = "idle" /\ ed[e].wrote.rev = 0
  BY DEF Init, Rest, Start
<1>2. \A v \in Visitors : rd[v].pc = "idle" /\ rd[v].copy = NoCopy
  BY DEF Init, Quiet
<1>3. SnapInv
  BY <1>1 DEF Init, SnapInv
<1>4. DOMAIN floor = 1 .. 1 /\ floor[1] = 0 /\ site.content = 1 /\ rev = 0
      /\ kept.rev = 0 /\ cache = {}
  BY DEF Init, Start
<1>5. FloorInv
  BY <1>4 DEF FloorInv
<1>6. \A e \in Writers : WriterInv(e)
  BY <1>1, <1>4 DEF WriterInv
<1>7. \A v \in Visitors : VisitorInv(v)
  BY <1>2 DEF VisitorInv
<1> QED
  BY <1>3, <1>4, <1>5, <1>6, <1>7 DEF Ages

(* A document is in a version history.                                     *)
In(doc, versions) == \E n \in DOMAIN versions : versions[n] = doc

(* Versions are only ever added: what was in the history stays there.      *)
LEMMA HistoryGrows ==
  ASSUME TypeOK, snaps' = snaps \/ \E d \in Docs : snaps' = Append(snaps, d)
  PROVE  \A doc : In(doc, snaps) => In(doc, snaps')
<1> SUFFICES ASSUME NEW doc, In(doc, snaps) PROVE In(doc, snaps')
  OBVIOUS
<1>1. PICK n \in DOMAIN snaps : snaps[n] = doc
  BY DEF In
<1>2. snaps \in Seq(Docs)
  BY DEF TypeOK
<1>3. n \in DOMAIN snaps' /\ snaps'[n] = doc
  BY <1>1, <1>2
<1> QED
  BY <1>3 DEF In

(* A writer's step that neither changes what the public sees nor bumps the *)
(* version keeps the invariant, provided the writer's own part holds.      *)
LEMMA QuietWriter ==
  ASSUME TypeOK, SnapInv, Ages, NEW e \in Writers, NEW w, ed' = [ed EXCEPT ![e] = w],
         w.wrote.rev <= rev,
         w.pc = "wipe" => w.wrote.rev <= floor[site.content],
         w.pc = "write" /\ w.op \in {"publish", "restore"} => In(w.doc, snaps'),
         row'.html = row.html,
         snaps' = snaps \/ \E d \in Docs : snaps' = Append(snaps, d),
         site'.content = site.content, cache' \subseteq cache,
         UNCHANGED <<rd, rev, floor, kept>>
  PROVE  SnapInv' /\ Ages'
<1>1. ed'[e] = w /\ \A f \in Writers \ {e} : ed'[f] = ed[f]
  BY DEF TypeOK, WritersType
<1>2. \A f \in Writers : WriterInv(f)'
  BY <1>1 DEF Ages, WriterInv
<1>3. \A v \in Visitors : VisitorInv(v)'
  BY DEF Ages, VisitorInv, AsNewAs
<1>4. Ages'
  BY <1>2, <1>3 DEF Ages, FloorInv, AsNewAs
<1>5. row'.html = NoDoc \/ In(row'.html, snaps')
  BY HistoryGrows DEF SnapInv, Snapshotted, In
<1>6. \A f \in Writers :
        ed'[f].pc = "write" /\ ed'[f].op \in {"publish", "restore"}
          => In(ed'[f].doc, snaps')
  BY <1>1, HistoryGrows DEF SnapInv, Snapshotted, In
<1>7. SnapInv'
  BY <1>5, <1>6 DEF SnapInv, Snapshotted, In
<1> QED
  BY <1>4, <1>7

(* Entering a request: the writer has written nothing yet.                 *)
LEMMA EnterSafe ==
  ASSUME TypeOK, SnapInv, Ages, NEW e \in Writers,
         NEW op, NEW point \in {"chosen", "latest", "count", "write"}, NEW doc, NEW pick,
         Enter(e, op, point, doc, pick),
         point = "write" => op \notin {"publish", "restore"},
         UNCHANGED <<row, snaps, site, cache, rd, rev, floor, kept>>
  PROVE  SnapInv' /\ Ages'
<1> DEFINE w == [Rest EXCEPT !.pc = point, !.op = op, !.doc = doc, !.pick = pick]
<1>1. w.wrote.rev = 0 /\ w.pc = point /\ w.op = op
  BY RestType DEF Locals, Rest, Start
<1>2. ed' = [ed EXCEPT ![e] = w]
  BY DEF Enter
<1> HIDE DEF w
<1>3. /\ w.wrote.rev <= rev /\ w.pc # "wipe"
      /\ ~ (w.pc = "write" /\ w.op \in {"publish", "restore"})
  BY <1>1, AgeFacts
<1>4. /\ row'.html = row.html /\ site'.content = site.content
      /\ snaps' = snaps /\ cache' \subseteq cache
      /\ UNCHANGED <<rd, rev, floor, kept>>
  OBVIOUS
<1> QED
  BY ONLY TypeOK, SnapInv, Ages, e \in Writers, <1>2, <1>3, <1>4, QuietWriter

(* A checked transition enters at the snapshot or at a write that needs    *)
(* none.                                                                   *)
LEMMA TransitionSafe ==
  ASSUME TypeOK, SnapInv, Ages, NEW e \in Writers,
         NEW op \in {"publish", "unpublish", "archive", "schedule", "cancel"},
         Transition(e, op),
         UNCHANGED <<row, snaps, site, cache, rd, rev, floor, kept>>
  PROVE  SnapInv' /\ Ages'
<1>1. CASE op = "publish"
  BY <1>1, EnterSafe DEF Transition
<1>2. CASE op # "publish"
  BY <1>2, EnterSafe DEF Transition
<1> QED
  BY <1>1, <1>2

(* Ending an invocation.                                                   *)
LEMMA LeaveSafe ==
  ASSUME TypeOK, SnapInv, Ages, NEW e \in Writers, Leave(e), row'.html = row.html,
         snaps' = snaps \/ \E d \in Docs : snaps' = Append(snaps, d),
         UNCHANGED <<site, cache, rd, rev, floor, kept>>
  PROVE  SnapInv' /\ Ages'
<1>1. Rest.wrote.rev <= rev /\ Rest.pc \notin {"wipe", "write"}
  BY AgeFacts DEF Rest, Start
<1>2. ed' = [ed EXCEPT ![e] = Rest] /\ cache' \subseteq cache /\ site'.content = site.content
  BY DEF Leave
<1> QED
  BY <1>1, <1>2, QuietWriter

(* Moving on, to the write only with the document in the history.          *)
LEMMA GotoSafe ==
  ASSUME TypeOK, SnapInv, Ages, NEW e \in Writers,
         NEW w \in Locals, ed' = [ed EXCEPT ![e] = w],
         w.wrote = ed[e].wrote, w.pc # "wipe" \/ ed[e].pc = "wipe",
         w.pc = "write" => In(w.doc, snaps'), row' = row, site' = site,
         snaps' = snaps \/ \E d \in Docs : snaps' = Append(snaps, d),
         cache' \subseteq cache, UNCHANGED <<rd, rev, floor, kept>>
  PROVE  SnapInv' /\ Ages'
<1>1. /\ w.wrote.rev <= rev
      /\ w.pc = "wipe" => w.wrote.rev <= floor[site.content]
  BY DEF Ages, WriterInv
<1> QED
  BY <1>1, QuietWriter

(* Requests that begin, and invocations that end.                          *)
LEMMA RequestSafe ==
  ASSUME TypeOK, SnapInv, Ages, NEW e \in Writers,
         \/ Begin(e) \/ BeginRestore(e) \/ BeginPreview(e) \/ Patch(e) \/ SaveSettings(e)
         \/ Select(e) \/ Crash(e)
  PROVE  SnapInv' /\ Ages'
<1> USE AgeFacts
<1>1. Rest \in Locals /\ Rest.wrote.rev = 0 /\ Rest.pc = "idle"
  BY RestType DEF Rest, Start
<1>4. CASE Begin(e)
  BY <1>4, TransitionSafe DEF Begin, history
<1>5. CASE BeginRestore(e)
  BY EnterSafe, <1>5 DEF BeginRestore, history
<1>6. CASE BeginPreview(e)
  BY EnterSafe, <1>6 DEF BeginPreview, history
<1>7. CASE Patch(e)
  <2>1. row'.html = row.html
    BY <1>7 DEF Patch, TypeOK, Rows
  <2>2. ed' = [ed EXCEPT ![e] = ed[e]]
    BY <1>7 DEF Patch, TypeOK, WritersType
  <2>3. UNCHANGED <<snaps, site, cache, rd, rev, floor, kept>>
    BY <1>7 DEF Patch, history
  <2>4. /\ ed[e].wrote.rev <= rev
        /\ ed[e].pc = "wipe" => ed[e].wrote.rev <= floor[site.content]
    BY DEF Ages, WriterInv
  <2>5. ed[e].pc = "write" /\ ed[e].op \in {"publish", "restore"} => In(ed[e].doc, snaps')
    BY <2>3 DEF SnapInv, Snapshotted, In
  <2> QED
    BY <2>1, <2>2, <2>3, <2>4, <2>5, QuietWriter
<1>8. CASE SaveSettings(e)
  <2> DEFINE w == [Rest EXCEPT !.pc = "wipe", !.op = "save",
                               !.wrote.settings = site.settings + 1, !.left = Len(Wipes)]
  <2>1. w.wrote.rev = 0 /\ w.pc = "wipe"
    BY <1>1 DEF Locals, Marks
  <2>2. ed' = [ed EXCEPT ![e] = w]
    BY <1>8 DEF SaveSettings
  <2> HIDE DEF w
  <2>3. site'.content = site.content
    BY <1>8 DEF SaveSettings, TypeOK
  <2>4. UNCHANGED <<row, snaps, cache, rd, rev, floor, kept>>
    BY <1>8 DEF SaveSettings, history
  <2>5. /\ w.wrote.rev <= rev /\ w.wrote.rev <= floor[site.content]
        /\ w.pc # "write"
    BY <2>1
  <2> QED
    BY ONLY TypeOK, SnapInv, Ages, e \in Writers, <2>2, <2>3, <2>4, <2>5, QuietWriter
<1>9. CASE Select(e)
  BY EnterSafe, <1>9 DEF Select, history
<1>10. CASE Crash(e)
  BY <1>10, LeaveSafe DEF Crash, history
<1> QED
  BY <1>4, <1>5, <1>6, <1>7, <1>8, <1>9, <1>10

(* A write the public sees: every mark of the past stays behind it.        *)
LEMMA PublicSafe ==
  ASSUME TypeOK, SnapInv, Ages, NEW e \in Writers, Public(e),
         row'.html = row.html \/ In(row'.html, snaps)
  PROVE  SnapInv' /\ Ages'
<1> USE AgeFacts
<1>1. /\ rev' = rev + 1 /\ UNCHANGED <<snaps, site, cache, rd, floor, kept>>
      /\ ed' = [ed EXCEPT ![e].pc = "bump", ![e].wrote.rev = rev + 1]
  BY DEF Public
<1>2. ed'[e].pc = "bump" /\ ed'[e].wrote.rev = rev + 1
  <2> DEFINE w == [ed[e] EXCEPT !.pc = "bump", !.wrote.rev = rev + 1]
  <2>1. ed[e].wrote \in Marks
    BY DEF Locals
  <2>2. w.pc = "bump" /\ w.wrote = [ed[e].wrote EXCEPT !.rev = rev + 1]
    BY DEF Locals
  <2>3. [ed[e].wrote EXCEPT !.rev = rev + 1].rev = rev + 1
    BY <2>1 DEF Marks
  <2>4. ed'[e] = w
    BY <1>1 DEF TypeOK, WritersType
  <2> HIDE DEF w
  <2> QED
    BY <2>2, <2>3, <2>4
<1>3. \A f \in Writers \ {e} : ed'[f] = ed[f]
  BY <1>1 DEF TypeOK, WritersType
<1>4. \A f \in Writers : WriterInv(f)'
  <2> SUFFICES ASSUME NEW f \in Writers PROVE WriterInv(f)'
    OBVIOUS
  <2>1. CASE f = e
    BY <1>1, <1>2, <2>1 DEF WriterInv
  <2>2. CASE f # e
    <3>1. ed'[f] = ed[f] /\ WriterInv(f)
      BY <1>3, <2>2 DEF Ages
    <3>2. rev' = rev + 1 /\ site' = site /\ floor' = floor /\ ed[f].wrote.rev \in Nat
      BY <1>1
    <3> QED
      BY <3>1, <3>2 DEF WriterInv
  <2> QED
    BY <2>1, <2>2
<1>5. \A v \in Visitors : VisitorInv(v)'
  BY <1>1 DEF Ages, VisitorInv, AsNewAs
<1>6. FloorInv'
  BY <1>1 DEF Ages, FloorInv
<1>7. Ages'
  BY <1>1, <1>4, <1>5, <1>6 DEF Ages, AsNewAs
<1>8. SnapInv'
  BY <1>1, <1>2, <1>3 DEF SnapInv, Snapshotted, In
<1> QED
  BY <1>7, <1>8

(* A bump: the new content_version begins as new as the article is.        *)
LEMMA BumpSafe ==
  ASSUME TypeOK, SnapInv, Ages, NEW e \in Writers, Bump(e)
  PROVE  SnapInv' /\ Ages'
<1> USE AgeFacts
<1>1. /\ UNCHANGED <<row, snaps, cache, rd, rev, kept>>
      /\ site'.content = site.content + 1
      /\ floor' = [n \in 1 .. (site.content + 1) |->
                     IF n \in DOMAIN floor THEN floor[n] ELSE rev]
  BY DEF Bump, TypeOK
<1>2. /\ DOMAIN floor' = 1 .. (site.content + 1) /\ DOMAIN floor \subseteq DOMAIN floor'
      /\ \A n \in DOMAIN floor : floor'[n] = floor[n]
      /\ floor'[site'.content] = rev
  BY <1>1
<1>3. ed'[e].pc = "wipe" /\ ed'[e].wrote = ed[e].wrote
  BY DEF Bump, TypeOK, WritersType, Locals
<1>4. \A f \in Writers \ {e} : ed'[f] = ed[f]
  BY DEF Bump, TypeOK, WritersType
<1>5. \A f \in Writers : WriterInv(f)'
  <2> SUFFICES ASSUME NEW f \in Writers PROVE WriterInv(f)'
    OBVIOUS
  <2>1. ed'[f].wrote = ed[f].wrote /\ ed[f].wrote.rev <= rev
    BY <1>3, <1>4 DEF Ages, WriterInv
  <2> QED
    BY <1>1, <1>2, <2>1 DEF WriterInv
<1>6. \A tag, mark \in Nat : AsNewAs(tag, mark) => tag \in DOMAIN floor' /\ floor'[tag] <= mark
  BY <1>2 DEF AsNewAs
<1>7. \A v \in Visitors : VisitorInv(v)'
  <2> SUFFICES ASSUME NEW v \in Visitors PROVE VisitorInv(v)'
    OBVIOUS
  <2>1. VisitorInv(v) /\ rd' = rd
    BY <1>1 DEF Ages
  <2> QED
    BY <1>2, <2>1 DEF VisitorInv, AsNewAs
<1>8. FloorInv'
  <2>1. \A n \in DOMAIN floor' : floor'[n] <= rev /\ floor'[n] \in Nat
    BY <1>1, <1>2 DEF Ages, FloorInv
  <2>2. \A m, n \in DOMAIN floor' : m <= n => floor'[m] <= floor'[n]
    <3> SUFFICES ASSUME NEW m \in DOMAIN floor', NEW n \in DOMAIN floor', m <= n
                 PROVE  floor'[m] <= floor'[n]
      OBVIOUS
    <3>1. CASE n \in DOMAIN floor
      BY <1>2, <3>1 DEF Ages, FloorInv
    <3>2. CASE n = site.content + 1
      BY <1>1, <1>2, <2>1, <3>2
    <3> QED
      BY <1>2, <3>1, <3>2
  <2> QED
    BY <1>1, <2>1, <2>2 DEF FloorInv
<1>9. kept'.rev <= floor'[site'.content]
  BY <1>1, <1>2 DEF Ages, FloorInv
<1>10. \A x \in cache' : AsNewAs(x.tag, x.rev)'
  BY <1>1, <1>6 DEF Ages, AsNewAs
<1>11. Ages'
  BY <1>5, <1>7, <1>8, <1>9, <1>10 DEF Ages
<1>12. SnapInv'
  BY <1>1, <1>3, <1>4 DEF SnapInv, Snapshotted
<1> QED
  BY <1>11, <1>12

(* An answer: what it promises, the version that has begun covers.         *)
LEMMA AnswerSafe ==
  ASSUME TypeOK, SnapInv, Ages, NEW e \in Writers, Answer(e)
  PROVE  SnapInv' /\ Ages'
<1> USE AgeFacts
<1>1. UNCHANGED <<row, snaps, site, cache, rd, rev, floor>> /\ ed' = [ed EXCEPT ![e] = Rest]
  BY DEF Answer, Leave
<1>2. kept'.rev = Later(kept.rev, ed[e].wrote.rev)
  BY DEF Answer
<1>3. ed[e].wrote.rev <= floor[site.content]
  BY DEF Answer, Working, Ages, WriterInv
<1>4. kept'.rev <= floor[site.content]
  BY <1>2, <1>3 DEF Later, Ages
<1>5. ed'[e].pc = "idle" /\ ed'[e].wrote.rev = 0 /\ \A f \in Writers \ {e} : ed'[f] = ed[f]
  BY <1>1 DEF Rest, Start, TypeOK, WritersType
<1>6. \A f \in Writers : WriterInv(f)'
  BY <1>1, <1>5 DEF Ages, WriterInv
<1>7. \A v \in Visitors : VisitorInv(v)'
  BY <1>1 DEF Ages, VisitorInv, AsNewAs
<1>8. FloorInv' /\ \A x \in cache' : AsNewAs(x.tag, x.rev)'
  BY <1>1 DEF Ages, FloorInv, AsNewAs
<1>9. Ages'
  BY <1>1, <1>4, <1>6, <1>7, <1>8 DEF Ages
<1>10. SnapInv'
  BY <1>1, <1>5 DEF SnapInv, Snapshotted
<1> QED
  BY <1>9, <1>10

(* Every statement of a writer.                                            *)
LEMMA RunSafe ==
  ASSUME TypeOK, SnapInv, Ages, NEW e \in Writers, Run(e)
  PROVE  SnapInv' /\ Ages'
<1> USE TypeFacts
<1>0. ed[e] \in Locals /\ Holds(ed[e])
  OBVIOUS
<1>1. CASE ReadChosen(e)
  BY <1>1, TransitionSafe, LeaveSafe DEF ReadChosen, history
<1>2. ASSUME NEW point \in {"count", "write"}, Goto(e, point),
             point = "write" => In(ed[e].doc, snaps'),
             snaps' = snaps \/ \E d \in Docs : snaps' = Append(snaps, d),
             UNCHANGED <<row, site, cache, rd, rev, floor, kept>>
      PROVE  SnapInv' /\ Ages'
  <2> DEFINE w == [ed[e] EXCEPT !.pc = point]
  <2>1. w \in Locals /\ w.pc = point /\ w.wrote = ed[e].wrote /\ w.doc = ed[e].doc
    BY DEF Locals, WriterPoints
  <2>2. ed' = [ed EXCEPT ![e] = w]
    BY <1>2 DEF Goto
  <2> HIDE DEF w
  <2>3. (w.pc # "wipe" \/ ed[e].pc = "wipe") /\ (w.pc = "write" => In(w.doc, snaps'))
    BY <1>2, <2>1
  <2> QED
    BY <1>2, <2>1, <2>2, <2>3, GotoSafe
<1>3. CASE Latest(e)
  BY <1>2, <1>3, LeaveSafe DEF Latest, history
<1>4. CASE CountVersions(e)
  <2> DEFINE w == [ed[e] EXCEPT !.pc = "insert", !.num = Len(snaps) + 1]
  <2>1. "insert" \in WriterPoints /\ Len(snaps) + 1 \in Nat /\ 0 \in 0 .. Len(Wipes)
    BY DEF WriterPoints
  <2>2. w \in Locals
    BY <1>0, <2>1, UpdateType
  <2>3. w.pc = "insert" /\ w.wrote = ed[e].wrote
    BY <1>0 DEF Locals
  <2>4. ed' = [ed EXCEPT ![e] = w]
    BY <1>4 DEF CountVersions
  <2> HIDE DEF w
  <2> QED
    BY <1>4, <2>2, <2>3, <2>4, GotoSafe DEF CountVersions, history
<1>5. CASE InsertVersion(e)
  <2>1. ed[e].doc \in Docs
    BY <1>5 DEF InsertVersion, Working, Holds
  <2>2. snaps' = Append(snaps, ed[e].doc)
    BY <1>5 DEF InsertVersion
  <2>3. In(ed[e].doc, snaps')
    <3>1. Len(snaps) + 1 \in DOMAIN snaps' /\ snaps'[Len(snaps) + 1] = ed[e].doc
      BY <2>1, <2>2
    <3> QED
      BY <3>1 DEF In
  <2>4. \E d \in Docs : snaps' = Append(snaps, d)
    BY <2>1, <2>2
  <2>5. UNCHANGED <<row, site, cache, rd, rev, floor, kept>>
    BY <1>5 DEF InsertVersion, history
  <2>6. CASE Leave(e)
    BY <2>4, <2>5, <2>6, LeaveSafe
  <2>7. CASE Goto(e, "write")
    BY <1>2, <2>3, <2>4, <2>5, <2>7
  <2> QED
    BY <1>5, <2>6, <2>7 DEF InsertVersion
<1>6. CASE NumberTaken(e)
  BY <1>6, LeaveSafe DEF NumberTaken, history
<1>7. CASE WritePublished(e)
  <2>1. In(ed[e].doc, snaps)
    BY <1>7 DEF WritePublished, Working, SnapInv, Snapshotted, In
  <2>2. row'.html = ed[e].doc
    BY <1>7 DEF WritePublished, Rows
  <2> QED
    BY <1>7, <2>1, <2>2, PublicSafe DEF WritePublished
<1>8. CASE WriteRetracted(e)
  <2>1. row'.html = row.html
    BY <1>8 DEF WriteRetracted, Rows
  <2> QED
    BY <1>8, <2>1, PublicSafe DEF WriteRetracted
<1>9. ASSUME Private(e), row'.html = row.html
      PROVE  SnapInv' /\ Ages'
  BY <1>9, LeaveSafe DEF Private, history
<1>10. CASE WriteScheduled(e)
  <2>1. row'.html = row.html
    BY <1>10 DEF WriteScheduled, Rows
  <2> QED
    BY <1>9, <1>10, <2>1 DEF WriteScheduled
<1>11. CASE WriteCancelled(e)
  <2>1. row'.html = row.html
    BY <1>11 DEF WriteCancelled, Rows
  <2> QED
    BY <1>9, <1>11, <2>1 DEF WriteCancelled
<1>12. CASE WriteRestored(e)
  <2>1. row'.html = row.html
    BY <1>12 DEF WriteRestored, Rows
  <2> QED
    BY <1>9, <1>12, <2>1 DEF WriteRestored
<1>13. CASE Bump(e)
  BY <1>13, BumpSafe
<1>14. CASE Wipe(e)
  <2> DEFINE w == [ed[e] EXCEPT !.left = ed[e].left - 1]
  <2>1. ed[e].pc = "wipe" /\ ed[e].left - 1 \in 0 .. Len(Wipes)
    BY <1>0, <1>14 DEF Wipe, Working, Locals
  <2>2. w \in Locals /\ w.wrote = ed[e].wrote /\ w.pc = ed[e].pc
    BY <1>0, <2>1 DEF Locals
  <2>3. ed' = [ed EXCEPT ![e] = w]
    BY <1>14 DEF Wipe
  <2> HIDE DEF w
  <2>4. cache' \subseteq cache
    BY <1>14 DEF Wipe
  <2> QED
    BY <1>14, <2>1, <2>2, <2>3, <2>4, GotoSafe DEF Wipe, history
<1>15. CASE Answer(e)
  BY <1>15, AnswerSafe
<1> QED
  BY <1>1, <1>3, <1>4, <1>5, <1>6, <1>7, <1>8, <1>10, <1>11, <1>12, <1>13, <1>14, <1>15
     DEF Run

-----------------------------------------------------------------------------
(* Visitors                                                                *)

(* A visitor's step keeps the invariant when the visitor's own part and    *)
(* the ages of the pages in the caches hold afterwards.                    *)
LEMMA QuietVisitor ==
  ASSUME TypeOK, SnapInv, Ages, NEW v \in Visitors, NEW r, rd' = [rd EXCEPT ![v] = r],
         VisitorInv(v)',
         \A x \in cache' : AsNewAs(x.tag, x.rev),
         UNCHANGED <<row, snaps, site, ed, rev, floor, kept>>
  PROVE  SnapInv' /\ Ages'
<1>1. \A u \in Visitors \ {v} : rd'[u] = rd[u]
  BY DEF TypeOK
<1>2. \A u \in Visitors : VisitorInv(u)'
  BY <1>1 DEF Ages, VisitorInv, AsNewAs
<1>3. \A e \in Writers : WriterInv(e)'
  BY DEF Ages, WriterInv
<1>4. Ages'
  BY <1>2, <1>3 DEF Ages, FloorInv, AsNewAs
<1>5. SnapInv'
  BY DEF SnapInv, Snapshotted
<1> QED
  BY <1>4, <1>5

(* A page put by a request under its own tag is as new as that tag.        *)
LEMMA StoreSafe ==
  ASSUME TypeOK, Ages, NEW v \in Visitors, NEW layer, Store(v, layer),
         AsNewAs(rd[v].tag, rd[v].rev)
  PROVE  \A x \in cache' : AsNewAs(x.tag, x.rev)
BY DEF Store, Ages

(* A request that ends without an answer, or is answered from a page of    *)
(* its own tag.                                                            *)
LEMMA EndSafe ==
  ASSUME TypeOK, SnapInv, Ages, NEW v \in Visitors,
         \/ rd' = [rd EXCEPT ![v] = Quiet(rd[v].copy)]
         \/ \E copy \in Copies :
              /\ rd' = [rd EXCEPT ![v] = Answered(v, copy)]
              /\ copy.tag = rd[v].tag
              /\ AsNewAs(copy.tag, copy.rev)
              /\ rd[v].pc \notin {"idle", "answered"},
         \A x \in cache' : AsNewAs(x.tag, x.rev),
         UNCHANGED <<row, snaps, site, ed, rev, floor, kept>>
  PROVE  SnapInv' /\ Ages'
<1> USE AgeFacts
<1>0. rd[v] \in Requests /\ VisitorInv(v)
  BY DEF Ages
<1>1. CASE rd' = [rd EXCEPT ![v] = Quiet(rd[v].copy)]
  <2>1. rd'[v].pc = "idle" /\ rd'[v].copy = rd[v].copy
    BY <1>1 DEF Quiet, TypeOK
  <2>2. VisitorInv(v)'
    BY <1>0, <2>1 DEF VisitorInv, AsNewAs
  <2> QED
    BY <1>1, <2>2, QuietVisitor
<1>2. CASE \E copy \in Copies :
             /\ rd' = [rd EXCEPT ![v] = Answered(v, copy)]
             /\ copy.tag = rd[v].tag
             /\ AsNewAs(copy.tag, copy.rev)
             /\ rd[v].pc \notin {"idle", "answered"}
  <2>1. PICK copy \in Copies :
          /\ rd' = [rd EXCEPT ![v] = Answered(v, copy)]
          /\ copy.tag = rd[v].tag
          /\ AsNewAs(copy.tag, copy.rev)
          /\ rd[v].pc \notin {"idle", "answered"}
    BY <1>2
  <2>2. rd'[v].pc = "answered" /\ rd'[v].copy = copy /\ rd'[v].due = rd[v].due
    BY <2>1 DEF Answered, Quiet, TypeOK
  <2>3. rd[v].due.rev <= floor[rd[v].tag]
    BY <1>0, <2>1 DEF VisitorInv
  <2>4. rd[v].due.rev <= copy.rev
    BY <2>1, <2>3 DEF AsNewAs
  <2>5. VisitorInv(v)'
    BY <2>1, <2>2, <2>4 DEF VisitorInv, AsNewAs
  <2> QED
    BY <2>1, <2>5, QuietVisitor
<1> QED
  BY <1>1, <1>2

(* A request that goes on under its tag and promise.                       *)
LEMMA GoOnSafe ==
  ASSUME TypeOK, SnapInv, Ages, NEW v \in Visitors, NEW r \in Requests,
         rd' = [rd EXCEPT ![v] = r],
         r.copy = rd[v].copy, r.tag = rd[v].tag, r.due = rd[v].due,
         r.pc \notin {"idle", "answered"}, rd[v].pc \notin {"idle", "answered"},
         r.pc \in {"settings", "put", "mirror"} => AsNewAs(r.tag, r.rev),
         \A x \in cache' : AsNewAs(x.tag, x.rev),
         UNCHANGED <<row, snaps, site, ed, rev, floor, kept>>
  PROVE  SnapInv' /\ Ages'
<1>1. rd'[v] = r /\ VisitorInv(v)
  BY DEF TypeOK, Ages
<1>2. VisitorInv(v)'
  BY <1>1 DEF VisitorInv, AsNewAs
<1> QED
  BY <1>2, QuietVisitor

(* Every step of a visitor.                                                *)
LEMMA VisitSafe ==
  ASSUME TypeOK, SnapInv, Ages, NEW v \in Visitors, Visit(v)
  PROVE  SnapInv' /\ Ages'
<1> USE AgeFacts
<1>0. /\ VisitorInv(v) /\ rd[v] \in Requests /\ \A x \in cache : AsNewAs(x.tag, x.rev)
      /\ rd[v].copy \in Copies \cup {NoCopy}
  BY DEF Ages
<1>1. CASE Arrive(v)
  <2>1. PICK p \in Paths :
          rd' = [rd EXCEPT ![v] =
                   [Quiet(rd[v].copy) EXCEPT
                      !.pc = IF p \in Gated THEN "gate" ELSE "check",
                      !.path = p, !.tag = site.content, !.due = kept]]
    BY <1>1 DEF Arrive
  <2> DEFINE r == [Quiet(rd[v].copy) EXCEPT
                     !.pc = IF p \in Gated THEN "gate" ELSE "check",
                     !.path = p, !.tag = site.content, !.due = kept]
  <2>2. r.pc \in {"gate", "check"} /\ r.tag = site.content /\ r.due = kept
        /\ r.copy = rd[v].copy
    BY DEF Quiet
  <2>3. rd'[v] = r
    BY <2>1 DEF TypeOK
  <2>4. UNCHANGED <<row, snaps, site, cache, ed, rev, floor, kept>>
    BY <1>1 DEF Arrive, history
  <2>5. rd' = [rd EXCEPT ![v] = r]
    BY <2>1
  <2> HIDE DEF r
  <2>6. VisitorInv(v)'
    BY <1>0, <2>2, <2>3, <2>4 DEF VisitorInv, AsNewAs, Ages
  <2> QED
    BY <1>0, <2>4, <2>5, <2>6, QuietVisitor
<1>2. ASSUME NEW point \in {"check", "kv", "article"}, Reach(v, point),
             rd[v].pc \notin {"idle", "answered"},
             UNCHANGED <<row, snaps, site, cache, ed, rev, floor, kept>>
      PROVE  SnapInv' /\ Ages'
  <2> DEFINE r == [rd[v] EXCEPT !.pc = point]
  <2>1. r \in Requests /\ r.pc = point /\ r.copy = rd[v].copy /\ r.tag = rd[v].tag
        /\ r.due = rd[v].due
    BY <1>0 DEF Requests, VisitorPoints
  <2>2. rd' = [rd EXCEPT ![v] = r]
    BY <1>2 DEF Reach
  <2> HIDE DEF r
  <2> QED
    BY <1>0, <1>2, <2>1, <2>2, GoOnSafe
<1>3. CASE Gate(v)
  BY <1>0, <1>2, <1>3, EndSafe DEF Gate, Asking, history
<1>4. CASE NotModified(v)
  <2>1. rd[v].copy \in Copies /\ rd[v].copy.tag = rd[v].tag /\ rd[v].pc = "check"
    BY <1>0, <1>4 DEF NotModified, Matches, Asking
  <2>2. rd[v].copy # NoCopy
    BY <1>4 DEF NotModified, Matches
  <2>3. AsNewAs(rd[v].copy.tag, rd[v].copy.rev)
    BY <1>0, <2>2 DEF VisitorInv
  <2>4. rd' = [rd EXCEPT ![v] = Answered(v, rd[v].copy)]
        /\ UNCHANGED <<row, snaps, site, cache, ed, rev, floor, kept>>
    BY <1>4 DEF NotModified, history
  <2> QED
    BY <1>0, <2>1, <2>3, <2>4, EndSafe
<1>5. ASSUME NEW layer \in {"kv", "edge"}, NEW next \in {"kv", "article"},
             Lookup(v, layer, next), rd[v].pc \in {"check", "kv"}
      PROVE  SnapInv' /\ Ages'
  <2>1. UNCHANGED <<row, snaps, site, cache, ed, rev, floor, kept>>
    BY <1>5 DEF Lookup, history
  <2>2. CASE Reach(v, next)
    BY <1>2, <1>5, <2>1, <2>2
  <2>3. CASE \E x \in Entry(v, layer) : Keep(v, x)
    <3>1. PICK x \in Entry(v, layer) : Keep(v, x)
      BY <2>3
    <3>2. x \in cache /\ x.tag = rd[v].tag
      BY <3>1 DEF Entry
    <3> DEFINE copy == [path |-> x.path, tag |-> x.tag, rev |-> x.rev,
                        settings |-> x.settings]
    <3>3. copy \in Copies /\ copy.tag = rd[v].tag /\ copy.rev = x.rev
      BY <3>2 DEF TypeOK, Entries, Copies
    <3>4. rd' = [rd EXCEPT ![v] = Answered(v, copy)]
      BY <3>1 DEF Keep
    <3>5. AsNewAs(copy.tag, copy.rev)
      BY <1>0, <3>2, <3>3
    <3> HIDE DEF copy
    <3> QED
      BY <1>0, <1>5, <2>1, <3>3, <3>4, <3>5, EndSafe
  <2> QED
    BY <1>5, <2>2, <2>3 DEF Lookup
<1>6. CASE RenderArticle(v)
  <2>1. UNCHANGED <<row, snaps, site, cache, ed, rev, floor, kept>> /\ rd[v].pc = "article"
    BY <1>6 DEF RenderArticle, Asking, history
  <2>2. CASE rd' = [rd EXCEPT ![v] = Quiet(rd[v].copy)]
    BY <1>0, <2>1, <2>2, EndSafe
  <2>3. CASE rd' = [rd EXCEPT ![v].pc = "settings", ![v].rev = rev]
    <3> DEFINE r == [rd[v] EXCEPT !.pc = "settings", !.rev = rev]
    <3>1. r \in Requests /\ r.copy = rd[v].copy /\ r.tag = rd[v].tag /\ r.due = rd[v].due
          /\ r.pc = "settings" /\ r.rev = rev
      BY <1>0 DEF Requests, VisitorPoints
    <3>2. rd' = [rd EXCEPT ![v] = r]
      BY <2>3
    <3> HIDE DEF r
    <3>3. AsNewAs(r.tag, r.rev)
      BY <1>0, <2>1, <3>1 DEF AsNewAs, VisitorInv, Ages, FloorInv
    <3> QED
      BY <1>0, <2>1, <3>1, <3>2, <3>3, GoOnSafe
  <2> QED
    BY <1>6, <2>2, <2>3 DEF RenderArticle
<1>7. CASE RenderSettings(v)
  <2> DEFINE r == [rd[v] EXCEPT !.pc = "put", !.settings = site.settings]
  <2>1. UNCHANGED <<row, snaps, site, cache, ed, rev, floor, kept>> /\ rd[v].pc = "settings"
    BY <1>7 DEF RenderSettings, Asking, history
  <2>2. site.settings \in Nat
    BY DEF TypeOK
  <2>3. r \in Requests /\ r.copy = rd[v].copy /\ r.tag = rd[v].tag /\ r.due = rd[v].due
        /\ r.pc = "put" /\ r.rev = rd[v].rev
    BY <1>0, <2>2 DEF Requests, VisitorPoints
  <2>4. rd' = [rd EXCEPT ![v] = r]
    BY <1>7 DEF RenderSettings
  <2> HIDE DEF r
  <2>5. AsNewAs(r.tag, r.rev)
    BY <1>0, <2>1, <2>3 DEF VisitorInv
  <2> QED
    BY <1>0, <2>1, <2>3, <2>4, <2>5, GoOnSafe
<1>8. CASE PutKv(v)
  <2> DEFINE r == [rd[v] EXCEPT !.pc = "mirror"]
  <2>1. UNCHANGED <<row, snaps, site, ed, rev, floor, kept>> /\ rd[v].pc = "put"
    BY <1>8 DEF PutKv, Asking, history
  <2>2. AsNewAs(rd[v].tag, rd[v].rev)
    BY <1>0, <2>1 DEF VisitorInv
  <2>3. \A x \in cache' : AsNewAs(x.tag, x.rev)
    BY <1>8, <2>2, StoreSafe DEF PutKv
  <2>4. r \in Requests /\ r.copy = rd[v].copy /\ r.tag = rd[v].tag /\ r.due = rd[v].due
        /\ r.pc = "mirror" /\ r.rev = rd[v].rev
    BY <1>0 DEF Requests, VisitorPoints
  <2>5. rd' = [rd EXCEPT ![v] = r]
    BY <1>8 DEF PutKv, Reach
  <2> HIDE DEF r
  <2> QED
    BY <1>0, <2>1, <2>2, <2>3, <2>4, <2>5, GoOnSafe
<1>9. CASE PutEdge(v)
  <2> DEFINE copy == [path |-> rd[v].path, tag |-> rd[v].tag, rev |-> rd[v].rev,
                      settings |-> rd[v].settings]
  <2>1. UNCHANGED <<row, snaps, site, ed, rev, floor, kept>> /\ rd[v].pc = "mirror"
    BY <1>9 DEF PutEdge, Asking, history
  <2>2. AsNewAs(rd[v].tag, rd[v].rev)
    BY <1>0, <2>1 DEF VisitorInv
  <2>3. \A x \in cache' : AsNewAs(x.tag, x.rev)
    BY <1>9, <2>2, StoreSafe DEF PutEdge
  <2>4. copy \in Copies /\ copy.tag = rd[v].tag /\ copy.rev = rd[v].rev
    BY <1>0 DEF Requests, Copies
  <2>5. rd' = [rd EXCEPT ![v] = Answered(v, copy)]
    BY <1>9 DEF PutEdge, Keep
  <2> HIDE DEF copy
  <2> QED
    BY <1>0, <2>1, <2>2, <2>3, <2>4, <2>5, EndSafe
<1>10. CASE GiveUp(v)
  BY <1>0, <1>10, EndSafe DEF GiveUp, history
<1> QED
  BY <1>1, <1>3, <1>4, <1>5, <1>6, <1>7, <1>8, <1>9, <1>10
     DEF Visit, LookupEdge, LookupKv, Asking

-----------------------------------------------------------------------------
(* The theorems                                                            *)

(* IInv is kept by every step.                                             *)
LEMMA SafeStep == IInv /\ [Next]_vars => IInv'
<1> SUFFICES ASSUME IInv, [Next]_vars PROVE IInv'
  OBVIOUS
<1>1. TypeOK /\ SnapInv /\ Ages /\ TypeOK'
  BY TypeStep DEF IInv, Ages
<1>2. ASSUME cache' \subseteq cache, row'.html = row.html,
             UNCHANGED <<snaps, site, ed, rd, rev, floor, kept>>
      PROVE  SnapInv' /\ Ages'
  <2>1. \A e \in Writers : WriterInv(e)'
    BY <1>1, <1>2 DEF Ages, WriterInv
  <2>2. \A v \in Visitors : VisitorInv(v)'
    BY <1>1, <1>2 DEF Ages, VisitorInv, AsNewAs
  <2>3. Ages'
    BY <1>1, <1>2, <2>1, <2>2 DEF Ages, FloorInv, AsNewAs
  <2> QED
    BY <1>1, <1>2, <2>3 DEF SnapInv, Snapshotted
<1>3. CASE Clock
  <2>1. row'.html = row.html
    BY <1>1, <1>3 DEF Clock, TypeOK, Rows
  <2> QED
    BY <1>1, <1>2, <1>3, <2>1 DEF Clock, history, IInv, Ages
<1>4. ASSUME NEW x \in cache, Expire(x) PROVE SnapInv' /\ Ages'
  BY <1>2, <1>4 DEF Expire, history
<1>5. CASE UNCHANGED vars
  BY <1>2, <1>5, <1>1 DEF vars, history, IInv, Ages
<1>6. SnapInv' /\ Ages'
  BY <1>1, <1>2, <1>3, <1>4, <1>5, RequestSafe, RunSafe, VisitSafe DEF Next, IInv, Ages
<1> QED
  BY <1>1, <1>6 DEF IInv, Ages

(* The invariant behind the two theorems below: no page that carries the   *)
(* tag of a content_version, in a cache, in a browser or in flight, is     *)
(* older than that version, and no writer answers before a version that    *)
(* covers its write has begun (workflow/publish.ts, html-pipeline.ts).     *)
THEOREM PagesAreAsNewAsTheirTag == Spec => []IInv
<1>1. Init => IInv
  BY TypeInit, SafeInit DEF IInv, Ages
<1> QED
  BY <1>1, SafeStep, PTL DEF Spec

(* A request that arrives after publish, unpublish or archive has answered *)
(* is shown the article as that left it, or later, whichever cache or      *)
(* browser copy answers it (workflow/publish.ts, step d).                  *)
THEOREM TransitionsAreVisible == Spec => []TransitionVisible
<1>1. IInv => TransitionVisible
  <2> SUFFICES ASSUME IInv, NEW v \in Visitors, Asking(v, "answered")
               PROVE  rd[v].copy.rev >= rd[v].due.rev
    BY DEF TransitionVisible
  <2>1. rd[v].copy \in Copies /\ rd[v].due.rev <= rd[v].copy.rev
    BY DEF IInv, VisitorInv, Asking
  <2>2. rd[v].copy.rev \in Nat /\ rd[v].due.rev \in Nat
    BY <2>1, AgeFacts DEF IInv
  <2> QED
    BY <2>1, <2>2
<1> QED
  BY <1>1, PagesAreAsNewAsTheirTag, PTL

(* What publish rendered is in the version history, whoever else writes    *)
(* snapshots, restores, edits or dies meanwhile (workflow/publish.ts,      *)
(* steps a to c).                                                          *)
THEOREM PublishedStaysRestorable == Spec => []PublishedIsSnapshotted
<1>1. IInv => PublishedIsSnapshotted
  BY DEF IInv, SnapInv, Snapshotted, PublishedIsSnapshotted
<1> QED
  BY <1>1, PagesAreAsNewAsTheirTag, PTL
=============================================================================
