----------------------------- MODULE Publishing -----------------------------
(***************************************************************************)
(* One article of one site, on its way from the editor to a visitor: the   *)
(* workflow (workflow/), the settings save (admin/api.ts), the cached HTML  *)
(* pages (public/html-pipeline.ts, cache/) and the visitors' browsers.     *)
(* Every D1 statement and every cache call is an action of its own.  A     *)
(* page's content is abstracted to which state of the article and of the   *)
(* settings it was rendered from.                                          *)
(***************************************************************************)
EXTENDS Naturals, Sequences

CONSTANTS
  Editors,                      \* admin invocations that may be alive at once
  Crons,                        \* cron invocations that may be alive at once
  Visitors,                     \* browsers, each with one request at a time
  Docs,                         \* values of articles.content_json
  Paths,                        \* public paths that show the article
  Gated,                        \* those that answer 404 unless it is published
  Wipes,                        \* the paths in the order of the wipe's prefixes
  NoDoc,                        \* content_html of a row never published
  NoCopy,                       \* a browser that has no page yet
  MaxOps,                       \* bound: admin requests in all
  MaxCrashes                    \* bound: evicted invocations in all

ASSUME ParametersAssumption ==
  /\ Editors \cap Crons = {}
  /\ Docs # {} /\ Paths # {}
  /\ NoDoc \notin Docs
  /\ Gated \subseteq Paths
  /\ Wipes \in Seq(Paths)
  /\ MaxOps \in Nat
  /\ MaxCrashes \in Nat

VARIABLES
  row,                          \* the articles row
  snaps,                        \* article_versions.content_json by number
  site,                         \* sites.content_version, settings_version
  cache,                        \* the HTML pages in KV and in caches.default
  ed,                           \* each writer's program point and locals
  rd,                           \* each visitor's request and browser copy
  rev,                          \* history: transitions written so far
  floor,                        \* history: rev when a content_version began
  kept,                         \* history: what answered writers have promised
  ops, crashes                  \* the two bounded counters

counters == <<ops, crashes>>
history == <<rev, floor, kept>>
vars == <<row, snaps, site, cache, ed, rd, history, counters>>

Statuses == {"draft", "published", "scheduled", "archived"}
Writers == Editors \cup Crons

Ops ==
  {"none", "publish", "unpublish", "archive", "schedule", "cancel", "restore",
   "preview", "save"}

(* How far the article and the settings have come.                         *)
Marks == [rev : Nat, settings : Nat]
Start == [rev |-> 0, settings |-> 1]

Copies == [path : Paths, tag : Nat, rev : Nat, settings : Nat]
Entries == [layer : {"kv", "edge"}, path : Paths, tag : Nat, rev : Nat, settings : Nat]

WriterPoints ==
  {"idle", "chosen", "latest", "count", "insert", "write", "bump", "wipe"}
VisitorPoints ==
  {"idle", "gate", "check", "kv", "article", "settings", "put", "mirror",
   "answered"}

Rows ==
  [status : Statuses, json : Docs, html : Docs \cup {NoDoc}, at : {"null", "later", "past"}]

Locals ==
  [pc : WriterPoints, op : Ops, doc : Docs \cup {NoDoc}, pick : Docs \cup {NoDoc},
   num : Nat, wrote : Marks, left : 0 .. Len(Wipes)]

(* The document is there from the read to the write, a restore's version   *)
(* all along.                                                              *)
Holds(w) ==
  /\ w.pc \in {"latest", "count", "insert", "write"} => w.doc \in Docs
  /\ w.op = "restore" => w.pick \in Docs

WritersType ==
  /\ ed \in [Writers -> Locals]
  /\ \A e \in Writers : Holds(ed[e])

Requests ==
  [pc : VisitorPoints, path : Paths, tag : Nat, rev : Nat, settings : Nat, due : Marks,
   copy : Copies \cup {NoCopy}]

TypeOK ==
  /\ row \in Rows
  /\ snaps \in Seq(Docs)
  /\ site \in [content : Nat \ {0}, settings : Nat \ {0}]
  /\ cache \subseteq Entries
  /\ WritersType
  /\ rd \in [Visitors -> Requests]
  /\ rev \in Nat
  /\ floor \in [1 .. site.content -> Nat]
  /\ kept \in Marks
  /\ ops \in 0 .. MaxOps
  /\ crashes \in 0 .. MaxCrashes

-----------------------------------------------------------------------------
(* Helpers                                                                 *)

(* A table that misses the pair the cron needs.                            *)
LegalByHandOnly ==
  { <<"draft", "published">>, <<"draft", "scheduled">>, <<"scheduled", "draft">>,
    <<"published", "archived">>, <<"published", "draft">> }

(* VALID_TRANSITIONS: exactly these six.                                   *)
Legal ==
  { <<"draft", "published">>, <<"draft", "scheduled">>,
    <<"scheduled", "published">>, <<"scheduled", "draft">>,
    <<"published", "archived">>, <<"published", "draft">> }

Target(op) ==
  CASE op = "publish" -> "published"
    [] op = "archive" -> "archived"
    [] op = "schedule" -> "scheduled"
    [] op \in {"unpublish", "cancel"} -> "draft"

Later(m, n) == IF m >= n THEN m ELSE n

Working(e, point) == ed[e].pc = point

Rest == [pc |-> "idle", op |-> "none", doc |-> NoDoc, pick |-> NoDoc, num |-> 0,
         wrote |-> Start, left |-> 0]

Enter(e, op, point, doc, pick) ==
  ed' = [ed EXCEPT ![e] = [Rest EXCEPT !.pc = point, !.op = op, !.doc = doc, !.pick = pick]]

Leave(e) == ed' = [ed EXCEPT ![e] = Rest]

Goto(e, point) == ed' = [ed EXCEPT ![e].pc = point]

(* An admin request, one of boundedly many.                                *)
Request(e) ==
  /\ e \in Editors
  /\ Working(e, "idle")
  /\ ops < MaxOps
  /\ ops' = ops + 1

Asking(v, point) == rd[v].pc = point

Reach(v, point) == rd' = [rd EXCEPT ![v].pc = point]

(* A browser between requests keeps its page and nothing else.             *)
Quiet(copy) ==
  [pc |-> "idle", path |-> CHOOSE p \in Paths : TRUE, tag |-> 0, rev |-> 0,
   settings |-> 0, due |-> Start, copy |-> copy]

Answered(v, copy) == [Quiet(copy) EXCEPT !.pc = "answered", !.due = rd[v].due]

(* A page is answered: the browser keeps it with the ETag it came with.    *)
Keep(v, page) ==
  rd' = [rd EXCEPT ![v] = Answered(v,
           [path |-> page.path, tag |-> page.tag,
            rev |-> page.rev, settings |-> page.settings])]

Entry(v, layer) ==
  {x \in cache : x.layer = layer /\ x.path = rd[v].path /\ x.tag = rd[v].tag}

(* A key holds one page: a put replaces what is there.                     *)
Store(v, layer) ==
  cache' = (cache \ Entry(v, layer)) \cup
             {[layer |-> layer, path |-> rd[v].path, tag |-> rd[v].tag,
               rev |-> rd[v].rev, settings |-> rd[v].settings]}

-----------------------------------------------------------------------------
(* POST /api/admin/articles creates the row in any status, with neither a   *)
(* rendered body nor a scheduled time.                                     *)
Init ==
  /\ row \in [status : Statuses, json : Docs, html : {NoDoc}, at : {"null"}]
  /\ snaps = <<>>
  /\ site = [content |-> 1, settings |-> 1]
  /\ cache = {}
  /\ ed = [e \in Writers |-> Rest]
  /\ rd = [v \in Visitors |-> Quiet(NoCopy)]
  /\ rev = 0
  /\ floor = [n \in 1 .. 1 |-> 0]
  /\ kept = Start
  /\ ops = 0
  /\ crashes = 0

-----------------------------------------------------------------------------
(* Workflow (workflow/publish.ts, transitions.ts, versions.ts)             *)

(* The row is read and the transition checked on what was read.            *)
Transition(e, op) ==
  /\ <<row.status, Target(op)>> \in Legal
  /\ Enter(e, op, IF op = "publish" THEN "count" ELSE "write", row.json, NoDoc)

Begin(e) ==
  /\ Request(e)
  /\ \E op \in {"publish", "unpublish", "archive", "schedule", "cancel"} :
       /\ op = "cancel" => row.status = "scheduled"
       /\ Transition(e, op)
  /\ UNCHANGED <<row, snaps, site, cache, rd, history, crashes>>

(* restoreVersion: the version (which never changes) and the row are read. *)
BeginRestore(e) ==
  /\ Request(e)
  /\ \E n \in DOMAIN snaps : Enter(e, "restore", "count", row.json, snaps[n])
  /\ UNCHANGED <<row, snaps, site, cache, rd, history, crashes>>

(* createPreviewLink without a version: the draft is snapshotted unless the *)
(* newest version holds it already.                                        *)
BeginPreview(e) ==
  /\ Request(e)
  /\ Enter(e, "preview", "latest", row.json, NoDoc)
  /\ UNCHANGED <<row, snaps, site, cache, rd, history, crashes>>

Latest(e) ==
  /\ Working(e, "latest")
  /\ IF snaps # <<>> /\ snaps[Len(snaps)] = ed[e].doc THEN Leave(e) ELSE Goto(e, "count")
  /\ UNCHANGED <<row, snaps, site, cache, rd, history, counters>>

(* processScheduledArticles: the due article is selected ...               *)
Select(c) ==
  /\ c \in Crons
  /\ Working(c, "idle")
  /\ row.status = "scheduled" /\ row.at = "past"
  /\ Enter(c, "publish", "chosen", NoDoc, NoDoc)
  /\ UNCHANGED <<row, snaps, site, cache, rd, history, counters>>

(* ... and later handed to publish(), whose rejection goes to failed[].    *)
ReadChosen(c) ==
  /\ Working(c, "chosen")
  /\ \/ Transition(c, "publish")
     \/ <<row.status, "published">> \notin Legal /\ Leave(c)
  /\ UNCHANGED <<row, snaps, site, cache, rd, history, counters>>

(* snapshotVersion: MAX(version_number), then the INSERT, which the UNIQUE *)
(* index refuses when another writer took the number.                      *)
CountVersions(e) ==
  /\ Working(e, "count")
  /\ ed' = [ed EXCEPT ![e].pc = "insert", ![e].num = Len(snaps) + 1]
  /\ UNCHANGED <<row, snaps, site, cache, rd, history, counters>>

(* A snapshot of the rendered body instead of the document.                *)
InsertRendered(e) ==
  /\ Working(e, "insert")
  /\ ed[e].num = Len(snaps) + 1
  /\ snaps' = Append(snaps, row.html)
  /\ IF ed[e].op = "preview" THEN Leave(e) ELSE Goto(e, "write")
  /\ UNCHANGED <<row, site, cache, rd, history, counters>>

InsertVersion(e) ==
  /\ Working(e, "insert")
  /\ ed[e].num = Len(snaps) + 1
  /\ snaps' = Append(snaps, ed[e].doc)
  /\ IF ed[e].op = "preview" THEN Leave(e) ELSE Goto(e, "write")
  /\ UNCHANGED <<row, site, cache, rd, history, counters>>

NumberTaken(e) ==
  /\ Working(e, "insert")
  /\ ed[e].num # Len(snaps) + 1
  /\ Leave(e)
  /\ UNCHANGED <<row, snaps, site, cache, rd, history, counters>>

(* The wipe alone taken for the invalidation.                              *)
PublicUnbumped(e) ==
  /\ rev' = rev + 1
  /\ ed' = [ed EXCEPT ![e].pc = "wipe", ![e].wrote.rev = rev + 1,
                      ![e].left = Len(Wipes)]
  /\ UNCHANGED <<snaps, site, cache, rd, floor, kept, counters>>

(* A write that changes what the public sees; the bump comes after it.     *)
Public(e) ==
  /\ rev' = rev + 1
  /\ ed' = [ed EXCEPT ![e].pc = "bump", ![e].wrote.rev = rev + 1]
  /\ UNCHANGED <<snaps, site, cache, rd, floor, kept, counters>>

(* One that does not: the invocation answers.                              *)
Private(e) ==
  /\ Leave(e)
  /\ UNCHANGED <<snaps, site, cache, rd, history, counters>>

(* Rendered from the row as it is now, not from what was snapshotted.      *)
WriteReread(e) ==
  /\ Working(e, "write") /\ ed[e].op = "publish"
  /\ row' = [row EXCEPT !.status = "published", !.html = row.json, !.at = "null"]
  /\ Public(e)

WritePublished(e) ==
  /\ Working(e, "write") /\ ed[e].op = "publish"
  /\ row' = [row EXCEPT !.status = "published", !.html = ed[e].doc, !.at = "null"]
  /\ Public(e)

WriteRetracted(e) ==
  /\ Working(e, "write") /\ ed[e].op \in {"unpublish", "archive"}
  /\ row' = [row EXCEPT !.status = Target(ed[e].op)]
  /\ Public(e)

WriteScheduled(e) ==
  /\ Working(e, "write") /\ ed[e].op = "schedule"
  /\ \E at \in {"later", "past"} :
       row' = [row EXCEPT !.status = "scheduled", !.at = at]
  /\ Private(e)

WriteCancelled(e) ==
  /\ Working(e, "write") /\ ed[e].op = "cancel"
  /\ row' = [row EXCEPT !.status = "draft", !.at = "null"]
  /\ Private(e)

WriteRestored(e) ==
  /\ Working(e, "write") /\ ed[e].op = "restore"
  /\ row' = [row EXCEPT !.json = ed[e].pick]
  /\ Private(e)

(* PATCH /api/admin/articles/:id writes the fields of its body, the status *)
(* among them, and leaves content_version and the cache alone.             *)
Patch(e) ==
  /\ Request(e)
  /\ \E d \in Docs, s \in Statuses :
       row' = [row EXCEPT !.json = d, !.status = s]
  /\ UNCHANGED <<snaps, site, cache, ed, rd, history, crashes>>

(* The scheduled time arrives.                                             *)
Clock ==
  /\ row.at = "later"
  /\ row' = [row EXCEPT !.at = "past"]
  /\ UNCHANGED <<snaps, site, cache, ed, rd, history, counters>>

-----------------------------------------------------------------------------
(* Invalidation (publish.ts, cache/invalidate.ts, admin/api.ts)            *)

Bump(e) ==
  /\ Working(e, "bump")
  /\ site' = [site EXCEPT !.content = @ + 1]
  /\ floor' = [n \in 1 .. (site.content + 1) |->
                 IF n \in DOMAIN floor THEN floor[n] ELSE rev]
  /\ ed' = [ed EXCEPT ![e].pc = "wipe", ![e].left = Len(Wipes)]
  /\ UNCHANGED <<row, snaps, cache, rd, rev, kept, counters>>

(* updateSettings: the values and settings_version in one batch.           *)
SaveSettings(e) ==
  /\ Request(e)
  /\ site' = [site EXCEPT !.settings = @ + 1]
  /\ ed' = [ed EXCEPT ![e] = [Rest EXCEPT !.pc = "wipe", !.op = "save",
                                !.wrote.settings = site.settings + 1, !.left = Len(Wipes)]]
  /\ UNCHANGED <<row, snaps, cache, rd, history, crashes>>

(* One prefix is listed and deleted, in KV only: caches.default keeps its  *)
(* pages.  Both kinds of wipe walk the prefixes of these paths in order.   *)
Wipe(e) ==
  /\ Working(e, "wipe") /\ ed[e].left > 0
  /\ cache' = {x \in cache :
                 x.layer = "kv" => x.path # Wipes[Len(Wipes) + 1 - ed[e].left]}
  /\ ed' = [ed EXCEPT ![e].left = @ - 1]
  /\ UNCHANGED <<row, snaps, site, rd, history, counters>>

(* The writer answers.  A settings save also does when its wipe throws.    *)
Answer(e) ==
  /\ Working(e, "wipe")
  /\ ed[e].left = 0 \/ ed[e].op = "save"
  /\ kept' = [rev |-> Later(kept.rev, ed[e].wrote.rev),
               settings |-> Later(kept.settings, ed[e].wrote.settings)]
  /\ Leave(e)
  /\ UNCHANGED <<row, snaps, site, cache, rd, rev, floor, counters>>

(* The runtime evicts a writer, or a statement it does not catch throws.   *)
Crash(e) ==
  /\ ~ Working(e, "idle")
  /\ crashes < MaxCrashes
  /\ crashes' = crashes + 1
  /\ Leave(e)
  /\ UNCHANGED <<row, snaps, site, cache, rd, history, ops>>

-----------------------------------------------------------------------------
(* A visitor's request (site-context.ts, router.ts, html-pipeline.ts)      *)

(* resolveSiteByHostname reads content_version: the key and the ETag of    *)
(* this request for good.                                                  *)
Arrive(v) ==
  /\ rd[v].pc \in {"idle", "answered"}
  /\ \E p \in Paths :
       rd' = [rd EXCEPT ![v] =
                [Quiet(rd[v].copy) EXCEPT
                   !.pc = IF p \in Gated THEN "gate" ELSE "check",
                   !.path = p, !.tag = site.content, !.due = kept]]
  /\ UNCHANGED <<row, snaps, site, cache, ed, history, counters>>

(* The article route looks the row up first and answers 404 without it.    *)
Gate(v) ==
  /\ Asking(v, "gate")
  /\ IF row.status = "published"
       THEN Reach(v, "check")
       ELSE rd' = [rd EXCEPT ![v] = Quiet(rd[v].copy)]
  /\ UNCHANGED <<row, snaps, site, cache, ed, history, counters>>

Matches(v) ==
  /\ rd[v].copy # NoCopy
  /\ rd[v].copy.path = rd[v].path
  /\ rd[v].copy.tag = rd[v].tag

(* 304: the browser shows the copy it has.                                 *)
NotModified(v) ==
  /\ Asking(v, "check") /\ Matches(v)
  /\ rd' = [rd EXCEPT ![v] = Answered(v, rd[v].copy)]
  /\ UNCHANGED <<row, snaps, site, cache, ed, history, counters>>

(* getCachedHtml: caches.default first, then KV.  A request may carry no   *)
(* If-None-Match although the browser has a copy.                          *)
Lookup(v, layer, next) ==
  /\ IF Entry(v, layer) = {} THEN Reach(v, next)
                             ELSE \E x \in Entry(v, layer) : Keep(v, x)
  /\ UNCHANGED <<row, snaps, site, cache, ed, history, counters>>

LookupEdge(v) == Asking(v, "check") /\ Lookup(v, "edge", "kv")
LookupKv(v) == Asking(v, "kv") /\ Lookup(v, "kv", "article")

(* The page is rendered from the article as it is now ...                  *)
RenderArticle(v) ==
  /\ Asking(v, "article")
  /\ IF rd[v].path \in Gated /\ row.status # "published"
       THEN rd' = [rd EXCEPT ![v] = Quiet(rd[v].copy)]
       ELSE rd' = [rd EXCEPT ![v].pc = "settings", ![v].rev = rev]
  /\ UNCHANGED <<row, snaps, site, cache, ed, history, counters>>

(* ... and from the settings a query later.                                *)
RenderSettings(v) ==
  /\ Asking(v, "settings")
  /\ rd' = [rd EXCEPT ![v].pc = "put", ![v].settings = site.settings]
  /\ UNCHANGED <<row, snaps, site, cache, ed, history, counters>>

(* The key built from the content_version of now, after the render.        *)
PutKvLate(v) ==
  /\ Asking(v, "put")
  /\ cache' = {x \in cache : x.layer = "edge" \/ x.path # rd[v].path \/ x.tag # site.content}
                \cup {[layer |-> "kv", path |-> rd[v].path, tag |-> site.content,
                       rev |-> rd[v].rev, settings |-> rd[v].settings]}
  /\ Reach(v, "mirror")
  /\ UNCHANGED <<row, snaps, site, ed, history, counters>>

(* putCachedHtml: KV, then caches.default, then the answer.                *)
PutKv(v) ==
  /\ Asking(v, "put")
  /\ Store(v, "kv")
  /\ Reach(v, "mirror")
  /\ UNCHANGED <<row, snaps, site, ed, history, counters>>

PutEdge(v) ==
  /\ Asking(v, "mirror")
  /\ Store(v, "edge")
  /\ Keep(v, rd[v])
  /\ UNCHANGED <<row, snaps, site, ed, history, counters>>

(* The visitor, or the runtime, drops the request.                         *)
GiveUp(v) ==
  /\ rd[v].pc \notin {"idle", "answered"}
  /\ rd' = [rd EXCEPT ![v] = Quiet(rd[v].copy)]
  /\ UNCHANGED <<row, snaps, site, cache, ed, history, counters>>

(* A mirror put without its max-age.                                       *)
ExpireKvOnly(x) ==
  /\ x \in cache /\ x.layer = "kv"
  /\ cache' = cache \ {x}
  /\ UNCHANGED <<row, snaps, site, ed, rd, history, counters>>

(* expirationTtl and max-age: every page leaves both layers in the end.    *)
Expire(x) ==
  /\ x \in cache
  /\ cache' = cache \ {x}
  /\ UNCHANGED <<row, snaps, site, ed, rd, history, counters>>

-----------------------------------------------------------------------------
Run(e) ==
  \/ ReadChosen(e) \/ Latest(e)
  \/ CountVersions(e) \/ InsertVersion(e) \/ NumberTaken(e)
  \/ WritePublished(e) \/ WriteRetracted(e) \/ WriteScheduled(e)
  \/ WriteCancelled(e) \/ WriteRestored(e)
  \/ Bump(e) \/ Wipe(e) \/ Answer(e)

Visit(v) ==
  \/ Arrive(v) \/ Gate(v) \/ NotModified(v)
  \/ LookupEdge(v) \/ LookupKv(v) \/ RenderArticle(v) \/ RenderSettings(v)
  \/ PutKv(v) \/ PutEdge(v) \/ GiveUp(v)

Next ==
  \/ Clock
  \/ \E e \in Writers :
       \/ Begin(e) \/ BeginRestore(e) \/ BeginPreview(e) \/ Patch(e) \/ SaveSettings(e)
       \/ Select(e) \/ Run(e) \/ Crash(e)
  \/ \E v \in Visitors : Visit(v)
  \/ \E x \in cache : Expire(x)

Spec == Init /\ [][Next]_vars

(* The cron fires every minute, an invocation runs on until it returns or  *)
(* is evicted, and pages expire.  Editors and visitors owe nothing.        *)
Fairness ==
  /\ WF_vars(\E c \in Crons : Select(c))
  /\ \A e \in Writers : WF_vars(Run(e))
  /\ \A p \in Paths, l \in {"kv", "edge"} :
       WF_vars(\E x \in cache : x.path = p /\ x.layer = l /\ Expire(x))

FairSpec == Spec /\ Fairness
-----------------------------------------------------------------------------
(* Properties                                                              *)

(* Read your publish: a request that arrives after publish, unpublish or   *)
(* archive has answered is shown the article as that left it or later,     *)
(* from whichever cache or browser copy it is served (publish.ts (d)).     *)
TransitionVisible ==
  \A v \in Visitors : Asking(v, "answered") => rd[v].copy.rev >= rd[v].due.rev

(* Why it holds: no page that carries the tag of a content_version, in a    *)
(* cache, a browser or a request in flight, is older than that version,    *)
(* and a writer only answers once a version that covers it has begun.      *)
FloorInv ==
  /\ \A n \in DOMAIN floor : floor[n] <= rev
  /\ \A m, n \in DOMAIN floor : m <= n => floor[m] <= floor[n]

AsNewAs(tag, mark) == tag \in DOMAIN floor /\ floor[tag] <= mark

WriterInv(e) ==
  /\ ed[e].wrote.rev <= rev
  /\ ed[e].pc = "wipe" => ed[e].wrote.rev <= floor[site.content]

VisitorInv(v) ==
  /\ rd[v].copy # NoCopy => AsNewAs(rd[v].copy.tag, rd[v].copy.rev)
  /\ rd[v].pc \notin {"idle", "answered"} =>
       rd[v].tag \in DOMAIN floor /\ rd[v].due.rev <= floor[rd[v].tag]
  /\ rd[v].pc \in {"settings", "put", "mirror"} => AsNewAs(rd[v].tag, rd[v].rev)
  /\ rd[v].pc = "answered" => rd[v].copy \in Copies /\ rd[v].due.rev <= rd[v].copy.rev

Snapshotted(doc) == \E n \in DOMAIN snaps : snaps[n] = doc

SnapInv ==
  /\ row.html = NoDoc \/ Snapshotted(row.html)
  /\ \A e \in Writers :
       ed[e].pc = "write" /\ ed[e].op \in {"publish", "restore"} => Snapshotted(ed[e].doc)

IInv ==
  /\ TypeOK
  /\ SnapInv
  /\ FloorInv
  /\ kept.rev <= floor[site.content]
  /\ \A x \in cache : AsNewAs(x.tag, x.rev)
  /\ \A e \in Writers : WriterInv(e)
  /\ \A v \in Visitors : VisitorInv(v)

(* Everything that publish ever rendered is in the version history, so it  *)
(* can be restored (publish.ts (a) before (c)).                            *)
PublishedIsSnapshotted ==
  row.html = NoDoc \/ \E n \in DOMAIN snaps : snaps[n] = row.html

(* A scheduled article whose time has come does not stay scheduled, even   *)
(* when snapshots collide and invocations die (scheduled.ts).              *)
ScheduledGoesLive ==
  (row.status = "scheduled" /\ row.at = "past") ~>
    ~ (row.status = "scheduled" /\ row.at = "past")

(* Saved settings reach the cached pages in the end: after the last save   *)
(* no page under the current key stays rendered from older ones.           *)
SettingsReachPages ==
  <>[](\A x \in cache : x.tag = site.content => x.settings = site.settings)

(* admin/api.ts, updateSettings: the wipe is there "so the change shows on *)
(* the public site immediately".                                           *)
SavedIsServed ==
  \A v \in Visitors : Asking(v, "answered") => rd[v].copy.settings >= rd[v].due.settings

(* workflow/scheduled.ts: of an article "already moved out of 'scheduled'  *)
(* between the SELECT and the publish" the failure is recorded.            *)
CronPublishesScheduled ==
  [][\A c \in Crons :
       Working(c, "chosen") /\ Working(c, "count")' => row.status = "scheduled"]_vars
=============================================================================
