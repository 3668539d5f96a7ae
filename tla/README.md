# Verification of the homepages CMS

TLA+ models, model-checking runs and machine-checked proofs of the parts of this
repository (one Cloudflare Worker with D1, KV, R2 and Queues, under `api/src`)
whose correctness depends on the order in which things happen. All paths
below are relative to `api/src` unless they say otherwise.

## The system

Every piece of code runs in a short Worker invocation: an HTTP request, the
every-minute cron (`index.ts` `scheduled`) or a queue batch of one message
(`index.ts` `queue`). Invocations share nothing but D1 rows, KV keys and queue
messages; any of them may be evicted between two awaits, and nothing is locked.
D1 executes one statement, or one `batch`, atomically. So a handler is a
sequence of atomic statements with the locals it carries between them, and that
is how every module here models it.

| Component | State it keeps | Operations | Interacts with | What makes it correct |
|---|---|---|---|---|
| Site provisioning runner (`site-provisioning/runner.ts`, `index.ts`) | `site_creation_jobs`, `site_creation_job_steps`, `sites.status` | drive to completion, resume, provision/next, cron tick | step handlers, the cron | no step skipped, live only when whole, an unsettled job settles |
| Provisioning steps (`site-provisioning/steps.ts`) | `provisioning_article_units`, `articles`, queue | materialize, enqueue, reclaim, generate, consume | runner, Queues, AI | settled units stay settled, no stage is left open, both stages end |
| Site administration (`admin/sites-handlers.ts`) | `sites`, `domains`, jobs | create, update, delete | runner | no half-created or half-deleted site |
| Article workflow (`workflow/`) | `articles.status`, `article_versions` | publish, unpublish, archive, schedule, cancel, restore, cron publish | cache | only legal transitions, no lost version |
| Public cache (`cache/`, `public/html-pipeline.ts`) | KV, `content_version`, `settings_version` | serve, write through, wipe, warm | workflow, settings | no stale page under a current key |
| AI generation log (`ai/generation-log.ts`) | `ai_generations` | start, finish, fallback | generators | one generation per key |
| LeadGen revenue (`public/leadgen/postback.ts`, `leadgen/revenue-*.ts`, `leadgen/s2s-dispatch.ts`) | postback and conversion logs, revenue rows, unmatched queue, KV dedup keys, caps | postback, pixel, notify, sweep | providers, ClickHouse, ad platforms | money once, nothing lost, one notification |
| LeadGen runtime and auction (`public/leadgen/`, `leadgen/`) | attempts, caps, clicked offers | resolve, answer, auction, click | analytics, KV | caps, rule order, attempt identity |
| Listicles (`public/listicle/`, `listicles/`, `admin/listicles/`) | versions, experiments, revenue | fork, start, stop, pick, postback | analytics, ClickHouse | experiment shares add up, money once |
| Mirrors (`*/mirror-sync.ts`) | D1 copies of ClickHouse tables | cron copy | ClickHouse | upserts are idempotent |
| Rendering, editor, media, access, safety, settings, newsletter | mostly none | reads and single-row writes | all of the above | conversions |

`PROJECT.json` lists every component with its status, and under `hazards` each
place where the order of events can go wrong, with the property that covers it
or the reason none does yet.

## Modules

| Module | Models | Lines of argument |
|---|---|---|
| `SiteBuild` | what provisioning promises: steps take effect in order, the site goes live with the last | abstract specification |
| `RevenueLedger` | what a revenue intake promises: a row is recorded once and kept, each counts once for the cap | abstract specification |
| `ProvisionRunner` | `runner.ts`, one job, any number of drivers | safety, refinement of `SiteBuild`, liveness |
| `ProvisionRunner_proofs` | theorems about `ProvisionRunner` | TLAPS |
| `ProvisionUnits` | the two chunked steps of `steps.ts`, the queue and its consumers | safety, liveness |
| `ProvisionUnits_proofs` | theorems about `ProvisionUnits` | TLAPS |
| `LeadgenRevenue` | postback, pixel, notification and re-match | safety, refinement of `RevenueLedger`, liveness |
| `LeadgenRevenue_proofs` | theorems about `LeadgenRevenue` | TLAPS |
| `ListicleRevenue` | the listicles' postback, conversion event, shipper and re-match | safety, refinement of `RevenueLedger`, liveness |
| `ListicleRevenue_proofs` | theorems about `ListicleRevenue` | TLAPS |
| `Publishing` | `workflow/`, the settings save, the HTML cache and its visitors | safety, liveness |
| `Publishing_proofs` | theorems about `Publishing` | TLAPS |
| `ListicleExperiments` | experiments, versions and visitors of one listicle | safety |
| `ListicleExperiments_proofs` | theorems about `ListicleExperiments` | TLAPS |
| `FunnelVariants` | variants and A/B tests of one LeadGen funnel, and its sessions | safety |
| `FunnelVariants_proofs` | theorems about `FunnelVariants` | TLAPS |
| `MC...` | symmetry sets and fixed choices for TLC | |

### ProvisionRunner

`job` is the row of `site_creation_jobs` (`status`, `current_step_index`, and
whether `total_steps` is the registry's length or an older one), `lease` the age
of its `updated_at` in cron periods up to the stale threshold, `receipts` the
`site_creation_job_steps` rows, `site` the status and the `last_provisioned_at`
stamp. `finished` is a history variable: the steps whose handler has succeeded.
`drv[d]` is an invocation: its program point, who started it, the index it read
and the handler's outcome. One pass of `advanceNextStep` is the sequence `Read`,
`Resync`, `PastEnd` or `Upsert`, then the handler (`Succeed`, `Fail`,
`InProgress`), then `Park` or `Receipt` and a `Pointer...` action, then `Stamp`;
the loops around it are `NextRound`. A handler is one action that takes as long
as it likes; what it does to the site is kept only for the last step, which sets
it live. `recordStepProgress` touches the receipt of a step that is running
already, and is part of `Park`. The iteration bounds of the two loops and the
budget of a tick appear as the choice to stop after any step (`NextRound`) and
as eviction (`Crash`); a statement that D1 refuses ends a driver the same way.
The job row a site has is never replaced, so the newest-first selection of
`findActiveJobForSite` is the row itself.

### ProvisionUnits

A row of `provisioning_article_units` is spread over `text`, `image`, `linked`
(`article_id` set), `attempts` and `fresh` (its `updated_at` is younger than
`PROVISION_QUEUE_RECLAIM_S`). `queue` counts the copies of each message,
`articles` is the set of article rows, `pointer` the job's position among
text, image and over. A driver goes through `Count`, `Insert` (one row at a
time), then with a queue `Reclaim`, `Select`, `Send` and `MarkQueued` for each
unit, `Remain`, and without one `Pick`, the generator and `More`; `Write` is the
runner's pointer update. `useQueue` says whether `PROVISION_QUEUE` is bound and
is chosen once. A consumer goes through `Deliver`, `ReadUnit`, the generator and
`Ack` or `Retry`. A generator is `Throw` (with `recordUnitFailure`), or
`TextLands` and `TextDone`, or `ImageDone`. A message given up by the queue goes
to the dead-letter queue and is gone. `Lost` is the passing of 180 s for a unit
whose message no longer exists, `Early` for one whose message still does; the
latter is bounded by `MaxEarly`.

The plan always has `UnitCount` items here, and a plan that cannot be generated
is a `Crash` (the failed step is `ProvisionRunner`'s business). The branch of
`generateOneImageUnit` for a missing article row is left out: `ArticleFirst`
shows that it is not reached while the site exists. `attempt_count` is shared by
both stages, so an image can be given up after fewer throws of its own.

### LeadgenRevenue

One Offer whose conversions are capped, `tracking` its
`conversion_tracking_method`. `log` is `leadgen_postback_log`, `convlog`
`leadgen_conversion_log`, `raw` counts `leadgen_revenue_raw` rows by source and
`unmatched` the queue's rows by status; `seen` are the KV keys of `alreadyFired`;
`landed` the clicks ClickHouse knows. A postback goes through `RecordLog`,
`Match`, then `Book` and the notification (`Seen`, `Mark`, `Fire`) or `Queue`,
then `Answer`; a statement that throws goes to `Undo`. A pixel is `Payout` (one
`batch`), `CapBump`, `Context`, the notification. A sweep is `Age`, `Select`,
`Lookup`, `Promote`. `Match` may also fail to find a click that has landed:
ClickHouse may be down, and no answer means no click. `fired`, `answered` and
`unnamed` are history variables.

Left out: validation and the token gate before the first statement, exchange
rates, redaction and the debug copy, pixels of unclean traffic (they stop before
any statement), the events sent to analytics, the ClickHouse shipper (without a
write client it does nothing) and the 200-row limit of a sweep.

### RevenueLedger

`booked` is a set of rows, a conversion by one of its channels; `Book` puts a new
one on the books and `Count` raises the Offer's count by one as long as fewer rows
were counted than are booked. Both intakes implement it (`LedgerSpec`), each under
its own mapping. In `ListicleRevenue` the rows are those of
`listicle_revenue_raw`, and all of them count. In `LeadgenRevenue` a postback's
row is on the books when it is in `leadgen_revenue_raw` or waits in
`leadgen_revenue_unmatched`, in any status: the mapping says that the row is not
lost or doubled, not that it is revenue (`revenue_matched` shows that a queued one
never becomes revenue). Only the pixel's rows count for the cap there. `LedgerSpec` says more than
the invariants of the two modules together: that what is booked stays booked,
that no step books two rows, and that `CapNeverAhead` holds.

### Publishing

One article of one site. `row` is its row in `articles`: the status,
`content_json`, the rendered `content_html` and whether `scheduled_at` is unset,
ahead or behind. `snaps` is `article_versions`, a sequence because the unique
index on the version number admits no gap and no repetition. `site` holds the two
versions of the `sites` row. `cache` is the set of pages in KV and in
`caches.default` (the layers `kv` and `edge`); a page carries the
`content_version` of its key and ETag (`tag`) and, instead of its HTML, which
state of the article (`rev`) and of the settings it shows. `rev` counts the
transitions written so far, `floor[n]` is its value when content version `n`
began, and `kept` is what the writers that have answered promised: these three
are history.

`ed[e]` is an admin request or a cron invocation. `publish` is `Begin` (read and
check), `CountVersions`, `InsertVersion` or `NumberTaken`, `WritePublished`,
`Bump`, one `Wipe` per prefix, `Answer`; `unpublish` and `archive` are `Begin`,
`WriteRetracted` and the same end; `schedule` and `cancelSchedule` are `Begin`
and a write; `restoreVersion` and `createPreviewLink` go through the snapshot
too. `Select` and `ReadChosen` are the cron's SELECT and the read inside
`publish`. `Patch` is the editor's `PATCH /articles/:id`, which writes any status
and bumps nothing. `SaveSettings` is the settings batch. `rd[v]` is a browser and
its request: `Arrive` resolves the site and with it the key and the ETag, `Gate`
is the article route's lookup, then `NotModified`, `LookupEdge`, `LookupKv`,
`RenderArticle`, `RenderSettings`, `PutKv`, `PutEdge`. `Crash` ends a writer
between two statements, `GiveUp` a request.

Abstractions. The time to live of a page is `Expire`, at any moment. There is one
colo; with several, the `edge` layer of each behaves like the one here. A lookup
sees the latest put: a KV or `caches.default` that answers late returns a page
that was under the same key, which `IInv` covers as well, and the proofs never
use that a wipe deletes anything. A browser always asks; within `max-age` it need
not, which is no request. Left out: rows without a `site_id` (feeds only), bots
and markdown (rendered fresh), deletion, and the page and category writes.

### ListicleRevenue

The sibling of `LeadgenRevenue`, built differently: one `batch` writes the
dedup row and the revenue row together. `log`, `convlog`, `raw` and `unmatched`
are the four D1 tables, `synced` the rows with `synced_to_ch_at`, `shipped` the
keys of ClickHouse's `lst_revenue_raw`. A postback goes through `Dedupe`,
`Batch`, `Recheck` after a batch that threw, `Accepted` (the 200), then the
background work `Context` and `CapBump` or `Queue`. An event is `Payout` and
`CapBump`. A run of the cron is `Unsynced`, `InsertCh`, `Stamp` (one step for
each chunk), then `Age`, `Pending`, `Lookup`, `Promote`. A statement may throw
(`Throw`), and it may throw although it committed (`LostAnswer`). `answered` is
history: what the provider saw accepted.

Left out: the outbound pixels, exchange rates, the provider reports and the
materialized view; the 200-row limit of the shipper and of the sweep (the
shipper's stamped rows leave its selection, so the limit only delays).

### ListicleExperiments

`article` is the row's status, `active` its `active_experiment_id`, `exps` the
status of each experiment, `ver` the versions by id with experiment, share,
control flag and contents (`body`: two page trees are enough to see a change).
`adm[a]` is an admin request between its statements. A create is `Create`
(the pre-check) and `CreateBatch`; a start is `Start`, `StartVersions`,
`StartBatch`; a stop `Stop`, `StopBatch`; a fork `Fork`, `Joinable`,
`ForkBatch`; a save `Put`, `Editable`, `Tree`, `SaveBatch`. `Admitted` is the
partial unique index on running experiments: a batch it refuses changes nothing
and ends as `Refuse`. A visitor reads the pointer (`Arrive`), the versions
(`LoadVersions`) and the experiment's status (`Serve`). `bucket` is the hash of
cookie and experiment, chosen once in `Init`. `counted` is history: the version
the visitor was served under a running experiment.

Two more variables are history. `stale` is the set of experiments hit by an
overtaken check: a batch went through on something that held when the request
looked and no longer holds (`held`, `Note`), and changed the arms or the contents
of these experiments while they ran. The code checks some awaits before it writes,
so this happens, and it breaks the split, the lock and the visitors of that
experiment. The properties are stated per experiment: an overtaken batch does
harm to the one it joined, edited, started or took arms from, and to no other,
whatever else overlaps. `doubled` are the experiments created from a list that
names a version twice and not started since: `validateExperiment` adds up the
entries (`listicles/validation.ts:1084`), the batch updates the row once for each
(`admin/listicles/articles-handlers.ts:459`), and the last one wins (`Listed`). Such
an experiment may fall short of the whole and of its control; `SplitHolds` says
that it never gives away too much and that, outside `stale`, nothing else makes one
fall short. A
start merges its entries by version and validates the result, so it mends it.

Left out: labels, `content_version` (read and increased by the save, so two saves
may give the same one), sections and their fan-out, and the shell cache. A visitor
whose experiment runs without arms is served and counted with the control, as in
the code.

### FunnelVariants

`var` holds the variants by id, `test` the status and the revision of each A/B
test. `adm[a]` is an admin request: an added variant is `Add`, `AddExisting`,
`AddWrite`; a fork `Fork`, `ForkTest`, `ForkArms`, `ForkBatch`; a save `Put`,
`PutLabel`, `PutShare`, `PutBatch`; a deletion `Delete`, `DeleteFrozen`,
`DeleteSiblings`, `DeleteBatch`; a start `Start`, `StartOther`, `StartSum`,
`StartWrite`. A session reads the test (`Enter`) and then the arms (`Assign`),
and gets the arm its bucket falls on. `Bucket` is a constant operator: the hash
of test, revision and session. `stale` is as above, a set of tests: those that ran
when an overtaken add, fork, save or deletion changed their arms, or were started
on a sum that had changed; the next start adds up again and clears it (`Restart`).

`Assign` looks at nothing but the arms, as the code does. A session whose test
stops, or moves on to another revision, between its two reads is bucketed over the
arms of a later time and counted under the revision it read first. `Sticky` counts
these assignments too and says that, in a test outside `stale`, they are the only ones which can
differ.

Left out: the validation and the contents of a variant (pages, rules, lander),
other funnels of the quote, the preview, and archived variants, which no
handler of the module writes.

## Runs

Twelve runs; seven pass and five show a disagreement between a comment and the
code. The bounds are in the `.cfg` files.

| Run | Question | Instance |
|---|---|---|
| `runner` | is anything skipped, launched early or lost when drivers overlap? does the runner implement `SiteBuild`? do receipts and row agree where drives do not overlap? does an unsettled job settle? | 2 drivers, 3 steps of which 1 is chunked; in-progress answers, failures and evictions bounded |
| `units` | do settled units stay settled, is what the stages leave complete, do they end? | 2 units, 1 driver, 1 consumer, 1 early reclaim, 2 throws, 1 eviction, 1 crash |
| `revenue_intake` | is money staged once, does the intake implement `RevenueLedger`, is every queued postback resolved? | 1 conversion, 2 invocations, 3 postbacks, 2 pixels, 1 failing statement, 1 eviction |
| `revenue_lost` | violation: an accepted postback that left nothing | 2 postbacks |
| `revenue_matched` | violation: matched without a revenue row | 2 postbacks |
| `publishing` | who arrives after a transition has answered, what is shown? is what went live in the history? does a due article go live, do settings reach the pages? | 1 editor with 2 requests, the cron, 1 visitor of the article's page, 2 documents, 1 eviction |
| `publishing_settings` | violation: old settings after the save | 1 editor, 1 visitor |
| `publishing_cancelled` | violation: the cron publishes a cancelled article | 1 editor, the cron |
| `listicle_experiments` | is one experiment running, does it take all the traffic, is it locked, are visitors sticky? | 2 requests at once, 4 in all, 2 experiments, 2 versions, shares in halves, 1 visitor with 2 views |
| `funnel` | the same of a funnel's tests | 2 requests at once, 4 in all, 2 tests, 3 variants, shares in halves, 2 sessions with 3 entries |
| `funnel_empty` | violation: two deletions leave no variant to serve | 2 requests, 2 variants |
| `listicle_revenue` | has an accepted conversion one row, does the intake implement `RevenueLedger`, does each row reach ClickHouse? | 1 conversion reported as a postback and as an event, 2 of each, 2 invocations, 2 statements that throw, 1 eviction |

Why the bounds are enough. Two drivers are the smallest number that can
interleave, and every property about drivers relates one driver's snapshot to
the row; the proofs below remove the bound for the safety properties. Three steps
give a first, a chunked and a last one. Two units let one be settled while the
other is in flight; several consumers at once are covered by the proofs of
`SettledStays`, `ArticleFirst` and `TextBarrier`, which hold for any number. One
conversion is enough in `LeadgenRevenue` because no statement of a postback or a
pixel looks at another conversion, except the sweep, which treats its rows alike,
and the cap, which is a sum; three postbacks and two pixels give an original, a
repetition and one more after the dedup row was taken back. In `ListicleRevenue`
a conversion has two rows, one of each source, so one is staged while the other
ships; the proofs hold for any number of conversions. In `Publishing` one page is enough because a key, a tag and
a wipe concern one path each; two documents tell a re-read from what was
snapshotted (they are interchangeable, so `FirstDocSpec` of the MC module fixes the
one the article is created with); two requests, the cron and a visitor give a
transition, a second writer beside it (a restore, a preview or a save) and a page
rendered or cached across both. The proofs cover pages that show the article in
every status (the home page), any number of requests and of visitors: renders
that overlap meet under a key only when they carry the same version. In `ListicleExperiments` and `FunnelVariants`
two requests are an overtaking and an overtaken one, and four in all are enough
to set up a running test, stop it and start another; with shares in halves a
split may be whole, short or over, and a bucket lies on either side of it; a
third variant is a fork beside two arms, and two versions are two arms or an arm
and a version outside. `Init` of `FunnelVariants`
also starts from a test that has run and was stopped with two arms, so that the
four requests reach its second life.

Disturbed and undisturbed. With a reclaim that comes while the unit is still
being worked on, a finished text can be declared failed and the image stage left
with an image open; so `DoneStaysDone` and `ImageBarrier` are stated for
undisturbed behaviours, while `SettledStays`, `ArticleFirst` and `TextBarrier`
hold in all of them. `TextBarrier` and `ImageBarrier` are properties of one
driver: a second one counts the plan while the first still inserts it, finds
nothing open and leaves the stage (TLC shows it with two drivers).

Deadlock is checked except in `units` (when both stages are over and the queue is
empty nothing is left to do), `listicle_experiments`, `funnel` and `funnel_empty`
(the requests are finitely many, and nobody owes another).

## Fairness

`runner`: time passes, the cron fires (`wrangler.toml`: every minute) and a
started driver goes on until it returns or is evicted. Operators owe nothing, the
create request's drive may be lost at once, and evictions are finitely many.
`units`: in addition the queue delivers and a consumer runs on. `revenue_intake`
and `listicle_revenue`: the cron starts its work and time passes; no provider
repeats itself and no click needs to land. `publishing`: the cron fires, an
invocation runs on, and pages expire from both layers; editors and visitors owe
nothing, and what they may do to a due article (moving it out of `scheduled`)
counts as leaving that state. Weak fairness of each driver's next statement is
all that is assumed; there is no strong fairness.

## What is proved

`ProvisionRunner_proofs`, for every number of steps, drivers and every bound,
from `ParametersAssumption` alone (at least one step; the chunked steps exclude
the last):

- `TypeCorrect`: `Spec => []TypeOK`.
- `NothingIsSkipped`, `LaunchIsLast`: the safety invariants follow from the
  inductive invariant `IInv`. `NothingSkipped` alone is not inductive: a driver
  that is about to advance the pointer must be known to have finished its step
  (`LocalInv`), a snapshot covers finished work only if steps finish in order
  (`InOrder`), and the launch is tied to the last step (`LastIsLaunch`); a
  completed row must stand at the end of the registry (`RowInv`) and a driver on
  the past-the-end path too. `LaunchIsLast` also says that a completed job has a
  live site (`CompletedIsLive`).
- `FloorNeverFalls`: an action property. The pointer may go back, because writes
  are unconditional, but never behind the slowest snapshot in flight.
- `RunnerImplementsBuild`: every step maps to a step of `SiteBuild` or to a
  stutter; the only statement that takes effect in the abstract build is a
  handler that succeeds for the first time.
- `ReceiptsAgreeSerially` is `Spec => SerialReceipts`, an implication between two
  invariants of a behaviour: where at most one driver is not idle at a time
  (`[]Serial`, what the cron's lease is there for and does not guarantee, since a
  handler may outlast it), receipts and row agree. The run `runner` checks it on
  the behaviours of two drivers that take turns. `PointerKeptSerially` and
  `CompletedIsFinalSerially` say under the same assumption that the pointer never
  goes back and that a completed job stays completed; these two are proved only.
  Behind them `SerialInv` says that a snapshot is the row as it stands
  (`SnapshotFresh`). Where drives overlap the three are false, and the theorems
  above say what is left of them.

`Publishing_proofs`, for every number of editors, crons, visitors, documents and
paths and every bound, from `ParametersAssumption` alone:

- `TypeCorrect`: `Spec => []TypeOK`. The part about writers (`Holds`) says that a
  document is in hand from the read to the write, without which the version
  history could not be shown well typed.
- `PagesAreAsNewAsTheirTag`: `Spec => []IInv`. `TransitionVisible` is not
  inductive: the page an answer shows may come from four places. `IInv` says of
  every page, wherever it is, that it shows at least what stood in the row when
  the content version of its tag began (`floor`), that a writer which is past its
  bump is covered by the current version, and that a request never promises more
  than the floor of its tag. The order write, bump, answer and the order resolve,
  read, put are what keep it.
- `TransitionsAreVisible` and `PublishedStaysRestorable` follow.

`ProvisionUnits_proofs`, for every number of units, drivers and consumers and
every bound:

- `TypeCorrect`; `ArticlesComeFirst`, because a message and a worker on an image
  exist only for units whose text is done, and the text is done only after its
  article; `SettledUnitsStay`, an action property: every write that can touch a
  unit's status is guarded by a status that is not settled, or comes from a
  generator that is one of its own.
- `TextStageIsLeftClosed` assumes `OneDriver`. The invariant behind it says what
  the driver knows at each program point: that the plan it counted is all that
  will ever be inserted, and that what it has read as "remaining" can only
  shrink. Two drivers break the first half.
- `TextIsTriedEnough`: while a text is open, both its `attempt_count` and the value
  every generator of it has read are at most the generations that threw
  (`CountsCovered`, `HeldCovered`); overlapping consumers, which count from the same
  value, only try too often.
- `DoneTextsStay` and `ImageStageIsLeftClosed` assume `OneDriver` and speak of
  `Undisturbed` behaviours (no unit reclaimed before its message is gone, no queue
  driver lost). The invariant they rest on, `UInv`, is that at most one copy of a
  unit's text is about, a message in the queue or a consumer that holds it,
  not even one that only has to acknowledge it. `Orderly` adds what keeps it so: a
  unit that may be sent or reclaimed has no copy, except the one the driver has
  sent and not marked yet. Consumers that are lost, retried and redelivered hand
  their copy over, so they do not disturb this.

`ListicleRevenue_proofs`, for every number of conversions and invocations and
every bound:

- `TypeCorrect`, and `AcceptedIsBookedOnce`: the log row and the revenue row
  agree in every state (they are written in one batch), and a request past its
  batch has its conversion in the log.
- `StampsAreTrue`: what a cron is about to stamp is in ClickHouse already.
- `CapIsEarned`: `CapNeverAhead` is not inductive. `CapInv` gives each invocation
  that has booked and not yet counted (`Owed`) a row of its own, besides the rows
  counted: the sum of both is at most the number of rows.
- `IntakeImplementsLedger`: `Spec => LedgerSpec`, step by step. `BookingStep` is
  where a new row comes from (`NewRow`), `CountingStep` uses `CapInv`.

Both revenue modules assume finitely many conversions and invocations: without
that, "as many as there are rows" has no meaning. The cardinalities are those of
`FiniteSetTheorems`.

`LeadgenRevenue_proofs`, for any number of conversions and invocations and every
bound. The invariant gives each request a role for its conversion: to hold the
dedup row (`Holds`), to tell of the postback's row (`Tells`), to tell of the
pixel's (`Pays`). `Role` says what a role may rely on (a holder's conversion is in
the log and nothing is staged for it), `Alone` that nobody else has it, `Ledger`
what the tables owe each other, and `Told` that a row pays for the notification
sent and for the one about to be sent (`Due`). Without `Alone` the catch could
take back somebody else's row; without `Due` two requests between the KV read and
the send could both count on one row. From it:

- `TypeCorrect`, `MoneyIsStagedOnce`, `HolderIsAlone`, `NotifiedPerRow`.
- `CapIsEarned`, with `CapInv` as above.
- `IntakeImplementsLedger`: a holder's conversion has no row, so `Book` and `Queue`
  put exactly one on the books (`PostbackIsBooked`); the sweep moves a row between
  statuses (`RowsAreMoved`), which is a stutter; a replayed pixel changes nothing
  (`PixelIsBooked`); `CapInv` is what lets a pixel count (`PixelIsCounted`).

`ListicleExperiments_proofs`, for any number of requests, visitors, experiments
and versions, any fineness of the shares and every bound. Every step is shown to
be `Good`: rows are well formed after it, it is `Steady` (a running experiment
that is not in `stale` after the step keeps its arms, and a stopped one stays
stopped) and `Fresh` (one that starts to run and is not in `stale` has arms, and a
whole split unless it is in `doubled`; `SplitMakes`). `Steady` is what the
visitors rest on: the arm a visitor holds is his `Choice` among the running
experiment's arms (`VisitInv`), and so is the one he was counted for (`CountInv`).
`OwnInv` keeps a request from working on an experiment that does not exist yet,
which a creation could then find with arms. From them:

- `TypeCorrect`, which includes that an assigned arm is a version: the pick is
  never made among no arms.
- `PointerAlwaysAgrees`, without the reservation about overtaken checks: it rests
  on the unique index and on the conditional clearing alone.
- `TrafficIsWhole`, `RunningIsLocked`, `VisitorsStick`, each for every experiment
  outside `stale`, whatever state the others are in.

`FunnelVariants_proofs`, for any number of requests, sessions, tests and variants,
every bucket function and every bound (a funnel has room for two variants:
`ParametersAssumption`). The invariant joins what a request has found (`Knows`)
with `OneRuns`, `WholeInv`, `Entered` and `CountInv`: no session has read or was
counted under a revision that its test has not reached, and who was counted under
the current one of a running test outside `stale` has the arm that the pick would
give him now. A step must let tests
grow only (`Grows`: a start is a new revision) and freeze the arms of a revision
(`FrozenStep`); that keeps `CountInv` over stops, edits and restarts. The sum of
shares is a fold; `TotalOfTwo` unfolds it for two arms, which is the one place where
a write changes the shares of a running test (the fork). From it:

- `TypeCorrect`, for which `PickIn` shows that the pick always finds an arm.
- `TrafficIsWhole`, `ArmsAreFrozen`, `SessionsStick`. That a funnel always has a
  variant is not a theorem: two deletions leave it empty (`funnel_empty`).

Only model-checked: the liveness properties `UnsettledSettles`, `StagesEnd`,
`PendingResolves`, `RowsAreShipped`, `ScheduledGoesLive` and `SettingsReachPages`.
They rest on weak fairness, and `ENABLED` is out of the prover's reach. Every
invariant, action property and refinement that a passing run checks is stated by a
theorem.

## Where comments and code disagree

Five are runs that end in a violation, listed in `PROJECT.json` under `findings`
with the quoted line: a failed booking is answered 200 (`postback.ts:303`); a
re-matched postback has no revenue row (`revenue-recon.ts:240`); saved settings
are not on the public site immediately (`admin/api.ts:733`); the cron publishes an
article that was moved out of `scheduled` (`workflow/scheduled.ts:57`); two
deletions take the last active variants of a funnel
(`admin/leadgen/quotes-handlers.ts:3944`).

The models contain more, which no run reports:

- `runner.ts:377` says that overlapping ticks never double-drive a job. The
  selection only reads, and a handler may outlast the lease; two ticks then run
  the same handler. The theorems hold for any number of drivers, so nothing is
  skipped or launched early by it.
- `steps.ts:2044` says that `update_launch_readiness` never runs after a failure.
  A driver past its read launches the site on a job another one has failed.
- `steps.ts:2106` says that a unit is never enqueued twice. The send comes before
  the mark.
- `steps.ts:1204` calls the plan materialize-once and idempotent. A driver lost
  between two inserts leaves a shorter plan which no later run completes.
- `workflow/versions.ts:7` says that a restore touches the editing surface only.
  The public page renders `content_json` (`view-models/article.ts:629`), so a
  restore of a published article shows as soon as its page is rendered again,
  and without a bump the old page stays cached until then.
- `docs/cache-strategy.md:80` of the repository says that `content_version` is
  bumped on every article update. The editor's `PATCH` (`admin/api.ts:1157`) bumps
  nothing, and it writes any status without asking `VALID_TRANSITIONS`; that is
  why `TransitionVisible` speaks of the workflow's transitions only.
- `listicles` revenue: `public/listicle/postback.ts:385` says that revenue is never
  lost. Two transactions of one click, offer and source on one day have one key
  in `lst_revenue_raw` (`infra/listicles/clickhouse-ddl.sql:110` at the repository's
  root), and the ReplacingMergeTree keeps the later one only (`Key`).
- `listicles/s2s-dispatch.ts:25` says that a browser conversion and a postback for
  the same conversion do not fire twice. The identity it is deduplicated by is
  passed by the event and not by the postback (`public/listicle/postback.ts:421`).
- `admin/leadgen/quotes-handlers.ts:6550` says that a running test must allocate
  all of the traffic, and `:3346` ff. that a relabel is refused while one runs.
  Both are looked up before the write; a save between a start's sum and its
  update, or a start between a save's check and its batch, breaks them. That is
  why the properties of both experiment modules leave out the experiment or test
  that an overtaken check has hit.
- `docs/listicles/design-contract-v1.2.2.md:701` says that the shares of an
  experiment's versions add up to 100 with exactly one control. A creation whose
  list names one version twice passes the validation of the request and leaves a
  running experiment with less, or without a control (`doubled`).
- `docs/leadgen/traceability.md:91` says "a running test is FROZEN", its set of
  active variants included, and `public/leadgen/resolver.ts:431` that a running
  test's arms are the funnel's active variants, "stable across requests". The
  test is read first and the arms later (`:1518`), so a session that enters while a
  fork or a stop goes through is bucketed over the later arms and recorded under
  the earlier revision. `Sticky` counts these assignments too and says that, in a
  test outside `stale`, no other one differs.
- `public/leadgen/resolver.ts:394` says that without a running test there is one
  active variant. After a stop both arms are active until one is deleted; and a
  fork after the deletion of arm A is labelled by the number of arms, so two arms
  may be called B.

## Plan

Done: `SiteBuild`, `RevenueLedger`, `ProvisionRunner`, `ProvisionUnits`, `LeadgenRevenue`,
`ListicleRevenue`, `Publishing`, `ListicleExperiments`, `FunnelVariants`, and the
proofs about seven of them. What is left, in this order:

1. An abstract board of starter articles, in which a unit is planned, written and
   illustrated in one step each, refined by `ProvisionUnits` under `OneDriver`; and
   `Publishing` against an abstract page that is replaced in one step.
2. `SiteLifecycle`: creation, status edits and deletion beside `ProvisionRunner`.
3. `LeadgenRevenue`: ambiguous commits, a switch of the tracking method, two
   conversions. `Publishing`: page and category writes, which bump before they
   answer as well.
4. `GenerationLog`, and the auction's ranking and caps as operators checked
   against a reference definition.

## Not modelled

`PROJECT.json` gives the reason for each component. Most of the repository's lines
are HTML, CSS and browser scripts kept in strings, form validation, and pure
conversions of documents; they have no state and no order of events, and a model
of them would restate them. Single-row writes (settings of ads, media, newsletter)
have no second step that could go wrong. Cryptography and the sanitizers are not
what a model checker is for.
