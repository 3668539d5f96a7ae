--------------------------- MODULE ProvisionRunner ---------------------------
(***************************************************************************)
(* One site_creation_jobs row and the invocations that drive it            *)
(* (site-provisioning/runner.ts).  A driver is one Worker invocation: the  *)
(* create request's waitUntil loop, POST provision/resume, POST            *)
(* provision/next or a cron tick.  Every D1 statement is an action of its  *)
(* own, so drivers interleave between statements, act on the job as they   *)
(* read it, and can be evicted between any two.                            *)
(***************************************************************************)
EXTENDS Integers

CONSTANTS
  TotalSteps,                   \* steps.ts TOTAL_STEPS
  Chunked,                      \* steps that may answer in_progress
  Drivers,                      \* invocations that may be alive at once
  StaleMinutes,                 \* DRIVE_LEASE_STALE_SECONDS, in cron periods
  MaxPasses,                    \* bound: in_progress answers in all
  MaxFailures,                  \* bound: failed handler runs in all
  MaxCrashes                    \* bound: evicted invocations in all

ASSUME ParametersAssumption ==
  /\ TotalSteps \in Nat \ {0}
  /\ Chunked \subseteq 0 .. (TotalSteps - 2)
  /\ StaleMinutes \in Nat
  /\ MaxPasses \in Nat
  /\ MaxFailures \in Nat
  /\ MaxCrashes \in Nat

VARIABLES
  job,                          \* the job row: status, index, total
  lease,                        \* minutes since the job's updated_at
  receipts,                     \* site_creation_job_steps.status by step
  site,                         \* sites.status and last_provisioned_at
  finished,                     \* history: steps whose handler succeeded
  drv,                          \* each driver's program point and locals
  passes, failures, crashes     \* the three bounded counters

row == <<job, lease>>
counters == <<passes, failures, crashes>>
vars == <<row, receipts, site, finished, drv, counters>>

Steps == 0 .. (TotalSteps - 1)
LastStep == TotalSteps - 1

(* Program points.  A driver holds a snapshot of the pointer from the read *)
(* of the job row to its last write of that row.                           *)
Holding == {"resync", "past_end", "upsert", "handler", "park", "receipt", "pointer"}
Points == Holding \cup {"idle", "inspect", "reset", "loop", "stamp"}
Roles == {"none", "create", "resume", "next", "cron"}

(* A driver that has read nothing yet, and no driver.                      *)
Fresh(role, point) == [pc |-> point, role |-> role, at |-> 0, result |-> "none"]
Idle == Fresh("none", "idle")

(* From upsertStepRow on, the snapshot names a step of the registry.       *)
OnStep == {"upsert", "handler", "park", "receipt", "pointer"}

JobRows == [status : {"pending", "running", "failed", "completed"},
            index : 0 .. TotalSteps, total : {"live", "legacy"}]

DriverStates == [pc : Points, role : Roles, at : 0 .. TotalSteps,
                 result : {"none", "completed", "failed"}]

JobType == job \in JobRows /\ lease \in 0 .. StaleMinutes
ReceiptType == receipts \in [Steps -> {"absent", "running", "failed", "completed"}]
SiteType == site \in [status : {"draft", "active"}, stamped : BOOLEAN]
HistoryType == finished \subseteq Steps
LocalsType(d) ==
  /\ drv[d].pc \in OnStep => drv[d].at \in Steps
  /\ drv[d].pc \in {"receipt", "pointer"} => drv[d].result # "none"
DriverType ==
  /\ drv \in [Drivers -> DriverStates]
  /\ \A d \in Drivers : LocalsType(d)
CounterType ==
  /\ passes \in 0 .. MaxPasses
  /\ failures \in 0 .. MaxFailures
  /\ crashes \in 0 .. MaxCrashes

TypeOK ==
  JobType /\ ReceiptType /\ SiteType /\ HistoryType /\ DriverType /\ CounterType

-----------------------------------------------------------------------------
(* Helpers                                                                 *)

Terminal(status) == status \in {"completed", "failed"}

At(d, point) == drv[d].pc = point

Goto(d, point) == drv' = [drv EXCEPT ![d].pc = point]

Exit(d) == drv' = [drv EXCEPT ![d] = Idle]

(* Loop heads: a driver forgets what it read on the previous round.        *)
Enter(d, role, point) == drv' = [drv EXCEPT ![d] = Fresh(role, point)]

(* Mutation of Beyond: the past-the-end check dropped.                     *)
BeyondUnchecked(index) == "upsert"

(* Past the stale-total guard: the registry has a step here, or it has not. *)
Beyond(index) == IF index >= TotalSteps THEN "past_end" ELSE "upsert"

(* What the caller of advanceNextStep does after one step that did not     *)
(* settle the job: provision/next answers, a cron tick goes on while its   *)
(* budget lasts, the two completion loops read the job again.              *)
NextRound(d) ==
  \/ drv[d].role # "next" /\ Enter(d, drv[d].role, "loop")
  \/ drv[d].role \in {"next", "cron"} /\ Exit(d)

(* Every write of the job row sets updated_at.                             *)
WriteJob(status, index) ==
  /\ job' = [job EXCEPT !.status = status, !.index = index]
  /\ lease' = 0

-----------------------------------------------------------------------------
(* A job inserted by POST /sites, or left by an older registry with another *)
(* total_steps, and the create request's own drive handed to waitUntil.    *)
Init ==
  /\ job \in [status : {"pending"}, index : {0}, total : {"live", "legacy"}]
  /\ lease = 0
  /\ receipts = [k \in Steps |-> "absent"]
  /\ site = [status |-> "draft", stamped |-> FALSE]
  /\ finished = {}
  /\ \E first \in Drivers :
       drv = [d \in Drivers |-> IF d = first THEN Fresh("create", "loop") ELSE Idle]
  /\ passes = 0
  /\ failures = 0
  /\ crashes = 0

-----------------------------------------------------------------------------
(* Time and the arrival of drivers                                         *)

(* A minute goes by in which no tick takes the job.                        *)
Minute ==
  /\ lease < StaleMinutes
  /\ lease' = lease + 1
  /\ UNCHANGED <<job, receipts, site, finished, drv, counters>>

(* Mutation of CronTick: 'pending' missing from the selected statuses.     *)
CronTickRunningOnly(d) ==
  /\ At(d, "idle")
  /\ job.status = "running"
  /\ lease + 1 >= StaleMinutes
  /\ lease' = StaleMinutes
  /\ Enter(d, "cron", "loop")
  /\ UNCHANGED <<job, receipts, site, finished, counters>>

(* A minute goes by and its cron tick selects the job: not settled, and    *)
(* untouched for StaleMinutes.  The selection itself writes nothing.       *)
CronTick(d) ==
  /\ At(d, "idle")
  /\ ~ Terminal(job.status)
  /\ lease + 1 >= StaleMinutes
  /\ lease' = StaleMinutes
  /\ Enter(d, "cron", "loop")
  /\ UNCHANGED <<job, receipts, site, finished, counters>>

(* POST provision/next: one step, no lease.                                *)
PostNext(d) ==
  /\ At(d, "idle")
  /\ Enter(d, "next", "loop")
  /\ UNCHANGED <<row, receipts, site, finished, counters>>

(* POST provision/resume looks at the job before it drives it.             *)
PostResume(d) ==
  /\ At(d, "idle")
  /\ Enter(d, "resume", "inspect")
  /\ UNCHANGED <<row, receipts, site, finished, counters>>

-----------------------------------------------------------------------------
(* resumeProvisioning                                                      *)

Inspect(d) ==
  /\ At(d, "inspect")
  /\ \/ job.status = "completed" /\ Exit(d)
     \/ job.status = "failed" /\ Goto(d, "reset")
     \/ ~ Terminal(job.status) /\ Goto(d, "loop")
  /\ UNCHANGED <<row, receipts, site, finished, counters>>

(* Mutation of Reset: it also rewinds the pointer.                         *)
ResetFromScratch(d) ==
  /\ At(d, "reset")
  /\ WriteJob("running", 0)
  /\ Goto(d, "loop")
  /\ UNCHANGED <<receipts, site, finished, counters>>

(* The reset is decided on the row as it was read and applied to the row   *)
(* as it is now.                                                           *)
Reset(d) ==
  /\ At(d, "reset")
  /\ WriteJob("running", job.index)
  /\ Goto(d, "loop")
  /\ UNCHANGED <<receipts, site, finished, counters>>

-----------------------------------------------------------------------------
(* advanceNextStep, statement by statement                                 *)

(* findActiveJobForSite and the checks on the row it returns.              *)
Read(d) ==
  /\ At(d, "loop")
  /\ IF Terminal(job.status)
       THEN Exit(d)
       ELSE drv' = [drv EXCEPT ![d].at = job.index,
                               ![d].pc = IF job.total = "legacy" THEN "resync"
                                         ELSE Beyond(job.index)]
  /\ UNCHANGED <<row, receipts, site, finished, counters>>

(* total_steps of an older registry is brought up to date.                 *)
Resync(d) ==
  /\ At(d, "resync")
  /\ job' = [job EXCEPT !.total = "live"]
  /\ lease' = 0
  /\ Goto(d, Beyond(drv[d].at))
  /\ UNCHANGED <<receipts, site, finished, counters>>

(* The pointer already ran past the registry: the job is completed.        *)
PastEnd(d) ==
  /\ At(d, "past_end")
  /\ WriteJob("completed", TotalSteps)
  /\ Exit(d)
  /\ UNCHANGED <<receipts, site, finished, counters>>

(* upsertStepRow: the receipt says running.  The job row, hence the lease, *)
(* is not written.                                                         *)
Upsert(d) ==
  /\ At(d, "upsert")
  /\ receipts' = [receipts EXCEPT ![drv[d].at] = "running"]
  /\ Goto(d, "handler")
  /\ UNCHANGED <<row, site, finished, counters>>

(* The handler runs for as long as it likes, then succeeds (completed,     *)
(* completed_dry_run or skipped).  The last one sets the site live.        *)
Succeed(d) ==
  /\ At(d, "handler")
  /\ finished' = finished \cup {drv[d].at}
  /\ site' = [site EXCEPT !.status = IF drv[d].at = LastStep THEN "active" ELSE @]
  /\ drv' = [drv EXCEPT ![d].pc = "receipt", ![d].result = "completed"]
  /\ UNCHANGED <<row, receipts, counters>>

(* ... or it returns failed, or throws.                                    *)
Fail(d) ==
  /\ At(d, "handler")
  /\ failures < MaxFailures
  /\ failures' = failures + 1
  /\ drv' = [drv EXCEPT ![d].pc = "receipt", ![d].result = "failed"]
  /\ UNCHANGED <<row, receipts, site, finished, passes, crashes>>

(* ... or, in a chunked step, it did one unit of work and has more.        *)
InProgress(d) ==
  /\ At(d, "handler")
  /\ drv[d].at \in Chunked
  /\ passes < MaxPasses
  /\ passes' = passes + 1
  /\ Goto(d, "park")
  /\ UNCHANGED <<row, receipts, site, finished, failures, crashes>>

(* Mutation of Park: in_progress treated like completed.                   *)
ParkAdvances(d) ==
  /\ At(d, "park")
  /\ WriteJob("running", drv[d].at + 1)
  /\ NextRound(d)
  /\ UNCHANGED <<receipts, site, finished, counters>>

(* recordStepProgress and persistInProgress: the pointer goes back to the  *)
(* snapshot, whatever it is by now.                                        *)
Park(d) ==
  /\ At(d, "park")
  /\ WriteJob("running", drv[d].at)
  /\ NextRound(d)
  /\ UNCHANGED <<receipts, site, finished, counters>>

(* Mutation of Receipt: a failed result leaves the receipt running.        *)
ReceiptOnSuccess(d) ==
  /\ At(d, "receipt")
  /\ receipts' = [receipts EXCEPT ![drv[d].at] =
                    IF drv[d].result = "completed" THEN "completed" ELSE @]
  /\ Goto(d, "pointer")
  /\ UNCHANGED <<row, site, finished, counters>>

(* finalizeStepRow *)
Receipt(d) ==
  /\ At(d, "receipt")
  /\ receipts' = [receipts EXCEPT ![drv[d].at] = drv[d].result]
  /\ Goto(d, "pointer")
  /\ UNCHANGED <<row, site, finished, counters>>

(* Mutation of PointerFailed: next_index = index + 1 on failure too.       *)
PointerFailedAdvances(d) ==
  /\ At(d, "pointer")
  /\ drv[d].result = "failed"
  /\ WriteJob("failed", drv[d].at + 1)
  /\ Exit(d)
  /\ UNCHANGED <<receipts, site, finished, counters>>

(* advanceJobPointer: computed from the snapshot, written unconditionally. *)
PointerFailed(d) ==
  /\ At(d, "pointer")
  /\ drv[d].result = "failed"
  /\ WriteJob("failed", drv[d].at)
  /\ Exit(d)
  /\ UNCHANGED <<receipts, site, finished, counters>>

PointerForward(d) ==
  /\ At(d, "pointer")
  /\ drv[d].result = "completed"
  /\ drv[d].at < LastStep
  /\ WriteJob("running", drv[d].at + 1)
  /\ NextRound(d)
  /\ UNCHANGED <<receipts, site, finished, counters>>

PointerCompleted(d) ==
  /\ At(d, "pointer")
  /\ drv[d].result = "completed"
  /\ drv[d].at = LastStep
  /\ WriteJob("completed", TotalSteps)
  /\ Goto(d, "stamp")
  /\ UNCHANGED <<receipts, site, finished, counters>>

(* sites.last_provisioned_at, a second statement after the job's.          *)
Stamp(d) ==
  /\ At(d, "stamp")
  /\ site' = [site EXCEPT !.stamped = TRUE]
  /\ Exit(d)
  /\ UNCHANGED <<row, receipts, finished, counters>>

(* The runtime evicts the invocation, or D1 refuses a statement: what was  *)
(* written stays written, the rest never happens.                          *)
Crash(d) ==
  /\ ~ At(d, "idle")
  /\ crashes < MaxCrashes
  /\ crashes' = crashes + 1
  /\ Exit(d)
  /\ UNCHANGED <<row, receipts, site, finished, passes, failures>>

-----------------------------------------------------------------------------
Drive(d) ==
  \/ Inspect(d) \/ Reset(d)
  \/ Read(d) \/ Resync(d) \/ PastEnd(d) \/ Upsert(d)
  \/ Succeed(d) \/ Fail(d) \/ InProgress(d)
  \/ Park(d) \/ Receipt(d)
  \/ PointerFailed(d) \/ PointerForward(d) \/ PointerCompleted(d) \/ Stamp(d)

Next ==
  \/ Minute
  \/ \E d \in Drivers :
       CronTick(d) \/ PostNext(d) \/ PostResume(d) \/ Drive(d) \/ Crash(d)

Spec == Init /\ [][Next]_vars

(* The cron fires, time passes and a started invocation runs on until it   *)
(* returns or is evicted.  Operators and the create request owe nothing.   *)
Fairness ==
  /\ WF_vars(Minute)
  /\ WF_vars(\E d \in Drivers : CronTick(d))
  /\ \A d \in Drivers : WF_vars(Drive(d))

FairSpec == Spec /\ Fairness
-----------------------------------------------------------------------------
(* Properties                                                              *)

Prefix(k) == 0 .. (k - 1)

(* The pointer and every snapshot in flight stand behind finished work: no *)
(* driver, however late and however often evicted, resumes past a step     *)
(* whose handler never succeeded (advanceJobPointer, persistInProgress).   *)
NothingSkipped ==
  /\ Prefix(job.index) \subseteq finished
  /\ \A d \in Drivers : drv[d].pc \in Holding => Prefix(drv[d].at) \subseteq finished

(* Why it holds, as an inductive invariant: the job row, every driver's    *)
(* locals, the order in which steps finish, and what the last one did.     *)
RowInv ==
  /\ Prefix(job.index) \subseteq finished
  /\ job.status = "completed" => job.index = TotalSteps
LocalInv(d) ==
  /\ drv[d].pc \in Holding => Prefix(drv[d].at) \subseteq finished
  /\ drv[d].pc \in {"receipt", "pointer"} /\ drv[d].result = "completed" =>
       drv[d].at \in finished
InOrder == \A k \in finished : Prefix(k) \subseteq finished
LastIsLaunch == site.status = "active" <=> LastStep \in finished

IInv ==
  /\ TypeOK
  /\ RowInv
  /\ \A d \in Drivers : LocalInv(d)
  /\ InOrder
  /\ LastIsLaunch
  /\ \A d \in Drivers : At(d, "past_end") => drv[d].at = TotalSteps

(* The public only ever sees a site all of whose steps have succeeded      *)
(* (updateLaunchReadinessStep).                                            *)
LaunchedWhole == site.status = "active" => finished = Steps

(* A completed job means the site is live: no path of the runner, the      *)
(* past-the-end one included, completes a job whose launch step has not    *)
(* succeeded.                                                              *)
CompletedIsLive == job.status = "completed" => site.status = "active"

(* No driver, however stale its snapshot, takes the build back behind the  *)
(* slowest snapshot in flight: the unconditional pointer write can undo    *)
(* another driver's progress, but only down to that floor.                 *)
AtLeast(k) ==
  /\ job.index >= k
  /\ \A d \in Drivers : drv[d].pc \in Holding => drv[d].at >= k

FloorHolds == [][\A k \in 0 .. TotalSteps : AtLeast(k) => AtLeast(k)']_vars

(* A site is live in the abstract build when its row says active.          *)
Build == INSTANCE SiteBuild WITH live <- (site.status = "active")

(* Concurrent drivers, evictions and failures included, the runner builds  *)
(* the site the way SiteBuild promises.                                    *)
BuildSpec == Build!Spec

(* The drives of the job follow one another: what the lease is there for.  *)
(* How many there are, who starts them and where they end is left open.    *)
Serial == \A d, e \in Drivers : ~ At(d, "idle") /\ ~ At(e, "idle") => d = e

(* The receipts agree with the job row, even when a driver was evicted     *)
(* between the two writes: every step behind the pointer has a completed   *)
(* receipt, and a failed job points at a step whose receipt says failed.   *)
ReceiptsAgree ==
  /\ \A k \in Prefix(job.index) : receipts[k] = "completed"
  /\ job.status = "failed" => receipts[job.index] = "failed"

(* They do as long as drives do not overlap: a driver that takes over from *)
(* an evicted one, or resumes what another has failed, leaves receipts and *)
(* row telling the same story (runStep, advanceJobPointer).                *)
SerialReceipts == []Serial => []ReceiptsAgree

(* With drives that do not overlap the pointer never goes back ...         *)
PointerNeverBack == [][job'.index >= job.index]_vars

(* ... and completed is final, a resume of a completed job included.       *)
CompletedIsFinal == [][job.status = "completed" => job'.status = "completed"]_vars

(* The cron is the completion guarantee: a job that is not settled settles, *)
(* whatever evictions it suffers and even when ticks overlap.              *)
UnsettledSettles == ~ Terminal(job.status) ~> Terminal(job.status)
=============================================================================
