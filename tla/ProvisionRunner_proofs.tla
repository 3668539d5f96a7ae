----------------------- MODULE ProvisionRunner_proofs -----------------------
(***************************************************************************)
(* Proofs about ProvisionRunner, for any number of steps and drivers and   *)
(* any bounds: types, the inductive invariant behind NothingSkipped,       *)
(* LaunchedWhole and CompletedIsLive, the floor under the pointer, what    *)
(* drives that do not overlap keep, and the refinement of SiteBuild.       *)
(***************************************************************************)
EXTENDS ProvisionRunner, TLAPS

-----------------------------------------------------------------------------
(* The step relation and its helpers                                       *)

(* A step is time, an arrival, an eviction or one statement of a driver.   *)
LEMMA NextCases ==
  ASSUME Next
  PROVE  \/ Minute
         \/ \E d \in Drivers :
              \/ CronTick(d) \/ PostNext(d) \/ PostResume(d) \/ Crash(d)
              \/ Inspect(d) \/ Reset(d) \/ Read(d) \/ Resync(d) \/ PastEnd(d)
              \/ Upsert(d) \/ Succeed(d) \/ Fail(d) \/ InProgress(d) \/ Park(d)
              \/ Receipt(d) \/ PointerFailed(d) \/ PointerForward(d)
              \/ PointerCompleted(d) \/ Stamp(d)
BY DEF Next, Drive

(* Moving a driver to another point keeps its locals well typed.           *)
LEMMA GotoType ==
  ASSUME DriverType, NEW d \in Drivers, NEW point \in Points, Goto(d, point),
         point \in OnStep => drv[d].at \in Steps,
         point \in {"receipt", "pointer"} => drv[d].result # "none"
  PROVE  DriverType'
<1>1. (drv \in [Drivers -> DriverStates])'
  BY DEF DriverType, LocalsType, DriverStates, Goto
<1>2. (\A e \in Drivers : LocalsType(e))'
  BY DEF DriverType, DriverStates, LocalsType, Goto
<1> QED
  BY <1>1, <1>2 DEF DriverType, LocalsType

(* So does starting a round, and ending an invocation.                     *)
LEMMA EnterType ==
  ASSUME DriverType, NEW d \in Drivers, NEW role \in Roles,
         NEW point \in {"loop", "inspect"}, Enter(d, role, point)
  PROVE  DriverType'
<1>1. Fresh(role, point) \in DriverStates
  BY ParametersAssumption DEF Fresh, DriverStates, Points
<1>2. (drv \in [Drivers -> DriverStates])'
  BY <1>1 DEF DriverType, LocalsType, Enter
<1>3. (\A e \in Drivers : LocalsType(e))'
  BY DEF DriverType, LocalsType, Enter, Fresh, OnStep
<1> QED
  BY <1>2, <1>3 DEF DriverType, LocalsType

(* An invocation that ends leaves a well-typed idle slot.                  *)
LEMMA ExitType ==
  ASSUME DriverType, NEW d \in Drivers, Exit(d)
  PROVE  DriverType'
<1>1. Idle \in DriverStates
  BY ParametersAssumption DEF Idle, Fresh, DriverStates, Points, Roles
<1>2. (drv \in [Drivers -> DriverStates])'
  BY <1>1 DEF DriverType, LocalsType, Exit
<1>3. (\A e \in Drivers : LocalsType(e))'
  BY DEF DriverType, LocalsType, Exit, OnStep, Idle, Fresh
<1> QED
  BY <1>2, <1>3 DEF DriverType, LocalsType

(* Both ways a caller goes on after a step are well typed.                 *)
LEMMA NextRoundType ==
  ASSUME DriverType, NEW d \in Drivers, NextRound(d)
  PROVE  DriverType'
<1>1. drv[d].role \in Roles
  BY DEF DriverType, LocalsType, DriverStates
<1>2. Enter(d, drv[d].role, "loop") \/ Exit(d)
  BY DEF NextRound
<1> QED
  BY <1>1, <1>2, EnterType, ExitType

(* A write of the job row with a status and an index in range.             *)
LEMMA WriteJobType ==
  ASSUME JobType, NEW status \in {"pending", "running", "failed", "completed"},
         NEW index \in 0 .. TotalSteps, WriteJob(status, index)
  PROVE  JobType'
<1>1. job' = [status |-> status, index |-> index, total |-> job.total]
  BY DEF JobType, JobRows, WriteJob
<1>2. job' \in JobRows
  BY <1>1 DEF JobType, JobRows
<1>3. lease' \in 0 .. StaleMinutes
  BY ParametersAssumption DEF WriteJob
<1> QED
  BY <1>2, <1>3 DEF JobType

-----------------------------------------------------------------------------
(* Types                                                                   *)

(* The types hold of a newly inserted job.                                 *)
LEMMA TypeInit == Init => TypeOK
<1> SUFFICES ASSUME Init PROVE TypeOK
  OBVIOUS
<1>1. JobType /\ ReceiptType /\ SiteType /\ HistoryType /\ CounterType
  BY ParametersAssumption
     DEF Init, JobType, JobRows, ReceiptType, SiteType, HistoryType, CounterType
<1>2. DriverType
  <2>1. PICK first \in Drivers :
          drv = [d \in Drivers |->
                   IF d = first THEN Fresh("create", "loop") ELSE Idle]
    BY DEF Init
  <2>2. Fresh("create", "loop") \in DriverStates /\ Idle \in DriverStates
    BY ParametersAssumption DEF Fresh, Idle, DriverStates, Points, Roles
  <2>3. \A d \in Drivers : LocalsType(d)
    BY <2>1 DEF LocalsType, Fresh, Idle, OnStep
  <2> QED
    BY <2>1, <2>2, <2>3 DEF DriverType, LocalsType
<1> QED
  BY <1>1, <1>2 DEF TypeOK

(* The locals of a driver, as numbers.                                     *)
LEMMA AtRange ==
  ASSUME TypeOK, NEW d \in Drivers
  PROVE  /\ drv[d].at \in 0 .. TotalSteps
         /\ LocalsType(d)
         /\ job.index \in 0 .. TotalSteps
BY DEF TypeOK, DriverType, DriverStates, LocalsType, JobType, JobRows

(* Every statement keeps the types; only Upsert and Receipt touch the      *)
(* receipts, only Succeed and Stamp the site.                              *)
LEMMA TypeStep == TypeOK /\ [Next]_vars => TypeOK'
<1> SUFFICES ASSUME TypeOK, [Next]_vars PROVE TypeOK'
  OBVIOUS
<1> USE DEF TypeOK
<1>1. CASE UNCHANGED vars
  BY <1>1 DEF vars, DriverType, LocalsType, JobType, ReceiptType, SiteType, HistoryType,
     CounterType, row, counters
<1>2. CASE Minute
  BY <1>2, ParametersAssumption DEF Minute, DriverType, LocalsType, JobType, ReceiptType,
     SiteType, HistoryType, CounterType, row, counters
<1>3. ASSUME NEW d \in Drivers, CronTick(d) PROVE TypeOK'
  <2>1. DriverType'
    BY <1>3, EnterType DEF CronTick, Roles
  <2>2. JobType'
    BY <1>3, ParametersAssumption DEF CronTick, JobType
  <2> QED
    BY <1>3, <2>1, <2>2 DEF CronTick, ReceiptType, SiteType, HistoryType,
       CounterType, row, counters
<1>4. ASSUME NEW d \in Drivers, PostNext(d) PROVE TypeOK'
  <2>1. DriverType'
    BY <1>4, EnterType DEF PostNext, Roles
  <2> QED
    BY <1>4, <2>1 DEF PostNext, JobType, ReceiptType, SiteType, HistoryType,
       CounterType, row, counters
<1>5. ASSUME NEW d \in Drivers, PostResume(d) PROVE TypeOK'
  <2>1. DriverType'
    BY <1>5, EnterType DEF PostResume, Roles
  <2> QED
    BY <1>5, <2>1 DEF PostResume, JobType, ReceiptType, SiteType, HistoryType,
       CounterType, row, counters
<1>6. ASSUME NEW d \in Drivers, Inspect(d) PROVE TypeOK'
  <2>1. DriverType'
    BY <1>6, ExitType, GotoType DEF Inspect, Points, OnStep
  <2> QED
    BY <1>6, <2>1 DEF Inspect, JobType, ReceiptType, SiteType, HistoryType,
       CounterType, row, counters
<1>7. ASSUME NEW d \in Drivers, Reset(d) PROVE TypeOK'
  <2>1. DriverType'
    BY <1>7, GotoType DEF Reset, Points, OnStep
  <2>2. JobType'
    BY <1>7, WriteJobType, AtRange DEF Reset
  <2> QED
    BY <1>7, <2>1, <2>2 DEF Reset, ReceiptType, SiteType, HistoryType,
       CounterType, counters
<1>8. ASSUME NEW d \in Drivers, Read(d) PROVE TypeOK'
  <2>1. JobType' /\ ReceiptType' /\ SiteType' /\ HistoryType' /\ CounterType'
    BY <1>8 DEF Read, JobType, ReceiptType, SiteType, HistoryType, CounterType,
       row, counters
  <2>2. CASE Terminal(job.status)
    BY <1>8, <2>1, <2>2, ExitType DEF Read
  <2>3. CASE ~ Terminal(job.status)
    <3> DEFINE point == IF job.total = "legacy" THEN "resync"
                        ELSE Beyond(job.index)
    <3>1. drv' = [drv EXCEPT ![d].at = job.index, ![d].pc = point]
      BY <1>8, <2>3 DEF Read
    <3>2. /\ point \in Points \ {"receipt", "pointer"}
          /\ point \in OnStep => job.index \in Steps
      BY AtRange, ParametersAssumption DEF Beyond, Points, Holding, OnStep,
         Steps
    <3> HIDE DEF point
    <3>3. (drv \in [Drivers -> DriverStates])'
      BY <3>1, <3>2, AtRange DEF DriverType, LocalsType, DriverStates
    <3>4. (\A e \in Drivers : LocalsType(e))'
      BY <1>8, <3>1, <3>2 DEF Read, At, LocalsType, DriverType, DriverStates
    <3> QED
      BY <2>1, <3>3, <3>4 DEF DriverType, LocalsType
  <2> QED
    BY <2>2, <2>3
<1>9. ASSUME NEW d \in Drivers, Resync(d) PROVE TypeOK'
  <2>1. job' = [status |-> job.status, index |-> job.index, total |-> "live"]
    BY <1>9 DEF Resync, JobType, JobRows
  <2>2. JobType'
    BY <1>9, <2>1, ParametersAssumption DEF Resync, JobType, JobRows
  <2>3. /\ Beyond(drv[d].at) \in Points \ {"receipt", "pointer"}
        /\ Beyond(drv[d].at) \in OnStep => drv[d].at \in Steps
    BY AtRange, ParametersAssumption DEF Beyond, Points, Holding, OnStep, Steps
  <2>4. DriverType'
    BY <1>9, <2>3, GotoType DEF Resync
  <2> QED
    BY <1>9, <2>2, <2>4 DEF Resync, ReceiptType, SiteType, HistoryType,
       CounterType, counters
<1>10. ASSUME NEW d \in Drivers, PastEnd(d) PROVE TypeOK'
  <2>1. DriverType'
    BY <1>10, ExitType DEF PastEnd
  <2>2. JobType'
    BY <1>10, WriteJobType, ParametersAssumption DEF PastEnd
  <2> QED
    BY <1>10, <2>1, <2>2 DEF PastEnd, ReceiptType, SiteType, HistoryType,
       CounterType, counters
<1>11. ASSUME NEW d \in Drivers, Upsert(d) PROVE TypeOK'
  <2>1. DriverType'
    BY <1>11, GotoType, AtRange DEF Upsert, At, LocalsType, Points, Holding,
       OnStep
  <2>2. ReceiptType'
    BY <1>11, AtRange DEF Upsert, At, LocalsType, OnStep, ReceiptType
  <2> QED
    BY <1>11, <2>1, <2>2 DEF Upsert, JobType, SiteType, HistoryType,
       CounterType, row, counters
<1>12. ASSUME NEW d \in Drivers, Succeed(d) PROVE TypeOK'
  <2>1. drv[d].at \in Steps
    BY <1>12, AtRange DEF Succeed, At, LocalsType, OnStep
  <2>2. DriverType'
    <3>1. (drv \in [Drivers -> DriverStates])'
      BY <1>12 DEF Succeed, DriverType, LocalsType, DriverStates, Points, Holding
    <3>2. (\A e \in Drivers : LocalsType(e))'
      BY <1>12, <2>1 DEF Succeed, LocalsType, DriverType, DriverStates
    <3> QED
      BY <3>1, <3>2 DEF DriverType, LocalsType
  <2>3. SiteType'
    BY <1>12 DEF Succeed, SiteType
  <2> QED
    BY <1>12, <2>1, <2>2, <2>3 DEF Succeed, JobType, ReceiptType, HistoryType,
       CounterType, row, counters
<1>13. ASSUME NEW d \in Drivers, Fail(d) PROVE TypeOK'
  <2>1. drv[d].at \in Steps
    BY <1>13, AtRange DEF Fail, At, LocalsType, OnStep
  <2>2. DriverType'
    <3>1. (drv \in [Drivers -> DriverStates])'
      BY <1>13 DEF Fail, DriverType, LocalsType, DriverStates, Points, Holding
    <3>2. (\A e \in Drivers : LocalsType(e))'
      BY <1>13, <2>1 DEF Fail, LocalsType, DriverType, DriverStates
    <3> QED
      BY <3>1, <3>2 DEF DriverType, LocalsType
  <2>3. CounterType'
    BY <1>13, ParametersAssumption DEF Fail, CounterType
  <2> QED
    BY <1>13, <2>1, <2>2, <2>3 DEF Fail, JobType, ReceiptType, SiteType,
       HistoryType, row
<1>14. ASSUME NEW d \in Drivers, InProgress(d) PROVE TypeOK'
  <2>1. DriverType'
    BY <1>14, GotoType, AtRange DEF InProgress, At, LocalsType, Points, Holding,
       OnStep
  <2>2. CounterType'
    BY <1>14, ParametersAssumption DEF InProgress, CounterType
  <2> QED
    BY <1>14, <2>1, <2>2 DEF InProgress, JobType, ReceiptType, SiteType,
       HistoryType, row
<1>15. ASSUME NEW d \in Drivers, Park(d) PROVE TypeOK'
  <2>1. DriverType'
    BY <1>15, NextRoundType DEF Park
  <2>2. JobType'
    BY <1>15, WriteJobType, AtRange DEF Park
  <2> QED
    BY <1>15, <2>1, <2>2 DEF Park, ReceiptType, SiteType, HistoryType,
       CounterType, counters
<1>16. ASSUME NEW d \in Drivers, Receipt(d) PROVE TypeOK'
  <2>1. DriverType'
    BY <1>16, GotoType, AtRange DEF Receipt, At, LocalsType, Points, Holding,
       OnStep
  <2>2. ReceiptType'
    BY <1>16, AtRange DEF Receipt, At, LocalsType, OnStep, ReceiptType,
       DriverType, DriverStates
  <2> QED
    BY <1>16, <2>1, <2>2 DEF Receipt, JobType, SiteType, HistoryType,
       CounterType, row, counters
<1>17. ASSUME NEW d \in Drivers, PointerFailed(d) PROVE TypeOK'
  <2>1. DriverType'
    BY <1>17, ExitType DEF PointerFailed
  <2>2. JobType'
    BY <1>17, WriteJobType, AtRange DEF PointerFailed
  <2> QED
    BY <1>17, <2>1, <2>2 DEF PointerFailed, ReceiptType, SiteType, HistoryType,
       CounterType, counters
<1>18. ASSUME NEW d \in Drivers, PointerForward(d) PROVE TypeOK'
  <2>1. DriverType'
    BY <1>18, NextRoundType DEF PointerForward
  <2>2. drv[d].at + 1 \in 0 .. TotalSteps
    BY <1>18, AtRange, ParametersAssumption DEF PointerForward, LastStep
  <2>3. JobType'
    BY <1>18, <2>2, WriteJobType DEF PointerForward
  <2> QED
    BY <1>18, <2>1, <2>2, <2>3 DEF PointerForward, ReceiptType, SiteType,
       HistoryType, CounterType, counters
<1>19. ASSUME NEW d \in Drivers, PointerCompleted(d) PROVE TypeOK'
  <2>1. DriverType'
    BY <1>19, GotoType DEF PointerCompleted, Points, OnStep
  <2>2. JobType'
    BY <1>19, WriteJobType, ParametersAssumption DEF PointerCompleted
  <2> QED
    BY <1>19, <2>1, <2>2 DEF PointerCompleted, ReceiptType, SiteType,
       HistoryType, CounterType, counters
<1>20. ASSUME NEW d \in Drivers, Stamp(d) PROVE TypeOK'
  <2>1. DriverType'
    BY <1>20, ExitType DEF Stamp
  <2>2. SiteType'
    BY <1>20 DEF Stamp, SiteType
  <2> QED
    BY <1>20, <2>1, <2>2 DEF Stamp, JobType, ReceiptType, HistoryType,
       CounterType, row, counters
<1>21. ASSUME NEW d \in Drivers, Crash(d) PROVE TypeOK'
  <2>1. DriverType'
    BY <1>21, ExitType DEF Crash
  <2>2. CounterType'
    BY <1>21, ParametersAssumption DEF Crash, CounterType
  <2> QED
    BY <1>21, <2>1, <2>2 DEF Crash, JobType, ReceiptType, SiteType, HistoryType,
       row
<1> QED
  BY <1>1, <1>2, <1>3, <1>4, <1>5, <1>6, <1>7, <1>8, <1>9, <1>10, <1>11, <1>12,
     <1>13, <1>14, <1>15, <1>16, <1>17, <1>18, <1>19, <1>20, <1>21, NextCases

(* TypeOK: the rows, the receipts and every driver's locals keep the types *)
(* the code gives them.                                                    *)
THEOREM TypeCorrect == Spec => []TypeOK
BY TypeInit, TypeStep, PTL DEF Spec

-----------------------------------------------------------------------------
(* The inductive invariant                                                 *)

(* The invariant holds of a newly inserted job: nothing is behind it.      *)
LEMMA InvInit == Init => IInv
<1> SUFFICES ASSUME Init PROVE IInv
  OBVIOUS
<1>1. TypeOK
  BY TypeInit
<1>2. RowInv
  BY DEF Init, RowInv, Prefix
<1>3. \A d \in Drivers : drv[d].pc \in {"idle", "loop"}
  BY DEF Init, Fresh, Idle
<1>4. \A d \in Drivers : LocalInv(d) /\ ~ At(d, "past_end")
  BY <1>3 DEF LocalInv, At, Holding
<1>5. InOrder /\ LastIsLaunch
  BY DEF Init, InOrder, LastIsLaunch
<1> QED
  BY <1>1, <1>2, <1>4, <1>5 DEF IInv

(* One driver moves and nothing is finished: the invariant need only be    *)
(* looked at in the job row and in that driver's locals.                   *)
LEMMA OneDriver ==
  ASSUME IInv, TypeOK', NEW d \in Drivers,
         \A e \in Drivers \ {d} : drv'[e] = drv[e],
         UNCHANGED finished, site'.status = site.status,
         RowInv', LocalInv(d)', At(d, "past_end")' => drv'[d].at = TotalSteps
  PROVE  IInv'
<1>1. \A e \in Drivers : LocalInv(e)'
  BY DEF IInv, LocalInv
<1>2. InOrder' /\ LastIsLaunch'
  BY DEF IInv, InOrder, LastIsLaunch
<1>3. \A e \in Drivers : At(e, "past_end")' => drv'[e].at = TotalSteps
  BY DEF IInv, At
<1> QED
  BY <1>1, <1>2, <1>3 DEF IInv

(* A driver that holds no snapshot owes nothing.                           *)
LEMMA LeaveKeeps ==
  ASSUME IInv, TypeOK', NEW d \in Drivers, UNCHANGED finished,
         site'.status = site.status, RowInv',
         \/ Exit(d)
         \/ \E role \in Roles, point \in {"loop", "inspect"} : Enter(d, role, point)
         \/ \E point \in {"loop", "reset", "stamp"} : Goto(d, point)
  PROVE  IInv'
<1>1. drv'[d].pc \notin Holding
  BY DEF IInv, TypeOK, DriverType, DriverStates, Exit, Enter, Goto, Idle, Fresh,
         Holding
<1>2. \A e \in Drivers \ {d} : drv'[e] = drv[e]
  BY DEF IInv, TypeOK, DriverType, DriverStates, Exit, Enter, Goto
<1>3. LocalInv(d)' /\ ~ At(d, "past_end")'
  BY <1>1 DEF LocalInv, At, Holding
<1> QED
  BY <1>1, <1>2, <1>3, OneDriver

(* A driver that keeps its snapshot and its result keeps what they say.    *)
LEMMA HoldKeeps ==
  ASSUME IInv, TypeOK', NEW d \in Drivers, UNCHANGED finished,
         site'.status = site.status, RowInv', drv[d].pc \in Holding,
         NEW point \in Holding \ {"past_end"}, Goto(d, point),
         point = "pointer" => At(d, "receipt"), point # "receipt"
  PROVE  IInv'
<1>1. /\ drv'[d].pc = point
      /\ drv'[d].at = drv[d].at
      /\ drv'[d].result = drv[d].result
      /\ \A e \in Drivers \ {d} : drv'[e] = drv[e]
  BY DEF IInv, TypeOK, DriverType, DriverStates, Goto
<1>2. LocalInv(d)' /\ ~ At(d, "past_end")'
  BY <1>1 DEF IInv, LocalInv, At
<1> QED
  BY <1>1, <1>2, OneDriver

(* The row's part, when the row stays or only its total changes.           *)
LEMMA RowStays ==
  ASSUME IInv, UNCHANGED finished, job'.index = job.index,
         job'.status = job.status
  PROVE  RowInv'
BY DEF IInv, RowInv, Prefix

(* What a driver writes in the row is covered when its index is.           *)
LEMMA RowWritten ==
  ASSUME IInv, UNCHANGED finished, NEW status, NEW index, WriteJob(status, index),
         Prefix(index) \subseteq finished,
         status = "completed" => index = TotalSteps
  PROVE  RowInv'
BY DEF IInv, TypeOK, JobType, JobRows, RowInv, Prefix, WriteJob

(* Every statement of a driver, and every crash, keeps the invariant.      *)
LEMMA InvStep == IInv /\ [Next]_vars => IInv'
<1> SUFFICES ASSUME IInv, [Next]_vars PROVE IInv'
  OBVIOUS
<1>t. TypeOK /\ TypeOK'
  BY TypeStep DEF IInv
<1>1. CASE UNCHANGED vars
  BY <1>t, <1>1
     DEF vars, row, counters, IInv, RowInv, LocalInv, InOrder, LastIsLaunch, At
<1>2. CASE Minute
  BY <1>t, <1>2
     DEF Minute, counters, IInv, RowInv, LocalInv, InOrder, LastIsLaunch, At
<1>3. ASSUME NEW d \in Drivers, CronTick(d) PROVE IInv'
  BY <1>3, <1>t, RowStays, LeaveKeeps DEF CronTick, Roles
<1>4. ASSUME NEW d \in Drivers, PostNext(d) PROVE IInv'
  BY <1>4, <1>t, RowStays, LeaveKeeps DEF PostNext, Roles, row
<1>5. ASSUME NEW d \in Drivers, PostResume(d) PROVE IInv'
  BY <1>5, <1>t, RowStays, LeaveKeeps DEF PostResume, Roles, row
<1>6. ASSUME NEW d \in Drivers, Inspect(d) PROVE IInv'
  BY <1>6, <1>t, RowStays, LeaveKeeps DEF Inspect, row
<1>7. ASSUME NEW d \in Drivers, Reset(d) PROVE IInv'
  <2>1. RowInv'
    BY <1>7, RowWritten DEF Reset, IInv, RowInv
  <2> QED
    BY <1>7, <1>t, <2>1, LeaveKeeps DEF Reset
<1>8. ASSUME NEW d \in Drivers, Read(d) PROVE IInv'
  <2>1. RowInv'
    BY <1>8, RowStays DEF Read, row
  <2>2. CASE Terminal(job.status)
    BY <1>8, <1>t, <2>1, <2>2, LeaveKeeps DEF Read
  <2>3. CASE ~ Terminal(job.status)
    <3> DEFINE point == IF job.total = "legacy" THEN "resync"
                        ELSE Beyond(job.index)
    <3>1. drv' = [drv EXCEPT ![d].at = job.index, ![d].pc = point]
      BY <1>8, <2>3 DEF Read
    <3>2. point \in {"resync", "past_end", "upsert"}
      BY DEF Beyond
    <3>3. point = "past_end" => job.index = TotalSteps
      BY <1>t, AtRange, ParametersAssumption DEF Beyond
    <3> HIDE DEF point
    <3>4. /\ drv'[d].pc = point
          /\ drv'[d].at = job.index
          /\ \A e \in Drivers \ {d} : drv'[e] = drv[e]
      BY <1>t, <3>1 DEF TypeOK, DriverType, DriverStates
    <3>5. LocalInv(d)' /\ (At(d, "past_end")' => drv'[d].at = TotalSteps)
      BY <1>8, <3>2, <3>3, <3>4 DEF Read, IInv, RowInv, LocalInv, At
    <3> QED
      BY <1>8, <1>t, <2>1, <3>4, <3>5, OneDriver DEF Read
  <2> QED
    BY <2>2, <2>3
<1>9. ASSUME NEW d \in Drivers, Resync(d) PROVE IInv'
  <2>1. job'.index = job.index /\ job'.status = job.status
    BY <1>9, <1>t DEF Resync, TypeOK, JobType, JobRows
  <2>2. RowInv'
    BY <1>9, <2>1, RowStays DEF Resync
  <2>3. /\ drv'[d].pc = Beyond(drv[d].at)
        /\ drv'[d].at = drv[d].at
        /\ \A e \in Drivers \ {d} : drv'[e] = drv[e]
    BY <1>9, <1>t DEF Resync, Goto, TypeOK, DriverType, DriverStates
  <2>4. At(d, "past_end")' => drv'[d].at = TotalSteps
    BY <1>t, <2>3, AtRange, ParametersAssumption DEF At, Beyond
  <2>5. LocalInv(d)'
    BY <1>9, <2>3 DEF Resync, At, Holding, Beyond, IInv, LocalInv
  <2> QED
    BY <1>9, <1>t, <2>2, <2>3, <2>4, <2>5, OneDriver DEF Resync
<1>10. ASSUME NEW d \in Drivers, PastEnd(d) PROVE IInv'
  <2>1. Prefix(TotalSteps) \subseteq finished
    BY <1>10 DEF PastEnd, At, Holding, IInv, LocalInv
  <2>2. RowInv'
    BY <1>10, <2>1, RowWritten DEF PastEnd
  <2> QED
    BY <1>10, <1>t, <2>2, LeaveKeeps DEF PastEnd
<1>11. ASSUME NEW d \in Drivers, Upsert(d) PROVE IInv'
  BY <1>11, <1>t, RowStays, HoldKeeps DEF Upsert, At, Holding, row
<1>12. ASSUME NEW d \in Drivers, Succeed(d) PROVE IInv'
  <2>1. /\ drv'[d].pc = "receipt"
        /\ drv'[d].at = drv[d].at
        /\ \A e \in Drivers \ {d} : drv'[e] = drv[e]
    BY <1>12, <1>t DEF Succeed, TypeOK, DriverType, DriverStates
  <2>2. finished' = finished \cup {drv[d].at}
    BY <1>12 DEF Succeed
  <2>3. Prefix(drv[d].at) \subseteq finished
    BY <1>12 DEF Succeed, At, Holding, IInv, LocalInv
  <2>4. RowInv'
    BY <1>12, <2>2 DEF Succeed, row, IInv, RowInv
  <2>5. ASSUME NEW e \in Drivers PROVE LocalInv(e)'
    BY <2>1, <2>2, <2>3 DEF IInv, LocalInv
  <2>6. InOrder'
    BY <2>2, <2>3 DEF IInv, InOrder
  <2>7. LastIsLaunch'
    BY <1>12, <1>t DEF Succeed, IInv, LastIsLaunch, TypeOK, SiteType
  <2>8. \A e \in Drivers : At(e, "past_end")' => drv'[e].at = TotalSteps
    BY <2>1 DEF At, IInv
  <2> QED
    BY <1>t, <2>4, <2>5, <2>6, <2>7, <2>8 DEF IInv
<1>13. ASSUME NEW d \in Drivers, Fail(d) PROVE IInv'
  <2>1. /\ drv'[d].pc = "receipt"
        /\ drv'[d].at = drv[d].at
        /\ drv'[d].result = "failed"
        /\ \A e \in Drivers \ {d} : drv'[e] = drv[e]
    BY <1>13, <1>t DEF Fail, TypeOK, DriverType, DriverStates
  <2>2. LocalInv(d)' /\ ~ At(d, "past_end")'
    BY <1>13, <2>1 DEF Fail, At, Holding, IInv, LocalInv
  <2> QED
    BY <1>13, <1>t, <2>1, <2>2, RowStays, OneDriver DEF Fail, row
<1>14. ASSUME NEW d \in Drivers, InProgress(d) PROVE IInv'
  BY <1>14, <1>t, RowStays, HoldKeeps DEF InProgress, At, Holding, row
<1>15. ASSUME NEW d \in Drivers, Park(d) PROVE IInv'
  <2>1. RowInv'
    BY <1>15, RowWritten DEF Park, At, Holding, IInv, LocalInv
  <2> QED
    BY <1>15, <1>t, <2>1, LeaveKeeps
       DEF Park, NextRound, IInv, TypeOK, DriverType, DriverStates
<1>16. ASSUME NEW d \in Drivers, Receipt(d) PROVE IInv'
  BY <1>16, <1>t, RowStays, HoldKeeps DEF Receipt, At, Holding, row
<1>17. ASSUME NEW d \in Drivers, PointerFailed(d) PROVE IInv'
  <2>1. RowInv'
    BY <1>17, RowWritten DEF PointerFailed, At, Holding, IInv, LocalInv
  <2> QED
    BY <1>17, <1>t, <2>1, LeaveKeeps DEF PointerFailed
<1>18. ASSUME NEW d \in Drivers, PointerForward(d) PROVE IInv'
  <2>1. /\ drv[d].at \in finished
        /\ Prefix(drv[d].at) \subseteq finished
    BY <1>18 DEF PointerForward, At, Holding, IInv, LocalInv
  <2>2. Prefix(drv[d].at + 1) \subseteq finished
    BY <1>t, <2>1, AtRange DEF Prefix
  <2>3. RowInv'
    BY <1>18, <2>2, RowWritten DEF PointerForward
  <2> QED
    BY <1>18, <1>t, <2>3, LeaveKeeps
       DEF PointerForward, NextRound, IInv, TypeOK, DriverType, DriverStates
<1>19. ASSUME NEW d \in Drivers, PointerCompleted(d) PROVE IInv'
  <2>1. /\ LastStep \in finished
        /\ Prefix(LastStep) \subseteq finished
    BY <1>19 DEF PointerCompleted, At, Holding, IInv, LocalInv
  <2>2. Prefix(TotalSteps) \subseteq finished
    BY <2>1, ParametersAssumption DEF Prefix, LastStep
  <2>3. RowInv'
    BY <1>19, <2>2, RowWritten DEF PointerCompleted
  <2> QED
    BY <1>19, <1>t, <2>3, LeaveKeeps DEF PointerCompleted
<1>20. ASSUME NEW d \in Drivers, Stamp(d) PROVE IInv'
  <2>1. site'.status = site.status
    BY <1>20, <1>t DEF Stamp, TypeOK, SiteType
  <2> QED
    BY <1>20, <1>t, <2>1, RowStays, LeaveKeeps DEF Stamp, row
<1>21. ASSUME NEW d \in Drivers, Crash(d) PROVE IInv'
  BY <1>21, <1>t, RowStays, LeaveKeeps DEF Crash, row
<1> QED
  BY <1>1, <1>2, <1>3, <1>4, <1>5, <1>6, <1>7, <1>8, <1>9, <1>10, <1>11, <1>12,
     <1>13, <1>14, <1>15, <1>16, <1>17, <1>18, <1>19, <1>20, <1>21, NextCases

(* The invariant holds in every reachable state.                           *)
LEMMA Invariant == Spec => []IInv
BY InvInit, InvStep, PTL DEF Spec

(* NothingSkipped: neither the pointer nor any snapshot in flight ever     *)
(* stands past a step whose handler has not succeeded.                     *)
THEOREM NothingIsSkipped == Spec => []NothingSkipped
<1>1. IInv => NothingSkipped
  BY DEF IInv, RowInv, LocalInv, NothingSkipped
<1> QED
  BY <1>1, Invariant, PTL

(* LaunchedWhole and CompletedIsLive: a live site has every step behind    *)
(* it, and a completed job has a live site.                                *)
THEOREM LaunchIsLast == Spec => []LaunchedWhole /\ []CompletedIsLive
<1>1. Steps = Prefix(LastStep) \cup {LastStep} /\ Steps = Prefix(TotalSteps)
  BY ParametersAssumption DEF Steps, Prefix, LastStep
<1>2. IInv => LaunchedWhole
  BY <1>1 DEF IInv, LastIsLaunch, InOrder, LaunchedWhole, TypeOK, HistoryType
<1>3. IInv => CompletedIsLive
  BY <1>1 DEF IInv, LastIsLaunch, RowInv, CompletedIsLive
<1> QED
  BY <1>2, <1>3, Invariant, PTL

-----------------------------------------------------------------------------
(* The floor                                                               *)

(* A driver that lets go of its snapshot, or keeps it, cannot lower the    *)
(* floor; what it writes in the row is its own snapshot or more.           *)
LEMMA FloorOfRow ==
  ASSUME TypeOK, NEW d \in Drivers, NEW k \in 0 .. TotalSteps, AtLeast(k),
         drv[d].pc \in Holding, NEW status, NEW index \in 0 .. TotalSteps,
         index >= drv[d].at, WriteJob(status, index)
  PROVE  job'.index >= k
<1>1. drv[d].at >= k /\ drv[d].at \in 0 .. TotalSteps
  BY AtRange DEF AtLeast
<1>2. job'.index = index
  BY DEF WriteJob, TypeOK, JobType, JobRows
<1> QED
  BY <1>1, <1>2, ParametersAssumption

(* ... and its snapshot is either let go of or unchanged.                  *)
LEMMA FloorOfDrivers ==
  ASSUME TypeOK, NEW d \in Drivers, NEW k \in 0 .. TotalSteps, AtLeast(k),
         \/ Exit(d)
         \/ \E role \in Roles, point \in {"loop", "inspect"} : Enter(d, role, point)
         \/ \E point \in {"loop", "reset", "stamp"} : Goto(d, point)
         \/ drv[d].pc \in Holding /\ \E point \in Points : Goto(d, point)
  PROVE  \A e \in Drivers : drv'[e].pc \in Holding => drv'[e].at >= k
<1>1. \A e \in Drivers \ {d} : drv'[e] = drv[e]
  BY DEF TypeOK, DriverType, DriverStates, Exit, Enter, Goto
<1>2. drv'[d].pc \in Holding => drv[d].pc \in Holding /\ drv'[d].at = drv[d].at
  BY DEF TypeOK, DriverType, DriverStates, Exit, Enter, Goto, Idle, Fresh,
         Holding
<1> QED
  BY <1>1, <1>2 DEF AtLeast

(* One step keeps the floor; only the five writes of the pointer could     *)
(* lower it.                                                               *)
LEMMA FloorStep ==
  ASSUME TypeOK, [Next]_vars, NEW k \in 0 .. TotalSteps, AtLeast(k)
  PROVE  AtLeast(k)'
<1>1. CASE UNCHANGED vars
  BY <1>1 DEF vars, row, AtLeast
<1>2. CASE Minute
  BY <1>2 DEF Minute, AtLeast
<1>3. ASSUME NEW d \in Drivers,
             CronTick(d) \/ PostNext(d) \/ PostResume(d) \/ Crash(d) \/ Inspect(d)
      PROVE  AtLeast(k)'
  BY <1>3, FloorOfDrivers
     DEF CronTick, PostNext, PostResume, Crash, Inspect, row, Roles, AtLeast
<1>4. ASSUME NEW d \in Drivers, Reset(d) PROVE AtLeast(k)'
  <2>1. job'.index = job.index
    BY <1>4 DEF Reset, WriteJob, TypeOK, JobType, JobRows
  <2> QED
    BY <1>4, <2>1, FloorOfDrivers DEF Reset, AtLeast
<1>5. ASSUME NEW d \in Drivers, Read(d) PROVE AtLeast(k)'
  <2>1. CASE Terminal(job.status)
    BY <1>5, <2>1, FloorOfDrivers DEF Read, row, AtLeast
  <2>2. CASE ~ Terminal(job.status)
    <3>1. /\ drv'[d].at = job.index
          /\ \A e \in Drivers \ {d} : drv'[e] = drv[e]
      BY <1>5, <2>2 DEF Read, TypeOK, DriverType, DriverStates
    <3> QED
      BY <1>5, <3>1 DEF Read, row, AtLeast
  <2> QED
    BY <2>1, <2>2
<1>6. ASSUME NEW d \in Drivers, Resync(d) PROVE AtLeast(k)'
  <2>1. job'.index = job.index
    BY <1>6 DEF Resync, TypeOK, JobType, JobRows
  <2>2. Beyond(drv[d].at) \in Points /\ drv[d].pc \in Holding
    BY <1>6 DEF Resync, At, Beyond, Points, Holding
  <2> QED
    BY <1>6, <2>1, <2>2, FloorOfDrivers DEF Resync, AtLeast
<1>7. ASSUME NEW d \in Drivers, PastEnd(d) PROVE AtLeast(k)'
  <2>1. job'.index >= k
    BY <1>7, FloorOfRow, AtRange, ParametersAssumption DEF PastEnd, At, Holding
  <2> QED
    BY <1>7, <2>1, FloorOfDrivers DEF PastEnd, AtLeast
<1>8. ASSUME NEW d \in Drivers, Upsert(d) \/ InProgress(d) \/ Receipt(d)
      PROVE  AtLeast(k)'
  BY <1>8, FloorOfDrivers
     DEF Upsert, InProgress, Receipt, At, Holding, Points, row, AtLeast
<1>9. ASSUME NEW d \in Drivers, Succeed(d) \/ Fail(d) PROVE AtLeast(k)'
  <2>1. /\ drv'[d].at = drv[d].at
        /\ drv[d].pc \in Holding
        /\ \A e \in Drivers \ {d} : drv'[e] = drv[e]
    BY <1>9 DEF Succeed, Fail, At, Holding, TypeOK, DriverType, DriverStates
  <2> QED
    BY <1>9, <2>1 DEF Succeed, Fail, row, AtLeast
<1>10. ASSUME NEW d \in Drivers, Park(d) PROVE AtLeast(k)'
  <2>1. job'.index >= k
    BY <1>10, FloorOfRow, AtRange DEF Park, At, Holding
  <2> QED
    BY <1>10, <2>1, FloorOfDrivers
       DEF Park, NextRound, AtLeast, TypeOK, DriverType, DriverStates
<1>11. ASSUME NEW d \in Drivers, PointerFailed(d) PROVE AtLeast(k)'
  <2>1. job'.index >= k
    BY <1>11, FloorOfRow, AtRange DEF PointerFailed, At, Holding
  <2> QED
    BY <1>11, <2>1, FloorOfDrivers DEF PointerFailed, AtLeast
<1>12. ASSUME NEW d \in Drivers, PointerForward(d) PROVE AtLeast(k)'
  <2>1. /\ drv[d].at + 1 \in 0 .. TotalSteps
        /\ drv[d].at + 1 >= drv[d].at
    BY <1>12, AtRange, ParametersAssumption DEF PointerForward, LastStep
  <2>2. job'.index >= k
    BY <1>12, <2>1, FloorOfRow DEF PointerForward, At, Holding
  <2> QED
    BY <1>12, <2>2, FloorOfDrivers
       DEF PointerForward, NextRound, AtLeast, TypeOK, DriverType, DriverStates
<1>13. ASSUME NEW d \in Drivers, PointerCompleted(d) PROVE AtLeast(k)'
  <2>1. job'.index >= k
    BY <1>13, FloorOfRow, AtRange, ParametersAssumption
       DEF PointerCompleted, At, Holding
  <2> QED
    BY <1>13, <2>1, FloorOfDrivers DEF PointerCompleted, AtLeast
<1>14. ASSUME NEW d \in Drivers, Stamp(d) PROVE AtLeast(k)'
  BY <1>14, FloorOfDrivers DEF Stamp, row, AtLeast
<1> QED
  BY <1>1, <1>2, <1>3, <1>4, <1>5, <1>6, <1>7, <1>8, <1>9, <1>10, <1>11, <1>12,
     <1>13, <1>14, NextCases

(* FloorHolds: whatever index the pointer and every snapshot in flight     *)
(* have reached, no later step takes any of them below it.                 *)
THEOREM FloorNeverFalls == Spec => FloorHolds
<1>1. TypeOK /\ [Next]_vars => [\A k \in 0 .. TotalSteps : AtLeast(k) => AtLeast(k)']_vars
  BY FloorStep
<1> QED
  BY <1>1, TypeCorrect, PTL DEF Spec, FloorHolds

-----------------------------------------------------------------------------
(* One driver at a time                                                    *)

(* Under Serial a snapshot is the row as it stands, a reset finds the job  *)
(* as it was inspected, and the receipt that is about to be told to the    *)
(* row is its own.                                                         *)
SnapshotFresh(d) ==
  /\ drv[d].pc \in Holding => drv[d].at = job.index /\ ~ Terminal(job.status)
  /\ At(d, "reset") => job.status = "failed"
  /\ At(d, "pointer") => receipts[drv[d].at] = drv[d].result

SerialInv ==
  /\ ReceiptsAgree
  /\ \A d \in Drivers : SnapshotFresh(d)

(* A new job has no receipts, no snapshots and nothing to agree about.     *)
LEMMA SerialInit == Init => SerialInv
BY ParametersAssumption
   DEF Init, SerialInv, SnapshotFresh, ReceiptsAgree, Prefix, At, Fresh, Idle, Holding

(* The others have no snapshot, or nothing happens to what they hold.      *)
LEMMA OthersFresh ==
  ASSUME Serial, SerialInv, NEW d \in Drivers, \A e \in Drivers \ {d} : drv'[e] = drv[e],
         UNCHANGED <<job, receipts>> \/ ~ At(d, "idle"), SnapshotFresh(d)'
  PROVE  \A e \in Drivers : SnapshotFresh(e)'
BY DEF Serial, SerialInv, SnapshotFresh, At, Holding

(* A driver that lets go of its snapshot has nothing more to show.         *)
LEMMA LetsGo ==
  ASSUME Serial, TypeOK, SerialInv, NEW d \in Drivers,
         UNCHANGED <<job, receipts>> \/ ~ At(d, "idle"),
         \/ Exit(d)
         \/ \E role \in Roles, point \in {"loop", "inspect"} : Enter(d, role, point)
         \/ \E point \in {"loop", "stamp"} : Goto(d, point)
  PROVE  \A e \in Drivers : SnapshotFresh(e)'
<1>1. drv'[d].pc \in {"idle", "loop", "inspect", "stamp"}
  BY DEF TypeOK, DriverType, DriverStates, Exit, Enter, Goto, Idle, Fresh
<1>2. SnapshotFresh(d)'
  BY <1>1 DEF SnapshotFresh, At, Holding
<1>3. \A e \in Drivers \ {d} : drv'[e] = drv[e]
  BY DEF TypeOK, DriverType, DriverStates, Exit, Enter, Goto
<1> QED
  BY <1>2, <1>3, OthersFresh

(* A driver that keeps it finds the row, and the receipts, as it left them. *)
LEMMA KeepsOn ==
  ASSUME Serial, TypeOK, SerialInv, NEW d \in Drivers, drv[d].pc \in Holding,
         job'.index = job.index, job'.status = job.status,
         drv'[d].at = drv[d].at, drv'[d].pc \in Holding \ {"pointer"},
         \A e \in Drivers \ {d} : drv'[e] = drv[e]
  PROVE  \A e \in Drivers : SnapshotFresh(e)'
<1>1. SnapshotFresh(d)'
  BY DEF SerialInv, SnapshotFresh, At, Holding
<1>2. ~ At(d, "idle")
  BY DEF At, Holding
<1> QED
  BY <1>1, <1>2, OthersFresh

(* A write of the row, as its status and index.                            *)
LEMMA RowIs ==
  ASSUME TypeOK, NEW status, NEW index, WriteJob(status, index)
  PROVE  job'.status = status /\ job'.index = index
BY DEF WriteJob, TypeOK, JobType, JobRows

(* Each statement of the one driver keeps the receipts in step with the    *)
(* row; the row moves on only from a receipt that says so.                 *)
LEMMA SerialStep ==
  ASSUME Serial, IInv, SerialInv, [Next]_vars
  PROVE  SerialInv'
<1>t. TypeOK /\ \A d \in Drivers : SnapshotFresh(d)
  BY DEF IInv, SerialInv
<1>a. UNCHANGED <<job, receipts>> => ReceiptsAgree'
  BY DEF SerialInv, ReceiptsAgree, Prefix
<1>1. CASE UNCHANGED vars
  BY <1>1, <1>a DEF vars, row, SerialInv, SnapshotFresh, At
<1>2. CASE Minute
  BY <1>2, <1>a DEF Minute, SerialInv, SnapshotFresh, At
<1>3. ASSUME NEW d \in Drivers, CronTick(d) \/ PostNext(d) \/ PostResume(d) \/ Crash(d)
      PROVE  SerialInv'
  BY <1>3, <1>t, <1>a, LetsGo
     DEF CronTick, PostNext, PostResume, Crash, SerialInv, row, Roles
<1>4. ASSUME NEW d \in Drivers, Inspect(d) PROVE SerialInv'
  <2>1. CASE Goto(d, "reset") /\ job.status = "failed"
    <3>1. drv'[d].pc = "reset" /\ \A e \in Drivers \ {d} : drv'[e] = drv[e]
      BY <1>t, <2>1 DEF Goto, TypeOK, DriverType, DriverStates
    <3>2. \A e \in Drivers : SnapshotFresh(e)'
      BY <1>4, <2>1, <3>1, OthersFresh DEF Inspect, row, SnapshotFresh, At, Holding
    <3> QED
      BY <1>4, <1>a, <3>2 DEF Inspect, row, SerialInv
  <2>2. CASE Exit(d) \/ Goto(d, "loop")
    BY <1>4, <1>t, <1>a, <2>2, LetsGo DEF Inspect, SerialInv, row
  <2> QED
    BY <1>4, <2>1, <2>2 DEF Inspect
<1>5. ASSUME NEW d \in Drivers, Reset(d) PROVE SerialInv'
  <2>1. job'.status = "running" /\ job'.index = job.index /\ receipts' = receipts
    BY <1>5, <1>t, RowIs DEF Reset
  <2>2. ReceiptsAgree'
    BY <2>1 DEF SerialInv, ReceiptsAgree, Prefix
  <2> QED
    BY <1>5, <1>t, <2>2, LetsGo DEF Reset, At, SerialInv
<1>6. ASSUME NEW d \in Drivers, Read(d) PROVE SerialInv'
  <2>1. CASE Terminal(job.status)
    BY <1>6, <1>t, <1>a, <2>1, LetsGo DEF Read, SerialInv, row
  <2>2. CASE ~ Terminal(job.status)
    <3> DEFINE point == IF job.total = "legacy" THEN "resync" ELSE Beyond(job.index)
    <3>1. drv' = [drv EXCEPT ![d].at = job.index, ![d].pc = point]
      BY <1>6, <2>2 DEF Read
    <3>2. point \in {"resync", "past_end", "upsert"}
      BY DEF Beyond
    <3> HIDE DEF point
    <3>3. /\ drv'[d].pc = point /\ drv'[d].at = job.index
          /\ \A e \in Drivers \ {d} : drv'[e] = drv[e]
      BY <1>t, <3>1 DEF TypeOK, DriverType, DriverStates
    <3>4. \A e \in Drivers : SnapshotFresh(e)'
      BY <1>6, <2>2, <3>2, <3>3, OthersFresh DEF Read, row, SnapshotFresh, At, Holding
    <3> QED
      BY <1>6, <1>a, <3>4 DEF Read, row, SerialInv
  <2> QED
    BY <2>1, <2>2
<1>7. ASSUME NEW d \in Drivers, Resync(d) PROVE SerialInv'
  <2>1. job'.status = job.status /\ job'.index = job.index /\ receipts' = receipts
    BY <1>7, <1>t DEF Resync, TypeOK, JobType, JobRows
  <2>2. ReceiptsAgree'
    BY <2>1 DEF SerialInv, ReceiptsAgree, Prefix
  <2>3. /\ drv'[d].pc = Beyond(drv[d].at) /\ drv'[d].at = drv[d].at
        /\ \A e \in Drivers \ {d} : drv'[e] = drv[e]
    BY <1>7, <1>t DEF Resync, Goto, TypeOK, DriverType, DriverStates
  <2>4. drv[d].pc \in Holding /\ drv'[d].pc \in Holding \ {"pointer"}
    BY <1>7, <2>3 DEF Resync, At, Beyond, Holding
  <2> QED
    BY <1>t, <2>1, <2>2, <2>3, <2>4, KeepsOn DEF SerialInv
<1>8. ASSUME NEW d \in Drivers, PastEnd(d) PROVE SerialInv'
  <2>1. job'.status = "completed" /\ job'.index = TotalSteps /\ receipts' = receipts
    BY <1>8, <1>t, RowIs DEF PastEnd
  <2>2. job.index = TotalSteps
    BY <1>8, <1>t DEF PastEnd, IInv, SnapshotFresh, At, Holding
  <2>3. ReceiptsAgree'
    BY <2>1, <2>2 DEF SerialInv, ReceiptsAgree, Prefix
  <2> QED
    BY <1>8, <1>t, <2>3, LetsGo DEF PastEnd, At, SerialInv
<1>9. ASSUME NEW d \in Drivers, Upsert(d) PROVE SerialInv'
  <2>1. /\ drv'[d].pc = "handler" /\ drv'[d].at = drv[d].at
        /\ \A e \in Drivers \ {d} : drv'[e] = drv[e]
    BY <1>9, <1>t DEF Upsert, Goto, TypeOK, DriverType, DriverStates
  <2>2. drv[d].at = job.index /\ ~ Terminal(job.status) /\ job' = job
    BY <1>9, <1>t DEF Upsert, row, SnapshotFresh, At, Holding
  <2>3. ReceiptsAgree'
    BY <1>9, <1>t, <2>2, AtRange
       DEF Upsert, SerialInv, ReceiptsAgree, Prefix, Terminal, TypeOK, ReceiptType, Steps
  <2> QED
    BY <1>9, <1>t, <2>1, <2>2, <2>3, KeepsOn DEF Upsert, At, Holding, SerialInv
<1>10. ASSUME NEW d \in Drivers, Succeed(d) \/ Fail(d) \/ InProgress(d) PROVE SerialInv'
  <2>1. /\ drv'[d].pc \in {"receipt", "park"} /\ drv'[d].at = drv[d].at
        /\ \A e \in Drivers \ {d} : drv'[e] = drv[e]
    BY <1>10, <1>t DEF Succeed, Fail, InProgress, Goto, TypeOK, DriverType, DriverStates
  <2>2. job' = job /\ receipts' = receipts /\ At(d, "handler")
    BY <1>10 DEF Succeed, Fail, InProgress, row
  <2> QED
    BY <1>t, <1>a, <2>1, <2>2, KeepsOn DEF At, Holding, SerialInv
<1>11. ASSUME NEW d \in Drivers, Park(d) PROVE SerialInv'
  <2>1. job'.status = "running" /\ job'.index = job.index /\ receipts' = receipts
    BY <1>11, <1>t, RowIs DEF Park, SnapshotFresh, At, Holding
  <2>2. ReceiptsAgree'
    BY <2>1 DEF SerialInv, ReceiptsAgree, Prefix
  <2>3. Exit(d) \/ \E role \in Roles : Enter(d, role, "loop")
    BY <1>11, <1>t DEF Park, NextRound, TypeOK, DriverType, DriverStates
  <2> QED
    BY <1>11, <1>t, <2>2, <2>3, LetsGo DEF Park, At, SerialInv
<1>12. ASSUME NEW d \in Drivers, Receipt(d) PROVE SerialInv'
  <2>1. /\ drv'[d].pc = "pointer" /\ drv'[d].at = drv[d].at /\ drv'[d].result = drv[d].result
        /\ \A e \in Drivers \ {d} : drv'[e] = drv[e]
    BY <1>12, <1>t DEF Receipt, Goto, TypeOK, DriverType, DriverStates
  <2>2. /\ drv[d].at = job.index /\ ~ Terminal(job.status) /\ job' = job
        /\ drv[d].at \in Steps
    BY <1>12, <1>t, AtRange
       DEF Receipt, row, SnapshotFresh, At, Holding, LocalsType, OnStep
  <2>3. receipts' = [receipts EXCEPT ![drv[d].at] = drv[d].result]
    BY <1>12 DEF Receipt
  <2>4. ReceiptsAgree'
    BY <1>t, <2>2, <2>3, AtRange
       DEF SerialInv, ReceiptsAgree, Prefix, Terminal, TypeOK, ReceiptType, Steps
  <2>5. receipts'[drv[d].at] = drv[d].result
    BY <1>t, <2>2, <2>3 DEF TypeOK, ReceiptType
  <2>6. \A e \in Drivers : SnapshotFresh(e)'
    BY <1>12, <2>1, <2>2, <2>5, OthersFresh DEF Receipt, SnapshotFresh, At, Holding
  <2> QED
    BY <2>4, <2>6 DEF SerialInv
<1>13. ASSUME NEW d \in Drivers, PointerFailed(d) PROVE SerialInv'
  <2>1. job'.status = "failed" /\ job'.index = drv[d].at /\ receipts' = receipts
    BY <1>13, <1>t, RowIs DEF PointerFailed
  <2>2. drv[d].at = job.index /\ receipts[drv[d].at] = "failed"
    BY <1>13, <1>t DEF PointerFailed, SnapshotFresh, At, Holding
  <2>3. ReceiptsAgree'
    BY <2>1, <2>2 DEF SerialInv, ReceiptsAgree, Prefix
  <2> QED
    BY <1>13, <1>t, <2>3, LetsGo DEF PointerFailed, At, SerialInv
<1>14. ASSUME NEW d \in Drivers, PointerForward(d) \/ PointerCompleted(d) PROVE SerialInv'
  <2>1. /\ job'.status \in {"running", "completed"} /\ job'.index = drv[d].at + 1
        /\ receipts' = receipts
    BY <1>14, <1>t, RowIs, ParametersAssumption DEF PointerForward, PointerCompleted, LastStep
  <2>2. drv[d].at = job.index /\ receipts[drv[d].at] = "completed"
    BY <1>14, <1>t DEF PointerForward, PointerCompleted, SnapshotFresh, At, Holding
  <2>3. ReceiptsAgree'
    BY <1>t, <2>1, <2>2, AtRange DEF SerialInv, ReceiptsAgree, Prefix
  <2>4. \/ Exit(d) \/ \E role \in Roles : Enter(d, role, "loop")
        \/ Goto(d, "stamp")
    BY <1>14, <1>t
       DEF PointerForward, PointerCompleted, NextRound, TypeOK, DriverType, DriverStates
  <2> QED
    BY <1>14, <1>t, <2>3, <2>4, LetsGo DEF PointerForward, PointerCompleted, At, SerialInv
<1>15. ASSUME NEW d \in Drivers, Stamp(d) PROVE SerialInv'
  BY <1>15, <1>t, <1>a, LetsGo DEF Stamp, SerialInv, row
<1> QED
  BY <1>1, <1>2, <1>3, <1>4, <1>5, <1>6, <1>7, <1>8, <1>9, <1>10, <1>11, <1>12,
     <1>13, <1>14, <1>15, NextCases

(* What each write of the one driver does to the row: the pointer stays or *)
(* moves on, and a completed job is not written any more.                  *)
LEMMA SerialWrites ==
  ASSUME Serial, IInv, SerialInv, [Next]_vars
  PROVE  /\ job'.index >= job.index
         /\ job.status = "completed" => job'.status = "completed"
<1>t. TypeOK /\ \A d \in Drivers : SnapshotFresh(d)
  BY DEF IInv, SerialInv
<1>i. job.index \in 0 .. TotalSteps
  BY <1>t DEF TypeOK, JobType, JobRows
<1>1. CASE UNCHANGED job
  BY <1>1, <1>i
<1>2. ASSUME NEW d \in Drivers, Reset(d)
      PROVE  job'.index = job.index /\ job.status = "failed"
  BY <1>2, <1>t, RowIs DEF Reset, SnapshotFresh, At
<1>3. ASSUME NEW d \in Drivers, Resync(d)
      PROVE  job'.index = job.index /\ job'.status = job.status
  BY <1>3, <1>t DEF Resync, TypeOK, JobType, JobRows
<1>4. ASSUME NEW d \in Drivers,
             \/ PastEnd(d) \/ Park(d) \/ PointerFailed(d)
             \/ PointerForward(d) \/ PointerCompleted(d)
      PROVE  job'.index >= job.index /\ job.status # "completed"
  <2>1. drv[d].at = job.index /\ ~ Terminal(job.status)
    BY <1>4, <1>t DEF PastEnd, Park, PointerFailed, PointerForward, PointerCompleted,
                      SnapshotFresh, At, Holding
  <2>2. job'.index \in {drv[d].at, drv[d].at + 1, TotalSteps}
    BY <1>4, <1>t, RowIs
       DEF PastEnd, Park, PointerFailed, PointerForward, PointerCompleted
  <2> QED
    BY <1>i, <2>1, <2>2, ParametersAssumption DEF Terminal
<1>5. ASSUME NEW d \in Drivers,
             \/ CronTick(d) \/ PostNext(d) \/ PostResume(d) \/ Crash(d) \/ Inspect(d)
             \/ Read(d) \/ Upsert(d) \/ Succeed(d) \/ Fail(d) \/ InProgress(d)
             \/ Receipt(d) \/ Stamp(d)
      PROVE  UNCHANGED job
  BY <1>5 DEF CronTick, PostNext, PostResume, Crash, Inspect, Read, Upsert, Succeed, Fail,
              InProgress, Receipt, Stamp, row
<1>6. CASE UNCHANGED vars \/ Minute
  BY <1>1, <1>6 DEF vars, row, Minute
<1> QED
  BY <1>1, <1>2, <1>3, <1>4, <1>5, <1>6, <1>i, NextCases

LEMMA SerialInvariant == Spec /\ []Serial => []SerialInv
<1>1. Serial /\ IInv /\ SerialInv /\ [Next]_vars => SerialInv'
  BY SerialStep
<1> QED
  BY <1>1, SerialInit, Invariant, PTL DEF Spec

(* SerialReceipts: when drives do not overlap, every step behind the       *)
(* pointer has a completed receipt and a failed job points at a failed     *)
(* one, wherever a drive was evicted.                                      *)
THEOREM ReceiptsAgreeSerially == Spec => SerialReceipts
<1>1. SerialInv => ReceiptsAgree
  BY DEF SerialInv
<1> QED
  BY <1>1, SerialInvariant, PTL DEF SerialReceipts

(* PointerNeverBack: nor does the pointer then ever go back, in a resume   *)
(* either (resumeProvisioning keeps the index).                            *)
THEOREM PointerKeptSerially == Spec /\ []Serial => PointerNeverBack
<1>1. Serial /\ IInv /\ SerialInv /\ [Next]_vars => [job'.index >= job.index]_vars
  BY SerialWrites
<1> QED
  BY <1>1, SerialInvariant, Invariant, PTL DEF Spec, PointerNeverBack

(* CompletedIsFinal: nor is a completed job ever written again; a resume   *)
(* of it is refused (resumeProvisioning).                                  *)
THEOREM CompletedIsFinalSerially == Spec /\ []Serial => CompletedIsFinal
<1>1. Serial /\ IInv /\ SerialInv /\ [Next]_vars =>
        [job.status = "completed" => job'.status = "completed"]_vars
  BY SerialWrites
<1> QED
  BY <1>1, SerialInvariant, Invariant, PTL DEF Spec, CompletedIsFinal

-----------------------------------------------------------------------------
(* Refinement                                                              *)

(* A new job maps to an empty build.                                       *)
LEMMA BuildInit == Init => Build!Init
BY DEF Init, Build!Init

(* Every step maps to a stutter, except the first success of a step,       *)
(* which is Build!Finish.                                                  *)
LEMMA BuildStep ==
  ASSUME IInv, [Next]_vars
  PROVE  [Build!Next]_(Build!vars)
<1> DEFINE Stutter == finished' = finished /\ site'.status = site.status
<1>1. Stutter => [Build!Next]_(Build!vars)
  BY DEF Build!vars
<1>2. CASE UNCHANGED vars \/ Minute
  BY <1>1, <1>2 DEF vars, Minute
<1>3. ASSUME NEW d \in Drivers, Succeed(d) PROVE [Build!Next]_(Build!vars)
  <2> DEFINE k == drv[d].at
  <2>1. /\ k \in Steps
        /\ Prefix(k) \subseteq finished
        /\ finished' = finished \cup {k}
        /\ site'.status = IF k = LastStep THEN "active" ELSE site.status
    BY <1>3, AtRange
       DEF Succeed, At, OnStep, Holding, LocalsType, IInv, LocalInv, TypeOK,
           SiteType
  <2>2. CASE k \in finished
    BY <1>1, <2>1, <2>2 DEF IInv, LastIsLaunch
  <2>3. CASE k \notin finished
    <3>1. LastStep \notin finished
      <4>1. LastStep \in finished => Prefix(LastStep) \cup {LastStep} \subseteq finished
        BY DEF IInv, InOrder
      <4>2. k \in Prefix(LastStep) \cup {LastStep}
        BY <2>1, ParametersAssumption DEF Steps, Prefix, LastStep
      <4> QED
        BY <2>3, <4>1, <4>2
    <3>2. (site'.status = "active") <=> (k = LastStep)
      BY <2>1, <3>1 DEF IInv, LastIsLaunch
    <3>3. Build!Finish(k)
      BY <2>1, <2>3, <3>2 DEF Build!Finish, Build!LastStep, LastStep, Prefix
    <3> QED
      BY <2>1, <3>3 DEF Build!Next, Build!Steps, Steps
  <2> QED
    BY <2>2, <2>3
<1>4. ASSUME NEW d \in Drivers, Stamp(d) PROVE Stutter
  BY <1>4 DEF Stamp, IInv, TypeOK, SiteType
<1>5. ASSUME NEW d \in Drivers,
             \/ CronTick(d) \/ PostNext(d) \/ PostResume(d) \/ Crash(d)
             \/ Inspect(d) \/ Reset(d) \/ Read(d) \/ Resync(d) \/ PastEnd(d)
             \/ Upsert(d) \/ Fail(d) \/ InProgress(d) \/ Park(d) \/ Receipt(d)
             \/ PointerFailed(d) \/ PointerForward(d) \/ PointerCompleted(d)
      PROVE  Stutter
  BY <1>5 DEF CronTick, PostNext, PostResume, Crash, Inspect, Reset, Read, Resync,
              PastEnd, Upsert, Fail, InProgress, Park, Receipt, PointerFailed,
              PointerForward, PointerCompleted
<1> QED
  BY <1>1, <1>2, <1>3, <1>4, <1>5, NextCases

(* BuildSpec: with any number of concurrent, evicted and failing drivers   *)
(* the runner implements SiteBuild.                                        *)
THEOREM RunnerImplementsBuild == Spec => BuildSpec
<1>1. IInv /\ [Next]_vars => [Build!Next]_(Build!vars)
  BY BuildStep
<1> QED
  BY <1>1, BuildInit, Invariant, PTL DEF Spec, BuildSpec, Build!Spec

=============================================================================
