-------------------------- MODULE SummaryTaskProofs --------------------------
(***************************************************************************)
(* Proofs about SummaryTask, for any number of goroutines, any retry       *)
(* budget, every trigger type, every fault and every number of rounds.     *)
(***************************************************************************)
EXTENDS SummaryTask, FiniteSetTheorems, TLAPS

USE ConstantsAssumption DEF ConstantsAssumption, TaskStatus, PartStatus, WorkerStatus, Timestamp

LEMMA NoRunType == NoRun \in RunRow
BY DEF NoRun, RunRow

LEMMA NoJobType == NoJob \in JobRow
BY DEF NoJob, JobRow

\* Each way a goroutine moves keeps the rows of goroutines typed.
LEMMA GotoType ==
  ASSUME run \in [Run -> RunRow], NEW r \in Run,
         NEW s \in {"casTask", "reread", "refresh", "work", "recheck", "persist", "done",
                    "complete", "handOver", "fail"},
         Goto(r, s) \/ Work(r) \/ End(r)
  PROVE  run' \in [Run -> RunRow]
<1>1. CASE Goto(r, s)
  BY <1>1 DEF Goto, RunRow
<1>2. CASE Work(r)
  <2>1. PICK x \in RunRow : x = [[run[r] EXCEPT !.pc = "work"] EXCEPT !.heart = "on"]
    BY DEF RunRow
  <2>2. run' = [run EXCEPT ![r] = x]
    BY <1>2, <2>1, Zenon DEF Work
  <2> QED
    BY <2>1, <2>2
<1>3. CASE End(r)
  BY <1>3, NoRunType DEF End
<1> QED
  BY <1>1, <1>2, <1>3

LEMMA GotoJobType ==
  ASSUME job \in [Job -> JobRow], NEW j \in Job,
         NEW s \in {"refreshSingle", "accept", "dispatch", "refresh"},
         GotoJob(j, s) \/ EndJob(j)
  PROVE  job' \in [Job -> JobRow]
<1>1. CASE GotoJob(j, s)
  BY <1>1 DEF GotoJob, JobRow
<1>2. CASE EndJob(j)
  BY <1>2, NoJobType DEF EndJob
<1> QED
  BY <1>1, <1>2

\* The initial rows are typed, have their tries and show no text.
LEMMA InitInv == Init => IInv
<1> SUFFICES ASSUME Init PROVE IInv
  OBVIOUS
<1>1. TypeOK
  <2>1. run \in [Run -> RunRow]
    BY NoRunType, Zenon DEF Init
  <2>2. job \in [Job -> JobRow]
    BY NoJobType, Zenon DEF Init
  <2>3. PICK k \in Kind :
          /\ creator = (k # "invited")
          /\ others = (IF k = "single" THEN 0 ELSE 1)
          /\ part = (IF k = "invited" THEN "Pending" ELSE "Accepted")
          /\ worker = (IF k = "invited" THEN "None" ELSE "Pending")
          /\ triggers = (IF k = "invited" \/ trigger = "scheduled" THEN {}
                         ELSE {"personal_summary"})
    BY DEF Init
  <2>4. /\ others \in {0, 1} /\ part \in PartStatus /\ worker \in WorkerStatus
        /\ triggers \subseteq {"personal_summary", "personal_regenerate"}
    BY <2>3
  <2>5. creator \in BOOLEAN /\ (~creator => others = 1)
    BY <2>3
  <2>6. /\ status \in TaskStatus /\ tries \in 0 .. MaxRetry /\ deadline \in Timestamp
        /\ trigger \in TriggerType /\ retry \in 0 .. MaxRetry
        /\ scan \in {"idle", "found", "reset"}
        /\ round \in 0 .. MaxRound /\ faults \in 0 .. MaxFaults
    BY DEF Init
  <2>7. /\ lapsed \in BOOLEAN /\ text \in BOOLEAN /\ version \in BOOLEAN
        /\ submitted \in BOOLEAN
    BY Zenon DEF Init
  <2> QED
    BY <2>1, <2>2, <2>4, <2>5, <2>6, <2>7 DEF TypeOK
<1>2. RetryBudget
  BY DEF Init, RetryBudget, NoJob
<1>3. TextNeverVanishes
  BY DEF Init, TextNeverVanishes
<1> QED
  BY <1>1, <1>2, <1>3 DEF IInv

\* A step of a personal run writes values of the right type and nothing of the
\* bookkeeping of jobs.
LEMMA RunStepInv ==
  ASSUME IInv, NEW r \in Run, RunStep(r) \/ HeartFenced(r) \/ HeartCeiling(r)
  PROVE  IInv'
<1> USE DEF IInv, TypeOK, RetryBudget, TextNeverVanishes, taskVars, fixedVars, partVars,
            textVars, resultVars, histVars, Hit, Suffer, Trigger, Ended
<1>1. CASE MarkProcessing(r)
  <2>1. lapsed' \in BOOLEAN
    BY <1>1, Zenon DEF MarkProcessing
  <2> QED
    BY <1>1, <2>1, GotoType DEF MarkProcessing
<1>2. CASE CasTask(r)
  BY <1>2, GotoType DEF CasTask
<1>3. CASE Reread(r)
  BY <1>3, GotoType DEF Reread
<1>4. CASE RefreshLease(r)
  BY <1>4, GotoType DEF RefreshLease
<1>5. CASE Generate(r)
  BY <1>5, GotoType DEF Generate
<1>6. CASE Recheck(r)
  BY <1>6, NoRunType DEF Recheck, RunRow, End
<1>7. CASE Persist(r)
  <2>1. text' \in BOOLEAN /\ version' \in BOOLEAN
    BY <1>7, Zenon DEF Persist
  <2>2. run' \in [Run -> RunRow]
    BY <1>7, GotoType DEF Persist
  <2>3. worker' \in WorkerStatus /\ faults' \in 0 .. MaxFaults
    BY <1>7 DEF Persist
  <2>4. TextNeverVanishes'
    BY <1>7, Zenon DEF Persist
  <2> QED
    BY <1>7, <2>1, <2>2, <2>3, <2>4 DEF Persist
<1>8. CASE MarkDone(r)
  <2>1. lapsed' \in BOOLEAN
    BY <1>8, Zenon DEF MarkDone
  <2>2. run' \in [Run -> RunRow]
    BY <1>8, GotoType DEF MarkDone
  <2> QED
    BY <1>8, <2>1, <2>2 DEF MarkDone
<1>9. CASE CompleteTask(r)
  BY <1>9, GotoType DEF CompleteTask, MarkTaskCompleted
<1>10. CASE HandOver(r)
  <2>1. submitted' \in BOOLEAN
    BY <1>10, Zenon DEF HandOver
  <2>2. run' \in [Run -> RunRow]
    BY <1>10, GotoType DEF HandOver
  <2> QED
    BY <1>10, <2>1, <2>2 DEF HandOver
<1>11. CASE MarkPersonalFailed(r)
  <2>1. lapsed' \in BOOLEAN
    BY <1>11, Zenon DEF MarkPersonalFailed
  <2>5. /\ text' \in BOOLEAN
        /\ \/ worker' = "Pending"
           \/ text' = (text \/ version) /\ version' = version
           \/ UNCHANGED <<worker, text, version>>
    BY <1>11, Zenon DEF MarkPersonalFailed, RestoreLatest
  <2>6. TextNeverVanishes'
    <3>1. CASE worker' = "Pending"
      BY <3>1
    <3>2. CASE text' = (text \/ version) /\ version' = version
      BY <3>2, Zenon
    <3>3. CASE UNCHANGED <<worker, text, version>>
      BY <3>3
    <3> QED
      BY <2>5, <3>1, <3>2, <3>3
  <2>2. run' \in [Run -> RunRow]
    BY <1>11, GotoType DEF MarkPersonalFailed
  <2>3. status' \in TaskStatus /\ deadline' \in Timestamp /\ part' \in PartStatus
    BY <1>11 DEF MarkPersonalFailed
  <2>7. worker' \in WorkerStatus /\ retry' \in 0 .. MaxRetry
    BY <1>11 DEF MarkPersonalFailed
  <2>8. triggers' \subseteq {"personal_summary", "personal_regenerate"}
    BY <1>11 DEF MarkPersonalFailed
  <2>4. RetryBudget'
    <3>1. status' \in {status, "Failed"} /\ tries' = tries /\ job' = job
      BY <1>11 DEF MarkPersonalFailed
    <3> QED
      BY <3>1
  <2> QED
    BY <1>11, <2>1, <2>2, <2>3, <2>4, <2>5, <2>6, <2>7, <2>8 DEF MarkPersonalFailed
<1>12. CASE HeartFenced(r)
  BY <1>12 DEF HeartFenced, RunRow
<1>13. CASE HeartCeiling(r)
  BY <1>13 DEF HeartCeiling, RunRow
<1> QED
  BY <1>1, <1>2, <1>3, <1>4, <1>5, <1>6, <1>7, <1>8, <1>9, <1>10, <1>11, <1>12, <1>13
     DEF RunStep

\* A trigger that is taken claims the result or changes nothing else.
LEMMA StartInv ==
  ASSUME IInv, NEW r \in Run, NEW t \in {"personal_summary", "personal_regenerate"},
         Start(r, t)
  PROVE  IInv'
<1> USE DEF IInv, TypeOK
<1>1. UNCHANGED <<taskVars, fixedVars, others, partVars, retry, textVars, job, scan,
                  histVars>>
  BY DEF Start
<1>2. worker' \in {worker, "Processing"} /\ triggers' \subseteq triggers
  BY DEF Start, ClaimResult
<1>3. run' \in [Run -> RunRow]
  <2>1. [NoRun EXCEPT !.pc = "mark", !.allow = (t = "personal_regenerate")] \in RunRow
    BY DEF NoRun, RunRow
  <2> QED
    BY <2>1 DEF Start
<1> QED
  BY <1>1, <1>2, <1>3 DEF RetryBudget, TextNeverVanishes, taskVars, fixedVars, partVars,
     textVars, histVars

\* A job takes a task with tries left, and fails it with one try more.
LEMMA JobInv ==
  ASSUME IInv, NEW j \in Job, PollClaim(j) \/ JobStep(j)
  PROVE  IInv'
<1> USE DEF IInv, TypeOK, taskVars, fixedVars, partVars, textVars, resultVars, histVars,
            Hit, Suffer, Trigger
<1>1. CASE PollClaim(j)
  <2>1. [pc |-> "pipeline", tries |-> tries] \in JobRow
    BY DEF JobRow
  <2> QED
    BY <1>1, <2>1 DEF PollClaim, RetryBudget, TextNeverVanishes
<1>2. CASE Pipeline(j)
  <2>1. job' \in [Job -> JobRow]
    BY <1>2, GotoJobType DEF Pipeline, ExecutePipeline
  <2>2. \A i \in Job : job'[i].pc = "pipeline" => job'[i] = job[i]
    BY <1>2 DEF Pipeline, ExecutePipeline, GotoJob, EndJob, NoJob, JobRow
  <2>3. job[j].tries + 1 \in 0 .. MaxRetry
    BY <1>2 DEF Pipeline, ExecutePipeline, RetryBudget, JobRow
  <2>4. /\ status' \in TaskStatus /\ tries' \in 0 .. MaxRetry /\ deadline' \in Timestamp
        /\ status' \in {"Pending", "Processing", "Completed"} => tries' < MaxRetry
        /\ faults' \in 0 .. MaxFaults
    BY <1>2, <2>3 DEF Pipeline, ExecutePipeline, RetryOrFail, RetryBudget
  <2> QED
    BY <1>2, <2>1, <2>2, <2>4 DEF Pipeline, ExecutePipeline, RetryBudget, TextNeverVanishes
<1>3. CASE RefreshSingle(j)
  BY <1>3, GotoJobType DEF RefreshSingle, RetryBudget, TextNeverVanishes, GotoJob, EndJob,
     NoJob, JobRow
<1>4. CASE AcceptAndDispatch(j)
  <2>1. lapsed' \in BOOLEAN
    BY <1>4, Zenon DEF AcceptAndDispatch
  <2>2. job' \in [Job -> JobRow]
    BY <1>4, GotoJobType DEF AcceptAndDispatch
  <2>3. \A i \in Job : job'[i].pc = "pipeline" => job'[i] = job[i]
    BY <1>4 DEF AcceptAndDispatch, GotoJob, EndJob, NoJob, JobRow
  <2> QED
    BY <1>4, <2>1, <2>2, <2>3 DEF AcceptAndDispatch, RetryBudget, TextNeverVanishes
<1>5. CASE DispatchTargets(j)
  BY <1>5, GotoJobType DEF DispatchTargets, RetryBudget, TextNeverVanishes, GotoJob, JobRow
<1>6. CASE RefreshDeadline(j)
  BY <1>6, GotoJobType DEF RefreshDeadline, RetryBudget, TextNeverVanishes, EndJob, NoJob,
     JobRow
<1> QED
  BY <1>1, <1>2, <1>3, <1>4, <1>5, <1>6 DEF JobStep

\* The cron scans and the passing of time.
LEMMA ScanInv ==
  ASSUME IInv,
         LeaseLapses \/ DeadlineLapses \/ ScanStuckTasks \/ ScanStep \/ ScanConfirmTimeouts
  PROVE  IInv'
<1> USE DEF IInv, TypeOK, RetryBudget, TextNeverVanishes, taskVars, fixedVars, partVars,
            textVars, resultVars, procVars, histVars, Trigger
<1>1. CASE LeaseLapses
  <2>1. lapsed' \in BOOLEAN
    BY <1>1, Zenon DEF LeaseLapses
  <2> QED
    BY <1>1, <2>1 DEF LeaseLapses
<1>2. CASE DeadlineLapses
  BY <1>2 DEF DeadlineLapses
<1>3. CASE ScanStuckTasks
  BY <1>3 DEF ScanStuckTasks, CountTakeover
<1>4. CASE ScanFinds
  BY <1>4 DEF ScanFinds
<1>5. CASE ScanResetsResult
  BY <1>5 DEF ScanResetsResult
<1>6. CASE ScanResetsParticipant
  <2>1. lapsed' \in BOOLEAN
    BY <1>6, Zenon DEF ScanResetsParticipant
  <2> QED
    BY <1>6, <2>1 DEF ScanResetsParticipant
<1>7. CASE ScanAccepted
  BY <1>7 DEF ScanAccepted
<1>8. CASE ScanConfirmTimeouts
  BY <1>8 DEF ScanConfirmTimeouts
<1> QED
  BY <1>1, <1>2, <1>3, <1>4, <1>5, <1>6, <1>7, <1>8 DEF ScanStep

\* A regeneration counts a round and, when something is in flight, a fault.
LEMMA NewRoundType ==
  ASSUME TypeOK, NewRound
  PROVE  round' \in 0 .. MaxRound /\ faults' \in 0 .. MaxFaults
BY DEF TypeOK, NewRound, Suffer

LEMMA RearmInv ==
  ASSUME TypeOK, NEW t \in {"personal_summary", "personal_regenerate"}, Rearm(t)
  PROVE  /\ part' \in PartStatus /\ lapsed' \in BOOLEAN
         /\ worker' \in WorkerStatus /\ retry' \in 0 .. MaxRetry
         /\ text' \in BOOLEAN /\ version' \in BOOLEAN /\ submitted' \in BOOLEAN
         /\ triggers' \subseteq {"personal_summary", "personal_regenerate"}
         /\ TextNeverVanishes'
<1>1. part' \in PartStatus /\ worker' = "Pending" /\ retry' = 0
  BY DEF Rearm
<1>2. lapsed' \in BOOLEAN /\ text' \in BOOLEAN /\ version' \in BOOLEAN /\ submitted' \in BOOLEAN
  BY Zenon DEF Rearm, Baseline
<1>3. triggers' \subseteq {"personal_summary", "personal_regenerate"}
  BY DEF Rearm, Trigger, TypeOK
<1> QED
  BY <1>1, <1>2, <1>3 DEF TextNeverVanishes

\* What the member does, and the whole task's regeneration.
LEMMA MemberInv ==
  ASSUME IInv, MemberStep \/ Regenerate
  PROVE  IInv'
<1> USE DEF IInv, TypeOK, RetryBudget, TextNeverVanishes, taskVars, fixedVars, partVars,
            textVars, resultVars, procVars, histVars, Trigger, Revive
<1>1. CASE Accept
  BY <1>1 DEF Accept
<1>2. CASE Decline
  BY <1>2 DEF Decline
<1>3. CASE Leave
  <2>1. /\ lapsed' \in BOOLEAN /\ text' \in BOOLEAN /\ version' \in BOOLEAN
        /\ submitted' \in BOOLEAN
    BY <1>3, Zenon DEF Leave
  <2> QED
    BY <1>3, <2>1 DEF Leave
<1>4. CASE Submit
  <2>1. lapsed' \in BOOLEAN /\ submitted' \in BOOLEAN
    BY <1>4, Zenon DEF Submit
  <2> QED
    BY <1>4, <2>1 DEF Submit
<1>5. CASE RegeneratePersonal
  BY <1>5, NewRoundType, RearmInv DEF RegeneratePersonal
<1>6. CASE Regenerate
  <2>1. CASE Rearm("personal_summary")
    BY <1>6, <2>1, NewRoundType, RearmInv DEF Regenerate
  <2>2. CASE UNCHANGED <<partVars, resultVars, triggers>>
    BY <1>6, <2>2, NewRoundType DEF Regenerate
  <2> QED
    BY <1>6, <2>1, <2>2 DEF Regenerate
<1> QED
  BY <1>1, <1>2, <1>3, <1>4, <1>5, <1>6 DEF MemberStep

\* Cancellation, the other members and the faults that are not part of a step.
LEMMA OthersInv ==
  ASSUME IInv,
         CancelSummary \/ OthersChange \/ OthersStart \/ TeamSummary \/ LoseTrigger \/ Crash
  PROVE  IInv'
<1> USE DEF IInv, TypeOK, RetryBudget, TextNeverVanishes, taskVars, fixedVars, partVars,
            textVars, resultVars, procVars, histVars, Revive, Hit, Suffer, Stopped
<1>1. CASE CancelSummary
  BY <1>1 DEF CancelSummary
<1>2. CASE OthersChange
  BY <1>2 DEF OthersChange
<1>3. CASE OthersStart
  BY <1>3 DEF OthersStart
<1>4. CASE TeamSummary
  BY <1>4 DEF TeamSummary
<1>5. CASE LoseTrigger
  BY <1>5 DEF LoseTrigger
<1>6. CASE Crash
  BY <1>6, NoRunType, NoJobType DEF Crash, NoJob
<1> QED
  BY <1>1, <1>2, <1>3, <1>4, <1>5, <1>6

LEMMA NextInv == IInv /\ [Next]_vars => IInv'
<1> SUFFICES ASSUME IInv, [Next]_vars PROVE IInv'
  OBVIOUS
<1>1. CASE UNCHANGED vars
  BY <1>1 DEF IInv, TypeOK, RetryBudget, TextNeverVanishes, vars, taskVars, fixedVars,
     partVars, textVars, resultVars, procVars, histVars
<1> QED
  BY <1>1, StartInv, RunStepInv, JobInv, ScanInv, MemberInv, OthersInv DEF Next

THEOREM Invariance == Spec => []IInv
<1> QED
  BY InitInv, NextInv, PTL DEF Spec

\* Every variable keeps its type, the bookkeeping of goroutines included.
THEOREM TypeCorrect == Spec => []TypeOK
<1>1. IInv => TypeOK
  BY DEF IInv
<1> QED
  BY <1>1, Invariance, PTL

\* A text that was committed is never lost for a member at rest, in every round and
\* for both trigger types.
THEOREM TextKept == Spec => []TextNeverVanishes
<1>1. IInv => TextNeverVanishes
  BY DEF IInv
<1> QED
  BY <1>1, Invariance, PTL

\* No pending task is out of poll's reach, for any retry budget and any number of
\* jobs that fail long after they took the task.
THEOREM PendingPolled == Spec => []PendingIsPolled
<1>1. IInv => PendingIsPolled
  BY DEF IInv, RetryBudget, PendingIsPolled
<1> QED
  BY <1>1, Invariance, PTL

\* A stopped task stays stopped until it is regenerated, whatever stale runs do.
THEOREM StoppedFinal == Spec => StoppedIsFinal
<1>1. [Next]_vars => [(status \in Stopped /\ status' # status) =>
                       status' = "Pending" /\ round' = round + 1]_vars
  <2> SUFFICES ASSUME Next, status \in Stopped, status' # status
               PROVE  Regenerate
    BY DEF vars, histVars, Regenerate, NewRound
  <2> USE DEF Stopped, taskVars
  <2>1. ASSUME NEW r \in Run, RunStep(r) \/ HeartFenced(r) \/ HeartCeiling(r) PROVE FALSE
    BY <2>1 DEF RunStep, HeartFenced, HeartCeiling, MarkProcessing, CasTask, Reread,
       RefreshLease, Generate, Recheck, Persist, MarkDone, CompleteTask, HandOver,
       MarkPersonalFailed, MarkTaskCompleted
  <2>2. ASSUME NEW j \in Job, PollClaim(j) \/ JobStep(j) PROVE FALSE
    BY <2>2 DEF JobStep, PollClaim, Pipeline, ExecutePipeline, RefreshSingle, AcceptAndDispatch,
       DispatchTargets, RefreshDeadline
  <2>3. ASSUME NEW r \in Run, NEW t \in {"personal_summary", "personal_regenerate"},
               Start(r, t)
        PROVE FALSE
    BY <2>3 DEF Start
  <2>4. CASE LeaseLapses \/ DeadlineLapses \/ ScanStuckTasks \/ ScanStep \/ ScanConfirmTimeouts
    BY <2>4 DEF LeaseLapses, DeadlineLapses, ScanStuckTasks, ScanStep, ScanFinds,
       ScanResetsResult, ScanResetsParticipant, ScanAccepted, ScanConfirmTimeouts
  <2>5. CASE MemberStep
    BY <2>5 DEF MemberStep, Accept, Decline, Leave, Submit, RegeneratePersonal, Revive
  <2>6. CASE CancelSummary \/ OthersChange \/ OthersStart \/ TeamSummary \/ LoseTrigger \/ Crash
    BY <2>6 DEF CancelSummary, OthersChange, OthersStart, TeamSummary, LoseTrigger, Crash, Revive
  <2> QED
    BY <2>1, <2>2, <2>3, <2>4, <2>5, <2>6 DEF Next
<1> QED
  BY <1>1, PTL DEF Spec, StoppedIsFinal

-----------------------------------------------------------------------------
(* The refinement of TaskRound: which edge of a task's life each writer of *)
(* the status takes.                                                       *)

\* A run claims a Pending task, completes or fails a Processing one, or leaves it.
LEMMA RunSimulates ==
  ASSUME IInv, NEW r \in Run, RunStep(r)
  PROVE  Round!Next \/ UNCHANGED <<status, tries>>
<1> USE DEF Round!Next, taskVars
<1>1. CASE CasTask(r)
  BY <1>1 DEF CasTask, Round!Take
<1>2. CASE CompleteTask(r)
  BY <1>2 DEF CompleteTask, MarkTaskCompleted, Round!Complete
<1>3. CASE MarkPersonalFailed(r)
  BY <1>3 DEF MarkPersonalFailed, Round!Fail
<1>4. CASE \/ MarkProcessing(r) \/ Reread(r) \/ RefreshLease(r) \/ Generate(r) \/ Recheck(r)
           \/ Persist(r) \/ MarkDone(r) \/ HandOver(r)
  BY <1>4 DEF MarkProcessing, Reread, RefreshLease, Generate, Recheck, Persist, MarkDone,
     HandOver
<1> QED
  BY <1>1, <1>2, <1>3, <1>4 DEF RunStep

\* A job takes a Pending task with tries left; its failure counts one more than it
\* loaded, however long ago that was.
LEMMA JobSimulates ==
  ASSUME IInv, NEW j \in Job, PollClaim(j) \/ JobStep(j)
  PROVE  Round!Next \/ UNCHANGED <<status, tries>>
<1> USE DEF Round!Next, taskVars
<1>1. CASE PollClaim(j)
  BY <1>1 DEF PollClaim, Round!Take
<1>2. CASE Pipeline(j)
  <2>1. job[j].tries \in 0 .. MaxRetry /\ job[j].tries < MaxRetry
    BY <1>2 DEF Pipeline, IInv, RetryBudget, TypeOK, JobRow
  <2>2. CASE status = "Processing" /\ RetryOrFail(job[j].tries + 1)
    BY <2>1, <2>2 DEF RetryOrFail, Round!PutBack, Round!Fail
  <2> QED
    BY <1>2, <2>2 DEF Pipeline
<1>3. CASE RefreshSingle(j) \/ AcceptAndDispatch(j) \/ DispatchTargets(j) \/ RefreshDeadline(j)
  BY <1>3 DEF RefreshSingle, AcceptAndDispatch, DispatchTargets, RefreshDeadline
<1> QED
  BY <1>1, <1>2, <1>3 DEF JobStep

\* The stuck scan counts every round it puts back.
LEMMA ScanSimulates ==
  ASSUME IInv,
         LeaseLapses \/ DeadlineLapses \/ ScanStuckTasks \/ ScanStep \/ ScanConfirmTimeouts
  PROVE  Round!Next \/ UNCHANGED <<status, tries>>
<1> USE DEF Round!Next, taskVars
<1>1. CASE ScanStuckTasks
  <2>1. tries \in 0 .. MaxRetry /\ tries < MaxRetry /\ status = "Processing" /\ CountTakeover
    BY <1>1 DEF ScanStuckTasks, IInv, RetryBudget, TypeOK
  <2> QED
    BY <2>1 DEF CountTakeover, Round!PutBack, Round!Fail
<1>2. CASE LeaseLapses \/ DeadlineLapses \/ ScanStep \/ ScanConfirmTimeouts
  BY <1>2 DEF LeaseLapses, DeadlineLapses, ScanStep, ScanFinds, ScanResetsResult,
     ScanResetsParticipant, ScanAccepted, ScanConfirmTimeouts
<1> QED
  BY <1>1, <1>2

\* The API and the other members revive, restart, cancel, take up and complete.
LEMMA ApiSimulates ==
  ASSUME IInv,
         \/ MemberStep \/ Regenerate \/ CancelSummary \/ OthersChange \/ OthersStart
         \/ TeamSummary \/ LoseTrigger \/ Crash
  PROVE  Round!Next \/ UNCHANGED <<status, tries>>
<1> USE DEF Round!Next, taskVars
<1>1. CASE MemberStep
  BY <1>1 DEF MemberStep, Accept, Decline, Leave, Submit, RegeneratePersonal, Revive,
     Round!Revive
<1>2. CASE Regenerate
  BY <1>2 DEF Regenerate, Ended, Round!Restart
<1>3. CASE CancelSummary
  BY <1>3 DEF CancelSummary, Round!Cancel
<1>4. CASE OthersChange \/ OthersStart
  BY <1>4 DEF OthersChange, OthersStart, Revive, Round!Revive, Round!Take
<1>5. CASE TeamSummary
  BY <1>5 DEF TeamSummary, Round!Complete, Round!Cancel
<1>6. CASE LoseTrigger \/ Crash
  BY <1>6 DEF LoseTrigger, Crash
<1> QED
  BY <1>1, <1>2, <1>3, <1>4, <1>5, <1>6

\* Runs, jobs, scans and handlers, each comparing the status on its own, together
\* never take a task off its life: it implements TaskRound.
THEOREM RoundImplemented == Spec => ImplementsTaskRound
<1>1. Init => Round!Init
  BY DEF Init, Round!Init
<1>2. IInv /\ [Next]_vars => [Round!Next]_(Round!vars)
  <2> SUFFICES ASSUME IInv, [Next]_vars PROVE Round!Next \/ UNCHANGED <<status, tries>>
    BY DEF Round!vars
  <2>1. CASE UNCHANGED vars
    BY <2>1 DEF vars, taskVars
  <2>2. ASSUME NEW r \in Run, HeartFenced(r) \/ HeartCeiling(r)
        PROVE  UNCHANGED <<status, tries>>
    BY <2>2 DEF HeartFenced, HeartCeiling, taskVars
  <2>3. ASSUME NEW r \in Run, NEW t \in {"personal_summary", "personal_regenerate"},
               Start(r, t)
        PROVE  UNCHANGED <<status, tries>>
    BY <2>3 DEF Start, taskVars
  <2> QED
    BY <2>1, <2>2, <2>3, RunSimulates, JobSimulates, ScanSimulates, ApiSimulates DEF Next
<1> QED
  BY <1>1, <1>2, Invariance, PTL DEF Spec, ImplementsTaskRound, Round!Spec

-----------------------------------------------------------------------------
(* RunsAreAccounted.  A takeover hands the result to another run while the *)
(* one it takes it from may be alive: it needs a run to spare.             *)

Racing == {r \in Run : Live(r) /\ run[r].pc \notin {"done", "complete", "handOver"}}
Owed == IF worker = "Pending" THEN 1 ELSE 0
Load == Cardinality(Racing) + Owed
Allowed == 1 + round + (MaxFaults - faults)
Spare == Load < Allowed

\* Nobody has worked for a member who has not answered.
Unasked ==
  part = "Pending" => worker = "None" /\ scan = "idle" /\ \A r \in Run : run[r].pc = "free"

\* A run has no heartbeat before it has marked the participant.
MarksFirst == \A r \in Run : run[r].pc = "mark" => run[r].heart = "off"

\* What a scan has found leaves a run to spare; so does a participant who is being
\* worked for, unless a run renews the lease or is about to.
Renewed ==
  scan # "reset" /\ part = "Processing" =>
    Spare \/ (~lapsed /\ \E r \in Racing : run[r].heart \in {"off", "on"})

AInv ==
  /\ RunsAreAccounted /\ Unasked /\ MarksFirst /\ Renewed
  /\ worker \in {"Completed", "Failed"} => Spare
  /\ scan = "found" => Spare

LEMMA AccountedLoad ==
  /\ RunsAreAccounted <=> Load <= Allowed
  /\ RunsAreAccounted' <=> Load' <= Allowed'
BY DEF RunsAreAccounted, Load, Allowed, Racing, Owed

LEMMA RacingFinite ==
  /\ IsFiniteSet(Racing) /\ Cardinality(Racing) \in Nat
  /\ IsFiniteSet(Racing') /\ Cardinality(Racing') \in Nat
<1>1. Racing \subseteq Run /\ Racing' \subseteq Run
  BY DEF Racing
<1> QED
  BY <1>1, FS_Subset, FS_CardinalityType

LEMMA LoadType ==
  /\ TypeOK => Load \in Nat /\ Allowed \in Nat /\ Allowed > 0
  /\ TypeOK' => Load' \in Nat /\ Allowed' \in Nat
BY RacingFinite DEF TypeOK, Load, Owed, Allowed

\* With a run to spare only the bookkeeping is left to show.
LEMMA FromSpare ==
  ASSUME TypeOK', Spare', Unasked', MarksFirst' PROVE AInv'
BY AccountedLoad, LoadType DEF AInv, Spare, Renewed

\* A step that changes no run that counts, nor the result, and does not make the
\* participant one who is worked for.
LEMMA Steady ==
  ASSUME TypeOK, TypeOK', AInv, Racing' = Racing, worker' = worker, scan' = scan,
         Allowed' >= Allowed, MarksFirst',
         \A r \in Racing : run'[r].heart \in {run[r].heart, "on"},
         \A r \in Run : run[r].pc = "free" => run'[r].pc = "free",
         UNCHANGED partVars \/ part' \notin {"Pending", "Processing"}
  PROVE  AInv'
<1>1. Load' = Load
  BY DEF Load, Owed
<1>2. Load \in Nat /\ Allowed \in Nat /\ Allowed' \in Nat
  BY LoadType
<1>3. RunsAreAccounted' /\ (Spare => Spare')
  BY <1>1, <1>2, AccountedLoad DEF AInv, Spare
<1>4. Unasked'
  BY DEF AInv, Unasked, partVars
<1>5. Renewed'
  BY <1>3 DEF AInv, Renewed, partVars
<1> QED
  BY <1>3, <1>4, <1>5 DEF AInv

\* A step that neither adds to the load nor settles the result, and leaves the
\* participant neither asked nor worked for.
LEMMA Lighter ==
  ASSUME TypeOK, TypeOK', AInv, Load' <= Load, Allowed' >= Allowed, MarksFirst',
         worker' \in {worker, "None", "Pending"}, scan' = scan,
         part' \notin {"Pending", "Processing"}
  PROVE  AInv'
<1>1. Load \in Nat /\ Load' \in Nat /\ Allowed \in Nat /\ Allowed' \in Nat
  BY LoadType
<1>2. RunsAreAccounted' /\ (Spare => Spare')
  BY <1>1, AccountedLoad DEF AInv, Spare
<1> QED
  BY <1>2 DEF AInv, Unasked, Renewed

\* A run that stops to count takes its share of the load with it.
LEMMA RunLeaves ==
  ASSUME TypeOK, NEW r \in Run, r \in Racing,
         End(r) \/ Goto(r, "done")
  PROVE  /\ Cardinality(Racing') = Cardinality(Racing) - 1
         /\ \A x \in Run : run'[x].pc = "mark" => run'[x] = run[x]
         /\ \A x \in Run : run[x].pc = "free" => run'[x].pc = "free"
<1>1. \A x \in Run : x # r => run'[x] = run[x]
  BY DEF TypeOK, End, Goto
<1>2. run'[r].pc \in {"free", "done"}
  BY DEF TypeOK, End, Goto, NoRun, RunRow
<1>3. Racing' = Racing \ {r}
  BY <1>1, <1>2 DEF Racing, Live
<1>4. Cardinality(Racing') = Cardinality(Racing) - 1
  BY <1>3, RacingFinite, FS_RemoveElement
<1>5. run[r].pc # "free"
  BY DEF Racing, Live
<1> QED
  BY <1>1, <1>2, <1>4, <1>5

\* A run that goes on counts as before.
LEMMA RunGoesOn ==
  ASSUME TypeOK, NEW r \in Run, r \in Racing,
         NEW s \in {"casTask", "reread", "refresh", "work", "recheck", "persist", "fail"},
         Goto(r, s) \/ Work(r)
  PROVE  /\ Racing' = Racing
         /\ \A x \in Run : run'[x].heart \in {run[x].heart, "on"}
         /\ \A x \in Run : run'[x].pc = "mark" => run'[x] = run[x]
         /\ \A x \in Run : run[x].pc = "free" => run'[x].pc = "free"
<1>1. \A x \in Run : x # r => run'[x] = run[x]
  BY DEF TypeOK, Work, Goto
<1>2. run'[r].pc \in {s, "work"} /\ run'[r].heart \in {run[r].heart, "on"}
  BY DEF TypeOK, Work, Goto, RunRow
<1>3. run[r].pc # "free"
  BY DEF Racing, Live
<1>4. Racing' = Racing
  BY <1>1, <1>2 DEF Racing, Live
<1> QED
  BY <1>1, <1>2, <1>3, <1>4

LEMMA Counters ==
  ASSUME TypeOK PROVE round \in Nat /\ faults \in Nat /\ MaxFaults \in Nat
BY DEF TypeOK

LEMMA SameHistory ==
  ASSUME TypeOK, UNCHANGED histVars PROVE Allowed' >= Allowed
BY LoadType DEF Allowed, histVars

LEMMA OneFault ==
  ASSUME TypeOK, NEW f, Hit(f) PROVE Allowed' = Allowed + 1 /\ Allowed' >= Allowed
BY LoadType DEF Allowed, Hit, Suffer, TypeOK

LEMMA InitAccounted == Init => AInv
<1> SUFFICES ASSUME Init PROVE AInv
  OBVIOUS
<1>1. \A r \in Run : run[r].pc = "free"
  BY DEF Init, NoRun
<1>2. Racing = {}
  BY <1>1 DEF Racing, Live
<1>3. Cardinality(Racing) = 0
  BY <1>2, FS_EmptySet
<1>4. /\ round = 0 /\ faults = MaxFaults /\ scan = "idle"
      /\ part \in {"Pending", "Accepted"} /\ worker \in {"None", "Pending"}
      /\ part = "Pending" => worker = "None"
  BY DEF Init
<1>5. Load <= Allowed
  BY <1>3, <1>4 DEF Load, Owed, Allowed
<1> QED
  BY <1>1, <1>4, <1>5, AccountedLoad DEF AInv, Unasked, MarksFirst, Renewed

\* A claim turns the run that is owed into one that counts.
LEMMA StartAccounted ==
  ASSUME TypeOK, TypeOK', AInv, NEW r \in Run, NEW t \in {"personal_summary", "personal_regenerate"},
         Start(r, t)
  PROVE  AInv'
<1>1. /\ UNCHANGED <<partVars, scan, histVars>> /\ run[r].pc = "free"
      /\ Allowed' = Allowed
  BY DEF Start, Live, histVars, Allowed
<1>2. CASE UNCHANGED <<worker, run>>
  <2>1. Racing' = Racing
    BY <1>2 DEF Racing, Live
  <2>2. Allowed' >= Allowed
    BY <1>1, LoadType
  <2> QED
    BY <1>1, <1>2, <2>1, <2>2, Steady DEF AInv, MarksFirst
<1>3. CASE worker = "Pending" /\ worker' = "Processing"
  <2>1. run' = [run EXCEPT ![r] = [NoRun EXCEPT !.pc = "mark", !.allow = (t = "personal_regenerate")]]
    BY <1>3 DEF Start, ClaimResult
  <2>2. run'[r].pc = "mark" /\ run'[r].heart = "off" /\ \A x \in Run : x # r => run'[x] = run[x]
    BY <2>1 DEF TypeOK, NoRun
  <2>3. Racing' = Racing \cup {r} /\ r \notin Racing
    BY <1>1, <2>2 DEF Racing, Live
  <2>4. Cardinality(Racing') = Cardinality(Racing) + 1
    BY <2>3, RacingFinite, FS_AddElement
  <2>5. Load' = Load
    BY <1>3, <2>4, RacingFinite DEF Load, Owed
  <2>6. RunsAreAccounted' /\ (Spare => Spare')
    BY <1>1, <2>5, AccountedLoad DEF AInv, Spare
  <2>7. Unasked' /\ MarksFirst'
    BY <1>1, <1>3, <2>2 DEF AInv, Unasked, MarksFirst, partVars
  <2>8. Renewed'
    BY <1>1, <2>2, <2>3, <2>6 DEF AInv, Renewed, partVars
  <2> QED
    BY <1>1, <1>3, <2>6, <2>7, <2>8 DEF AInv
<1> QED
  BY <1>2, <1>3 DEF Start, ClaimResult

\* A run that ends before its result counts leaves one to spare.
LEMMA Quits ==
  ASSUME TypeOK, TypeOK', AInv, NEW r \in Run, r \in Racing, End(r) \/ Goto(r, "done"),
         Owed' <= Owed, Allowed' >= Allowed, scan' = scan,
         part' = part \/ part' # "Pending"
  PROVE  AInv'
<1>1. Load' < Load
  BY RunLeaves, RacingFinite DEF Load, Owed
<1>2. Spare'
  BY <1>1, LoadType, AccountedLoad DEF AInv, Spare
<1>3. run[r].pc # "free"
  BY DEF Racing, Live
<1>4. Unasked' /\ MarksFirst'
  BY <1>3, RunLeaves DEF AInv, Unasked, MarksFirst
<1> QED
  BY <1>2, <1>4, FromSpare

\* A run that goes on leaves everything as it was.
LEMMA GoesOn ==
  ASSUME TypeOK, TypeOK', AInv, NEW r \in Run, r \in Racing,
         NEW s \in {"casTask", "reread", "refresh", "work", "recheck", "persist", "fail"},
         Goto(r, s) \/ Work(r),
         UNCHANGED <<partVars, worker, scan, histVars>>
  PROVE  AInv'
<1>1. Allowed' >= Allowed
  BY LoadType DEF Allowed, histVars
<1>2. MarksFirst'
  BY RunGoesOn DEF AInv, MarksFirst
<1>3. \A x \in Racing : run'[x].heart \in {run[x].heart, "on"}
  BY RunGoesOn DEF Racing
<1> QED
  BY <1>1, <1>2, <1>3, RunGoesOn, Steady

LEMMA RunStepAccounted ==
  ASSUME TypeOK, TypeOK', AInv, NEW r \in Run, RunStep(r)
  PROVE  AInv'
<1> DEFINE At(S) == run[r].pc \in S
<1>1. At({"mark", "casTask", "reread", "refresh", "work", "recheck", "persist", "fail"})
        => r \in Racing
  BY DEF Racing, Live
<1>2. ASSUME UNCHANGED <<worker, scan, histVars>>
      PROVE  Owed' <= Owed /\ Allowed' >= Allowed
  BY <1>2, LoadType DEF Owed, Allowed, histVars
<1>3. CASE MarkProcessing(r)
  <2>1. /\ r \in Racing /\ Goto(r, "casTask") /\ run[r].heart = "off"
        /\ UNCHANGED <<worker, scan, histVars>>
    BY <1>1, <1>3 DEF MarkProcessing, AInv, MarksFirst, resultVars
  <2>2. CASE Present /\ part' = "Processing" /\ lapsed' = FALSE
    <3>1. Load' = Load /\ Allowed' = Allowed
      BY <2>1, RunGoesOn DEF Load, Owed, Allowed, histVars
    <3>2. RunsAreAccounted' /\ (Spare => Spare')
      BY <3>1, AccountedLoad DEF AInv, Spare
    <3>3. MarksFirst'
      BY <2>1, RunGoesOn DEF AInv, MarksFirst
    <3>4. Unasked'
      BY <2>2 DEF Unasked
    <3>5. r \in Racing' /\ run'[r].heart \in {"off", "on"}
      BY <2>1, RunGoesOn
    <3>6. Renewed'
      BY <2>2, <3>5 DEF Renewed
    <3> QED
      BY <2>1, <3>2, <3>3, <3>4, <3>6 DEF AInv
  <2>3. CASE UNCHANGED partVars
    BY <2>1, <2>3, GoesOn
  <2> QED
    BY <1>3, <2>2, <2>3 DEF MarkProcessing
<1>4. CASE CasTask(r)
  <2>1. r \in Racing /\ UNCHANGED <<partVars, worker, scan, histVars>>
    BY <1>1, <1>4 DEF CasTask, resultVars
  <2>2. Work(r) \/ Goto(r, "reread")
    BY <1>4 DEF CasTask
  <2> QED
    BY <2>1, <2>2, GoesOn
<1>5. CASE Reread(r)
  <2>1. r \in Racing /\ UNCHANGED <<partVars, worker, scan, histVars>>
    BY <1>1, <1>5 DEF Reread, resultVars
  <2>2. Work(r) \/ Goto(r, "refresh") \/ End(r)
    BY <1>5 DEF Reread
  <2>3. ASSUME End(r) PROVE AInv'
    BY <1>2, <2>1, <2>3, Quits DEF partVars
  <2> QED
    BY <2>1, <2>2, <2>3, GoesOn
<1>6. CASE RefreshLease(r)
  <2>1. r \in Racing /\ Work(r) /\ UNCHANGED <<partVars, worker, scan, histVars>>
    BY <1>1, <1>6 DEF RefreshLease, resultVars
  <2> QED
    BY <2>1, GoesOn
<1>7. CASE Generate(r)
  <2>1. r \in Racing /\ UNCHANGED <<partVars, worker, scan, histVars>>
    BY <1>1, <1>7 DEF Generate, resultVars
  <2>2. Goto(r, "recheck") \/ Goto(r, "fail")
    BY <1>7 DEF Generate
  <2> QED
    BY <2>1, <2>2, GoesOn
<1>8. CASE Recheck(r)
  <2>1. r \in Racing /\ UNCHANGED <<partVars, worker, scan, histVars>>
    BY <1>1, <1>8 DEF Recheck, resultVars
  <2>2. CASE End(r)
    BY <1>2, <2>1, <2>2, Quits DEF partVars
  <2>3. CASE run' = [run EXCEPT ![r].pc = "persist", ![r].seen = (status = "Completed")]
    <3>1. \A x \in Run : x # r => run'[x] = run[x]
      BY <2>3 DEF TypeOK
    <3>2. run'[r].pc = "persist" /\ run'[r].heart = run[r].heart
      BY <2>3 DEF TypeOK, RunRow
    <3>3. Racing' = Racing
      BY <2>1, <3>1, <3>2 DEF Racing, Live
    <3>4. MarksFirst' /\ Allowed' >= Allowed
      BY <1>2, <2>1, <3>1, <3>2 DEF AInv, MarksFirst
    <3>5. \A x \in Racing : run'[x].heart \in {run[x].heart, "on"}
      BY <3>1, <3>2 DEF Racing
    <3>6. \A x \in Run : run[x].pc = "free" => run'[x].pc = "free"
      BY <2>1, <3>1 DEF Racing, Live
    <3> QED
      BY <2>1, <3>3, <3>4, <3>5, <3>6, Steady
  <2> QED
    BY <1>8, <2>2, <2>3 DEF Recheck
<1>9. CASE Persist(r)
  <2>1. r \in Racing /\ UNCHANGED <<partVars, scan>>
    BY <1>1, <1>9 DEF Persist
  <2>2. End(r) \/ Goto(r, "done")
    BY <1>9 DEF Persist
  <2>3. worker' \in {worker, "Completed"}
    BY <1>9 DEF Persist
  <2>4. UNCHANGED histVars \/ Hit("persistError")
    BY <1>9 DEF Persist
  <2>5. Owed' <= Owed
    BY <2>3 DEF Owed
  <2>6. Allowed' >= Allowed
    BY <2>4, SameHistory, OneFault
  <2> QED
    BY <2>1, <2>2, <2>5, <2>6, Quits DEF partVars
<1>10. CASE MarkDone(r) \/ CompleteTask(r) \/ HandOver(r)
  <2>1. /\ run[r].pc \in {"done", "complete", "handOver"}
        /\ UNCHANGED <<worker, scan, histVars>>
    BY <1>10 DEF MarkDone, CompleteTask, HandOver, resultVars
  <2>2. Goto(r, "complete") \/ Goto(r, "handOver") \/ End(r)
    BY <1>10 DEF MarkDone, CompleteTask, HandOver
  <2>3. /\ run'[r].pc \in {"free", "complete", "handOver"}
        /\ \A x \in Run : x # r => run'[x] = run[x]
    BY <2>2 DEF TypeOK, Goto, End, NoRun, RunRow
  <2>4. Racing' = Racing /\ r \notin Racing
    BY <2>1, <2>3 DEF Racing, Live
  <2>5. MarksFirst' /\ \A x \in Run : run[x].pc = "free" => run'[x].pc = "free"
    BY <2>1, <2>3 DEF AInv, MarksFirst
  <2>6. \A x \in Racing : run'[x].heart \in {run[x].heart, "on"}
    BY <2>3, <2>4 DEF Racing
  <2>7. UNCHANGED partVars \/ part' \notin {"Pending", "Processing"}
    <3>1. CASE MarkDone(r)
      <4>1. part # "Pending"
        BY <2>1 DEF AInv, Unasked
      <4> QED
        BY <3>1, <4>1 DEF MarkDone, Present
    <3>2. CASE CompleteTask(r) \/ HandOver(r)
      BY <3>2 DEF CompleteTask, HandOver
    <3> QED
      BY <1>10, <3>1, <3>2
  <2> QED
    BY <1>2, <2>1, <2>4, <2>5, <2>6, <2>7, Steady
<1>11. CASE MarkPersonalFailed(r)
  <2>1. r \in Racing /\ End(r) /\ UNCHANGED <<scan, histVars>> /\ Allowed' >= Allowed
    BY <1>1, <1>11, LoadType DEF MarkPersonalFailed, Allowed, histVars
  <2>2. CASE worker' = "Pending" /\ part' = "Accepted"
    <3>1. Load' <= Load
      BY <2>1, <2>2, RunLeaves, RacingFinite DEF Load, Owed
    <3>2. MarksFirst'
      BY <2>1, RunLeaves DEF AInv, MarksFirst
    <3> QED
      BY <2>1, <2>2, <3>1, <3>2, Lighter
  <2>3. CASE worker' \in {worker, "Failed"} /\ part' \in {part, "Accepted", "Declined"}
    <3>1. Owed' <= Owed
      BY <2>3 DEF Owed
    <3> QED
      BY <2>1, <2>3, <3>1, Quits
  <2>4. \/ worker' = "Pending" /\ part' = "Accepted"
        \/ worker' \in {worker, "Failed"} /\ part' \in {part, "Accepted", "Declined"}
    BY <1>11 DEF MarkPersonalFailed, partVars, resultVars
  <2> QED
    BY <2>2, <2>3, <2>4
<1> HIDE DEF At
<1> QED
  BY <1>3, <1>4, <1>5, <1>6, <1>7, <1>8, <1>9, <1>10, <1>11 DEF RunStep

\* A heartbeat that finds the participant taken marks a run nobody counts on; one
\* that stops by itself is a fault.
LEMMA HeartAccounted ==
  ASSUME TypeOK, TypeOK', AInv, NEW r \in Run, HeartFenced(r) \/ HeartCeiling(r)
  PROVE  AInv'
<1>1. /\ run[r].heart = "on" /\ UNCHANGED <<partVars, worker, scan, round>>
      /\ run' = [run EXCEPT ![r].heart = "fenced"] \/ run' = [run EXCEPT ![r].heart = "wedged"]
  BY DEF HeartFenced, HeartCeiling, resultVars, histVars, Hit, Suffer
<1>2. /\ \A x \in Run : x # r => run'[x] = run[x]
      /\ run'[r].pc = run[r].pc
  BY <1>1 DEF TypeOK, RunRow
<1>3. Racing' = Racing /\ MarksFirst' /\ Unasked'
  <2>1. Racing' = Racing
    BY <1>2 DEF Racing, Live
  <2>2. MarksFirst'
    BY <1>1, <1>2 DEF AInv, MarksFirst
  <2>3. Unasked'
    BY <1>1, <1>2 DEF AInv, Unasked, partVars
  <2> QED
    BY <2>1, <2>2, <2>3
<1>4. Load' = Load
  BY <1>1, <1>3 DEF Load, Owed
<1>5. CASE HeartCeiling(r)
  <2>1. Allowed' = Allowed + 1
    BY <1>5 DEF HeartCeiling, Hit, Suffer, Allowed, TypeOK
  <2>2. Spare'
    BY <1>4, <2>1, LoadType, AccountedLoad DEF AInv, Spare
  <2> QED
    BY <1>3, <2>2, FromSpare
<1>6. CASE HeartFenced(r)
  <2>1. part # "Processing" /\ Allowed' = Allowed
    BY <1>6 DEF HeartFenced, Allowed, histVars
  <2>2. RunsAreAccounted' /\ (Spare => Spare')
    BY <1>4, <2>1, AccountedLoad DEF AInv, Spare
  <2>3. Renewed'
    BY <1>1, <2>1 DEF Renewed, partVars
  <2> QED
    BY <1>1, <1>3, <2>2, <2>3 DEF AInv
<1> QED
  BY <1>5, <1>6

\* What leaves the runs, the result and the scan alone and the participant too, or
\* puts the participant to rest.
LEMMA Idle ==
  ASSUME TypeOK, TypeOK', AInv, UNCHANGED <<run, worker, scan>>, Allowed' >= Allowed,
         UNCHANGED partVars \/ part' \notin {"Pending", "Processing"}
  PROVE  AInv'
<1>1. Racing' = Racing /\ MarksFirst'
  BY DEF Racing, Live, AInv, MarksFirst
<1> QED
  BY <1>1, Steady

LEMMA JobAccounted ==
  ASSUME TypeOK, TypeOK', AInv, NEW j \in Job, PollClaim(j) \/ JobStep(j)
  PROVE  AInv'
<1>1. UNCHANGED <<run, worker, scan>>
  BY DEF PollClaim, JobStep, Pipeline, RefreshSingle, AcceptAndDispatch, DispatchTargets,
     RefreshDeadline, resultVars
<1>2. Allowed' >= Allowed
  <2>1. UNCHANGED histVars \/ Hit("fetchError")
    BY DEF PollClaim, JobStep, Pipeline, ExecutePipeline, RefreshSingle, AcceptAndDispatch,
       DispatchTargets, RefreshDeadline
  <2> QED
    BY <2>1, SameHistory, OneFault
<1>3. UNCHANGED partVars \/ part' \notin {"Pending", "Processing"}
  BY DEF PollClaim, JobStep, Pipeline, RefreshSingle, AcceptAndDispatch, DispatchTargets,
     RefreshDeadline, Present
<1> QED
  BY <1>1, <1>2, <1>3, Idle

LEMMA ScanAccounted ==
  ASSUME TypeOK, TypeOK', AInv,
         LeaseLapses \/ DeadlineLapses \/ ScanStuckTasks \/ ScanStep \/ ScanConfirmTimeouts
  PROVE  AInv'
<1>1. UNCHANGED histVars
  BY DEF LeaseLapses, DeadlineLapses, ScanStuckTasks, ScanStep, ScanFinds, ScanResetsResult,
     ScanResetsParticipant, ScanAccepted, ScanConfirmTimeouts
<1>2. Allowed' >= Allowed /\ Allowed' = Allowed
  BY <1>1, SameHistory DEF Allowed, histVars
<1>3. CASE LeaseLapses
  <2>1. UNCHANGED <<run, worker, scan, part>> /\ part = "Processing" /\ NobodyRenews
    BY <1>3 DEF LeaseLapses, resultVars, procVars
  <2>2. Racing' = Racing /\ MarksFirst' /\ Unasked'
    BY <2>1 DEF Racing, Live, AInv, MarksFirst, Unasked
  <2>3. Load' = Load
    BY <2>1, <2>2 DEF Load, Owed
  <2>4. RunsAreAccounted' /\ (Spare => Spare')
    BY <1>2, <2>3, AccountedLoad DEF AInv, Spare
  <2>5. scan # "reset" => Spare
    BY <2>1 DEF AInv, Renewed, NobodyRenews, Racing
  <2> QED
    BY <2>1, <2>2, <2>4, <2>5 DEF AInv, Renewed
<1>4. CASE ScanFinds
  <2>1. UNCHANGED <<run, worker, part, lapsed>> /\ part = "Processing" /\ lapsed /\ scan = "idle"
    BY <1>4 DEF ScanFinds, LeaseExpired, resultVars, partVars
  <2>2. Racing' = Racing /\ MarksFirst' /\ Unasked'
    BY <2>1 DEF Racing, Live, AInv, MarksFirst, Unasked
  <2>3. Load' = Load
    BY <2>1, <2>2 DEF Load, Owed
  <2>4. Spare'
    BY <1>2, <2>1, <2>3 DEF AInv, Renewed, Spare
  <2> QED
    BY <2>2, <2>4, FromSpare
<1>5. CASE ScanResetsResult
  <2>1. /\ scan = "found" /\ scan' = "reset" /\ UNCHANGED <<run, part, lapsed>>
        /\ worker' = IF worker = "Processing" THEN "Pending" ELSE worker
    BY <1>5 DEF ScanResetsResult, partVars
  <2>2. Racing' = Racing /\ MarksFirst'
    BY <2>1 DEF Racing, Live, AInv, MarksFirst
  <2>3. Load' <= Load + 1 /\ (worker' = worker => Load' = Load)
    BY <2>1, <2>2, RacingFinite DEF Load, Owed
  <2>4. Spare /\ part # "Pending"
    BY <2>1 DEF AInv, Unasked
  <2>5. RunsAreAccounted' /\ (worker' = worker => Spare')
    BY <1>2, <2>3, <2>4, LoadType, AccountedLoad DEF Spare
  <2> QED
    BY <2>1, <2>2, <2>4, <2>5 DEF AInv, Unasked, Renewed
<1>6. CASE ScanResetsParticipant
  <2>1. /\ scan = "reset" /\ scan' = "idle" /\ UNCHANGED <<run, worker>>
        /\ part' \in {"Accepted", "Left"}
    BY <1>6 DEF ScanResetsParticipant, Present, partVars, resultVars
  <2>2. Racing' = Racing /\ MarksFirst'
    BY <2>1 DEF Racing, Live, AInv, MarksFirst
  <2>3. Load' = Load
    BY <2>1, <2>2 DEF Load, Owed
  <2>4. RunsAreAccounted' /\ (Spare => Spare')
    BY <1>2, <2>3, AccountedLoad DEF AInv, Spare
  <2> QED
    BY <2>1, <2>2, <2>4 DEF AInv, Unasked, Renewed
<1>7. CASE DeadlineLapses \/ ScanStuckTasks \/ ScanAccepted
  <2>1. UNCHANGED <<run, worker, scan, partVars>>
    BY <1>7 DEF DeadlineLapses, ScanStuckTasks, ScanAccepted, resultVars, procVars
  <2> QED
    BY <1>2, <2>1, Idle
<1>8. CASE ScanConfirmTimeouts
  <2>1. UNCHANGED <<run, worker, scan>> /\ part' = "Declined"
    BY <1>8 DEF ScanConfirmTimeouts, resultVars, procVars
  <2> QED
    BY <1>2, <2>1, Idle
<1> QED
  BY <1>3, <1>4, <1>5, <1>6, <1>7, <1>8 DEF ScanStep

\* What a regeneration owes, it accounts for.
LEMMA RearmAccounted ==
  ASSUME TypeOK, TypeOK', AInv, NEW t, Rearm(t), NewRound, UNCHANGED <<run, scan>>
  PROVE  AInv'
<1>1. worker' = "Pending" /\ part' = "Accepted"
  BY DEF Rearm
<1>2. Racing' = Racing /\ MarksFirst'
  BY DEF Racing, Live, AInv, MarksFirst
<1>3. Load' <= Load + 1
  BY <1>1, <1>2, RacingFinite DEF Load, Owed
<1>4. Allowed' >= Allowed + 1 /\ (scan = "found" => Allowed' >= Allowed + 2)
  BY Counters DEF NewRound, InFlight, Suffer, Allowed
<1>5. RunsAreAccounted' /\ (scan = "found" => Spare')
  BY <1>3, <1>4, LoadType, AccountedLoad DEF AInv, Spare
<1> QED
  BY <1>1, <1>2, <1>5 DEF AInv, Unasked, Renewed

LEMMA MemberAccounted ==
  ASSUME TypeOK, TypeOK', AInv, MemberStep \/ Regenerate
  PROVE  AInv'
<1>1. CASE Accept
  <2>1. /\ part = "Pending" /\ part' = "Accepted" /\ worker' = "Pending"
        /\ UNCHANGED <<run, scan, histVars>>
    BY <1>1 DEF Accept
  <2>2. scan = "idle" /\ \A r \in Run : run[r].pc = "free"
    BY <2>1 DEF AInv, Unasked
  <2>3. Racing' = {}
    BY <2>1, <2>2 DEF Racing, Live
  <2>4. Load' = 1
    BY <2>1, <2>3, FS_EmptySet DEF Load, Owed
  <2>5. RunsAreAccounted'
    BY <2>1, <2>4, LoadType, AccountedLoad DEF Allowed, histVars
  <2>6. MarksFirst'
    BY <2>1, <2>2 DEF MarksFirst
  <2> QED
    BY <2>1, <2>2, <2>5, <2>6 DEF AInv, Unasked, Renewed
<1>2. CASE Decline
  <2>1. UNCHANGED <<run, worker, scan, histVars>> /\ part' = "Declined"
    BY <1>2 DEF Decline, resultVars, procVars
  <2> QED
    BY <2>1, SameHistory, Idle
<1>3. CASE Leave
  <2>1. UNCHANGED <<run, scan, histVars>> /\ part' = "Left" /\ worker' = "None"
    BY <1>3 DEF Leave, procVars
  <2>2. Racing' = Racing /\ MarksFirst'
    BY <2>1 DEF Racing, Live, AInv, MarksFirst
  <2>3. Load' <= Load
    BY <2>1, <2>2, RacingFinite DEF Load, Owed
  <2> QED
    BY <2>1, <2>2, <2>3, SameHistory, Lighter
<1>4. CASE Submit
  <2>1. UNCHANGED <<run, worker, scan, histVars>> /\ part' = "Submitted"
    BY <1>4 DEF Submit, procVars
  <2> QED
    BY <2>1, SameHistory, Idle
<1>5. CASE RegeneratePersonal
  BY <1>5, RearmAccounted DEF RegeneratePersonal
<1>6. CASE Regenerate
  <2>1. NewRound /\ UNCHANGED <<run, scan>>
    BY <1>6 DEF Regenerate
  <2>2. CASE Rearm("personal_summary")
    BY <2>1, <2>2, RearmAccounted
  <2>3. CASE UNCHANGED <<partVars, resultVars>>
    <3>1. Allowed' >= Allowed
      BY <2>1, Counters DEF NewRound, Suffer, Allowed
    <3> QED
      BY <2>1, <2>3, <3>1, Idle DEF resultVars
  <2> QED
    BY <1>6, <2>2, <2>3 DEF Regenerate
<1> QED
  BY <1>1, <1>2, <1>3, <1>4, <1>5, <1>6 DEF MemberStep

LEMMA OthersAccounted ==
  ASSUME TypeOK, TypeOK', AInv,
         CancelSummary \/ OthersChange \/ OthersStart \/ TeamSummary \/ LoseTrigger \/ Crash
  PROVE  AInv'
<1>1. CASE CancelSummary \/ OthersChange \/ OthersStart \/ TeamSummary
  <2>1. UNCHANGED <<run, worker, scan, partVars, histVars>>
    BY <1>1 DEF CancelSummary, OthersChange, OthersStart, TeamSummary, resultVars, procVars
  <2> QED
    BY <2>1, SameHistory, Idle
<1>2. CASE LoseTrigger
  BY <1>2, OneFault, Idle DEF LoseTrigger, resultVars
<1>3. CASE Crash
  <2>1. /\ UNCHANGED <<worker, part>> /\ scan' = "idle" /\ Hit("crash")
        /\ \A r \in Run : run'[r].pc = "free"
    BY <1>3 DEF Crash, NoRun, resultVars, partVars
  <2>2. Racing' = {}
    BY <2>1 DEF Racing, Live
  <2>3. Load' <= 1 /\ Allowed' > 1
    BY <2>1, <2>2, FS_EmptySet, OneFault, LoadType DEF Load, Owed
  <2>4. Spare'
    BY <2>3, LoadType DEF Spare
  <2>5. Unasked' /\ MarksFirst'
    BY <2>1 DEF AInv, Unasked, MarksFirst
  <2> QED
    BY <2>4, <2>5, FromSpare
<1> QED
  BY <1>1, <1>2, <1>3

LEMMA NextAccounted == TypeOK /\ TypeOK' /\ AInv /\ [Next]_vars => AInv'
<1> SUFFICES ASSUME TypeOK, TypeOK', AInv, [Next]_vars PROVE AInv'
  OBVIOUS
<1>1. CASE UNCHANGED vars
  <2>1. UNCHANGED <<run, worker, scan, partVars, histVars>>
    BY <1>1 DEF vars, resultVars, procVars
  <2> QED
    BY <2>1, SameHistory, Idle
<1> QED
  BY <1>1, StartAccounted, RunStepAccounted, HeartAccounted, JobAccounted, ScanAccounted,
     MemberAccounted, OthersAccounted DEF Next

\* A member has no more runs than the first, the regenerations and the faults account
\* for, however leases lapse and scans take over, whatever the runs they replace do.
THEOREM RunsAccounted == Spec => []RunsAreAccounted
<1>1. AInv => RunsAreAccounted
  BY DEF AInv
<1> QED
  BY <1>1, InitAccounted, NextAccounted, TypeCorrect, PTL DEF Spec
=============================================================================
