----------------------------- MODULE SummaryTask -----------------------------
(***************************************************************************)
(* The life of one summary task and of one member's personal run in it:    *)
(* poll and processTask (internal/worker/processor.go), the personal run   *)
(* with its leases and its failure (personal_processor.go), the cron scans *)
(* that take over what looks dead (scheduler.go), and the API operations   *)
(* that restart either (internal/api/handler/task.go, personal.go,         *)
(* personal_refine.go).                                                    *)
(*                                                                         *)
(* The other members of a team are seen through what they do to the rows   *)
(* modelled here: their number, their effect on the task's status, and the *)
(* completion gate, which module MetaProcessor has in full.                *)
(*                                                                         *)
(* A transaction, or a statement outside one, is a step.                   *)
(***************************************************************************)
EXTENDS Naturals, FiniteSets

CONSTANTS
  Run,          \* goroutines of processPersonalSummaryWithOptions
  Job,          \* goroutines of processTask
  MaxRetry,     \* WORKER_MAX_RETRY (3 in the code)
  TriggerType,  \* the trigger types the task may have
  Kind,         \* subset of {"single", "team", "invited"}: whose run, in what task
  Fault,        \* subset of FaultKind
  MaxFaults,    \* bound: faults in a behaviour, llmError aside
  MaxRound      \* bound: regenerations in a behaviour

FaultKind == {"crash", "wedge", "lostTrigger", "llmError", "fetchError", "persistError",
              "overlap"}

ASSUME ConstantsAssumption ==
  /\ IsFiniteSet(Run)
  /\ MaxRetry \in Nat \ {0}
  /\ TriggerType \subseteq {"manual", "scheduled"}
  /\ Fault \subseteq FaultKind
  /\ MaxFaults \in Nat /\ MaxRound \in Nat

VARIABLES
  \* summary_task
  status, tries,                   \* status, retry_count
  deadline,                        \* processing_deadline ("None" once ended: unread)
  trigger, others,                 \* trigger_type; rows of other members
  \* summary_participant of the member
  creator, part,                   \* is the task's creator; status
  lapsed,                          \* Processing, and worker_started_at is too old
  \* summary_personal_result of the member
  worker, retry,                   \* worker_status; retry_count, up to MaxRetry
  text, version,                   \* content is not empty; a version row exists
  submitted,                       \* submitted_at is set
  \* in flight
  triggers,                        \* personal triggers posted, queued or submitted
  run, job, scan,                  \* goroutines, and scanStuckPersonalTasks
  \* history
  round, faults                    \* regenerations; faults left

taskVars   == <<status, tries, deadline>>
fixedVars  == <<trigger, creator>>
partVars   == <<part, lapsed>>
textVars   == <<text, version, submitted>>
resultVars == <<worker, retry, textVars>>
procVars   == <<triggers, run, job, scan>>
histVars   == <<round, faults>>
vars       == <<taskVars, fixedVars, others, partVars, resultVars, procVars, histVars>>

TaskStatus == {"Pending", "Processing", "Completed", "Failed", "Cancelled"}
PartStatus == {"Pending", "Accepted", "Declined", "Processing", "Completed",
               "Submitted", "Left"}
WorkerStatus == {"None", "Pending", "Processing", "Completed", "Failed"}
Timestamp == {"None", "Fresh", "Lapsed"}
RunRow == [pc : {"free", "mark", "casTask", "reread", "refresh", "work", "recheck",
                 "persist", "done", "complete", "handOver", "fail"},
           allow : BOOLEAN,      \* allowCompletedTask
           seen : BOOLEAN,       \* the recheck saw a Completed task
           heart : {"off", "on", "fenced", "wedged"}]
JobRow == [pc : {"free", "pipeline", "refreshSingle", "accept", "dispatch", "refresh"},
           tries : 0 .. MaxRetry]

TypeOK ==
  /\ status \in TaskStatus /\ tries \in 0 .. MaxRetry /\ deadline \in Timestamp
  /\ trigger \in TriggerType /\ others \in {0, 1}
  /\ creator \in BOOLEAN /\ (~creator => others = 1)
  /\ part \in PartStatus /\ lapsed \in BOOLEAN
  /\ worker \in WorkerStatus /\ retry \in 0 .. MaxRetry
  /\ text \in BOOLEAN /\ version \in BOOLEAN
  /\ submitted \in BOOLEAN
  /\ triggers \subseteq {"personal_summary", "personal_regenerate"}
  /\ run \in [Run -> RunRow]
  /\ job \in [Job -> JobRow]
  /\ scan \in {"idle", "found", "reset"}
  /\ round \in 0 .. MaxRound /\ faults \in 0 .. MaxFaults

NoRun == [pc |-> "free", allow |-> FALSE, seen |-> FALSE, heart |-> "off"]
NoJob == [pc |-> "free", tries |-> 0]
Live(r) == run[r].pc # "free"
Present == part # "Left"                    \* the member's rows exist
Count == others + (IF Present THEN 1 ELSE 0)
Stopped == {"Failed", "Cancelled"}
Ended == {"Completed", "Failed", "Cancelled"}

Init ==
  /\ status = "Pending" /\ tries = 0 /\ deadline = "None"
  /\ trigger \in TriggerType
  /\ \E k \in Kind :
       /\ creator = (k # "invited")
       /\ others = (IF k = "single" THEN 0 ELSE 1)
       /\ part = (IF k = "invited" THEN "Pending" ELSE "Accepted")
       /\ worker = (IF k = "invited" THEN "None" ELSE "Pending")
       /\ triggers = (IF k = "invited" \/ trigger = "scheduled" THEN {}
                      ELSE {"personal_summary"})
  /\ lapsed = FALSE /\ retry = 0
  /\ text = FALSE /\ version = FALSE /\ submitted = FALSE
  /\ run = [r \in Run |-> NoRun]
  /\ job = [j \in Job |-> NoJob]
  /\ scan = "idle"
  /\ round = 0 /\ faults = MaxFaults

Suffer(f) ==
  /\ f \in Fault
  /\ faults > 0
  /\ faults' = faults - 1
Hit(f) == Suffer(f) /\ UNCHANGED round

Trigger(t) == triggers' = triggers \cup {t}

-----------------------------------------------------------------------------
(* processPersonalSummaryWithOptions                                       *)

Goto(r, s) == run' = [run EXCEPT ![r].pc = s]
End(r) == run' = [run EXCEPT ![r] = NoRun]

\* Mutant: the run reads worker_status and does not compare-and-set it.
ClaimUnlessDone == worker \in {"Pending", "Processing"} /\ worker' = "Processing"

ClaimResult == worker = "Pending" /\ worker' = "Processing"

\* A trigger reaches a goroutine, which claims the result or returns at once.
Start(r, t) ==
  /\ ~Live(r)
  /\ t \in triggers
  /\ triggers' = triggers \ {t}
  /\ \/ /\ ClaimResult
        /\ run' = [run EXCEPT ![r] =
             [NoRun EXCEPT !.pc = "mark", !.allow = (t = "personal_regenerate")]]
     \/ worker # "Pending" /\ UNCHANGED <<worker, run>>
  /\ UNCHANGED <<taskVars, fixedVars, others, partVars, retry, textVars, job, scan,
                 histVars>>

MarkProcessing(r) ==
  /\ run[r].pc = "mark"
  /\ \/ Present /\ part' = "Processing" /\ lapsed' = FALSE
     \/ ~Present /\ UNCHANGED partVars
  /\ Goto(r, "casTask")
  /\ UNCHANGED <<taskVars, fixedVars, others, resultVars, triggers, job, scan, histVars>>

\* From here the heartbeat renews both leases.
Work(r) == run' = [run EXCEPT ![r].pc = "work", ![r].heart = "on"]

CasTask(r) ==
  /\ run[r].pc = "casTask"
  /\ \/ /\ status = "Pending"
        /\ status' = "Processing" /\ deadline' = "Fresh"
        /\ Work(r)
     \/ status # "Pending" /\ UNCHANGED <<status, deadline>> /\ Goto(r, "reread")
  /\ UNCHANGED <<tries, fixedVars, others, partVars, resultVars, triggers, job, scan,
                 histVars>>

\* A task that is not runnable aborts the run, and worker_status stays Processing.
Reread(r) ==
  /\ run[r].pc = "reread"
  /\ \/ status = "Processing" /\ Goto(r, "refresh")
     \/ status = "Completed" /\ run[r].allow /\ Work(r)
     \/ status # "Processing" /\ ~(status = "Completed" /\ run[r].allow) /\ End(r)
  /\ UNCHANGED <<taskVars, fixedVars, others, partVars, resultVars, triggers, job, scan,
                 histVars>>

RefreshLease(r) ==
  /\ run[r].pc = "refresh"
  /\ deadline' = IF status \in Ended THEN "None" ELSE "Fresh"
  /\ Work(r)
  /\ UNCHANGED <<status, tries, fixedVars, others, partVars, resultVars, triggers, job,
                 scan, histVars>>

\* executePersonalPipeline.  Its failures need no bound: the retries have one.
Generate(r) ==
  /\ run[r].pc = "work"
  /\ \/ Goto(r, "recheck")
     \/ "llmError" \in Fault /\ Goto(r, "fail")
  /\ UNCHANGED <<taskVars, fixedVars, others, partVars, resultVars, triggers, job, scan,
                 histVars>>

Recheck(r) ==
  /\ run[r].pc = "recheck"
  /\ IF status = "Processing" \/ (status = "Completed" /\ run[r].allow)
     THEN run' = [run EXCEPT ![r].pc = "persist", ![r].seen = (status = "Completed")]
     ELSE End(r)
  /\ UNCHANGED <<taskVars, fixedVars, others, partVars, resultVars, triggers, job, scan,
                 histVars>>

\* persistCompletedPersonalResult: a scheduled round without messages puts the
\* latest version back, any other result becomes a version.
Persist(r) ==
  /\ run[r].pc = "persist"
  /\ \/ /\ Present
        /\ worker' = "Completed"
        /\ \/ text' = TRUE /\ version' = TRUE
           \/ trigger = "scheduled" /\ text' = (text \/ version) /\ UNCHANGED version
        /\ Goto(r, "done")
        /\ UNCHANGED histVars
     \/ ~Present /\ End(r) /\ UNCHANGED <<worker, text, version, histVars>>
     \/ Hit("persistError") /\ End(r) /\ UNCHANGED <<worker, text, version>>
  /\ UNCHANGED <<taskVars, fixedVars, others, partVars, retry, submitted, triggers, job,
                 scan>>

MarkDone(r) ==
  /\ run[r].pc = "done"
  /\ part' = IF Present THEN "Completed" ELSE part
  /\ lapsed' = FALSE
  /\ \/ Count <= 1 /\ Goto(r, "complete")
     \/ Count > 1 /\ run[r].allow /\ run[r].seen /\ End(r)
     \/ Count > 1 /\ ~(run[r].allow /\ run[r].seen) /\ Goto(r, "handOver")
  /\ UNCHANGED <<taskVars, fixedVars, others, resultVars, triggers, job, scan, histVars>>

\* Mutant: the write asks only that the task is not Completed yet.
CompleteUnlessCompleted ==
  status # "Completed" /\ status' = "Completed" /\ deadline' = "None"

\* markTaskCompleted
MarkTaskCompleted ==
  status = "Processing" /\ status' = "Completed" /\ deadline' = "None"

\* saveLatestResultAndCompleteTask or completeTaskWithoutNewResult
CompleteTask(r) ==
  /\ run[r].pc = "complete"
  /\ \/ MarkTaskCompleted
     \/ status # "Processing" /\ UNCHANGED <<status, deadline>>
  /\ End(r)
  /\ UNCHANGED <<tries, fixedVars, others, partVars, resultVars, triggers, job,
                 scan, histVars>>

\* backfillSystemSubmittedAt, in a scheduled round, or in a manual one when the run
\* loaded a result that Regenerate had marked; then the team summary is triggered.
HandOver(r) ==
  /\ run[r].pc = "handOver"
  /\ \/ submitted' = (submitted \/ part \notin {"Pending", "Declined", "Left"})
     \/ trigger = "manual" /\ UNCHANGED submitted
  /\ End(r)
  /\ UNCHANGED <<taskVars, fixedVars, others, partVars, worker, retry, text, version,
                 triggers, job, scan, histVars>>

\* Mutant: the last committed text is not put back.
KeepCleared == text' = text

RestoreLatest == text' = (text \/ version)

\* markPersonalFailed
MarkPersonalFailed(r) ==
  /\ run[r].pc = "fail"
  /\ \/ /\ Present /\ retry + 1 < MaxRetry
        /\ retry' = retry + 1
        /\ worker' = "Pending"
        /\ part' = "Accepted" /\ lapsed' = FALSE
        /\ Trigger("personal_summary")
        /\ UNCHANGED <<status, deadline, textVars>>
     \/ /\ Present /\ retry + 1 >= MaxRetry
        /\ retry' = MaxRetry
        /\ worker' = "Failed"
        /\ RestoreLatest
        /\ lapsed' = FALSE
        /\ \/ /\ Count <= 1
              /\ part' = "Accepted"
              /\ IF status = "Processing"
                 THEN status' = "Failed" /\ deadline' = "None"
                 ELSE UNCHANGED <<status, deadline>>
           \/ /\ Count > 1
              /\ part' = "Declined"
              /\ UNCHANGED <<status, deadline>>
        /\ UNCHANGED <<version, submitted, triggers>>
     \/ ~Present /\ UNCHANGED <<status, deadline, partVars, resultVars, triggers>>
  /\ End(r)
  /\ UNCHANGED <<tries, fixedVars, others, job, scan, histVars>>

\* The heartbeat finds the participant not Processing: it has lost the lease.
HeartFenced(r) ==
  /\ run[r].heart = "on"
  /\ part # "Processing"
  /\ run' = [run EXCEPT ![r].heart = "fenced"]
  /\ UNCHANGED <<taskVars, fixedVars, others, partVars, resultVars, triggers, job, scan,
                 histVars>>

\* personalRunCeiling: a run that hangs stops renewing its leases.
HeartCeiling(r) ==
  /\ run[r].heart = "on"
  /\ Hit("wedge")
  /\ run' = [run EXCEPT ![r].heart = "wedged"]
  /\ UNCHANGED <<taskVars, fixedVars, others, partVars, resultVars, triggers, job, scan>>

RunStep(r) ==
  \/ MarkProcessing(r) \/ CasTask(r) \/ Reread(r) \/ RefreshLease(r) \/ Generate(r)
  \/ Recheck(r) \/ Persist(r) \/ MarkDone(r)
  \/ CompleteTask(r) \/ HandOver(r) \/ MarkPersonalFailed(r)

-----------------------------------------------------------------------------
(* poll and processTask                                                    *)

GotoJob(j, s) == job' = [job EXCEPT ![j].pc = s]
EndJob(j) == job' = [job EXCEPT ![j] = NoJob]

PollClaim(j) ==
  /\ job[j].pc = "free"
  /\ status = "Pending" /\ tries < MaxRetry /\ deadline # "Fresh"
  /\ status' = "Processing" /\ deadline' = "Fresh"
  /\ job' = [job EXCEPT ![j] = [pc |-> "pipeline", tries |-> tries]]
  /\ UNCHANGED <<tries, fixedVars, others, partVars, resultVars, triggers, run, scan,
                 histVars>>

\* Mutant: a task that has failed for the last time is put back like any other.
RetryAlways(n) == status' = "Pending" /\ tries' = n

RetryOrFail(n) ==
  /\ status' = IF n >= MaxRetry THEN "Failed" ELSE "Pending"
  /\ tries' = n

\* executePipeline reads sources, participants and messages, writes nothing that is read
\* here, and fails when any of them cannot be read; no message at all is no failure.
ExecutePipeline(succeeds) == IF succeeds THEN UNCHANGED histVars ELSE Hit("fetchError")

\* What is dispatched depends on the trigger type and the number of participants.
Pipeline(j) ==
  /\ job[j].pc = "pipeline"
  /\ \/ /\ ExecutePipeline(TRUE)
        /\ GotoJob(j, CASE Count <= 1 /\ trigger = "manual" -> "refreshSingle"
                        [] Count <= 1 /\ trigger = "scheduled" -> "accept"
                        [] Count > 1 /\ trigger = "scheduled" -> "dispatch"
                        [] OTHER -> "refresh")
        /\ UNCHANGED <<status, tries, deadline>>
     \/ /\ ExecutePipeline(FALSE)
        /\ \/ /\ status = "Processing"
              /\ RetryOrFail(job[j].tries + 1)
              /\ deadline' = "None"
           \/ status # "Processing" /\ UNCHANGED taskVars
        /\ EndJob(j)
  /\ UNCHANGED <<fixedVars, others, partVars, resultVars, triggers, run, scan>>

\* Manual, one participant: the dispatch depends on the task still Processing.
RefreshSingle(j) ==
  /\ job[j].pc = "refreshSingle"
  /\ \/ status = "Processing" /\ deadline' = "Fresh" /\ GotoJob(j, "accept")
     \/ status # "Processing" /\ UNCHANGED deadline /\ EndJob(j)
  /\ UNCHANGED <<status, tries, fixedVars, others, partVars, resultVars, triggers, run,
                 scan, histVars>>

\* The only participant is set to Accepted, whatever it was, and dispatched.
AcceptAndDispatch(j) ==
  /\ job[j].pc = "accept"
  /\ part' = IF Present THEN "Accepted" ELSE part
  /\ lapsed' = FALSE
  /\ Trigger("personal_summary")
  /\ IF trigger = "scheduled" THEN GotoJob(j, "refresh") ELSE EndJob(j)
  /\ UNCHANGED <<taskVars, fixedVars, others, resultVars, run, scan, histVars>>

\* scheduledAutoDispatchTargets
DispatchTargets(j) ==
  /\ job[j].pc = "dispatch"
  /\ IF part = "Accepted" /\ worker = "Pending"
     THEN Trigger("personal_summary") ELSE UNCHANGED triggers
  /\ GotoJob(j, "refresh")
  /\ UNCHANGED <<taskVars, fixedVars, others, partVars, resultVars, run, scan, histVars>>

RefreshDeadline(j) ==
  /\ job[j].pc = "refresh"
  /\ deadline' = IF status = "Processing" THEN "Fresh" ELSE deadline
  /\ EndJob(j)
  /\ UNCHANGED <<status, tries, fixedVars, others, partVars, resultVars, triggers, run,
                 scan, histVars>>

JobStep(j) == \/ Pipeline(j) \/ RefreshSingle(j) \/ AcceptAndDispatch(j)
              \/ DispatchTargets(j) \/ RefreshDeadline(j)

-----------------------------------------------------------------------------
(* Leases and the cron scans                                               *)

\* No heartbeat renews: no run is alive, or those alive have lost theirs.  The
\* statements before a heartbeat starts take less time than a lease.
NobodyRenews == \A r \in Run : Live(r) => run[r].heart \in {"fenced", "wedged"}

LeaseLapses ==
  /\ part = "Processing" /\ ~lapsed
  /\ NobodyRenews
  /\ lapsed' = TRUE
  /\ UNCHANGED <<taskVars, fixedVars, others, part, resultVars, procVars, histVars>>

DeadlineLapses ==
  /\ status \in {"Pending", "Processing"} /\ deadline = "Fresh"
  /\ NobodyRenews
  /\ deadline' = "Lapsed"
  /\ UNCHANGED <<status, tries, fixedVars, others, partVars, resultVars, procVars,
                 histVars>>

\* Mutant: a takeover is not counted.
TakeBack == status' = "Pending" /\ UNCHANGED tries

CountTakeover ==
  /\ status' = IF tries + 1 < MaxRetry THEN "Pending" ELSE "Failed"
  /\ tries' = tries + 1

\* scanStuckTasks
ScanStuckTasks ==
  /\ status = "Processing" /\ deadline # "Fresh"
  /\ CountTakeover
  /\ deadline' = "None"
  /\ UNCHANGED <<fixedVars, others, partVars, resultVars, procVars, histVars>>

LeaseExpired == part = "Processing" /\ lapsed

\* scanStuckPersonalTasks: it lists the stuck, then resets the result, then the
\* participant, whatever has happened since.
ScanFinds ==
  /\ scan = "idle"
  /\ LeaseExpired
  /\ scan' = "found"
  /\ UNCHANGED <<taskVars, fixedVars, others, partVars, resultVars, triggers, run, job,
                 histVars>>

ScanResetsResult ==
  /\ scan = "found"
  /\ worker' = IF worker = "Processing" THEN "Pending" ELSE worker
  /\ scan' = "reset"
  /\ UNCHANGED <<taskVars, fixedVars, others, partVars, retry, textVars, triggers, run,
                 job, histVars>>

ScanResetsParticipant ==
  /\ scan = "reset"
  /\ \/ Present /\ part' = "Accepted" /\ lapsed' = FALSE
     \/ ~Present /\ UNCHANGED partVars
  /\ Trigger("personal_summary")
  /\ scan' = "idle"
  /\ UNCHANGED <<taskVars, fixedVars, others, resultVars, run, job, histVars>>

\* Its second part: accepted members whose result is still Pending.
ScanAccepted ==
  /\ part = "Accepted" /\ worker = "Pending"
  /\ "personal_summary" \notin triggers
  /\ Trigger("personal_summary")
  /\ UNCHANGED <<taskVars, fixedVars, others, partVars, resultVars, run, job, scan,
                 histVars>>

ScanConfirmTimeouts ==
  /\ trigger = "manual" /\ status \notin Ended
  /\ part = "Pending"
  /\ part' = "Declined"
  /\ UNCHANGED <<taskVars, fixedVars, others, lapsed, resultVars, procVars, histVars>>

ScanStep == ScanFinds \/ ScanResetsResult \/ ScanResetsParticipant \/ ScanAccepted

-----------------------------------------------------------------------------
(* The API                                                                 *)

\* reviveCompletedForRecompute, and Accept's own copy of it.
Revive == IF status = "Completed"
          THEN status' = "Processing" /\ deadline' = "Fresh"
          ELSE UNCHANGED <<status, deadline>>

Accept ==
  /\ part = "Pending"
  /\ part' = "Accepted"
  /\ worker' = "Pending"
  /\ IF Count > 1 THEN Revive ELSE UNCHANGED <<status, deadline>>
  /\ Trigger("personal_summary")
  /\ UNCHANGED <<tries, fixedVars, others, lapsed, retry, textVars, run, job, scan, histVars>>

Decline ==
  /\ part = "Pending"
  /\ part' = "Declined"
  /\ UNCHANGED <<taskVars, fixedVars, others, lapsed, resultVars, procVars, histVars>>

\* Leave, or RemoveMember: both rows are deleted.
Leave ==
  /\ Present /\ ~creator
  /\ part' = "Left" /\ lapsed' = FALSE
  /\ worker' = "None" /\ retry' = 0
  /\ text' = FALSE /\ version' = FALSE /\ submitted' = FALSE
  /\ Revive
  /\ UNCHANGED <<tries, fixedVars, others, procVars, histVars>>

Submit ==
  /\ worker = "Completed" /\ ~submitted
  /\ submitted' = TRUE
  /\ part' = "Submitted" /\ lapsed' = FALSE
  /\ IF Count > 1 THEN Revive ELSE UNCHANGED <<status, deadline>>
  /\ UNCHANGED <<tries, fixedVars, others, worker, retry, text, version, procVars,
                 histVars>>

\* ensurePersonalVersionBaseline
Baseline == version' = (version \/ text)

\* What both regenerations do to a member of the round.
Rearm(t) ==
  /\ part' = "Accepted" /\ lapsed' = FALSE
  /\ worker' = "Pending" /\ retry' = 0
  /\ Baseline
  /\ text' = FALSE /\ submitted' = FALSE
  /\ Trigger(t)

\* A new round, for the task or for the member alone.  What is still in flight of
\* the last one counts as a fault.
InFlight == (\E r \in Run : Live(r)) \/ (\E j \in Job : job[j].pc # "free") \/ scan # "idle"
NewRound ==
  /\ round < MaxRound
  /\ round' = round + 1
  /\ IF InFlight THEN Suffer("overlap") ELSE UNCHANGED faults

RegeneratePersonal ==
  /\ status = "Completed"
  /\ Count > 1
  /\ worker \in {"Completed", "Failed"}
  /\ NewRound
  /\ Rearm("personal_regenerate")
  /\ UNCHANGED <<taskVars, fixedVars, others, run, job, scan>>

Regenerate ==
  /\ status \in Ended
  /\ NewRound
  /\ status' = "Pending" /\ tries' = 0 /\ deadline' = "None"
  /\ \/ part \notin {"Pending", "Declined", "Left"} /\ Rearm("personal_summary")
     \/ /\ part \in {"Pending", "Declined", "Left"}
        /\ UNCHANGED <<partVars, resultVars, triggers>>
  /\ UNCHANGED <<fixedVars, others, run, job, scan>>

CancelSummary ==
  /\ status \in {"Pending", "Processing"}
  /\ status' = "Cancelled" /\ deadline' = "None"
  /\ UNCHANGED <<tries, fixedVars, others, partVars, resultVars, procVars,
                 histVars>>

MemberStep == Accept \/ Decline \/ Leave \/ Submit \/ RegeneratePersonal

-----------------------------------------------------------------------------
(* The other members                                                       *)

\* AddMembers and RemoveMember, by the creator.
OthersChange ==
  /\ creator
  /\ \/ others = 0 /\ status \notin Stopped /\ others' = 1 /\ UNCHANGED <<status, deadline>>
     \/ others = 1 /\ others' = 0 /\ Revive
  /\ UNCHANGED <<tries, fixedVars, partVars, resultVars, procVars, histVars>>

\* Another member's run claims the task, or a submission of theirs revives it.
OthersStart ==
  /\ others = 1
  /\ status \in {"Pending", "Completed"}
  /\ status' = "Processing" /\ deadline' = "Fresh"
  /\ UNCHANGED <<tries, fixedVars, others, partVars, resultVars, procVars, histVars>>

\* The gate of the team summary, as far as this member keeps it closed.
GateOpen == part \in {"Pending", "Declined", "Left"} \/ submitted \/ worker = "Failed"

\* A run of the team summary completes the task, or cancels it when nobody has
\* submitted.
TeamSummary ==
  /\ status = "Processing" /\ GateOpen
  /\ \/ (submitted \/ others = 1) /\ status' = "Completed"
     \/ ~submitted /\ status' = "Cancelled"
  /\ deadline' = "None"
  /\ UNCHANGED <<tries, fixedVars, others, partVars, resultVars, procVars,
                 histVars>>

-----------------------------------------------------------------------------

LoseTrigger ==
  /\ Hit("lostTrigger")
  /\ triggers # {}
  /\ \E t \in triggers : triggers' = triggers \ {t}
  /\ UNCHANGED <<taskVars, fixedVars, others, partVars, resultVars, run, job, scan>>

\* The worker process dies and restarts.
Crash ==
  /\ Hit("crash")
  /\ run' = [r \in Run |-> NoRun]
  /\ job' = [j \in Job |-> NoJob]
  /\ scan' = "idle"
  /\ triggers' = {}
  /\ UNCHANGED <<taskVars, fixedVars, others, partVars, resultVars>>

Next ==
  \/ \E r \in Run, t \in {"personal_summary", "personal_regenerate"} : Start(r, t)
  \/ \E r \in Run : RunStep(r) \/ HeartFenced(r) \/ HeartCeiling(r)
  \/ \E j \in Job : PollClaim(j) \/ JobStep(j)
  \/ LeaseLapses \/ DeadlineLapses \/ ScanStuckTasks \/ ScanStep \/ ScanConfirmTimeouts
  \/ MemberStep \/ Regenerate \/ CancelSummary
  \/ OthersChange \/ OthersStart \/ TeamSummary
  \/ LoseTrigger \/ Crash

\* Goroutines go on unless they hang (a run past the ceiling), time passes, cron
\* scans every 60 s, the run loop polls and takes triggers.
Fairness ==
  /\ \A r \in Run : /\ WF_vars(run[r].heart # "wedged" /\ RunStep(r))
                    /\ WF_vars(HeartFenced(r))
  /\ WF_vars(\E r \in Run, t \in triggers : Start(r, t))
  /\ \A j \in Job : WF_vars(JobStep(j))
  /\ WF_vars(\E j \in Job : PollClaim(j))
  /\ WF_vars(LeaseLapses) /\ WF_vars(DeadlineLapses)
  /\ WF_vars(ScanStuckTasks) /\ WF_vars(ScanFinds) /\ WF_vars(ScanResetsResult)
  /\ WF_vars(ScanResetsParticipant) /\ WF_vars(ScanAccepted)

Spec == Init /\ [][Next]_vars /\ Fairness

-----------------------------------------------------------------------------
(* Properties                                                              *)

\* A text that was ever committed does not vanish: whenever the member's result is
\* at rest and a version of it exists, it shows one, through regenerations that
\* clear it, failures, takeovers and stale runs (personal_processor.go:692-697,
\* "so the summary does not vanish for the affected member").
TextNeverVanishes == worker \in {"Completed", "Failed"} /\ version => text

\* poll passes over a Pending task with its tries spent, for ever: there is none,
\* although the stuck scan, a failed job that loaded the count long ago and
\* revivals all write status and count.
PendingIsPolled == status = "Pending" => tries < MaxRetry

\* What makes it so: a task that is not stopped has tries left, and so had every
\* job that may still fail it.
RetryBudget ==
  /\ status \in {"Pending", "Processing", "Completed"} => tries < MaxRetry
  /\ \A j \in Job : job[j].pc = "pipeline" => job[j].tries < MaxRetry

IInv == TypeOK /\ RetryBudget /\ TextNeverVanishes

\* A failed or cancelled task stays so, whatever stale runs, jobs and scans still
\* do, until its creator regenerates it.
StoppedIsFinal ==
  [][(status \in Stopped /\ status' # status) =>
       status' = "Pending" /\ round' = round + 1]_vars

\* The writers of the task's status, each with a compare-and-set of its own and none
\* knowing of the others, never take it anywhere but along the life of a task: no
\* stale run completes a round that was put back, and only a regeneration clears the
\* count of tries (processor.go:279, scheduler.go:396).
Round == INSTANCE TaskRound
ImplementsTaskRound == Round!Spec

\* The leases do their work: a member has no more runs at once than regenerations
\* and faults account for, counting the one still to be claimed, and one at most
\* without either (personal_processor.go:323-326, no double dispatch of a live run).
RunsAreAccounted ==
  Cardinality({r \in Run : Live(r) /\ run[r].pc \notin {"done", "complete", "handOver"}})
    + (IF worker = "Pending" THEN 1 ELSE 0) <= 1 + round + (MaxFaults - faults)

\* A task is not pending or processing for ever: it completes, or the stuck scan
\* has counted it out.
TaskSettles == status \in {"Pending", "Processing"} ~> status \in Ended

=============================================================================
