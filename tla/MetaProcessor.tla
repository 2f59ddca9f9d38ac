---------------------------- MODULE MetaProcessor ----------------------------
(***************************************************************************)
(* The team ("meta") summary of one multi-person BY_PERSON task:           *)
(* internal/worker/meta_processor.go, the write transaction it ends in     *)
(* (scheduled_replace_helpers.go) and the operations that change the       *)
(* roster, the submissions or the task's status under it                   *)
(* (internal/api/handler/personal.go, personal_refine.go, task.go).        *)
(*                                                                         *)
(* A transaction is one step (InnoDB, REPEATABLE READ; every writer that   *)
(* matters here locks or updates the task row).  A sequence of statements  *)
(* outside a transaction is a sequence of steps.                           *)
(***************************************************************************)
EXTENDS Naturals

CONSTANTS
  Member,          \* summary_participant rows; a user who rejoins is a new row
  Creator,         \* the member who cannot leave
  Founder,         \* the members whose invitation is already accepted
  Run,             \* goroutine slots of processMetaSummary
  Tail,            \* goroutine slots of personal runs past their pipeline
  Mutex,           \* identities of the *sync.Mutex values in metaLocks
  NoMutex,
  AutoSubmit,      \* BOOLEAN values backfillSystemSubmittedAt's condition takes
  Faults,          \* subset of {"crash", "lostPost", "mergeError", "takeover"}
  MaxRosterRetries \* maxRosterRetries (5 in the code)

ASSUME ConstantsAssumption ==
  /\ Creator \in Founder
  /\ Founder \subseteq Member
  /\ NoMutex \notin Mutex
  /\ AutoSubmit \subseteq BOOLEAN
  /\ MaxRosterRetries \in Nat

VARIABLES
  \* The database
  status,      \* summary_task.status (Pending: poll, or a personal run, takes it up)
  part,        \* summary_participant.status ("In": accepted or any later one)
  worker,      \* summary_personal_result.worker_status
  submitted,   \* the rows with submitted_at IS NOT NULL
  result,      \* the current summary_result: whose texts it merges
  raced,       \* history: the members it is wrong about through a personal run's
               \* statements, which no lock and no transaction holds together
  \* The API's trigger POSTs under way
  posts,
  \* The worker process
  armed,       \* debounce timers started and not yet fired
  mapped,      \* how many of them debounceTimers holds, for a trigger to stop
  lockMap,     \* metaLocks[taskID]
  locked,      \* the mutexes held
  dirty,       \* dirtyFlags[taskID]
  pc, mu, snap, acc, retries,  \* each run: its next step, its locals (unset when read
                               \* for the last time)
  at, who, only                \* each tail: its next step, its member, and whether it
                               \* found the task Completed

dbVars     == <<status, part, worker, submitted, result, raced>>
rosterVars == <<part, worker, submitted>>
timerVars  == <<armed, mapped>>
lockVars   == <<lockMap, locked, dirty>>
runVars    == <<pc, mu, snap, acc, retries>>
textVars   == <<result, raced>>
tailVars   == <<at, who, only>>
procVars   == <<armed, mapped, lockMap, locked, dirty, pc, mu, snap, acc, retries,
                at, who, only>>
vars       == <<status, part, worker, submitted, result, raced, posts,
                armed, mapped, lockMap, locked, dirty, pc, mu, snap, acc, retries,
                at, who, only>>

TaskStatus   == {"Pending", "Processing", "Completed", "Failed", "Cancelled"}
PartStatus   == {"Absent", "Pending", "In", "Declined", "Left"}
\* "Regenerating" is worker_status Pending, set by RegeneratePersonalSummary, whose
\* trigger may run on a Completed task.
WorkerStatus == {"None", "Pending", "Regenerating", "Completed", "Failed"}
Waiting == {"Pending", "Regenerating"}
Step == {"idle", "lock", "try", "mark", "clear", "readSubmitted", "readAccepted",
         "decide", "check", "save", "isDirty", "unlock", "dropLock", "dropDirty"}
TailStep == {"idle", "persist", "mark", "count", "solo", "backfill", "trigger"}
TypeOK ==
  /\ status \in TaskStatus
  /\ part \in [Member -> PartStatus]
  /\ worker \in [Member -> WorkerStatus]
  /\ submitted \in SUBSET Member
  /\ result \in SUBSET Member /\ raced \in SUBSET Member
  /\ posts \in Nat
  /\ armed \in Nat
  /\ mapped \in {0, 1} /\ mapped <= armed
  /\ lockMap \in Mutex \cup {NoMutex}
  /\ locked \in SUBSET (Mutex \cup {NoMutex})
  /\ dirty \in BOOLEAN
  /\ pc \in [Run -> Step]
  /\ mu \in [Run -> Mutex \cup {NoMutex}]
  /\ snap \in [Run -> SUBSET Member]
  /\ acc \in [Run -> SUBSET Member]
  /\ retries \in [Run -> Nat]
  /\ at \in [Tail -> TailStep]
  /\ who \in [Tail -> Member]
  /\ only \in [Tail -> BOOLEAN]

-----------------------------------------------------------------------------
(* What the queries return.                                                *)

Rows     == {m \in Member : part[m] \notin {"Absent", "Left"}}
Results  == {m \in Member : worker[m] # "None"}
Accepted == {m \in Member : part[m] = "In"}
Multi    == \E m, n \in Rows : m # n      \* participantCount > 1
Terminal(m) == m \in submitted \/ worker[m] = "Failed"

Init ==
  /\ status = "Processing"
  /\ part = [m \in Member |-> IF m \in Founder THEN "In" ELSE "Absent"]
  /\ worker = [m \in Member |-> IF m \in Founder THEN "Pending" ELSE "None"]
  /\ submitted = {}
  /\ result = {} /\ raced = {}
  /\ posts = 0
  /\ armed = 0
  /\ mapped = 0
  /\ lockMap = NoMutex
  /\ locked = {}
  /\ dirty = FALSE
  /\ pc = [r \in Run |-> "idle"]
  /\ mu = [r \in Run |-> NoMutex]
  /\ snap = [r \in Run |-> {}]
  /\ acc = [r \in Run |-> {}]
  /\ retries = [r \in Run |-> 0]
  /\ at = [t \in Tail |-> "idle"]
  /\ who = [t \in Tail |-> Creator]
  /\ only = [t \in Tail |-> FALSE]

-----------------------------------------------------------------------------
(* The trigger: an API handler POSTs it after its commit, the worker calls *)
(* TriggerMetaSummary, the debounce timer starts a run.                    *)

\* Stops the timer the map holds and starts another.  A timer that has fired
\* is past stopping.
TriggerMetaSummary ==
  /\ armed' = (armed - mapped) + 1
  /\ mapped' = 1

Post == posts' = posts + 1

DeliverPost ==
  /\ posts > 0
  /\ posts' = posts - 1
  /\ TriggerMetaSummary
  /\ UNCHANGED <<dbVars, lockVars, runVars, tailVars>>

\* triggerWorker logs a failed POST, and a full trigger queue answers 429: the
\* trigger is gone either way.
LosePost ==
  /\ "lostPost" \in Faults
  /\ posts > 0
  /\ posts' = posts - 1
  /\ UNCHANGED <<dbVars, procVars>>

\* A timer fires: the one the map holds, or one an earlier callback unmapped.
Fire(r) ==
  /\ pc[r] = "idle"
  /\ \/ mapped = 1 /\ mapped' = 0
     \/ armed > mapped /\ mapped' = mapped
  /\ armed' = armed - 1
  /\ pc' = [pc EXCEPT ![r] = "lock"]
  /\ UNCHANGED <<dbVars, posts, lockVars, mu, snap, acc, retries, tailVars>>

-----------------------------------------------------------------------------
(* processMetaSummary                                                      *)

Goto(r, s) == pc' = [pc EXCEPT ![r] = s]

\* The callback deletes the map's timer entry, then getMetaLock loads or stores
\* this task's mutex.
GetMetaLock(r) ==
  /\ pc[r] = "lock"
  /\ mapped' = 0
  /\ \/ /\ lockMap # NoMutex
        /\ mu' = [mu EXCEPT ![r] = lockMap]
        /\ UNCHANGED lockMap
     \/ /\ lockMap = NoMutex
        /\ \E x \in Mutex \ (locked \cup {mu[q] : q \in Run}) :
             /\ lockMap' = x
             /\ mu' = [mu EXCEPT ![r] = x]
  /\ Goto(r, "try")
  /\ UNCHANGED <<dbVars, posts, armed, locked, dirty, snap, acc, retries, tailVars>>

TryLock(r) ==
  /\ pc[r] = "try"
  /\ \/ mu[r] \notin locked /\ locked' = locked \cup {mu[r]} /\ Goto(r, "clear")
     \/ mu[r] \in locked /\ UNCHANGED locked /\ Goto(r, "mark")
  /\ UNCHANGED <<dbVars, posts, timerVars, lockMap, dirty, mu, snap, acc, retries, tailVars>>

MarkDirty(r) ==
  /\ pc[r] = "mark"
  /\ dirty' = TRUE
  /\ mu' = [mu EXCEPT ![r] = NoMutex]
  /\ Goto(r, "idle")
  /\ UNCHANGED <<dbVars, posts, timerVars, lockMap, locked, snap, acc, retries, tailVars>>

ClearDirty(r) ==
  /\ pc[r] = "clear"
  /\ dirty' = FALSE
  /\ Goto(r, "readSubmitted")
  /\ UNCHANGED <<dbVars, posts, timerVars, lockMap, locked, mu, snap, acc, retries, tailVars>>

\* metaCompletionReady is three queries outside a transaction.
ReadSubmitted(r) ==
  /\ pc[r] = "readSubmitted"
  /\ snap' = [snap EXCEPT ![r] = submitted]
  /\ Goto(r, "readAccepted")
  /\ UNCHANGED <<dbVars, posts, timerVars, lockVars, mu, acc, retries, tailVars>>

ReadAccepted(r) ==
  /\ pc[r] = "readAccepted"
  /\ acc' = [acc EXCEPT ![r] = Accepted]
  /\ Goto(r, "decide")
  /\ UNCHANGED <<dbVars, posts, timerVars, lockVars, mu, snap, retries, tailVars>>

\* The third query, and what follows from it: not ready, nothing to merge, or
\* a merge (the LLM call, which may fail when it is made).
Ready(S) == \A m \in S : Terminal(m)

Decide(r) ==
  /\ pc[r] = "decide"
  /\ \/ ~Ready(acc[r]) /\ UNCHANGED status /\ Goto(r, "unlock")
     \/ /\ Ready(acc[r]) /\ snap[r] = {}
        /\ status' = IF status = "Processing" THEN "Cancelled" ELSE status
        /\ Goto(r, "unlock")
     \/ Ready(acc[r]) /\ snap[r] # {} /\ UNCHANGED status /\ Goto(r, "check")
     \/ /\ "mergeError" \in Faults
        /\ Ready(acc[r])
        /\ \E m, n \in snap[r] : m # n
        /\ UNCHANGED status
        /\ Goto(r, "unlock")
  /\ acc' = [acc EXCEPT ![r] = {}]
  /\ UNCHANGED <<rosterVars, textVars, posts, timerVars, lockVars, mu, snap, retries, tailVars>>

CheckStatus(r) ==
  /\ pc[r] = "check"
  /\ Goto(r, IF status = "Processing" THEN "save" ELSE "unlock")
  /\ UNCHANGED <<dbVars, posts, timerVars, lockVars, mu, snap, acc, retries, tailVars>>

\* Mutant: the write does not compare rosters.
NoRosterGuard(r) == snap[r] # {}

SameRoster(r) == snap[r] = submitted

\* Mutant: the write asks only that the task is not Completed yet.
MarkUnlessCompleted(new) ==
  /\ status # "Completed"
  /\ status' = "Completed"
  /\ result' = new

\* markTaskCompleted: the compare-and-set the whole transaction depends on.
MarkTaskCompleted(new) ==
  /\ status = "Processing"
  /\ status' = "Completed"
  /\ result' = new

\* saveLatestResultAndCompleteTask under the task's row lock, and what the run
\* makes of its error: a changed roster starts over, a stopped task returns.
SaveLatestResult(r) ==
  /\ pc[r] = "save"
  /\ \/ /\ SameRoster(r)
        /\ MarkTaskCompleted(snap[r])
        /\ raced' = {}
        /\ Goto(r, "isDirty")
        /\ UNCHANGED retries
     \/ /\ SameRoster(r)
        /\ status # "Processing"
        /\ Goto(r, "unlock")
        /\ UNCHANGED <<status, textVars, retries>>
     \/ /\ ~SameRoster(r)
        /\ retries' = [retries EXCEPT ![r] = @ + 1]
        /\ Goto(r, IF retries[r] < MaxRosterRetries THEN "clear" ELSE "unlock")
        /\ UNCHANGED <<status, textVars>>
  /\ snap' = [snap EXCEPT ![r] = {}]
  /\ UNCHANGED <<rosterVars, posts, timerVars, lockVars, mu, acc, tailVars>>

IsDirty(r) ==
  /\ pc[r] = "isDirty"
  /\ Goto(r, IF dirty THEN "clear" ELSE "unlock")
  /\ UNCHANGED <<dbVars, posts, timerVars, lockVars, mu, snap, acc, retries, tailVars>>

\* The deferred clean-up: three calls, none of them atomic with the next.
Unlock(r) ==
  /\ pc[r] = "unlock"
  /\ locked' = locked \ {mu[r]}
  /\ mu' = [mu EXCEPT ![r] = NoMutex]
  /\ snap' = [snap EXCEPT ![r] = {}]
  /\ acc' = [acc EXCEPT ![r] = {}]
  /\ retries' = [retries EXCEPT ![r] = 0]
  /\ Goto(r, "dropLock")
  /\ UNCHANGED <<dbVars, posts, timerVars, lockMap, dirty, tailVars>>

DropLock(r) ==
  /\ pc[r] = "dropLock"
  /\ lockMap' = NoMutex
  /\ Goto(r, "dropDirty")
  /\ UNCHANGED <<dbVars, posts, timerVars, locked, dirty, mu, snap, acc, retries, tailVars>>

DropDirty(r) ==
  /\ pc[r] = "dropDirty"
  /\ dirty' = FALSE
  /\ Goto(r, "idle")
  /\ UNCHANGED <<dbVars, posts, timerVars, lockMap, locked, mu, snap, acc, retries, tailVars>>

RunStep(r) ==
  \/ GetMetaLock(r) \/ TryLock(r) \/ MarkDirty(r) \/ ClearDirty(r)
  \/ ReadSubmitted(r) \/ ReadAccepted(r) \/ Decide(r) \/ CheckStatus(r)
  \/ SaveLatestResult(r) \/ IsDirty(r) \/ Unlock(r) \/ DropLock(r) \/ DropDirty(r)

\* The worker process dies and restarts: what it held in memory is gone.
Crash ==
  /\ "crash" \in Faults
  /\ armed' = 0
  /\ mapped' = 0
  /\ lockMap' = NoMutex
  /\ locked' = {}
  /\ dirty' = FALSE
  /\ pc' = [r \in Run |-> "idle"]
  /\ mu' = [r \in Run |-> NoMutex]
  /\ snap' = [r \in Run |-> {}]
  /\ acc' = [r \in Run |-> {}]
  /\ retries' = [r \in Run |-> 0]
  /\ at' = [t \in Tail |-> "idle"]
  /\ who' = [t \in Tail |-> Creator]
  /\ only' = [t \in Tail |-> FALSE]
  /\ UNCHANGED <<dbVars, posts>>

-----------------------------------------------------------------------------
(* The roster: AddMembers, Accept, Decline, Leave and RemoveMember.        *)

\* reviveCompletedForRecompute
Revive == status' = IF status = "Completed" THEN "Processing" ELSE status

AddMember(m) ==
  /\ part[m] = "Absent"
  /\ status \notin {"Failed", "Cancelled"}
  /\ part' = [part EXCEPT ![m] = "Pending"]
  /\ UNCHANGED <<status, worker, submitted, textVars, posts, procVars>>

Accept(m) ==
  /\ part[m] = "Pending"
  /\ part' = [part EXCEPT ![m] = "In"]
  /\ worker' = [worker EXCEPT ![m] = "Pending"]
  /\ IF Multi THEN Revive ELSE UNCHANGED status
  /\ UNCHANGED <<submitted, textVars, posts, procVars>>

Decline(m) ==
  /\ part[m] = "Pending"
  /\ part' = [part EXCEPT ![m] = "Declined"]
  /\ UNCHANGED <<status, worker, submitted, textVars, posts, procVars>>

\* Leave by the member, or RemoveMember by the creator: the rows are deleted.
Leave(m) ==
  /\ m \in Rows \ {Creator}
  /\ part' = [part EXCEPT ![m] = "Left"]
  /\ worker' = [worker EXCEPT ![m] = "None"]
  /\ submitted' = submitted \ {m}
  /\ Revive
  /\ Post
  /\ UNCHANGED <<textVars, procVars>>

-----------------------------------------------------------------------------
(* The personal result: Submit, PersonalEdit, RegeneratePersonalSummary    *)
(* and the end of a personal run.                                          *)

Submit(m) ==
  /\ worker[m] = "Completed"
  /\ m \notin submitted
  /\ submitted' = submitted \cup {m}
  /\ part' = [part EXCEPT ![m] = "In"]
  /\ IF Multi THEN Revive ELSE UNCHANGED status
  /\ Post
  /\ UNCHANGED <<worker, textVars, procVars>>

\* A single-person task shows the personal text: it is synced, not re-merged.
PersonalEdit(m) ==
  /\ worker[m] \in {"Completed", "Failed"}
  /\ status # "Pending"
  /\ IF Multi THEN Revive ELSE status # "Processing" /\ UNCHANGED status
  /\ Post
  /\ UNCHANGED <<rosterVars, textVars, procVars>>

RegeneratePersonal(m) ==
  /\ status = "Completed"
  /\ Multi
  /\ worker[m] \in {"Completed", "Failed"}
  /\ worker' = [worker EXCEPT ![m] = "Regenerating"]
  /\ submitted' = submitted \ {m}
  /\ part' = [part EXCEPT ![m] = "In"]
  /\ UNCHANGED <<status, textVars, posts, procVars>>

\* A personal run fails for the last time (markPersonalFailed's permanent
\* branch), whatever became of the task meanwhile: the member drops out of a
\* multi-person round.
PersonalFail(m) ==
  /\ worker[m] \in Waiting
  /\ worker' = [worker EXCEPT ![m] = "Failed"]
  /\ \/ /\ ~Multi
        /\ status' = IF status = "Processing" THEN "Failed" ELSE status
        /\ UNCHANGED <<part, timerVars>>
     \/ /\ Multi
        /\ part' = [part EXCEPT ![m] = "Declined"]
        /\ TriggerMetaSummary
        /\ UNCHANGED status
  /\ UNCHANGED <<submitted, textVars, posts, lockVars, runVars, tailVars>>

\* A regeneration fails with tries left, or scanStuckPersonalTasks takes it for
\* dead: both trigger a plain personal_summary.
RetryRegenerate(m) ==
  /\ worker[m] = "Regenerating"
  /\ worker' = [worker EXCEPT ![m] = "Pending"]
  /\ UNCHANGED <<status, part, submitted, textVars, posts, procVars>>

-----------------------------------------------------------------------------
(* The tail of a personal run that ends well: statements and transactions  *)
(* of their own, under no lock (processPersonalSummaryWithOptions from the *)
(* status recheck on).                                                     *)

Proceed(t, s) == at' = [at EXCEPT ![t] = s]

Finish(t) ==
  /\ Proceed(t, "idle")
  /\ who' = [who EXCEPT ![t] = Creator]
  /\ only' = [only EXCEPT ![t] = FALSE]

Runnable(m) == \/ status = "Processing"
               \/ status = "Completed" /\ worker[m] = "Regenerating"

\* A run that finds the task not runnable changes nothing here.
Recheck(t, m) ==
  /\ at[t] = "idle"
  /\ worker[m] \in Waiting \/ ("takeover" \in Faults /\ m \in Results)
  /\ Runnable(m)
  /\ who' = [who EXCEPT ![t] = m]
  /\ only' = [only EXCEPT ![t] = status = "Completed"]
  /\ Proceed(t, "persist")
  /\ UNCHANGED <<dbVars, posts, timerVars, lockVars, runVars>>

\* persistCompletedPersonalResult finds the row by its id, whatever became of the
\* task; a member who left has none, and the run ends.
Persist(t) ==
  /\ at[t] = "persist"
  /\ \/ /\ who[t] \in Results
        /\ worker' = [worker EXCEPT ![who[t]] = "Completed"]
        /\ Proceed(t, "mark")
        /\ UNCHANGED <<who, only>>
     \/ /\ who[t] \notin Results
        /\ Finish(t)
        /\ UNCHANGED worker
  /\ UNCHANGED <<status, part, submitted, textVars, posts, timerVars, lockVars, runVars>>

\* The participant's row, if it is still there, says Completed: a member an earlier
\* failure dropped is in again.
MarkParticipant(t) ==
  /\ at[t] = "mark"
  /\ part' = [part EXCEPT ![who[t]] = IF who[t] \in Rows THEN "In" ELSE @]
  /\ Proceed(t, "count")
  /\ UNCHANGED <<status, worker, submitted, textVars, posts, timerVars, lockVars, runVars,
                 who, only>>

\* A single-person task is completed by the run itself; a personal regeneration of a
\* Completed task waits for its Submit; any other run triggers the merge.
CountParticipants(t) ==
  /\ at[t] = "count"
  /\ \/ ~Multi /\ Proceed(t, "solo") /\ UNCHANGED who /\ only' = [only EXCEPT ![t] = FALSE]
     \/ Multi /\ only[t] /\ Finish(t)
     \/ /\ Multi /\ ~only[t] /\ UNCHANGED <<who, only>>
        /\ \E auto \in AutoSubmit : Proceed(t, IF auto THEN "backfill" ELSE "trigger")
  /\ UNCHANGED <<dbVars, posts, timerVars, lockVars, runVars>>

Disagreement(text) == (Results \ text) \cup (text \ Results)

\* The write of a single-person task: the task's compare-and-set, no comparison of
\* rosters.  A scheduled round that found nothing keeps the text there is.
SoloSave(t) ==
  /\ at[t] = "solo"
  /\ \/ \E text \in {{who[t]}} \cup (IF TRUE \in AutoSubmit THEN {result} ELSE {}) :
          /\ MarkTaskCompleted(text)
          /\ raced' = Disagreement(text)
     \/ status # "Processing" /\ UNCHANGED <<status, textVars>>
  /\ Finish(t)
  /\ UNCHANGED <<rosterVars, posts, timerVars, lockVars, runVars>>

\* backfillSystemSubmittedAt: a confirmed member's result counts as submitted, in a
\* transaction that does not look at the task.
Backfill(t) ==
  /\ at[t] = "backfill"
  /\ LET new == IF part[who[t]] = "In" THEN {who[t]} \cap Results ELSE {} IN
       /\ submitted' = submitted \cup new
       /\ raced' = IF status = "Completed" THEN raced \cup (new \ submitted) ELSE raced
  /\ Proceed(t, "trigger")
  /\ UNCHANGED <<status, part, worker, result, posts, timerVars, lockVars, runVars,
                 who, only>>

TriggerMeta(t) ==
  /\ at[t] = "trigger"
  /\ TriggerMetaSummary
  /\ Finish(t)
  /\ UNCHANGED <<dbVars, posts, lockVars, runVars>>

TailStepOf(t) ==
  \/ \E m \in Member : Recheck(t, m)
  \/ Persist(t) \/ MarkParticipant(t) \/ CountParticipants(t) \/ SoloSave(t)
  \/ Backfill(t) \/ TriggerMeta(t)

-----------------------------------------------------------------------------
(* The round: what starts, restarts and stops it.                          *)

\* poll claims the task, or a personal run does.
StartRound ==
  /\ status = "Pending"
  /\ status' = "Processing"
  /\ UNCHANGED <<rosterVars, textVars, posts, procVars>>

\* scanStuckTasks takes the round for dead: it is tried again, or fails.
GiveUpRound ==
  /\ "takeover" \in Faults
  /\ status = "Processing"
  /\ status' \in {"Pending", "Failed"}
  /\ UNCHANGED <<rosterVars, textVars, posts, procVars>>

\* CancelSummary
Cancel ==
  /\ status \in {"Pending", "Processing"}
  /\ status' = "Cancelled"
  /\ UNCHANGED <<rosterVars, textVars, posts, procVars>>

\* The whole task is generated anew, under whatever still runs: who is in starts
\* over, who declined or was dropped stays out; the last team text is kept.
Regenerate ==
  /\ status \in {"Completed", "Failed", "Cancelled"}
  /\ status' = "Pending"
  /\ worker' = [m \in Member |-> IF m \in Results /\ part[m] = "In" THEN "Pending"
                                ELSE worker[m]]
  /\ submitted' = submitted \ Accepted
  /\ UNCHANGED <<part, textVars, posts, procVars>>

MemberStep(m) ==
  \/ AddMember(m) \/ Accept(m) \/ Decline(m) \/ Leave(m) \/ Submit(m)
  \/ PersonalEdit(m) \/ RegeneratePersonal(m) \/ RetryRegenerate(m)
  \/ PersonalFail(m)

Next ==
  \/ \E m \in Member : MemberStep(m)
  \/ \E t \in Tail : TailStepOf(t)
  \/ \E r \in Run : Fire(r) \/ RunStep(r)
  \/ DeliverPost \/ LosePost \/ Crash
  \/ StartRound \/ GiveUpRound \/ Cancel \/ Regenerate

Spec == Init /\ [][Next]_vars

-----------------------------------------------------------------------------
(* Properties                                                              *)

\* The text a Completed task shows was merged from members still on the roster,
\* and from every submission made: no departed member lingers (personal.go:
\* 1520-1527), no submission is left out (scheduled_replace_helpers.go:395-413).
\* What the guard of the write does not cover is in raced, and nothing else is: the
\* members whose result a run submitted when the text was already out, and those a
\* run that had counted one participant left out, or named after they left.
CompletedMatchesRoster ==
  status = "Completed" => /\ submitted \ raced \subseteq result
                          /\ result \ raced \subseteq Results

\* What makes CompletedMatchesRoster inductive: a personal result belongs to a
\* row on the roster, only a personal result is submitted, the creator stays,
\* a run that reached the write has something to write, and the text of a task left
\* with one participant is that participant's, but for raced.
RosterConsistent ==
  /\ \A m \in Results : part[m] \in {"In", "Declined"}
  /\ submitted \subseteq Results
  /\ part[Creator] \in {"In", "Declined"}
MergeNotEmpty == \A r \in Run : pc[r] \in {"check", "save"} => snap[r] # {}
SoleMemberShown == status = "Completed" /\ ~Multi => Results \ raced \subseteq result
IInv == /\ TypeOK
        /\ RosterConsistent
        /\ MergeNotEmpty
        /\ SoleMemberShown
        /\ CompletedMatchesRoster

\* Only a Processing task is written: once cancelled or failed, a round keeps its
\* text whatever runs are still merging (meta_processor.go:299), and its status until
\* the task is generated anew.
StoppedRoundIsFinal ==
  [][(status \in {"Cancelled", "Failed"}) =>
       status' \in {status, "Pending"} /\ result' = result]_vars

\* The minutes between reading the submissions and writing the text do not show:
\* however runs, handlers and crashes interleave, readers see a merge published at
\* one instant from exactly the submissions of that instant, in a round that was
\* still open (scheduled_replace_helpers.go:395-426), and a Completed task that
\* loses its grounds is reopened in the step that takes them away.  Only a run that
\* rechecked the status before it (personal_processor.go:438-448) submits after it.
Team == INSTANCE TeamText WITH present <- Results, given <- submitted, shown <- result
ImplementsTeamText == Team!Spec

\* Nothing is scheduled or running for this task.
Quiescent ==
  /\ posts = 0 /\ armed = 0
  /\ \A r \in Run : pc[r] = "idle"
  /\ \A t \in Tail : at[t] = "idle"

\* A submission that arrives while a merge is running is folded in afterwards:
\* when everything has come to rest, no task sits in Processing with every
\* accepted member terminal and a submission to merge (meta_processor.go:28,
\* "set when a new submission arrives while processing", and :97-101).
NoMissedAggregation ==
  Quiescent => ~(status = "Processing" /\ Ready(Accepted) /\ submitted # {})

=============================================================================
