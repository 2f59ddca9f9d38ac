# A TLA+ model of octo-smart-summary

Models, model-checking runs and machine-checked proofs for the backend that
summarises chat messages: a Go API process and a Go worker process over one MySQL
database. `PROJECT.json` lists the components, the runs, the source lines each
definition stands for, the hazards, the findings and the theorems.

## 1. The system

```
 browser -> summary-api (gin handlers) --HTTP POST /internal/worker-trigger, best effort--> summary-worker
   ^ SSE         |        <--HTTP POST /internal/task-event, stream frames, best effort--      |
   +- stream hub |                                                                             |
                 +---------------------------- MySQL (summary DB) ----------------------------+
                 +--> agent runs --> LLM                                +--> search service, LLM
                                                                        +--> IM service (notifications)
```

The API's handlers and the worker's goroutines share nothing but the database and
two lossy HTTP calls. A trigger POST that fails is logged and forgotten; what
recovers lost work is a poll of the task table and cron scans every 60 s.

| Component | State it keeps | Operations | What makes it correct | Module |
|---|---|---|---|---|
| Team summary, `worker/meta_processor.go`, `scheduled_replace_helpers.go` | debounce timers, a mutex and a dirty flag per task (memory); `summary_task.status`, `summary_result` | trigger, debounce, run: gate, merge, status check, guarded write, retry, clean-up | a Completed task shows every submission and nobody who left; a stopped round stays stopped; nothing is forgotten | `MetaProcessor` |
| Members and personal results, `handler/personal.go`, `personal_refine.go` | `summary_participant`, `summary_personal_result` | add, accept, decline, leave, remove, submit, edit, draft, regenerate, refine, restore | every change reaches the team summary, the versions and the schedule | `MetaProcessor`, `Versions`, `Schedule` |
| Personal run, `worker/personal_processor.go` | `worker_status`, leases, `retry_count` | claim, heartbeat, generate, persist, complete, fail, retry | one text per member and round; a run that dies is run again | `SummaryTask` |
| Task lifecycle, `worker/processor.go`, `scheduler.go`, `handler/task.go` | `summary_task.status`, `retry_count`, `processing_deadline` | create, poll, process, fail, stuck scan, cancel, regenerate | a task is terminal after a bounded number of tries | `SummaryTask` |
| Worker pool and run loop, `worker/pool.go`, `processor.go`, `handler/internal.go` | semaphore, wait group, trigger queue | submit, poll, trigger, drain | never stuck, bounded, shutdown ends | `WorkerPool` |
| Schedules, `worker/scheduler.go`, `handler/schedule.go`, `service/schedule.go` | `summary_schedule`, the bound task | create, update, confirm, toggle, delete, claim a due schedule, requeue, strip a member, next run | an instant starts one round; consent is respected; runs stay on their cadence | `Schedule`, `Recurrence` |
| Terminal notifications, `notify/notify.go` | `summary_notification` | callback, claim, deliver, record, sweep, re-arm | one deliverer at a time, retried within a budget, honest record | `Notifier` |
| Versions, `service/summary.go`, `handler/edit.go`, `personal_refine.go` | `summary_result`, `summary_personal_result_version` | next number, insert, edit, refine, restore, prune | the current version exists; what users wrote stays in the history | `Versions` |
| Agent workspace, `handler/agent_summary_workspace.go`, `agent_summary.go`, `service/agent_workspace_store.go` | session, turns, messages, created summaries, idempotency bindings | chat, confirm, retry, poll, save, expire | one summary per intent, one save per preview; the workbench shows something that exists | `Workspace`, `Turns` |
| Idempotent creation, `service/summary_workflow.go`, `agent_summary_save.go` | idempotency rows | claim a key, create, replay | one task per key | inside `Workspace` |
| Agent run, `internal/agent`, `internal/summaryrun`, `internal/finishgate`, `handler/agent_chat.go` | run row, evidence, manifest; handle stores (memory) | plan, fetch, map, reduce, prepare, submit, gate | an answer rests on one complete Reduce; the verdict follows the evidence | `AgentRun` |
| Streaming hub, `streaming/hub.go`, `handler/stream.go`, `worker/summary_stream_client.go` | entries, subscribers, timers (memory) | publish, subscribe, prepare, clean up | told done means persisted; a retired run is silent | `StreamHub` |
| Message pipeline, `internal/pipeline`, LLM clients, `llmclient`, `llmfallback`, `service/llm.go` | search tasks (remote), the call in hand | fetch, chunk, map, reduce, retry, fall back | each message read once; no second answer after a streamed one | `Gather`, `Pipeline` |
| Citation text, config, db, metrics, routing | none, or connections | | | not modelled |

What is hard here: the API and the worker interleave on the same rows with
transactions on one side and loose statements on the other; an LLM call lasts minutes
between a read and the write that depends on it; triggers get lost; the worker may die;
cron scans retry what may still be alive; in-memory locks are created and deleted
under their users; pool functions submit to their own pool; a client retries a
request whose first attempt still runs; a model that is not trusted plans the calls.

## 2. Modules

| Module | Models | Composition |
|---|---|---|
| `MetaProcessor` | the team summary of one task, with every operation that changes its roster, its submissions or its status | `INSTANCE TeamText` under a refinement mapping |
| `TeamText` | abstract specification: what a reader of the team text may see | |
| `Notifier` | one notification row and everybody who works on it | stand-alone |
| `SummaryTask` | one task from Pending to its end, and one member's personal run in it, with the scans and API operations that interfere | `INSTANCE TaskRound`; the team summary is an action that module `MetaProcessor` details |
| `TaskRound` | abstract specification: the life of a task, whoever writes its status | |
| `WorkerPool` | the run loop, the queue, the pool, shutdown | stand-alone |
| `Recurrence` | cadence arithmetic and the transactions that write `next_run_at` and a round's window | stand-alone |
| `Schedule` | schedules, the tasks they are bound to, confirmations, the scan | stand-alone; `next_run_at` is "the first instant after now", which `Recurrence` details |
| `Versions` | team and personal versions of one task | stand-alone |
| `Turns` | abstract specification: who may answer a request of a session | |
| `Workspace` | one workspace session | `INSTANCE Turns` under a refinement mapping |
| `AgentRun` | one run of the agent | stand-alone; what `Workspace` calls an execution |
| `Gather` | one fetch of messages | instantiated by `Pipeline` |
| `StreamHub` | sender, hub entry, browser connections | extended by `Pipeline` |
| `Pipeline` | the runs of one member's summary, composing the two | EXTENDS `StreamHub`, INSTANCE `Gather` |
| `MC*` | symmetry, bounds, calendars for TLC | EXTENDS the module |
| `MetaProcessorProofs`, `NotifierProofs`, `SummaryTaskProofs`, `ScheduleProofs`, `VersionsProofs`, `WorkspaceProofs`, `AgentRunProofs`, `PipelineProofs` | theorems | EXTENDS the module and `TLAPS` |

### 2.1 MetaProcessor

*State.* The database: `status`, `part` (participant status; `"In"` stands for
Accepted, Processing, Completed and Submitted, which the gate does not tell apart),
`worker` (worker_status; its Pending value is split in two by what will run it,
since `personal_regenerate` may run on a Completed task and `personal_summary` may
not), `submitted`, `result` (whose texts the current team summary merges: the
write's guard tells texts apart by their authors too). The worker's memory: `armed` and `mapped` (debounce timers running, and
whether the map still holds one), `lockMap` (the mutex `metaLocks` holds now; a
deleted and re-created entry is a new identity), `locked`, `dirty`. A run has its
program counter, the mutex it loaded, its snapshot and its retry count; what it will not
read again is unset. A `Tail` is a personal run past its pipeline: its next step (`at`), its
member (`who`), whether it found the task Completed (`only`). `raced` is a history: the members
the published text is wrong about through the statements of such a run, which no lock holds
together (section 4).

*Steps.* A run of `processMetaSummary` is cut wherever another goroutine or handler
can get in: loading the mutex, `TryLock`, each of the gate's queries, the merge, the
status check, the write transaction, the dirty check, and the three calls of the
deferred clean-up. The end of a personal run is cut at its statements too: the recheck of the task's
status, the transaction that persists the text, the participant's row, the count of the
participants, then the write of a single-person task, or the back-fill of `submitted_at` and the
trigger; a merge may commit, and members may come and go, between any two. A handler's transaction is one step, with the trigger POST it
makes after the commit counted in `posts`; the POST is delivered later, or lost.
The round itself starts (`StartRound`: poll or a personal run claims the task), is given up
(`GiveUpRound`: the stuck scan), is cancelled, and is generated anew (`Regenerate`), all of it
under whatever merge is still running.

*Assumptions.* InnoDB serialises the transactions that matter: the writer takes the
task row `FOR UPDATE`, and each handler that changes the roster updates or locks
rows that conflict with it. There is one worker process (the mutexes live in it).
The failure of a personal run is one step. The check of `Submit`, outside its transaction (`personal.go:493`, `517`), is one step with it.
A schedule's requeue replaces all the rows at once: it is in `Schedule`.

*TeamText* is the promise, without runs, triggers, locks or timers: a text is published in one
step, and only in a Processing round, by `Merge` from all that is submitted at that moment or by
`Sync`, the write for a single-person task, which shows one member's text or keeps the one there is;
a Completed task whose members change, or whose submissions its text does not have, is reopened in
that very step (`Change`). The two holes the code leaves are steps and not omissions: `Sync` says
whom its text is wrong about, and `Late` submits for a member after the text is out; both put
the members in `raced`, and `Change` may not. The mapping reads `present` and `given` off the members' results and `shown` off the current summary. It
tells texts apart by their authors, as the write's guard does, so an edit of a body under a
merge (section 4) is not seen here. A title, a citation, a token count are not modelled.

### 2.2 Notifier

One row `(task, kind, recipient)`; rows are independent of each other. `row`,
`attempts` and `stale` (updated_at older than `PendingLease`) are the row's; `owed`
counts the callbacks still to be made per round; `delivered` and `lost` record what
happened. Each statement on the row is a step: INSERT, re-read on a duplicate
key, guarded UPDATE, delivery, record. A sweep lists and then claims. A round is
one run of the task, re-armed by Regenerate or the schedule at any time, whatever is still under
way (`of` is the round each runner reports). Faults, each with its name in the constant `Faults`: a
crash of the process, a delivery that is cut off after it arrived, a record that cannot be
written, a failed recipient lookup, a runner that outlives its lease (`stall`). Two histories
say what the code has no fence against: `stalled`, a lease of this round ended under its runner, and
`crossed`, a runner of an earlier round wrote this round's row.

### 2.3 SummaryTask

*State.* The task's row: `status`, `tries` (retry_count), `deadline`
(processing_deadline, in the future or passed). The member's two rows: `part`,
`lapsed` (worker_started_at older than the lease), `worker` (worker_status),
`retry`, `text`, `version`, `submitted`. In flight: `triggers` (posted, queued or
submitted), the goroutines of a personal run (`run`), those of `processTask`
(`job`), and the scan that is between its statements (`scan`). A timestamp nothing
reads any more (the deadline of an ended task, the lease of a member who is not
Processing) is set to its resting value, which keeps equal states equal.

*Steps.* `processPersonalSummaryWithOptions` commits each of its statements alone, so
each is a step: the compare-and-set on `worker_status`, the participant's row, the
compare-and-set on the task and what follows when it misses, the generation, the
recheck, the persisting transaction, the participant's completion and the count,
the task's completion or the hand-over to the team summary. The heartbeat is
seen through what it prevents: no lease lapses while one renews. It ends when
it finds the participant not Processing (`HeartFenced`) or at the ceiling
(`HeartCeiling`, the fault `wedge`). `processTask` and the two parts of
`scanStuckPersonalTasks` are cut the same way. API transactions are single steps.

*The other members* are `others`, 0 or 1: their runs claim the task
(`OthersStart`), their submissions revive it, the creator adds and removes them;
`TeamSummary` completes or cancels the task when this member does not hold the gate.

*Assumptions.* The statements before a run's heartbeat starts, and those after it is
taken over, take less than a lease unless the run hangs. A compare-and-set that misses
and the read after it are one step in `RefreshSingle` (all that is lost is a
status that changed in between to one the dispatch tolerates). `scanConfirmTimeouts`
and cancellation may come at any time.

*TaskRound* is what the writers of `summary_task.status` promise together: a round is taken up
from Pending; it is completed, failed or put back only from Processing; putting it back
writes a count of one or more that leaves a try (a job that loaded its count long ago may write a
lower one than it finds, never zero); only a regeneration sets the count to zero or takes a task
out of Failed or Cancelled. Its two variables are the columns `status` and `retry_count`. The steps of
`TeamText` on `status` are these too.

### 2.4 WorkerPool

A place of the semaphore holds a function and the `Submit` calls it still has to make
from inside the pool: `processTask` dispatches a personal summary per participant,
`markPersonalFailed` submits the retry. Nothing keeps such functions from holding every
place, each waiting in its own `Submit` (`Wedged`). `loop` is the run loop, including the two
`Submit`s it can block in. A trigger request is in its handler, answered 429 or 200,
or taken from the queue (`req`). `main` is the shutdown. `Submit` counts in the wait group
before it has a place, as in `pool.go:20`.

### 2.5 Recurrence

An instant is `Slots` to a day; days count from the first day of a calendar given by
the lengths of its months. `NextRunInitial` and `ScheduledAdvance` are the functions of the
same names (`NextRunInitial`, `NextRunScheduledAdvance`), with the weekly, monthly and
plain-interval cadences and the clamping of a day of the month; the
transactions are creation, the two halves of `UpdateSchedule` (it computes from an unlocked
read and writes under the lock), toggling, and the scan's claim with the round's window.
`OnGrid` is the reference definition, stated without the algorithm's loop.
`stale` is a history: an update computed the next run with one anchor and wrote another
(section 4), which the two properties about the day of the month except.
`CalendarAssumption` says what the validation lets through, that the clock has a last instant,
and that the intervals in months stay in the calendar (`Reach`). One time zone, no clock changes; cron expressions, which can no longer be written, are
left out.

### 2.6 Schedule

*State.* The schedule rows (owner, bound task, configured users, confirmation state,
next run), the task rows (participants, schedule, round), the scans with the snapshots
they have still to claim, the API requests between what they read and what they lock.
Histories: `fired` (how many rounds each instant started), `said` (whose confirmation
should count), `left` (who left and was not brought back).

*Steps.* InnoDB under REPEATABLE READ: the first part of a request fixes what its
transaction's plain reads see, the second takes the row locks and does the rest, with
the deadlock-avoiding order of the code. Two tasks may each have a schedule, so that
`UpdateSchedule` may take a task over from another; both values of
`FEATURE_TEAM_SCHEDULE` are runs of their own. Leave and RemoveMember strip the member from
the schedule; a refusal (Decline) does not. A claim whose recurrence or time range is not valid switches the
schedule off. The branch of a round that materialises nobody (`scheduler.go:203-206`) has no
states: both counts are taken from the same row under the same lock. TLC's view
`Present` leaves out what no step and no property reads again: the columns of a deleted row, and when a
schedule that is off would have run.

*Assumptions.* The creator is in every roster. One creator owns everything, since every
handler refuses others before it changes a row. A departure that overlaps a request
which itself rewrites the roster is `overtaken`, and `LeaversStayOut` then claims nothing.

### 2.7 Versions

One counter numbers rows and texts. A request is what it reads before its transaction
(for a refine: minutes earlier) and the transaction, which locks the task or the
personal row and reads again. `PruneTeam`, `PruneEdited` and `PruneMine` are part of each write
that calls them. `draft` remembers what `PersonalDraft` last wrote, which keeps no version;
`TextReachesHistory` excuses exactly that text (section 4).

### 2.8 Workspace and Turns

*State.* The session row with the artifact it shows, the turn rows with attempt, lease
and state, the final messages, the summaries created and the idempotency bindings;
in flight: the turns being executed (`live`), history polls and saves. A summary
context is a number within its scope version.

*Steps.* `BeginTurn` and `BeginProposalConfirmation` acquire the session, which may take
it over from a turn whose lease lapsed; finding an idempotent task, persisting a new one
(the unique key decides), and each way to complete or to fail a turn are steps of their
own, guarded as the store guards them (the turn's attempt, the session's active request). A crash is a handler that takes no more steps. A poll reads,
then clears or updates a workflow in a transaction. The session's expiry forgets
everything but created summaries and the bindings.

*Turns* is the promise: one request holds the session; only the last attempt that took it
answers; it answers once. The mapping of `Workspace` reads holder and lease off the
session and turn rows and the answer off the completed turns.

*Assumptions.* A route is decided anew for each attempt, which allows more than the code.
Cancelled counts as Failed.

### 2.9 AgentRun

A planner that is not trusted plans any batch of calls; the calls of a turn run
concurrently, so each is a sequence of steps: start, work, the hook that touches the
run row, the record. Handle stores with their generations, the coverage gate with its
signature and block budget, the frozen manifest, the fatal latch and its healing, the
nudges, and the finish gate (`Evaluate`) are there. `live` tells a live workspace from a chat that
answers in free text. `ghost` is history. A message stands for its channel.

A run may be expected to fetch or not (`fetchExpected`: a turn that refines a summary is not): then
neither the coverage gate nor the finish gate asks for channels, only for what was recorded as failed
or left out. The bookkeeping writes fail as the code lets them: a status, the outcome of a fetch,
the count of messages left out, a spec that cannot be read back (`ghost.lost` names them). The coverage gate fails open when
the run, the spec or the manifest cannot be read. A Map that fails before its handle is known is
a nameless failure, which any later success clears; a Map of an empty handle succeeds without a freeze; a
manifest that cannot be written or read back lets the Map go on with the messages as they are
(`MapFallsBack`).

### 2.10 Gather, StreamHub, Pipeline

`Gather`: batches of channels, a goroutine per batch with a stack of pieces, submit,
poll, download, halving a batch or a window that is too large, isolated failures, fatal
ones that cancel the context, the deferred deletion of a task that was given up. Results that a
cap cut short pass for results, as in the code: the service's status "partial", and the newest rows of a channel
read from the database (`cut` keeps what they left out).
`StreamHub`: the sender's bounded buffer with its drop of deltas, the ingest handler
that publishes in two steps (the snapshot under `h.mu`, then each client), `Prepare`
with its fence of retired runs, the cleanup timer whose callback may wait for
the lock, and the connection's loop with its late reads.
`Pipeline` runs both: claim, load or fetch, chunk, Map, Reduce with retries
and fallback models, stream, persist, end; a round of a schedule that found nothing sends its
placeholder and keeps the text of an earlier round (`Persisted`); requeue commits first and prepares
the hub entry after.

*Assumptions.* A single-member task; one fetch at a time; `SendResult` merges the
snapshot, the check and the write that one transaction makes; `failed` stands for
cancelled too; a chat source behaves as a mixed one in the fetch and as a document in Map.

## 3. Runs

| Run | Bounds | Shows |
|---|---|---|
| `MetaProcessor` | creator and one invited member, 2 runs, 1 personal tail, 2 mutexes, all faults, any number of regenerations, one roster retry, at most one trigger under way (`OneTrigger`), two of triggers, runs and tails at once (`TwoAtOnce`); a state one past either is still checked | `CompletedMatchesRoster`, `ImplementsTeamText` |
| `MetaLostWakeup` | two members, no fault | violates `NoMissedAggregation` |
| `Notifier` | 3 runners, 2 callbacks per round, 2 rounds, 2 attempts, 2 faults of any kind, regeneration at any time | `OneOwner`, `DuplicateOnlyAfterLoss`, `SentWasDelivered`, `ClaimedSettles` |
| `SummaryTask` | a manual task, its creator with at most one other member or an invited member; 2 runs and 1 job at once, retry limits of 2, one regeneration, one fault of any kind but a lost trigger | `TextNeverVanishes`, `PendingIsPolled`, `RunsAreAccounted`, `ImplementsTaskRound` |
| `SummaryTaskLive` | manual and scheduled tasks, no regeneration, one fault of any kind but a hang | `TaskSettles` |
| `WorkerPool` | 2 places, queue of 1, 2 tasks with up to 2 dispatches each, two tries per personal summary, three trigger requests | `DrainReturns`, `TriggerIsAnswered`, `AcceptedWorkIsRun` |
| `Recurrence` | six cadences, six kinds of update, three of them in a behaviour, two at once, over a winter whose February is short; windows of 40 instants | `NextIsOnCadence`, `ClaimMovesToNextRun`, `WindowsAbut` |
| `Schedule` | creator and one member, 2 schedules, 2 tasks, 2 scans, 2 requests in flight, 4 requests in all, 2 instants, both values of the feature flag | `OncePerInstant`, `NoOrphanSchedule`, `ConfirmationsCount`, `LeaversStayOut` |
| `Versions` | one run, one slow request and others in between, 2 versions kept, 4 numbers | `CurrentVersionExists`, `PruneKeepsUserData`, `TextReachesHistory` |
| `Workspace` | 2 chat requests, 2 confirmation keys, 2 save keys, 2 attempts each, 3 attempts in all, 2 scopes, 3 messages | `WorkbenchAgrees`, `OneTaskPerIntent`, `SavedOnce`, `CompletedTurnsRender`, `ImplementsTurns` |
| `AgentRun` | 2 channels, 8 steps, 1 gate round, 2 handles, 1 nudge, 2 calls a turn, 1 failure of a tool, a read or a write, expected to fetch or not, live or chat | `AnswerIsReduced`, `FatalIsJudged`, `CompleteHasEvidence`, `ObedientIsDelivered` |
| `Pipeline` | 2 runs (1 where the source is a chat), 1 connection, buffers of 1, 2 models with 2 attempts, 3 channels in batches of 2, a window of 3 seconds, 2 fetch goroutines; `MCPipeline` states the rest | `EachSecondOnce`, `NoTaskLeft`, `OneAnswer`, `DoneCarriesResult`, `ConnectionIsServed`, `RetiredStaysSilent` |

*Why the bounds are enough.* Two members tell the creator, who cannot leave, from a
member who can; accept, leave and submit of one member interleave with a run that
merges the other's text. Two runs overlap in the window the clean-up opens between `Unlock` and
`metaLocks.Delete`; two mutexes are as many as the runs can hold. The view of
`MCMetaProcessor` merges states that no step and no property tells apart. One tail meets a merge, a
handler or a second trigger between any two of its statements; two tails at once are left to the
proofs. Three runners are a callback, a second callback and a sweep on the same row, or two of this
round and one of the last. Two places and two functions that submit are enough for a pool in which
everybody waits for everybody, and a queue of 1 is full after one trigger. In `SummaryTask` two
runs are a stale one and its successor, and a retry limit of 2 has both a
failure that is retried and one that is not. With one job, a stale job meets runs,
scans and regenerations but not its own successor: that pair is left to the proofs, which hold for
any number. A failed LLM call costs no fault, since the code bounds its
retries. A regeneration while a run, a job or a scan of the last round is in flight
costs one (`overlap`). A lost trigger can change no safety property, since a
trigger may also stay undelivered; a hang is left out of the liveness run only for the
size of the state graph.
In `Recurrence` the clock stops at the ends of months, where clamping and anchors act; with
three changes one may come between the two halves of another and a third before or after:
the stale anchor of section 4 needs three.
In `Schedule` the behaviours start with summaries that may already have schedules, so that a
take-over, a departure and a stale claim fit in the remaining requests; two scans are an
overlapping pair. In `Versions` a limit of 2 with 4 numbers prunes a version that
a slow request has read. In `Workspace` three attempts are a first, its take-over
and another request. In `AgentRun` eight steps let the gate block early and
refuse to block late. In `Pipeline` three channels in batches of 2 are a batch that can be
halved and one that cannot; buffers of 1 are full after a frame. The proofs
(section 5) remove the bounds of nine modules for the properties they cover.

*Fairness.* `MetaProcessor`, `Schedule`, `Recurrence`, `Versions`, `Workspace`, `AgentRun` and
`Pipeline` are checked for safety only: what they wait for are people, or scans
whose progress the other modules state. Where something must not be forgotten, the
property is stated on quiescent states (`NoMissedAggregation`) or on every state
(`ConnectionIsServed`: an open connection is registered at the entry that is
published to, or its terminal frame is on its way), so no scheduler can make up for what they miss.
`Notifier`: weak fairness of each runner's steps (a goroutine goes
on, its calls have timeouts), of the sweep (cron, every 60 s) and of the lease
(time passes). `WorkerPool`: weak fairness of the loop, of a function that can take a
place or return (LLM calls have timeouts), of a handler that has its request (`Answer`) and of `Drain`; none for
new requests, ticks on an empty table, failures or `Stop`. `NestedSubmit` is weakly
fair although several submitters compete: the semaphore is a Go channel, whose
senders are served in order; the runs need only that a place that stays free is taken.
`SummaryTask`: weak fairness
of each goroutine that does not hang, of taking triggers and polling (the run
loop), of the passing of time, and of each statement of the two stuck scans
(cron, every 60 s); none for people, other members, the team summary or faults: a task must
settle even when nobody accepts.

*Deadlock* is not checked as such: each of these systems may come to rest (a task
ends, a row is sent, the process exits). Being stuck where it should not be is
what the liveness properties and the quiescence properties find.

## 4. Findings and known limits of the code

`MetaLostWakeup` is the trace of a trigger that is lost with the dirty flag; `PROJECT.json`
quotes the lines. What happens while a run is between its reads and its
clean-up is signalled only by that flag, which a run reads at one of its five exits,
and by the task's status, which is Processing then for everybody.

Seen while modelling, and stated nowhere as a property of a passing run, because
the code does not have it:

- Team summary: a personal run rechecks the task's status before it persists its text, and submits it
  (`backfillSystemSubmittedAt`) later, in a transaction that does not look at the task: if the
  merge of the others commits in between, the Completed task lacks that submission, and the trigger
  that follows aborts because the task is not Processing any more (`meta_processor.go:299-307`). The write of a single-person task
  follows a count of the participants made before it, and compares no rosters: it may publish
  the text of a member who has left since, or the creator's alone after others have joined. Both are in the model
  (`raced`).
  An edit made during a merge is left out (the guard of
  `scheduled_replace_helpers.go:410` compares ids, not texts); a member who accepts
  during the last merge of a task waits for somebody else's trigger (`personal.go:298-318`);
  a merge of the last round, if it outlives a regeneration after which the same members have
  submitted again, passes the same guard with the old texts; a submission that passed its check
  just before a regeneration submits the emptied row (`personal.go:493`, `task.go:1534`); a
  member who was dropped for a failed run is not taken up by a regeneration (`task.go:1524`),
  and where that was everybody nothing restarts the round's personal runs.
- Personal run: a regeneration on a Completed task that fails once is retried as a plain
  run, which a Completed task refuses (`personal_processor.go:613-616`, `766`); a slow but living run of
  a one-person task is reclaimed by its own task's job (`processor.go:457`).
- Notifications: a delivery of the last round that ends after the rows were
  re-armed is recorded on the new round's row (`notify.go:319`), which may then say sent for a message
  nobody got; a runner that outlives its lease may deliver beside the one that took its row over. Both are in
  the model (`crossed`, `stalled`), and the properties say what holds without them.
- Pool: functions that hold every place wait in their own `Submit` (`pool.go:21`): from then on the
  worker takes up nothing, answers triggers with 429 once its queue is full, and its `Drain` does not
  return. The run reaches that state (`Wedged`), which two of its properties except.
- Versions: a draft replaces a text without a version (`personal.go:1008-1015`), so a later
  edit or refine loses it; an in-place team edit may be overwritten by a
  run of the last round.
- Schedules: `CreateSchedule` copies a roster it read before a member left and so may bring the
  member back (`personal.go:1450-1457`, `1724`): `overtaken`. `UpdateSchedule` says it recomputes
  from the locked row and will then "rewrite next_run_at / anchor_dom" (`schedule.go:1349-1350`),
  but it rewrites the anchor only when the locked row asks for a new one (`1411-1413`): an anchor that
  its unlocked pass put among the columns (`1205-1207`) is written all the same. A monthly schedule
  that two updates meet on may then run next on the day of one anchor and from then on
  on that of the other, and the claim between the two may pass over a run (`stale`).
- Workspace: a retry may fail where its summary already exists (`agent_summary_workspace.go:512`);
  a stale poll may clear a newer workflow (`agent_workspace_store.go:731-751`), which the
  workbench survives; an answered turn may no longer render after its workflow was deleted, as
  `agent_workspace_store_delete_test.go:198` expects.
- Agent: a channel that was fetched after the freeze, or never mapped, counts as
  succeeded (`finishgate/gate.go:8-11` says so). A status the hook cannot write is logged and not
  written again (`agent_chat.go:464-467`), so that a run may be saved COMPLETE with a fatal failure that
  was never repaired; so may one whose failed fetch or whose count of messages left out could not be
  recorded (`tool_summarize_chunk.go:445`), or whose spec could not be read
  (`agent_summary_citations.go:469`). The properties name each of these (`ghost.lost`).
- Personal run: nothing fences off a run that was taken over: its late persist replaces the newer text
  (`personal_processor.go:452`). A run that sends its placeholder without a stream sends no frames.
- Schedules: a round that fails has moved `last_run_at` when it was claimed (`scheduler.go:226`), so no
  later window covers what it was to summarise.
- Streaming: a stream that is opened within the retention of a failed run
  may end with the partial text (`stream.go:100`); when two publishers meet in a full client
  channel a terminal frame may be dropped, and the connection ends by its own timeout.
- Fetch: a search task whose submission failed in transport may exist and is never deleted. A channel
  with more messages than the cap is read from its newest, and the report that says so is
  dropped (`fetch.go:576-579`); a result the service calls partial is only logged
  (`octo_search_fetch.go:293-300`), as is a channel the database backend cannot read: the
  summary is made of what there is.

## 5. Proofs

All theorems are checked by TLAPS for every value of the constants that satisfies the
assumption its module names: any roster, any number of runs, mutexes, runners, attempts,
rounds, faults, scans, schedules, requests, channels, models, connections and buffers.

`MetaProcessorProofs`: `TypeCorrect`, `RosterTheorem` (`CompletedMatchesRoster`),
`TeamTextImplemented` (`ImplementsTeamText`) and `StoppedRound`. `CompletedMatchesRoster` is not inductive: a run could be about to
write an empty merge, or a task left with one participant could show another text.
`IInv` adds three facts. `RosterConsistent`: a personal result belongs to a row that
is on the roster, only a personal result is submitted, the creator stays.
`MergeNotEmpty`: a run at its write has something to write. `SoleMemberShown`: a
Completed task with one participant shows that participant, unless `raced` says it does not. The step that writes
(`SaveLatestResult`) is the heart: the comparison under the row lock makes the
written contributors equal to the submitted rows, which are on the roster. Mutual
exclusion of runs is never used, and cannot be: the clean-up breaks it. The refinement needs the
same three facts: `MergeNotEmpty` makes the write a `Merge`, `RosterConsistent` keeps submissions among the
results, and `SoleMemberShown` lets a submission to a Completed task of one stay a `Change` that
reopens nothing. Of a personal run's statements two show: `SoloSave` is a `Sync`, and `Backfill` is a
`Change` while the round is open and `Late` once it is Completed. Of everything else a run of
`processMetaSummary` does, only the cancellation of a round with nothing to merge shows.

`NotifierProofs`: `TypeCorrect`, `Exclusion` (`OneOwner`), `Duplicates`, `Backed` and
`SentFinal`, under every fault. `OneOwner`, `DuplicateOnlyAfterLoss` and `SentIsFinal` speak of a
round that is `Undisturbed`, neither stalled nor crossed; `SentWasDelivered` only of one that
is not crossed, so that it holds of a row whose lease was taken over from a runner still at work. `IInv`
adds that nobody reports a round that has not begun (`NotAhead`), that a pending row has budget, that
an acknowledged delivery of this round was one, and that each delivery is recorded, about to be,
or counted lost; the last is what bounds duplicates.

`SummaryTaskProofs`: `TypeCorrect`, `TextKept` (`TextNeverVanishes`), `PendingPolled`
(`PendingIsPolled`), `RoundImplemented` (`ImplementsTaskRound`) and `StoppedFinal`, for both trigger types, any
number of goroutines, rounds and faults. `PendingIsPolled` needs `RetryBudget`: a task
that is pending, processing or completed has tries left (a completed one may be revived and then
taken over), and a job that may still fail its task took it when it had some; with
that, the count a stale job writes stays below the limit or fails the task. The refinement rests on
it too: a takeover and a failed job, however stale its count, either leave a try (`PutBack`) or fail
the task at the limit (`Fail`). `RunsAccounted`
(`RunsAreAccounted`) counts runs: the ones alive and the one a Pending member is owed are no
more than the first, the regenerations and the faults so far. A takeover hands a member to another
run while the first may be alive, so the invariant `AInv` says when there is a run to spare: a
member that is completed or failed leaves one, so does whatever a scan has found, and so
does a participant that is worked for unless its lease runs and some run renews it or is about to
(`Renewed`); a lease only lapses under a renewing run by a fault.

`ScheduleProofs`: `TypeCorrect`, `RoundsAreUnique` (`OncePerInstant`), `SchedulesHaveTasks`
(`NoOrphanSchedule`), `ConsentIsKept` (`ConfirmationsCount`) and `LeaversAreOut` (`LeaversStayOut`). `OncePerInstant` needs two clocks: a scan's list is no newer than its own
clock, which is no later than the clock (`Clocks`), and every instant that fired is before its
schedule's `next_run_at` (`FiredBehind`); a claim compares `next_run_at` with the scan's
clock under the lock, so it fires a new instant however old its list. `ConfirmationsCount` is
strengthened to an equality (`Confirmations`): under either policy the stored state is
what was confirmed since it was last asked for. `LeaversStayOut` is strengthened (`LInv`) by what
a request in flight may write, which names nobody who left before it read the roster
(`RosterRead`), and by `BoundExists`: a claim narrows the roster to the rows of the latest
bound task, which exists because a finite set of ids has a greatest, by well-foundedness.

It also holds the proofs about `Recurrence`: `NextStaysOnCadence` (`NextIsOnCadence`),
`ClaimsMoveToNextRun` (`ClaimMovesToNextRun`) and `WindowsAlwaysAbut` (`WindowsAbut`), for any calendar
of months of 28 to 31 days, any weekday it begins on, any instants in a day, any cadences, updates
in flight and clock. `CadenceInv` says that the row holds a cadence which can run
(`RowInv`: it passes the validation, and counts months only with an anchor), that the next run is
an instant of it for some anchor, the stored one unless `stale` (`NextInvar`), and that the last
window ends at `last_run_at` (`WindowInv`). The rest is arithmetic. The month of an instant is
unique because months follow each other (`LaterMonth`, `MonthIs`); a step leads to the day, weekday
and time the cadence wants, and forward (`StepRun`); the loop of `NextRunScheduledAdvance` ends,
with the step from an instant that is not after now to one that is (`AdvanceLoop`), and stays in
any set that its steps stay in. With the grid for that set, no instant of the grid is left
out, since a step moves by one multiple of the interval and the grid has nothing between two
(`NextOfDays`, `NextOfMonths`, `Multiples`). `First` and the loop are recursive functions; that they
are what their definitions say is proved with a set of numbers that holds zero and successors
(`UpTo`, from the well-foundedness of the numbers), one set at a time.
It was this proof that found the stale anchor.

`WorkspaceProofs`: `TypeCorrect`, `OnePerIntent` (`OneTaskPerIntent`), `OnePerSave` (`SavedOnce`),
`OneWorkbench` (`WorkbenchAgrees`), `ReplaysRender` (`CompletedTurnsRender`)
and `Implements` (`ImplementsTurns`). `IInv` adds that a confirmation names a message
(`TokensNamed`), that a live summary is the one its intent is bound to (`CreatedIsBound`), and
that the binding of a save is never dropped and its preview stays marked until the
session expires (`SavedIsMarked`). What the session renders has an invariant of its own
(`ShowsInv`). A handler reads the session's version and preview when it begins and writes a
revision of them when it ends: that row and payload still carry one version rests on
`HandlersKnow`, by which whoever still owns the turn read what the session holds, since every
step that moves it takes the turn away, and a new attempt outdates the handlers of the old
ones. A workflow's messages are of their kind, and its end is an error only where the pointer is
gone (`WorkflowMessages`), which a fold that lost to another must leave true. `LastSpeaks` covers
the session that shows nothing: if a turn of its scope was completed, its last message is a reply or
an error, so that a replay has something to render; a newer scope starts above all that was asked
before (`ScopesBelow`). The refinement maps `Acquire` to `Take`, the completion by
the owner to `Answer`, its failure to `GiveUp`, a lapse of the holder's lease to `Lapse`, the expiry
of the session to `Forget`; every other step stutters.

`VersionsProofs`: `TypeCorrect`, `CurrentExists` (`CurrentVersionExists`), `PruningIsSafe`
(`PruneKeepsUserData`) and `TextsReachHistory` (`TextReachesHistory`), assuming that more than
one version is kept (`Keep > 1`; the code keeps 5). `CurrentVersionExists` needs rows to have
numbers of their own (`Unique`) that were drawn before (`Drawn`): then a new version is the
newest, and the one a request has just compared with is the second newest at worst, so
pruning spares both. That a finite set of versions has a newest one is itself proved by the
well-foundedness of the numbers. `HistoryKept` is `TextReachesHistory` as a state predicate.

`AgentRunProofs`: `TypeCorrect`, `AnswersAreReduced` (`AnswerIsReduced`), `FatalsAreJudged`
(`FatalIsJudged`), `CompletesHaveEvidence` (`CompleteHasEvidence`) and `ObedientAreDelivered`
(`ObedientIsDelivered`). The planner is any planner and the calls of a turn run in any order;
`IInv` says what survives that: the merges of a turn saw the same generation, no older than the
last Reduce (`MergesAgree`); a target in doubt is recorded as failed, or was mapped in this very turn
(`DoubtsKept`); the run's row is failed exactly while a fatal failure is owed, unless a status was
not written (`FatalKept`); what counts as fetched is stored, and what failed or was left out is in the row unless
that write was lost (`EvidenceKept`, `Disclosed`); a turn the gate sent back has no fetch
(`GateKept`). `Obedience` counts steps: an obedient planner that is to fetch, map,
reduce, prepare and submit has as many steps left, whatever it still has to do.

`PipelineProofs`: `TypeCorrect`, `AnswerIsOne` (`OneAnswer`), `DoneShowsResult`
(`DoneCarriesResult`), `OpenIsServed` (`ConnectionIsServed`), `RetiredIsSilent`
(`RetiredStaysSilent`), `SecondsReadOnce` (`EachSecondOnce`) and `NoTaskIsLeft` (`NoTaskLeft`),
for any number of runs, connections, models, attempts, pieces and
any buffer sizes. `IInv` follows a frame from the sender to the browser. `Queues`: on the way to the
hub the start frame comes first, the done frame last and right after the persisted text,
unless the entry already holds that text. `Heard`: before its start frame arrives, nobody
has heard of a run, so no entry, timer, delivery or channel can name it. `EntryKept`: an
entry that awaits a start has no run, its run is not barred, a retention timer of its run is
armed only once it is done, and its clients are open, know its run, and have their end coming
when it is done. `Deliveries`: a frame under way to a browser is of no run it is barred
from, and a done frame of the run it knows carries the persisted text. The step that
publishes is split by what the fence decides: refused, a start, or a later frame. What the
fetch does leaves all of it alone.

The fetch has an invariant of its own (`FetchInv`), for any candidates, window, batch size,
smallest window and concurrency. `Shared`: until the context ends, each second of each channel is
in exactly one piece of the stack of the goroutine whose batch has the channel, or exactly one
outcome, read, lost or cut, covers it. It holds at the start because the batches share out the
candidates (`ChunksOf`, where `Cutting` and `Apart` are the arithmetic of the division), it
survives a halving because the halves of a list of channels, or of a window of more than one second,
share out the piece (`HalvesShare`, `CutPiece`), and a piece that is done with is replaced by the
outcomes of the channels that were kept, of those that were capped and of those that were skipped, or
of the newer and the older part of its window (`OnceDone`).
`Stack`: a goroutine that is over has an empty stack, so at the return every second is in an
outcome. `Submitted`: each task that lives is the piece a goroutine is polling.

Only model-checked: `WorkerPool`, whose three properties are liveness; the other liveness
properties (`TaskSettles`, `ClaimedSettles`), which need fairness and ENABLED, out of this
prover's reach; and the violated property.

## 6. Not modelled, and why

- The schedule's requeue under a running merge: it replaces the participants, whose rows the
  merge's guard compares; `Schedule` has the requeue itself.
- Task deletion and the bootstrap of a missing participant row, in `SummaryTask`.
- Bot creation's request parsing: it enters the binding that `Workspace` models.
- The agent's replay over a failed run, its search, peek and filter evidence, the token
  budget and argument repairs. Of the gaps the finish gate counts, the flags of truncated evidence and output and
  of channels discovered but not fetched are left out, so the model says COMPLETE of more runs than the code
  does. That an attempt ends follows from its budget of steps, each of which has a timeout.
- The bound on a stream's snapshot (512 KB, after which its head is cut).
- Heartbeats, stage frames and authorisation of streams; which channels intent and topic
  resolution choose; prompts and observers of LLM calls.
- Citation text, routing, middleware, authentication, configuration, migrations, metrics:
  text, plumbing and infrastructure without a protocol of their own. The database is an
  assumption of the models.

## 7. Plan

1. A run of its own for the stale anchor of an update, without the exception `stale` makes.
2. The agent's replay, which shares its run row with the run it replays.
