----------------------------- MODULE WorkerPool -----------------------------
(***************************************************************************)
(* The worker process's run loop, its trigger queue and its bounded pool   *)
(* of goroutines (internal/worker/pool.go, Processor.Run in processor.go,  *)
(* WorkerTrigger in internal/api/handler/internal.go), with the functions  *)
(* that submit work to the pool from inside it: processTask dispatches a   *)
(* personal summary per participant, markPersonalFailed submits the retry. *)
(*                                                                         *)
(* Submit blocks until the semaphore channel has room.  The one who calls  *)
(* it, the run loop or a function that holds a slot itself, waits there:    *)
(* the functions of a full pool can wait for each other.                   *)
(***************************************************************************)
EXTENDS Naturals, Sequences

CONSTANTS
  Slot,            \* the places of the semaphore channel (WORKER_MAX_CONCURRENT_TASKS)
  QueueCap,        \* capacity of triggerCh (100 in the code)
  PollBatch,       \* tasks one poll claims at most (10 in the code)
  MaxDispatch,     \* bound: participants processTask dispatches
  MaxTries,        \* WorkerMaxRetry: runs of one personal summary
  Tasks,           \* bound: Pending tasks
  PersonalPost,    \* bound: the trigger requests for a personal summary
  MetaPost         \* bound: the trigger requests for a team summary

ASSUME ConstantsAssumption ==
  /\ QueueCap \in Nat /\ PollBatch \in Nat /\ MaxDispatch \in Nat
  /\ MaxTries \in Nat \ {0} /\ Tasks \in Nat

VARIABLES
  slot,       \* what runs in each place: [fn, calls still to Submit, try]
  loop,       \* the run loop: "select", "poll", or the Submit it is blocked in
  batch,      \* tasks this poll has claimed
  triggers,   \* triggerCh
  pending,    \* Pending tasks in the database
  req,        \* each trigger request: to come, in the handler, answered 429 or
              \* 200, or taken from the queue
  main        \* "up", "draining" (Stop called, waiting in Drain), "drained", "exited"

vars == <<slot, loop, batch, triggers, pending, req, main>>

Free == [fn |-> "free", calls |-> 0, try |-> 0]
Personal(n) == [fn |-> "personal", calls |-> 0, try |-> n]
Post == PersonalPost \cup MetaPost
Alive == main # "exited"

TypeOK ==
  /\ slot \in [Slot -> [fn : {"free", "task", "personal", "failed"},
                        calls : 0 .. MaxDispatch + 1, try : 0 .. MaxTries]]
  /\ loop \in {"select", "poll", "submitTask", "submitPersonal", "returned"}
  /\ batch \in 0 .. PollBatch
  /\ triggers \in Seq(Post) /\ Len(triggers) <= QueueCap
  /\ pending \in 0 .. Tasks
  /\ req \in [Post -> {"toCome", "handling", "refused", "accepted", "taken"}]
  /\ main \in {"up", "draining", "drained", "exited"}

Init ==
  /\ slot = [s \in Slot |-> Free]
  /\ loop = "select"
  /\ batch = 0
  /\ triggers = <<>>
  /\ pending = Tasks
  /\ req = [k \in Post |-> "toCome"]
  /\ main = "up"

\* Submit's send goes through: f runs in a place that was free.
Submit(f) ==
  \E s \in Slot : slot[s] = Free /\ slot' = [slot EXCEPT ![s] = f]

-----------------------------------------------------------------------------
(* WorkerTrigger                                                           *)

WorkerTrigger(k) ==
  /\ Alive
  /\ req[k] = "toCome"
  /\ req' = [req EXCEPT ![k] = "handling"]
  /\ UNCHANGED <<slot, loop, batch, triggers, pending, main>>

\* Mutant: the select that sends has no default case.
SendOrWait(k) ==
  /\ Alive
  /\ req[k] = "handling"
  /\ Len(triggers) < QueueCap
  /\ triggers' = Append(triggers, k)
  /\ req' = [req EXCEPT ![k] = "accepted"]
  /\ UNCHANGED <<slot, loop, batch, pending, main>>

\* A full queue answers 429.
Answer(k) ==
  /\ Alive
  /\ req[k] = "handling"
  /\ \/ /\ Len(triggers) < QueueCap
        /\ triggers' = Append(triggers, k)
        /\ req' = [req EXCEPT ![k] = "accepted"]
     \/ /\ Len(triggers) = QueueCap
        /\ req' = [req EXCEPT ![k] = "refused"]
        /\ UNCHANGED triggers
  /\ UNCHANGED <<slot, loop, batch, pending, main>>

-----------------------------------------------------------------------------
(* Run                                                                     *)

HandleTrigger ==
  /\ Alive /\ loop = "select"
  /\ triggers # <<>>
  /\ triggers' = Tail(triggers)
  /\ req' = [req EXCEPT ![Head(triggers)] = "taken"]
  /\ loop' = IF Head(triggers) \in PersonalPost THEN "submitPersonal" ELSE "select"
  /\ UNCHANGED <<slot, batch, pending, main>>

SubmitPersonal ==
  /\ Alive /\ loop = "submitPersonal"
  /\ Submit(Personal(1))
  /\ loop' = "select"
  /\ UNCHANGED <<batch, triggers, pending, req, main>>

Tick ==
  /\ Alive /\ loop = "select" /\ pending > 0
  /\ loop' = "poll"
  /\ batch' = 0
  /\ UNCHANGED <<slot, triggers, pending, req, main>>

\* One turn of poll's loop: claim a task and submit it, or be done.
PollClaim ==
  /\ Alive /\ loop = "poll"
  /\ \/ /\ batch < PollBatch /\ pending > 0
        /\ pending' = pending - 1
        /\ batch' = batch + 1
        /\ loop' = "submitTask"
     \/ /\ batch = PollBatch \/ pending = 0
        /\ loop' = "select"
        /\ UNCHANGED <<batch, pending>>
  /\ UNCHANGED <<slot, triggers, req, main>>

SubmitTask ==
  /\ Alive /\ loop = "submitTask"
  /\ \E n \in 0 .. MaxDispatch : Submit([fn |-> "task", calls |-> n, try |-> 0])
  /\ loop' = "poll"
  /\ UNCHANGED <<batch, triggers, pending, req, main>>

\* select chooses among what is ready: stopCh need not win at once.
LoopReturns ==
  /\ loop = "select"
  /\ main = "draining" \/ main = "drained"
  /\ loop' = "returned"
  /\ UNCHANGED <<slot, batch, triggers, pending, req, main>>

-----------------------------------------------------------------------------
(* The functions that run in the pool                                      *)

\* dispatchPersonal from processTask, or the retry from markPersonalFailed: s is
\* kept until another place is free.
NestedSubmit(s) ==
  /\ Alive
  /\ slot[s].calls > 0
  /\ \E q \in Slot :
       /\ slot[q] = Free
       /\ slot' = [slot EXCEPT ![s].calls = @ - 1, ![q] = Personal(slot[s].try + 1)]
  /\ UNCHANGED <<loop, batch, triggers, pending, req, main>>

\* A personal summary fails with tries left: it is submitted again.
PersonalFails(s) ==
  /\ Alive
  /\ slot[s].fn = "personal" /\ slot[s].try < MaxTries
  /\ slot' = [slot EXCEPT ![s].fn = "failed", ![s].calls = 1]
  /\ UNCHANGED <<loop, batch, triggers, pending, req, main>>

\* Mutant: the place is given back at the end of the function, not in a defer, and
\* the failure path returns before it.
ReturnOnSuccess(s) ==
  /\ Alive
  /\ slot[s].fn \notin {"free", "failed"} /\ slot[s].calls = 0
  /\ slot' = [slot EXCEPT ![s] = Free]
  /\ UNCHANGED <<loop, batch, triggers, pending, req, main>>

\* The function returns: the deferred receive frees its place.
Return(s) ==
  /\ Alive
  /\ slot[s].fn # "free" /\ slot[s].calls = 0
  /\ slot' = [slot EXCEPT ![s] = Free]
  /\ UNCHANGED <<loop, batch, triggers, pending, req, main>>

-----------------------------------------------------------------------------
(* Shutdown: proc.Stop(), pool.Drain(), and main returns.                  *)

Stop ==
  /\ main = "up"
  /\ main' = "draining"
  /\ UNCHANGED <<slot, loop, batch, triggers, pending, req>>

\* The wait group counts a Submit from the moment it is called.
WaitGroupZero ==
  /\ \A s \in Slot : slot[s] = Free
  /\ loop \notin {"submitTask", "submitPersonal"}

Drain ==
  /\ main = "draining"
  /\ WaitGroupZero
  /\ main' = "drained"
  /\ UNCHANGED <<slot, loop, batch, triggers, pending, req>>

Exit ==
  /\ main = "drained"
  /\ main' = "exited"
  /\ UNCHANGED <<slot, loop, batch, triggers, pending, req>>

LoopStep == HandleTrigger \/ SubmitPersonal \/ Tick \/ PollClaim \/ SubmitTask

Next ==
  \/ \E k \in Post : WorkerTrigger(k) \/ Answer(k)
  \/ LoopStep \/ LoopReturns
  \/ \E s \in Slot : NestedSubmit(s) \/ PersonalFails(s) \/ Return(s)
  \/ Stop \/ Drain \/ Exit

Spec == Init /\ [][Next]_vars

\* A goroutine that can go on does; the LLM call a personal summary waits for is
\* bounded by its timeout.
Fairness ==
  /\ WF_vars(LoopStep)
  /\ \A k \in Post : WF_vars(Answer(k))
  /\ \A s \in Slot : WF_vars(NestedSubmit(s)) /\ WF_vars(Return(s))
  /\ WF_vars(Drain)

FairSpec == Spec /\ Fairness

-----------------------------------------------------------------------------
(* Properties                                                              *)

\* Every place is held by a function that waits in a Submit of its own.  Nothing
\* frees a place from here on.
Wedged == \A s \in Slot : slot[s].calls > 0

\* Shutdown ends: Drain returns once the work it waits for is done (pool.go:31,
\* pool_test.go:68-75, "Drain did not return in time"), unless the functions of a
\* full pool wait for each other (pool.go:21).  Nothing else holds it up: not the
\* order of the calls, nor the loop's own Submit, nor work that fails.
DrainReturns == (main = "draining") ~> (main # "draining" \/ Wedged)

\* The handler answers whatever the pool and the loop are waiting for, a wedged
\* pool and a full queue included (internal.go:41-46, "trigger queue full").
TriggerIsAnswered ==
  \A k \in Post : (req[k] = "handling") ~> (req[k] # "handling" \/ main = "exited")

\* Work the worker took on is run until it shuts down or the pool is wedged: a
\* trigger it answered 200 for is taken from the queue (processor.go:170-180), and
\* a task claimed from the database, Processing from then on, gets a place
\* (processor.go:241-243).
AcceptedWorkIsRun ==
  /\ \A k \in Post :
       (req[k] = "accepted") ~> (req[k] = "taken" \/ main # "up" \/ Wedged)
  /\ (loop = "submitTask") ~> (loop # "submitTask" \/ main = "exited" \/ Wedged)
=============================================================================
