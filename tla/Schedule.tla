------------------------------ MODULE Schedule ------------------------------
(***************************************************************************)
(* Schedules: whose they are, who takes part, which task they run, and the *)
(* rounds the cron scan starts (internal/worker/scheduler.go,              *)
(* scheduled_replace_helpers.go, internal/model/participant_config.go,     *)
(* internal/api/handler/schedule.go, and the operations of personal.go,    *)
(* task.go and edit.go that reach a schedule).                             *)
(*                                                                         *)
(* InnoDB, REPEATABLE READ.  A handler that locks a schedule is two steps: *)
(* what it reads without a lock, which also fixes what its transaction's   *)
(* plain reads see, then its locked part.  The clock is counted in runs of *)
(* a schedule: next_run_at is the first instant after now (see module      *)
(* Recurrence).  All tasks and schedules have one creator.                 *)
(***************************************************************************)
EXTENDS Naturals, FiniteSets

CONSTANTS
  Member,       \* users, without the creator
  Creator,
  Sched,        \* summary_schedule rows
  Task,         \* summary_task rows, numbers: ORDER BY id
  Scanner,      \* scanPendingSchedules runs that may overlap
  Client,       \* API requests in flight at once
  Kind,         \* subset of RequestKind
  Team,         \* values of FEATURE_TEAM_SCHEDULE that a process may run with
  None,
  MaxNow,       \* bound: the clock
  MaxRequests   \* bound: API requests in a behaviour

RequestKind == {"create", "update", "leave", "add", "delete"}
User == Member \cup {Creator}

ASSUME ConstantsAssumption ==
  /\ IsFiniteSet(Member) /\ Creator \notin Member
  /\ Task \subseteq Nat /\ Task # {} /\ IsFiniteSet(Task)
  /\ None \notin Sched
  /\ Kind \subseteq RequestKind
  /\ Team \subseteq BOOLEAN
  /\ MaxNow \in Nat /\ MaxRequests \in Nat

VARIABLES
  sched, task,       \* the rows
  now,
  scan,              \* Scanner -> its now and the snapshots it has still to claim
  req,               \* Client -> the request in flight
  requests,          \* history: requests so far
  fired,             \* history: Sched -> Instant -> rounds it has started
  said,              \* history: Sched -> users whose confirmation should count
  left,              \* history: Task -> members who left and were not added again
  overtaken          \* history: Task -> a roster request overlapped a departure

tableVars == <<sched, task>>
history   == <<fired, said, left, overtaken>>
vars == <<tableVars, now, scan, req, requests, history>>

Instant == 0 .. MaxNow + 1
Consent == {"no", "asked", "yes"}
Answer == {"no", "Pending", "Accepted", "Declined"}
SchedRow == [st : {"none", "live", "deleted"},
             active : BOOLEAN,                        \* is_active
             auto : BOOLEAN,                          \* confirm_policy
             cfg : [User -> Consent],                 \* participant_config
             next : Instant]                          \* next_run_at
TaskRow == [st : {"none", "live", "deleted"},
            sch : Sched \cup {None},
            status : {"Running", "Completed", "Stopped"},
            part : [User -> Answer]]

NoRequest == [op |-> "free"]
Request == [op : RequestKind, t : Task, s : Sched \cup {None}, u : User,
            peek : Sched \cup {None}, part : [User -> Answer], cfg : [User -> Consent]]

TypeOK ==
  /\ sched \in [Sched -> SchedRow]
  /\ task \in [Task -> TaskRow]
  /\ now \in 0 .. MaxNow
  /\ scan \in [Scanner -> [now : 0 .. MaxNow, todo : SUBSET (Sched \X Instant)]]
  /\ req \in [Client -> {NoRequest} \cup Request]
  /\ requests \in 0 .. MaxRequests
  /\ fired \in [Sched -> [Instant -> Nat]]
  /\ said \in [Sched -> SUBSET User]
  /\ left \in [Task -> SUBSET User]
  /\ overtaken \in [Task -> BOOLEAN]

NoConfig == [u \in User |-> "no"]
NoSched == [st |-> "none", active |-> FALSE, auto |-> TRUE, cfg |-> NoConfig, next |-> 0]
NoTask == [st |-> "none", sch |-> None, status |-> "Running", part |-> [u \in User |-> "no"]]

Live(s) == s # None /\ sched[s].st = "live"
Bound(s) == {t \in Task : task[t].st = "live" /\ task[t].sch = s}
Latest(s) == CHOOSE t \in Bound(s) : \A u \in Bound(s) : u <= t

-----------------------------------------------------------------------------
(* participant_config                                                      *)

\* EffectiveUserIDs
Effective(cfg) == {Creator} \cup {u \in User : cfg[u] # "no"}

\* Who takes part: scheduledAcceptedParticipantCount counts them before anything is
\* written, buildScheduledTaskParticipants materialises them.
Accepted(row) == IF row.auto THEN Effective(row.cfg)
                 ELSE {u \in Effective(row.cfg) : row.cfg[u] = "yes"}

Ask(us) == [u \in User |-> IF u \in us THEN "asked" ELSE "no"]
AskAgain(cfg) == Ask(Effective(cfg))

\* mergeConfirmRoster
MergeRoster(cfg, us) ==
  [u \in User |-> IF u \notin us \cup {Creator} THEN "no"
                  ELSE IF cfg[u] = "no" THEN "asked" ELSE cfg[u]]

\* loadTaskParticipantReqs
Roster(part) == {u \in User : part[u] \notin {"no", "Declined"}}

Single(us) == us \subseteq {Creator}
\* errMultiPersonNotSupported, while team schedules are off.
Allowed(us) == TRUE \in Team \/ Single(us)
Barred(us) == FALSE \in Team /\ ~Single(us)

-----------------------------------------------------------------------------

\* Summaries that have been made already, each with the schedule that CreateSchedule gave
\* it or with none.
Init ==
  /\ \E live \in {{u \in Task : u <= t} : t \in Task}, member \in [Task -> SUBSET Member],
        sch \in [Task -> Sched \cup {None}], auto \in BOOLEAN :
       /\ \A t \in Task : IF t \in live THEN live = Task => sch[t] # None
                          ELSE sch[t] = None /\ member[t] = {}
       /\ \A t, v \in Task : t # v /\ sch[t] # None => sch[t] # sch[v]
       /\ task = [t \in Task |->
            IF t \notin live THEN NoTask
            ELSE [st |-> "live", sch |-> sch[t], status |-> "Completed",
                  part |-> [u \in User |-> IF u \in member[t] \cup {Creator}
                                           THEN "Accepted" ELSE "no"]]]
       /\ sched = [s \in Sched |->
            IF \A t \in live : sch[t] # s THEN NoSched
            ELSE [st |-> "live", active |-> TRUE, auto |-> auto, next |-> 1,
                  cfg |-> Ask({Creator} \cup UNION {member[t] : t \in {t \in live : sch[t] = s}})]]
       /\ requests = Cardinality({t \in live : sch[t] # None}) /\ requests <= MaxRequests
  /\ now = 0
  /\ scan = [w \in Scanner |-> [now |-> 0, todo |-> {}]]
  /\ req = [c \in Client |-> NoRequest]
  /\ fired = [s \in Sched |-> [i \in Instant |-> 0]]
  /\ said = [s \in Sched |-> {}]
  /\ left = [t \in Task |-> {}]
  /\ overtaken = [t \in Task |-> FALSE]

Tick == /\ now < MaxNow
        /\ now' = now + 1
        /\ UNCHANGED <<tableVars, scan, req, requests, history>>

-----------------------------------------------------------------------------
(* The scan                                                                *)

Due(s) == Live(s) /\ sched[s].active /\ sched[s].next <= now

ScanLists(w) ==
  /\ scan[w].todo = {}
  /\ \E s \in Sched : Due(s)
  /\ scan' = [scan EXCEPT ![w] =
       [now |-> now, todo |-> {<<s, sched[s].next>> : s \in {s \in Sched : Due(s)}}]]
  /\ UNCHANGED <<tableVars, now, req, requests, history>>

\* Mutant: the claim trusts its list.
StillListed(s, n, t) == Live(s)

StillDue(s, n, t) == Live(s) /\ sched[s].active /\ sched[s].next = n /\ n <= t

Advance(row, t) == [row EXCEPT !.next = t + 1]

\* The round: the rows of the last one are replaced, the task starts again.
Requeue(t, row) ==
  [task EXCEPT ![t] =
     [@ EXCEPT !.status = "Running",
               !.part = [u \in User |-> IF u \in Accepted(row) THEN "Accepted" ELSE "no"]]]

\* claimAndRequeueScheduledTask.  A row whose recurrence or time range does not resolve
\* is switched off where it stands.  Two branches have no states: the one that makes a
\* task for a schedule without one, by NoOrphanSchedule; and the one for a round that
\* materialised nobody, for what it counts is what was counted under the same lock.
ClaimDue(w, s, n) ==
  /\ <<s, n>> \in scan[w].todo
  /\ scan' = [scan EXCEPT ![w].todo = @ \ {<<s, n>>}]
  /\ LET row     == sched[s]
         advance == sched' = [sched EXCEPT ![s] = Advance(@, scan[w].now)]
         count   == fired' = [fired EXCEPT ![s][n] = IF @ = 2 THEN 2 ELSE @ + 1]
     IN  \/ ~StillDue(s, n, scan[w].now) /\ UNCHANGED <<tableVars, fired>>
         \/ /\ StillDue(s, n, scan[w].now)
            /\ \/ sched' = [sched EXCEPT ![s].active = FALSE] /\ UNCHANGED <<task, fired>>
               \/ Accepted(row) = {} /\ advance /\ UNCHANGED <<task, fired>>
               \/ /\ Accepted(row) # {}
                  /\ Barred(Effective(row.cfg))
                  /\ sched' = [sched EXCEPT ![s] = [Advance(@, scan[w].now) EXCEPT !.active = FALSE]]
                  /\ UNCHANGED <<task, fired>>
               \/ /\ Accepted(row) # {}
                  /\ Allowed(Effective(row.cfg))
                  /\ advance
                  /\ \/ /\ Bound(s) # {} /\ task[Latest(s)].status = "Running"
                        /\ UNCHANGED <<task, fired>>
                     \/ /\ Bound(s) # {} /\ task[Latest(s)].status # "Running"
                        /\ task' = Requeue(Latest(s), row)
                        /\ count
  /\ UNCHANGED <<now, req, requests, said, left, overtaken>>

\* The database gives the transaction up (InnoDB deadlock, lost connection): nothing of
\* the claim is kept, not even the advance.
ClaimFails(w, s, n) ==
  /\ <<s, n>> \in scan[w].todo
  /\ scan' = [scan EXCEPT ![w].todo = @ \ {<<s, n>>}]
  /\ UNCHANGED <<tableVars, now, req, requests, history>>

-----------------------------------------------------------------------------
(* The task                                                                *)

RunEnds(t) ==
  /\ task[t].st = "live" /\ task[t].status = "Running"
  /\ \E st \in {"Completed", "Stopped"} : task' = [task EXCEPT ![t].status = st]
  /\ UNCHANGED <<sched, now, scan, req, requests, history>>

-----------------------------------------------------------------------------
(* Requests                                                                *)

NewRequest == requests < MaxRequests /\ requests' = requests + 1

\* What a handler reads before its locks: the binding, the participants, and, for
\* an update, the schedule.
Begin(c, op, t, s, u) ==
  /\ op \in Kind
  /\ NewRequest
  /\ req[c].op = "free"
  /\ task[t].st = "live"
  /\ req' = [req EXCEPT ![c] = [op |-> op, t |-> t, s |-> s, u |-> u,
                                peek |-> task[t].sch, part |-> task[t].part,
                                cfg |-> IF s = None THEN NoConfig ELSE sched[s].cfg]]
  /\ UNCHANGED <<tableVars, now, scan, history>>

BeginCreate(c, t) == Begin(c, "create", t, None, Creator)
BeginUpdate(c, t, s) == Live(s) /\ Begin(c, "update", t, s, Creator)
BeginDelete(c, t) == Begin(c, "delete", t, None, Creator)
\* Leave by the member, RemoveMember by the creator.
BeginLeave(c, t, u) == task[t].part[u] # "no" /\ Begin(c, "leave", t, None, u)
BeginAdd(c, t, u) == task[t].status # "Stopped" /\ Begin(c, "add", t, None, u)

Done(c) == req' = [req EXCEPT ![c] = NoRequest]

\* The creator's request names these users, or sees them in the task's roster while its
\* schedule runs other tasks too: they have not left any more.
BroughtIn(t, s, named, seen) ==
  [x \in Task |-> IF x = t THEN left[x] \ named
                  ELSE IF Live(s) /\ task[x].sch = s THEN left[x] \ (named \cup seen)
                  ELSE left[x]]

\* errRebindConcurrentModified and the other refusals: nothing is written.
Refuse(c) ==
  /\ req[c].op # "free"
  /\ Done(c)
  /\ UNCHANGED <<tableVars, now, scan, requests, history>>

\* A schedule of the task that is not s.
Other(s, x) == IF x = s THEN None ELSE x

\* Mutant: the binding is not read again under the task's lock.
BindingUnread(c, s) == TRUE

\* The binding is still the one whose schedule was locked.
BindingHolds(c, s) == Other(s, task[req[c].t].sch) = Other(s, req[c].peek)

TaskLive(c) == task[req[c].t].st = "live"
TaskCanBind(c) == TaskLive(c) /\ Allowed({u \in User : task[req[c].t].part[u] # "no"})

\* CreateSchedule; the row of a live schedule the task has is used again.
CreateSchedule(c) ==
  /\ req[c].op = "create"
  /\ TaskCanBind(c) /\ BindingHolds(c, None)
  /\ LET t     == req[c].t
         parts == Roster(req[c].part)
         reuse == Live(req[c].peek)
     IN  \E s \in Sched, auto \in BOOLEAN :
           /\ IF reuse THEN s = req[c].peek ELSE sched[s].st = "none"
           /\ sched' = [sched EXCEPT ![s] =
                [st |-> "live", active |-> TRUE, auto |-> auto, next |-> now + 1,
                 cfg |-> Ask(IF auto THEN parts ELSE parts \cup {Creator})]]
           /\ task' = [task EXCEPT ![t].sch = s]
           /\ said' = [said EXCEPT ![s] = {}]
           /\ left' = BroughtIn(t, s, {}, parts)
  /\ Done(c)
  /\ UNCHANGED <<now, scan, requests, fired, overtaken>>

\* Mutant: the roster is merged with the configuration read before the lock.
MergeStale(c, row, us) == MergeRoster(req[c].cfg, us)

MergeLocked(c, row, us) == MergeRoster(row.cfg, us)

\* The confirm-state part of UpdateSchedule: what becomes of the configuration under
\* the policy, given the participants sent (or None) and those of the task.
UpdatedConfig(c, row, auto, sent, scoped) ==
  LET parts  == IF scoped THEN Roster(req[c].part) ELSE {}
      roster == IF sent # None THEN sent \cup parts ELSE parts
      known  == sent # None \/ parts # {}
      kept   == IF known THEN MergeLocked(c, row, roster)
                ELSE MergeRoster(row.cfg, Effective(row.cfg))
  IN  IF auto THEN IF known THEN Ask(roster) ELSE row.cfg
      ELSE IF row.auto THEN AskAgain(kept) ELSE kept

\* The rows an update writes: the schedule's, the task's binding if it is scoped to the
\* task, and the schedule the task leaves, which goes when nothing else is bound to it.
UpdateRows(c, auto, sent, scoped) ==
  LET t    == req[c].t
      s    == req[c].s
      row  == sched[s]
      old  == Other(s, req[c].peek)
      bare == scoped /\ Live(old) /\ Bound(old) \subseteq {t}
      cfg  == UpdatedConfig(c, row, auto, sent, scoped)
      keep == {u \in said[s] : cfg[u] = "yes" \/ (~auto /\ ~row.auto /\ cfg[u] # "no")}
  IN  /\ \E n \in {row.next, now + 1} :
           sched' = [x \in Sched |->
             IF x = s THEN [row EXCEPT !.auto = auto, !.cfg = cfg, !.next = n]
             ELSE IF x = old /\ bare THEN [sched[x] EXCEPT !.st = "deleted"]
             ELSE sched[x]]
      /\ task' = IF scoped THEN [task EXCEPT ![t].sch = s] ELSE task
      /\ said' = [said EXCEPT ![s] = keep]
      /\ left' = BroughtIn(t, s,
           (IF sent # None THEN sent ELSE {})
             \cup (IF scoped /\ task[t].sch # s THEN Effective(row.cfg) ELSE {}),
           IF scoped THEN Roster(req[c].part) ELSE {})

\* UpdateSchedule: scoped to a task, which it may take over from another schedule,
\* or to the schedule alone.
UpdateSchedule(c) ==
  /\ req[c].op = "update"
  /\ Live(req[c].s)
  /\ \E auto \in BOOLEAN, sent \in {None} \cup SUBSET Member, scoped \in BOOLEAN :
       /\ IF scoped THEN TaskCanBind(c) /\ BindingHolds(c, req[c].s)
                    ELSE Bound(req[c].s) # {}
       /\ Allowed(IF sent # None THEN sent
                  ELSE IF scoped THEN Effective(sched[req[c].s].cfg) ELSE {})
       /\ UpdateRows(c, auto, sent, scoped)
  /\ Done(c)
  /\ UNCHANGED <<now, scan, requests, fired, overtaken>>

\* Mutant: the schedule keeps whoever leaves.
KeepConfigured(s, u) == sched

\* stripScheduleParticipant
Strip(s, u) == [sched EXCEPT ![s].cfg[u] = "no"]

\* The member's rows go, and a completed summary is made again without them.
Departed(t, u, tasks) ==
  [x \in Task |->
     [task[x] EXCEPT !.part[u] = IF x \in tasks THEN "no" ELSE @,
                     !.status = IF x = t /\ @ = "Completed" THEN "Running" ELSE @]]

\* Leave, RemoveMember: the rows of every round of the schedule that was peeked at.
Leave(c) ==
  /\ req[c].op = "leave"
  /\ LET t == req[c].t
         u == req[c].u
         s == req[c].peek
     IN  /\ task' = Departed(t, u, IF s = None THEN {t} ELSE Bound(s))
         /\ sched' = IF Live(s) THEN Strip(s, u) ELSE sched
         /\ said' = IF Live(s) THEN [said EXCEPT ![s] = @ \ {u}] ELSE said
         /\ left' = [left EXCEPT ![t] = @ \cup {u}]
         /\ overtaken' = [overtaken EXCEPT ![t] =
              @ \/ task[t].sch # s
                \/ \E d \in Client \ {c} : req[d].op \in {"create", "update", "add"}]
  /\ Done(c)
  /\ UNCHANGED <<now, scan, requests, fired>>

\* AddMembers: a schedule that ran without asking asks from now on.
AddMember(c) ==
  /\ req[c].op = "add"
  /\ LET t == req[c].t
         u == req[c].u
         s == req[c].peek
         new == req[c].part[u] = "no"
     IN  /\ sched' = IF new /\ Live(s) /\ sched[s].cfg[u] = "no"
                     THEN [sched EXCEPT ![s].cfg[u] = "asked", ![s].auto = FALSE]
                     ELSE sched
         /\ task' = IF new /\ task[t].part[u] = "no"
                    THEN [task EXCEPT ![t].part[u] = "Pending"] ELSE task
         /\ left' = IF new THEN BroughtIn(t, s, {u}, {}) ELSE left
  /\ Done(c)
  /\ UNCHANGED <<now, scan, requests, fired, said, overtaken>>

Deleted(tasks) ==
  [t \in Task |-> IF t \in tasks THEN [task[t] EXCEPT !.st = "deleted"] ELSE task[t]]

\* DeleteSummary: with its schedule goes every task of it.
DeleteSummary(c) ==
  /\ req[c].op = "delete"
  /\ TaskLive(c) /\ BindingHolds(c, None)
  /\ LET s == req[c].peek
         gone == IF Live(s) THEN Bound(s) ELSE {req[c].t}
     IN  /\ task' = Deleted(gone)
         /\ sched' = IF Live(s) THEN [sched EXCEPT ![s].st = "deleted"] ELSE sched
  /\ Done(c)
  /\ UNCHANGED <<now, scan, requests, history>>

Commit(c) == \/ CreateSchedule(c) \/ UpdateSchedule(c) \/ Leave(c) \/ AddMember(c)
             \/ DeleteSummary(c)

-----------------------------------------------------------------------------
(* Requests that read nothing they rely on before their lock               *)

ConfirmSchedule(s, u) ==
  /\ NewRequest
  /\ Live(s) /\ u \in Effective(sched[s].cfg)
  /\ ~sched[s].auto
  /\ sched' = [sched EXCEPT ![s].cfg[u] = "yes"]
  /\ said' = [said EXCEPT ![s] = @ \cup {u}]
  /\ UNCHANGED <<task, now, scan, req, fired, left, overtaken>>

Resumed(row) == [row EXCEPT !.active = TRUE, !.next = now + 1,
                           !.cfg = IF row.auto THEN @ ELSE AskAgain(@)]

\* ToggleSchedule: a schedule that asks asks everybody again when it is resumed.
Resume(s) ==
  /\ NewRequest
  /\ Live(s) /\ ~sched[s].active
  /\ Bound(s) # {}
  /\ Allowed(Effective(sched[s].cfg))
  /\ sched' = [sched EXCEPT ![s] = Resumed(sched[s])]
  /\ said' = IF sched[s].auto THEN said ELSE [said EXCEPT ![s] = {}]
  /\ UNCHANGED <<task, now, scan, req, fired, left, overtaken>>

\* ToggleSchedule, and EditSummary on a completed task of the schedule.
Pause(s) ==
  /\ NewRequest
  /\ Live(s) /\ sched[s].active
  /\ sched' = [sched EXCEPT ![s].active = FALSE]
  /\ UNCHANGED <<task, now, scan, req, history>>

DeleteSchedule(s) ==
  /\ NewRequest
  /\ Live(s)
  /\ sched' = [sched EXCEPT ![s].st = "deleted"]
  /\ task' = Deleted(Bound(s))
  /\ UNCHANGED <<now, scan, req, history>>

Next ==
  \/ Tick
  \/ \E w \in Scanner : ScanLists(w)
  \/ \E w \in Scanner, s \in Sched, n \in Instant : ClaimDue(w, s, n) \/ ClaimFails(w, s, n)
  \/ \E t \in Task : RunEnds(t)
  \/ \E c \in Client, t \in Task : BeginCreate(c, t) \/ BeginDelete(c, t)
  \/ \E c \in Client, t \in Task, s \in Sched : BeginUpdate(c, t, s)
  \/ \E c \in Client, t \in Task, u \in Member : BeginLeave(c, t, u) \/ BeginAdd(c, t, u)
  \/ \E c \in Client : Commit(c) \/ Refuse(c)
  \/ \E s \in Sched, u \in User : ConfirmSchedule(s, u)
  \/ \E s \in Sched : Resume(s) \/ Pause(s) \/ DeleteSchedule(s)

Spec == Init /\ [][Next]_vars

-----------------------------------------------------------------------------
(* Properties                                                              *)

\* An instant starts one round at most, though scans overlap and lists are stale
\* (scheduler.go:78-81, the claim re-reads and advances under the row lock).
OncePerInstant == \A s \in Sched, n \in Instant : fired[s][n] <= 1

\* A live schedule has a live task: no schedule goes on running for a task that was
\* deleted or taken over, which would make a task nobody asked for.
NoOrphanSchedule == \A s \in Sched : Live(s) => Bound(s) # {}

\* A confirmation counts until it is asked for again: it is neither lost in another
\* request's merge nor does it outlive a departure.
ConfirmationsCount ==
  \A s \in Sched : Live(s) /\ ~sched[s].auto =>
    {u \in User : sched[s].cfg[u] = "yes"} = said[s]

\* Who has left is not materialised again: neither a row of the task nor the
\* configuration of its schedule names them (personal.go:1724-1726), unless a request
\* that read the roster before they left was still under way.
LeaversStayOut ==
  \A t \in Task, u \in Member : u \in left[t] /\ task[t].st = "live" /\ ~overtaken[t] =>
    /\ task[t].part[u] = "no"
    /\ (Live(task[t].sch) => sched[task[t].sch].cfg[u] = "no")
=============================================================================
