------------------------------ MODULE Versions ------------------------------
(***************************************************************************)
(* The versions of one task's summary and of one member's personal         *)
(* summary: writing, editing, refining, restoring, pruning and showing     *)
(* them (internal/service/summary.go, internal/api/handler/edit.go,        *)
(* personal_refine.go, result_select.go, the completion of a personal run  *)
(* in internal/worker/personal_processor.go, and what Regenerate and the   *)
(* schedule's requeue do to versions).                                     *)
(*                                                                         *)
(* One counter numbers rows and texts; a text is the number drawn when it  *)
(* was written, 0 the empty one.                                           *)
(* A handler is two steps: what it reads before its transaction (also for  *)
(* the minutes of an LLM call), and the transaction, which locks the task  *)
(* or the personal row and then reads again.                               *)
(***************************************************************************)
EXTENDS Naturals, FiniteSets, FiniteSetsExt

CONSTANTS
  Client,      \* slow API requests in flight at once
  Run,         \* personal runs in flight at once
  Keep,        \* SummaryResultVersionKeepLimit, PersonalResultVersionKeepLimit
  None,
  MaxId        \* bound: numbers drawn in a behaviour

\* A baseline and the text that replaces it are kept together (both limits are 5).
ASSUME ConstantsAssumption ==
  /\ Keep \in Nat /\ Keep > 1
  /\ MaxId \in Nat \ {0}
  /\ None \notin Nat

VARIABLES
  multi,    \* the task has several participants
  status,   \* summary_task.status
  team,     \* summary_result rows of the task
  shown,    \* current_result_id
  mine,     \* summary_personal_result_version rows of the member
  pr,       \* the summary_personal_result row
  draft,    \* the last text PersonalDraft wrote: history, never read by a step
  ids,      \* numbers drawn so far, AUTO_INCREMENT of the tables
  req, run  \* in flight

rows == <<status, team, shown, mine, pr>>
vars == <<multi, rows, draft, ids, req, run>>

Id == 0 .. MaxId
TeamRow == [id : Id, ver : Nat, text : Id, edited : BOOLEAN]
Version == [id : Id, ver : Nat, text : Id]

Pointer == Id \cup {None}

\* What a personal write has read, the requests and the runs in flight.
Base == [id : Id, text : Id, cur : Pointer]
Request ==
  [op : {"free"}]
    \cup [op : {"editTeam"}, row : Id, id : Id]
    \cup [op : {"refineTeam", "restoreTeam"}, row : Id]
    \cup [op : {"edit"}, base : Base]
    \cup [op : {"restore"}, base : Base, source : Id]
    \cup [op : {"refine"}, id : Id, ver : Nat]
    \cup [op : {"draft", "submit", "regenerate"}, id : Id]
InFlight ==
  [pc : {"none"}]
    \cup [pc : {"work"}, row : Id, cur : Pointer]
    \cup [pc : {"complete"}, row : Id, text : Pointer]
Idle == [op |-> "free"]
NoRun == [pc |-> "none"]

\* A summary_personal_result row.
PersonalRow == [id : Id, ws : {"Pending", "Completed", "Failed"}, text : Id,
                sub : BOOLEAN, edited : BOOLEAN, cur : Pointer]
Status == {"Completed", "Working", "Stopped"}

TypeOK ==
  /\ multi \in BOOLEAN
  /\ status \in Status
  /\ team \subseteq TeamRow /\ mine \subseteq Version
  /\ shown \in Pointer
  /\ pr \in PersonalRow
  /\ draft \in Id /\ ids \in Id
  /\ req \in [Client -> Request]
  /\ run \in [Run -> InFlight]

-----------------------------------------------------------------------------
(* internal/service/summary.go                                             *)

\* GetNextVersion, GetNextPersonalVersion
NextVersion(vs) == Max({v.ver : v \in vs} \cup {0}) + 1

Newer(vs, v) == {w \in vs : w.ver > v.ver}
Newest(vs) == {v \in vs : Cardinality(Newer(vs, v)) < Keep}
Latest(vs) == CHOOSE v \in vs : \A w \in vs : w.ver <= v.ver
Named(vs, i) == CHOOSE v \in vs : v.id = i
Has(vs, i) == \E v \in vs : v.id = i

\* Mutant: edited rows are pruned like others.
PruneEdited(vs, current) == {v \in vs : v \in Newest(vs) \/ v.id = current}

\* PruneSummaryResultVersions
PruneTeam(vs, current) == {v \in vs : v \in Newest(vs) \/ v.id = current \/ v.edited}

\* PrunePersonalResultVersions
PruneMine(vs, current) == {v \in vs : v \in Newest(vs) \/ v.id = current}

\* queryDisplayResult
Displayed == IF Has(team, shown) THEN Named(team, shown) ELSE Latest(team)
CanDisplay == team # {}

-----------------------------------------------------------------------------
(* Versions of the personal text                                           *)

\* createPersonalVersionSnapshot, with the version's id already drawn.
Snapshot(vs, i, t) == vs \cup {[id |-> i, ver |-> NextVersion(vs), text |-> t]}

\* The version a baseline compares with: the current one, or the latest.
Compared == IF Has(mine, pr.cur) THEN Named(mine, pr.cur) ELSE Latest(mine)

\* personalCanonicalDiffersFromVersion
Differs == pr.edited /\ pr.text # Compared.text

\* Mutant: a text whose version is known needs no snapshot, edited or not.
SnapshotIfFirst == mine = {}

\* ensurePersonalVersionBaseline writes a snapshot of the text as it is.
NeedsBaseline == mine = {} \/ Differs

Baseline(i) == IF NeedsBaseline THEN Snapshot(mine, i, pr.text) ELSE mine
BaselineDraws == IF NeedsBaseline THEN 1 ELSE 0
BaselineCur(i) == IF NeedsBaseline THEN i ELSE Compared.id

\* currentPersonalVersion
CurrentVersion == IF Has(mine, pr.cur) THEN Named(mine, pr.cur).ver
                  ELSE IF mine = {} /\ pr.text # 0 THEN 1 ELSE NextVersion(mine) - 1

\* Numbers drawn; the first is that of the text written.
Draw(n) == ids + n <= MaxId /\ ids' = ids + n
New == ids + 1

\* reviveCompletedForRecompute
Revive(st) == IF st = "Completed" THEN "Working" ELSE st

\* The team row with a new text in place.
WithText(i, t) == {IF v.id = i THEN [v EXCEPT !.text = t, !.edited = TRUE] ELSE v : v \in team}

\* syncSinglePersonalDisplay
SyncDisplay(t) == WithText(shown, t)

\* After a personal text has changed: several participants need a new team summary, a
\* single one sees the text itself.
Publish(t) ==
  IF multi THEN status' = Revive(status) /\ UNCHANGED team
  ELSE team' = SyncDisplay(t) /\ UNCHANGED status

-----------------------------------------------------------------------------

\* A first round is at its start or has ended; a task saved from the agent has a submitted
\* text and no team row.
Started == [id |-> 1, ws |-> "Pending", text |-> 0, sub |-> FALSE, edited |-> FALSE, cur |-> None]
Ended(submitted) ==
  [id |-> 1, ws |-> "Completed", text |-> 1, sub |-> submitted, edited |-> FALSE, cur |-> 1]

Init ==
  /\ multi \in BOOLEAN
  /\ \/ /\ status = "Working" /\ pr = Started
        /\ team = {} /\ shown = None /\ mine = {}
     \/ /\ status = "Completed" /\ pr = Ended(multi)
        /\ team = {[id |-> 1, ver |-> 1, text |-> 1, edited |-> FALSE]} /\ shown = 1
        /\ mine = {[id |-> 1, ver |-> 1, text |-> 1]}
     \/ /\ ~multi /\ status = "Completed" /\ pr = Ended(TRUE)
        /\ team = {} /\ shown = None /\ mine = {[id |-> 1, ver |-> 1, text |-> 1]}
  /\ draft = 0 /\ ids = 1
  /\ req = [c \in Client |-> Idle]
  /\ run = [r \in Run |-> NoRun]

-----------------------------------------------------------------------------
(* Requests: what is read before the transaction                           *)

TeamRequests ==
  IF status # "Completed" \/ ~CanDisplay THEN {}
  ELSE {[op |-> "editTeam", row |-> Displayed.id, id |-> pr.id],
        [op |-> "refineTeam", row |-> Displayed.id]}
       \cup {[op |-> "restoreTeam", row |-> v.id] : v \in team}

\* What checkPersonalWriteBaseline compares again.
Read == [id |-> pr.id, text |-> pr.text, cur |-> pr.cur]

MyRequests ==
  LET able == [edit       |-> pr.ws # "Pending",
               refine     |-> status = "Completed" /\ pr.ws = "Completed" /\ pr.text # 0,
               restore    |-> status = "Completed",
               regenerate |-> status = "Completed" /\ multi /\ pr.ws # "Pending"]
  IN  {q \in {[op |-> "edit", base |-> Read],
              [op |-> "refine", id |-> pr.id, ver |-> CurrentVersion],
              [op |-> "regenerate", id |-> pr.id]}
             \cup {[op |-> "restore", base |-> Read, source |-> v.id] : v \in mine}
         : able[q.op]}

\* (A single person's submission only keeps drafts out: it is left out.)
UnsubmittedRequests ==
  IF pr.ws = "Completed" /\ ~pr.sub
  THEN {[op |-> "draft", id |-> pr.id]} \cup
         IF multi THEN {[op |-> "submit", id |-> pr.id]} ELSE {}
  ELSE {}

Arriving == TeamRequests \cup MyRequests \cup UnsubmittedRequests

\* A slow request, an LLM call for example: it keeps what it has read.  (A draft reads all of
\* it again, so a slow one is a late one.)
Begin(c) ==
  /\ req[c] = Idle
  /\ \E q \in Arriving : q.op # "draft" /\ req' = [req EXCEPT ![c] = q]
  /\ UNCHANGED <<multi, rows, draft, ids, run>>

\* A conflict or an error: nothing is written.
Refuse(c) ==
  /\ req[c] # Idle
  /\ req' = [req EXCEPT ![c] = Idle]
  /\ UNCHANGED <<multi, rows, draft, ids, run>>

\* The requests of a kind that reach their transaction: slow ones, and those that nothing
\* comes in between.
Asked(op) == {q \in Arriving \cup {req[c] : c \in Client} : q.op = op}
Answer(q) ==
  /\ \/ \E c \in Client : req[c] = q /\ req' = [req EXCEPT ![c] = Idle]
     \/ q \in Arriving /\ UNCHANGED req
  /\ UNCHANGED <<multi, run>>

-----------------------------------------------------------------------------
(* The team summary                                                        *)

\* The row is edited in place; with one participant the personal text follows.
EditSummary == \E q \in Asked("editTeam") :
  /\ Answer(q)
  /\ Has(team, q.row) /\ status = "Completed"
  /\ team' = WithText(q.row, New)
  /\ pr' = IF ~multi /\ pr.id = q.id
            THEN [pr EXCEPT !.text = New, !.edited = TRUE] ELSE pr
  /\ Draw(1)
  /\ UNCHANGED <<status, shown, mine, draft>>

AddTeamVersion(t) ==
  LET i == ids + 1
  IN  /\ Draw(1)
      /\ shown' = i
      /\ team' = PruneTeam(team \cup {[id |-> i, ver |-> NextVersion(team), text |-> t,
                                       edited |-> FALSE]}, i)

\* RefineSummary, RefineSummaryStream
RefineSummary == \E q \in Asked("refineTeam") :
  /\ Answer(q)
  /\ status = "Completed"
  /\ CanDisplay /\ Displayed.id = q.row
  /\ AddTeamVersion(New)
  /\ UNCHANGED <<status, mine, pr, draft>>

\* The version was looked up before the transaction, and is not looked up again.
RestoreSummaryVersion == \E q \in Asked("restoreTeam") :
  /\ Answer(q)
  /\ status = "Completed"
  /\ shown' = q.row
  /\ UNCHANGED <<status, team, mine, pr, ids, draft>>

-----------------------------------------------------------------------------
(* The personal summary                                                    *)

\* checkPersonalWriteBaseline
Baselined(q) == q.base = Read

\* A new text and its version, after a baseline of the old text.
Rewrite ==
  LET i == ids + BaselineDraws + 1
  IN  /\ mine' = PruneMine(Snapshot(Baseline(New), i, New), i)
      /\ pr' = [pr EXCEPT !.text = New, !.edited = TRUE, !.cur = i]
      /\ Draw(BaselineDraws + 1)

PersonalEdit == \E q \in Asked("edit") :
  /\ Answer(q)
  /\ status = "Working" => multi
  /\ Baselined(q) /\ pr.ws # "Pending"
  /\ Rewrite
  /\ Publish(New)
  /\ UNCHANGED <<shown, draft>>

\* The member writes on before submitting, while no team summary has ever been there: no
\* version and no edited_at, so that a later baseline does not see it.
PersonalDraft == \E q \in Asked("draft") :
  /\ Answer(q)
  /\ pr.id = q.id /\ pr.ws = "Completed" /\ ~pr.sub
  /\ team = {}
  /\ pr' = [pr EXCEPT !.text = New] /\ draft' = New
  /\ Draw(1)
  /\ UNCHANGED <<status, team, shown, mine>>

\* By the member, or by the end of a scheduled or regenerated run (back-fill); worker_status
\* is not looked at again.
Submit == \E q \in Asked("submit") :
  /\ Answer(q)
  /\ pr.id = q.id /\ ~pr.sub
  /\ pr' = [pr EXCEPT !.sub = TRUE]
  /\ status' = Revive(status)
  /\ UNCHANGED <<team, shown, mine, draft, ids>>

\* RefinePersonalSummary, RefinePersonalSummaryStream
RefinePersonalSummary == \E q \in Asked("refine") :
  /\ Answer(q)
  /\ status = "Completed"
  /\ pr.id = q.id /\ pr.ws = "Completed" /\ pr.text # 0
  /\ CurrentVersion = q.ver
  /\ Rewrite
  /\ Publish(New)
  /\ UNCHANGED <<shown, draft>>

\* Mutant: the version is not looked up again under the lock.
SourceUnread(i) == TRUE

SourceExists(i) == Has(mine, i)

RestorePersonalVersion == \E q \in Asked("restore") :
  /\ Answer(q)
  /\ status = "Completed"
  /\ Baselined(q) /\ pr.ws # "Pending"
  /\ LET i == q.source
         t == IF Has(mine, i) THEN Named(mine, i).text ELSE 0
     IN  /\ SourceExists(i)
         /\ mine' = Baseline(New)
         /\ pr' = [pr EXCEPT !.ws = "Completed", !.text = t, !.edited = TRUE, !.cur = i]
         /\ Publish(t)
  /\ Draw(BaselineDraws)
  /\ UNCHANGED <<shown, draft>>

Cleared(cur) ==
  [pr EXCEPT !.ws = "Pending", !.text = 0, !.sub = FALSE, !.edited = FALSE, !.cur = cur]

RegeneratePersonalSummary == \E q \in Asked("regenerate") :
  /\ Answer(q)
  /\ status = "Completed"
  /\ pr.id = q.id /\ pr.ws # "Pending"
  /\ mine' = Baseline(New)
  /\ pr' = Cleared(BaselineCur(New))
  /\ Draw(BaselineDraws)
  /\ UNCHANGED <<status, team, shown, draft>>

-----------------------------------------------------------------------------
(* A new round                                                             *)

\* Regenerate: only a text that is there gets a baseline.
Regenerate ==
  /\ status # "Working"
  /\ status' = "Working"
  /\ \/ pr.text # 0 /\ mine' = Baseline(New) /\ pr' = Cleared(BaselineCur(New))
        /\ Draw(BaselineDraws)
     \/ pr.text = 0 /\ pr' = Cleared(pr.cur) /\ UNCHANGED <<mine, ids>>
  /\ UNCHANGED <<multi, team, shown, req, run, draft>>

\* preservePersonalResultVersionsBeforeRequeue, then the rows are made anew.
Requeue ==
  /\ status # "Working"
  /\ status' = "Working"
  /\ LET stored == mine # {} /\ Latest(mine).text = pr.text
     IN  mine' = IF pr.text = 0 \/ stored THEN mine
                 ELSE PruneMine(Snapshot(mine, New, pr.text), New)
  /\ pr' = [Started EXCEPT !.id = New]
  /\ Draw(1)
  /\ UNCHANGED <<multi, team, shown, req, run, draft>>

-----------------------------------------------------------------------------
(* Personal runs                                                           *)

EndRun(r) == run' = [run EXCEPT ![r] = NoRun]

\* A run that is still there when its row is regenerated is a stale one.
StartRun(r) ==
  /\ run[r].pc = "none" /\ pr.ws = "Pending"
  /\ run' = [run EXCEPT ![r] = [pc |-> "work", row |-> pr.id, cur |-> pr.cur]]
  /\ UNCHANGED <<multi, rows, draft, ids, req>>

\* The row this run was started for is gone.
RowGone(r) ==
  /\ run[r].pc # "none" /\ run[r].row # pr.id
  /\ EndRun(r)
  /\ UNCHANGED <<multi, rows, draft, ids, req>>

\* persistCompletedPersonalResult
PersistNew(r) ==
  /\ run[r].pc = "work" /\ run[r].row = pr.id
  /\ LET i == ids + 1
     IN  /\ mine' = PruneMine(Snapshot(mine, i, New), i)
         /\ pr' = [pr EXCEPT !.ws = "Completed", !.text = New, !.cur = i]
  /\ Draw(1)
  /\ run' = [run EXCEPT ![r] = [pc |-> "complete", row |-> pr.id, text |-> New]]
  /\ UNCHANGED <<multi, status, team, shown, req, draft>>

\* The same when there was nothing new to summarise: the latest version stays.
PersistNothing(r) ==
  /\ run[r].pc = "work" /\ run[r].row = pr.id
  /\ pr' = IF mine = {} THEN [pr EXCEPT !.ws = "Completed"]
           ELSE [pr EXCEPT !.ws = "Completed", !.text = Latest(mine).text, !.cur = Latest(mine).id]
  /\ run' = [run EXCEPT ![r] = [pc |-> "complete", row |-> pr.id, text |-> None]]
  /\ UNCHANGED <<multi, status, team, shown, mine, ids, req, draft>>

\* shouldSkipScheduledPlaceholderResult
IsNew(t) == t # None

\* saveLatestResultAndCompleteTask, completeTaskWithoutNewResult of a single person.
Complete(r) ==
  /\ run[r].pc = "complete"
  /\ EndRun(r)
  /\ \/ /\ ~multi /\ status = "Working"
        /\ status' = "Completed"
        /\ IF IsNew(run[r].text) THEN AddTeamVersion(run[r].text)
           ELSE UNCHANGED <<team, shown, ids>>
     \/ (multi \/ status # "Working") /\ UNCHANGED <<status, team, shown, ids>>
  /\ UNCHANGED <<multi, mine, pr, req, draft>>

\* saveLatestResultAndCompleteTask of the team summary.
TeamSummary ==
  /\ multi /\ status = "Working"
  /\ pr.sub \/ pr.ws = "Failed"
  /\ status' = "Completed"
  /\ AddTeamVersion(New)
  /\ UNCHANGED <<multi, mine, pr, req, run, draft>>

\* markPersonalFailed, the last try: the text before the regeneration is shown again, as
\* the run has read which one that was.
FailRun(r) ==
  /\ run[r].pc = "work" /\ run[r].row = pr.id
  /\ EndRun(r)
  /\ LET known == IF run[r].cur # None THEN {v \in mine : v.id = run[r].cur} ELSE mine
     IN  pr' = IF known = {} THEN [pr EXCEPT !.ws = "Failed"]
               ELSE [pr EXCEPT !.ws = "Failed", !.text = Latest(known).text,
                               !.cur = Latest(known).id]
  /\ status' = IF ~multi /\ status = "Working" THEN "Stopped" ELSE status
  /\ UNCHANGED <<multi, team, shown, mine, ids, req, draft>>

CancelSummary ==
  /\ status = "Working"
  /\ status' = "Stopped"
  /\ UNCHANGED <<multi, team, shown, mine, pr, ids, req, run, draft>>

Next ==
  \/ \E c \in Client : Begin(c) \/ Refuse(c)
  \/ EditSummary \/ RefineSummary \/ RestoreSummaryVersion
  \/ PersonalEdit \/ PersonalDraft \/ Submit \/ RefinePersonalSummary \/ RestorePersonalVersion
  \/ RegeneratePersonalSummary
  \/ Regenerate \/ Requeue \/ CancelSummary \/ TeamSummary
  \/ \E r \in Run : StartRun(r) \/ RowGone(r) \/ PersistNew(r) \/ PersistNothing(r)
  \/ \E r \in Run : Complete(r) \/ FailRun(r)

Spec == Init /\ [][Next]_vars

-----------------------------------------------------------------------------
(* Properties                                                              *)

\* The member's current version exists, whatever was pruned between the reads of a
\* request and its transaction (service/summary.go:343-346, "the current_version_id
\* pointer is always retained, including after restoring an older version").
CurrentVersionExists == pr.cur # None => Has(mine, pr.cur)

\* Pruning takes old generated versions only: never one of the newest, the one shown, nor
\* one edited by hand (service/summary.go:242-244).
PruneKeepsUserData ==
  [][/\ \A v \in team : ~Has(team', v.id) =>
          /\ ~v.edited /\ v.id # shown'
          /\ Cardinality(Newer(team', v)) >= Keep
     /\ \A v \in mine : ~Has(mine', v.id) =>
          /\ v.id # pr'.cur
          /\ Cardinality(Newer(mine', v)) >= Keep]_vars

\* No request and no new round loses a personal text: what they replace is in the history,
\* although edits of the team summary change it in place (personal_refine.go:932-938);
\* only pruning may take it from there, and a draft never gets there.
TextReachesHistory ==
  [][(pr'.text # pr.text /\ pr.text \notin {0, draft} /\ run' = run /\ ~EditSummary) =>
       \E v \in mine \cup mine' : v.text = pr.text]_vars

\* What makes them inductive: a number is drawn once, and is no greater than the last one
\* drawn; a text that no team edit can have touched is in the history.
Unique(vs) == \A v, w \in vs : v.id = w.id => v = w
Drawn(vs) == \A v \in vs : v.id <= ids
HistoryKept ==
  ((team = {} \/ ~pr.edited) /\ pr.text \notin {0, draft}) => \E v \in mine : v.text = pr.text
IInv ==
  /\ TypeOK
  /\ Unique(mine) /\ Drawn(mine)
  /\ Unique(team) /\ Drawn(team)
  /\ CurrentVersionExists
  /\ HistoryKept
=============================================================================
