------------------------------- MODULE AgentRun -------------------------------
(* One summary run of the agent: a planner model proposes a turn of tool      *)
(* calls, the runner executes it, the run row records which channels were     *)
(* fetched, the citation manifest freezes the evidence the answer may cite,   *)
(* and the finish gate judges the deliverable (internal/agent/runner.go,      *)
(* coverage_gate.go, summary_handle_store.go, citation_manifest.go, the tool  *)
(* handlers, summaryrun/store.go, finishgate/gate.go, and the hooks of        *)
(* internal/api/handler/agent_chat.go).                                       *)
(*                                                                            *)
(* The calls of one turn run concurrently, so every call is a sequence of     *)
(* actions of its own. The planner is not trusted: it may plan any batch.     *)
(* A message stands for its channel; a messages_handle is the set of channels *)
(* whose messages it holds.                                                   *)
EXTENDS Naturals, FiniteSets

CONSTANTS
    Channels,   \* the channels the run can reach
    Expected,   \* those the user selected; none of them when the scope is open
    MaxSteps,   \* Policy.MaxSteps of the profile
    MaxRounds,  \* SummaryRepairMaxRounds, the coverage gate's block budget
    MaxHandles, \* maxSummaryHandles of the handle store
    MaxNudges,  \* reminders to submit a prepared draft
    MaxCalls,   \* bound: tool calls of one turn
    MaxFaults   \* bound: failures of the run: of tools, of writes and of reads

ASSUME AgentAssumption ==
    /\ IsFiniteSet(Channels)
    /\ Expected \subseteq Channels
    /\ {MaxSteps, MaxRounds, MaxHandles, MaxNudges, MaxCalls, MaxFaults} \subseteq Nat

VARIABLES
    live,  \* the profile: a live workspace, or a chat that answers in free text
    db,    \* the run row, the evidence rows; manifest is {} or {the frozen one}
    gate,  \* coverageGateRuns[run], process memory that outlives a run;
           \* sig is {} or {the channels attempted at the last decision},
           \* decided says that decision was made in this turn
    r,     \* the runner of the current attempt, with its request-scoped stores
    ghost  \* history the properties speak about; nothing reads it

vars == <<live, db, gate, r, ghost>>

\* Calls, what identifies their targets, and what is kept of a call that ended.
Handle == SUBSET Channels
Tools == {"fetch_channel", "fetch_summary_scope", "summarize_chunk", "merge_summaries"}
Target == [tool : Tools, on : Handle]
ToolCall == [tool : Tools, on : Handle, k : {1, 2},
             at : {"sent", "frozen", "loose", "resolved"}, seen : Nat]
ToolOutcome == [key : Target, k : {1, 2}, res : {"ok", "soft", "fatal", "back"}]
FailedMap == [on : Handle, call : Nat, now : BOOLEAN]

\* The rows, the gate's memory, the runner, and the history.
Rows == [status : {"running", "failed", "finished"}, cov : [Channels -> {"none", "ok", "failed"}],
         evidence : Handle, manifest : SUBSET Handle, dropped : BOOLEAN,
         fetchExpected : BOOLEAN, verdict : {"none", "failed", "partial", "complete"}]
GateRun == [sig : SUBSET Handle, rounds : Nat, decided : BOOLEAN, block : BOOLEAN,
            satisfied : BOOLEAN]
AgentRunner ==
    [step : Nat, phase : {"plan", "tools", "ended"}, batch : SUBSET ToolCall,
     later : SUBSET ToolCall, outs : SUBSET ToolOutcome, known : SUBSET Handle,
     fetched : Handle, gen : Nat, reduced : Nat, failures : SUBSET FailedMap, nameless : Nat,
     fatal : SUBSET Target, draft : BOOLEAN, nudges : Nat,
     outcome : {"none", "answered", "error"}]
History == [faults : Nat, mapped : SUBSET Handle, merged : Nat, doubtful : SUBSET Handle,
            owed : SUBSET Target, gated : BOOLEAN, obeys : BOOLEAN, broken : Handle,
            dropped : BOOLEAN, lost : SUBSET {"status", "fetch", "dropped", "spec"}]

TypeOK ==
    /\ live \in BOOLEAN
    /\ db \in Rows /\ gate \in GateRun /\ r \in AgentRunner /\ ghost \in History

\* A call of the current turn. `on` is the target of toolCallTarget, {} for a
\* Map whose arguments name none, `k` tells equal calls of one turn apart, `at`
\* is how far it got, `seen` the generation a merge resolved.
Call(tool, on, k) == [tool |-> tool, on |-> on, k |-> k, at |-> "sent", seen |-> 0]
Key(c) == [tool |-> c.tool, on |-> c.on]

Fresh == [step |-> 1, phase |-> "plan", batch |-> {}, later |-> {}, outs |-> {},
          known |-> {}, fetched |-> {}, gen |-> 0, reduced |-> 0, failures |-> {}, nameless |-> 0,
          fatal |-> {}, draft |-> FALSE, nudges |-> 0, outcome |-> "none"]

\* faults: a bound. mapped: handles mapped while obeying. merged: handles
\* covered by the last Reduce. doubtful: targets whose last turn of Maps had a
\* failure. owed: fatal failures with no success in their turn or later.
\* gated: the last turn met the gate. obeys: a planner the gate sent back has
\* done what it was told since, and nothing failed. broken: channels whose last
\* fetch failed. dropped: a Map left messages out. lost: what the run owed its row and the row was not given, or what of
\* the row was not read: the code logs each and goes on.
FreshGhost == [faults |-> 0, mapped |-> {}, merged |-> 0, doubtful |-> {},
               owed |-> {}, gated |-> FALSE, obeys |-> FALSE, broken |-> {},
               dropped |-> FALSE, lost |-> {}]

\* maybePersistSummaryRun: the run row, with nothing fetched yet. A turn that
\* only rewrites an earlier summary is not expected to fetch.
NewRun(fetch) == [status |-> "running", cov |-> [c \in Channels |-> "none"], evidence |-> {},
           manifest |-> {}, dropped |-> FALSE, fetchExpected |-> fetch, verdict |-> "none"]

\* A chat request of either kind has set up its runner.
Init ==
    /\ live \in BOOLEAN
    /\ \E fetch \in BOOLEAN : db = NewRun(fetch)
    /\ gate = [sig |-> {}, rounds |-> 0, decided |-> FALSE, block |-> FALSE, satisfied |-> FALSE]
    /\ r = Fresh
    /\ ghost = FreshGhost

-----------------------------------------------------------------------------
(* What the rows say. *)

Attempted == {c \in Channels : db.cov[c] # "none"}
Succeeded == {c \in Channels : db.cov[c] = "ok"}
Failed == {c \in Channels : db.cov[c] = "failed"}
CoverageMeasured == Attempted # {}

MissingChannels(expected, attempted) == expected \ attempted

PendingMapFailures == r.failures # {}
NeedsReduce == r.gen > r.reduced

Disobeyed == [ghost EXCEPT !.obeys = FALSE, !.mapped = {}]
Faulty == ghost.faults < MaxFaults
Faulted == [Disobeyed EXCEPT !.faults = @ + 1]

-----------------------------------------------------------------------------
(* Planning a turn. *)

IsFetch(c) == c.tool \in {"fetch_channel", "fetch_summary_scope"}
IsMap(c) == c.tool = "summarize_chunk"

\* The workspace profile fetches its scope as one batch, the others channel by
\* channel. To fetch again what is there is planned only while a tool may still
\* fail: with no failure it is an idle turn.
Refetchable(had) == IF Faulty THEN Channels ELSE Channels \ had
Callable ==
    (IF live THEN {Call("fetch_summary_scope", {}, 1) : c \in Refetchable(r.fetched)}
             ELSE {Call("fetch_channel", {c}, 1) : c \in Refetchable(Succeeded)})
        \cup {Call("summarize_chunk", h, 1) : h \in r.known \cup (IF Faulty THEN {{}} ELSE {})}
        \cup {[Call("merge_summaries", {}, 1) EXCEPT !.seen = r.gen]}

Turns ==
    {B \in SUBSET Callable : B # {} /\ Cardinality(B) <= MaxCalls}
        \cup {{m, [m EXCEPT !.k = 2]} : m \in {c \in Callable : IsMap(c) /\ Faulty}}

\* What the coverage gate, the Map errors and the completeness gate ask for.
Latest == IF live THEN {r.fetched} \ {{}} ELSE r.known
Todo == Latest \ ghost.mapped
Dutiful ==
    CASE ghost.gated /\ live -> {Call("fetch_summary_scope", {}, 1)}
      [] ghost.gated /\ ~live ->
            {Call("fetch_channel", {c}, 1) : c \in MissingChannels(Expected, Attempted)}
      [] ~ghost.gated /\ Todo # {} -> {Call("summarize_chunk", h, 1) : h \in Todo}
      [] ~ghost.gated /\ Todo = {} /\ NeedsReduce ->
            {[Call("merge_summaries", {}, 1) EXCEPT !.seen = r.gen]}
      [] OTHER -> {}

\* Planning ended at this step with no result for the user.
Break(cause) == r' = [r EXCEPT !.outcome = cause, !.phase = "ended"]

\* A turn is over: the loop goes on, or the step budget is spent.
NextStep(rr) ==
    IF rr.step = MaxSteps THEN [rr EXCEPT !.outcome = "error", !.phase = "ended"]
    ELSE [rr EXCEPT !.step = @ + 1, !.phase = "plan", !.outs = {},
                        !.failures = {[f EXCEPT !.now = FALSE] : f \in @}]

Planning == r.phase = "plan" /\ r.outcome = "none"

\* The phases of a turn: all of its fetches before its first Map.
FetchPhase(B) ==
    IF \E c \in B : IsMap(c) THEN {c \in B : IsFetch(c)} ELSE {}

Plan(B) ==
    /\ Planning /\ ~r.draft
    /\ LET first == FetchPhase(B)
       IN  r' = [r EXCEPT !.phase = "tools",
                          !.batch = IF first = {} THEN B ELSE first,
                          !.later = IF first = {} THEN {} ELSE B \ first]
    /\ ghost' = [IF B = Dutiful THEN ghost ELSE Disobeyed EXCEPT !.gated = FALSE]
    /\ UNCHANGED <<live, db, gate>>

\* A turn without effect on the run: no calls and no text, free text where a
\* terminal tool is required, a rejected submission, or only other tools.
IdleTurn ==
    /\ Planning
    /\ r' = NextStep(r)
    /\ ghost' = [Disobeyed EXCEPT !.gated = FALSE]
    /\ UNCHANGED <<live, db, gate>>

\* The planning call itself fails, or its arguments stay invalid.
PlanningFails ==
    /\ Planning
    /\ Break("error")
    /\ ghost' = Disobeyed
    /\ UNCHANGED <<live, db, gate>>

-----------------------------------------------------------------------------
(* The calls of a turn. *)

\* Call c ends with result res: "ok", "soft" (retryable) or "fatal".
Finish(rr, c, res) ==
    [rr EXCEPT !.batch = @ \ {c}, !.outs = @ \cup {[key |-> Key(c), k |-> c.k, res |-> res]}]

\* summaryrun.RecordChannelFetch of a set of channels.
RecordFirst(cov, ok, failed) ==   \* mutant: the success is recorded before the write
    [c \in Channels |-> IF c \in ok \cup failed THEN "ok" ELSE cov[c]]
RecordChannelFetch(cov, ok, failed) ==
    [c \in Channels |-> IF c \in ok THEN "ok" ELSE IF c \in failed THEN "failed" ELSE cov[c]]

\* fetch_channel persists the evidence before it records the success.
FetchChannel(c) ==
    /\ c \in r.batch /\ c.tool = "fetch_channel"
    /\ db' = [db EXCEPT !.evidence = @ \cup c.on,
                        !.cov = RecordChannelFetch(@, c.on, {})]
    /\ r' = [Finish(r, c, "ok") EXCEPT !.known = @ \cup {c.on}]
    /\ ghost' = [ghost EXCEPT !.broken = @ \ c.on]
    /\ UNCHANGED <<live, gate>>

\* The bookkeeping fails after the evidence was persisted; the call succeeds.
FetchUnrecorded(c) ==
    /\ c \in r.batch /\ c.tool = "fetch_channel" /\ Faulty
    /\ db' = [db EXCEPT !.evidence = @ \cup c.on]
    /\ r' = [Finish(r, c, "ok") EXCEPT !.known = @ \cup {c.on}]
    /\ ghost' = [Faulted EXCEPT !.broken = @ \ c.on]
    /\ UNCHANGED <<live, gate>>

FetchFailed(g, failed, unrecorded) ==
    [g EXCEPT !.broken = @ \cup failed,
              !.lost = IF unrecorded THEN @ \cup {"fetch"} ELSE @]

\* No access or a read error ("soft"), or the evidence write fails ("fatal");
\* recording the failure may fail as well.
FetchChannelFails(c, res, recorded) ==
    /\ c \in r.batch /\ c.tool = "fetch_channel" /\ Faulty
    /\ db' = [db EXCEPT !.cov = RecordChannelFetch(@, {}, IF recorded THEN c.on ELSE {})]
    /\ r' = Finish(r, c, res)
    /\ ghost' = FetchFailed(Faulted, c.on, ~recorded)
    /\ UNCHANGED <<live, gate>>

\* fetch_summary_scope fetches the channels it has no success for and returns
\* one handle over all successes; unrecorded are outcomes the row missed.
\* It fails only when no channel succeeded.
FetchSummaryScope(c, ok, unrecorded, res) ==
    LET pending == Channels \ r.fetched
        all == r.fetched \cup ok
    IN  /\ c \in r.batch /\ c.tool = "fetch_summary_scope"
        /\ ok \subseteq pending /\ unrecorded \subseteq pending
        /\ ((ok # pending) \/ (unrecorded # {})) => Faulty
        /\ db' = [db EXCEPT !.evidence = @ \cup ok,
                            !.cov = RecordChannelFetch(@, ok \ unrecorded,
                                                      (pending \ ok) \ unrecorded)]
        /\ r' = [Finish(r, c, IF all = {} THEN res ELSE "ok")
                    EXCEPT !.fetched = all,
                           !.known = IF all = {} THEN @ ELSE @ \cup {all}]
        /\ ghost' = FetchFailed([IF (ok # pending) \/ (unrecorded # {}) THEN Faulted ELSE ghost
                                  EXCEPT !.broken = @ \ ok],
                                pending \ ok, ~(unrecorded \subseteq ok))
        /\ UNCHANGED <<live, gate>>

\* A failure is kept under its target, or under its call when it names none;
\* those calls are numbered.
FailureOf(c, now) ==
    [on |-> c.on, call |-> IF c.on = {} THEN r.nameless + 1 ELSE 0, now |-> now]

MarkMapFailed(failures, c) == (failures \ {FailureOf(c, FALSE)}) \cup {FailureOf(c, TRUE)}

\* A success clears the failure of its target if that one is of an earlier turn
\* (`now` says it is of this one), and otherwise one earlier nameless failure.
MarkMapSucceeded(failures, c) ==
    LET nameless == {f \in failures : f.on = {} /\ ~f.now}
    IN  IF FailureOf(c, FALSE) \in failures THEN failures \ {FailureOf(c, FALSE)}
        ELSE IF nameless = {} THEN failures
        ELSE failures \ {CHOOSE f \in nameless : TRUE}

MapFailed(c, res) ==
    [Finish(r, c, res) EXCEPT !.failures = MarkMapFailed(@, c),
                              !.nameless = IF c.on = {} THEN @ + 1 ELSE @]

\* admitCoverageBlock: whether an incomplete run is sent back to fetch.
ReservedSteps == 4
NoReserve == 1   \* mutant: the gate blocks while a step is left
Reserve == ReservedSteps + 2 * (MaxRounds - gate.rounds)
Signature == {Attempted}
Blocks(g) == g.decided /\ g.block
DecideBlock ==
    IF gate.decided THEN gate
    ELSE IF gate.sig = Signature THEN [gate EXCEPT !.decided = TRUE, !.block = FALSE]
    ELSE LET block == gate.rounds < MaxRounds /\ MaxSteps - r.step >= Reserve
         IN  [gate EXCEPT !.sig = Signature, !.decided = TRUE, !.block = block,
                          !.rounds = IF block THEN @ + 1 ELSE @]

\* checkCoverageBeforeFreeze, the first thing a Map does.
GateSatisfied ==
    \/ gate.satisfied
    \/ ~db.fetchExpected
    \/ Expected = {}
    \/ MissingChannels(Expected, Attempted) = {}
    \/ db.manifest # {}

\* The Map is sent back. That is not a failed Map: nothing was read yet. The
\* scope fetch forgets its successes for the missing channels.
MapSentBack(c) ==
    /\ c \in r.batch /\ IsMap(c) /\ c.at = "sent"
    /\ ~GateSatisfied /\ MaxRounds > 0 /\ Blocks(DecideBlock)
    /\ gate' = DecideBlock
    /\ r' = [Finish(r, c, "back")
                EXCEPT !.fetched = @ \ MissingChannels(Expected, Attempted)]
    /\ ghost' = [ghost EXCEPT !.gated = TRUE, !.obeys = @ \/ r.failures = {}]
    /\ UNCHANGED <<live, db>>

Admitted ==
    \/ GateSatisfied /\ gate' = [gate EXCEPT !.satisfied = TRUE, !.block = FALSE]
    \/ ~GateSatisfied /\ MaxRounds = 0 /\ UNCHANGED gate
    \/ ~GateSatisfied /\ MaxRounds > 0 /\ ~Blocks(DecideBlock) /\ gate' = DecideBlock

\* The gate fails open: the run, the spec or the manifest could not be read.
FailsOpen == Faulty /\ ~gate.satisfied /\ MaxRounds > 0 /\ UNCHANGED gate
Passes == (Admitted /\ UNCHANGED ghost) \/ (FailsOpen /\ ghost' = Faulted)

\* Arguments that do not parse: the call ends before it meets the gate.
MapMalformed(c) ==
    /\ c \in r.batch /\ IsMap(c) /\ c.at = "sent" /\ c.on = {}
    /\ r' = MapFailed(c, "soft")
    /\ ghost' = IF Faulty THEN Faulted ELSE Disobeyed
    /\ UNCHANGED <<live, db, gate>>

\* The handle is missing, expired or of another session, or the messages of
\* the session cannot be read.
MapWithoutMessages(c, res) ==
    /\ c \in r.batch /\ IsMap(c) /\ c.at = "sent" /\ Faulty
    /\ Admitted \/ FailsOpen
    /\ r' = MapFailed(c, res)
    /\ ghost' = Faulted
    /\ UNCHANGED <<live, db>>

MapDone(c) == [Finish(r, c, "ok") EXCEPT !.gen = @ + 1, !.failures = MarkMapSucceeded(@, c)]
Mapped(g, c) == [g EXCEPT !.mapped = IF g.obeys THEN @ \cup {c.on} ELSE @]

\* The handle holds no message: a result without a freeze. Which handles are
\* empty is not tracked; the choice is left open.
MapOfNothing(c) ==
    /\ c \in r.batch /\ IsMap(c) /\ c.at = "sent" /\ c.on # {} /\ r.gen < MaxHandles
    /\ r' = MapDone(c)
    /\ \/ Admitted /\ ghost' = Mapped(ghost, c)
       \/ FailsOpen /\ ghost' = Faulted
    /\ UNCHANGED <<live, db>>

\* getSessionMessagePool: the evidence of every fetch of the session, whichever
\* handle the Map names.
Pool == db.evidence

\* applyFrozenManifest: the first Map of the run freezes every evidence row of
\* the session; a later one adopts that manifest.
Freeze(manifest, evidence) == IF manifest = {} THEN {evidence} ELSE manifest

MapFreezes(c) ==
    /\ c \in r.batch /\ IsMap(c) /\ c.at = "sent" /\ c.on # {}
    /\ Passes
    /\ db' = [db EXCEPT !.manifest = Freeze(@, Pool)]
    /\ r' = [r EXCEPT !.batch = (@ \ {c}) \cup {[c EXCEPT !.at = "frozen"]}]
    /\ UNCHANGED live

\* The manifest is not written, or is and cannot be read back: the Map goes on
\* with the messages as they are and leaves none of them out.
MapFallsBack(c, manifest) ==
    /\ c \in r.batch /\ IsMap(c) /\ c.at = "sent" /\ c.on # {} /\ Faulty
    /\ Admitted \/ FailsOpen
    /\ manifest \in {db.manifest, Freeze(db.manifest, Pool)}
    /\ db' = [db EXCEPT !.manifest = manifest]
    /\ r' = [r EXCEPT !.batch = (@ \ {c}) \cup {[c EXCEPT !.at = "loose"]}]
    /\ ghost' = Faulted
    /\ UNCHANGED live

\* Messages the manifest lacks are left out and, if that write succeeds, counted.
Drops(c) == c.at = "frozen" /\ ~(c.on \subseteq UNION db.manifest)
LosesCount(c, counted) == Drops(c) /\ ~counted
RecordDropped(c, counted) ==
    /\ LosesCount(c, counted) => Faulty
    /\ db' = [db EXCEPT !.dropped = @ \/ (Drops(c) /\ counted)]
CountLost == [Faulted EXCEPT !.dropped = TRUE, !.lost = @ \cup {"dropped"}]

\* The Map calls succeed and the text is put in the handle store.
MapSucceeds(c, counted) ==
    /\ c \in r.batch /\ IsMap(c) /\ c.at \in {"frozen", "loose"} /\ r.gen < MaxHandles
    /\ RecordDropped(c, counted)
    /\ r' = MapDone(c)
    /\ ghost' = IF LosesCount(c, counted) THEN CountLost
                ELSE [Mapped(ghost, c) EXCEPT !.dropped = @ \/ Drops(c)]
    /\ UNCHANGED <<live, gate>>

MapFails(c, res) ==
    /\ c \in r.batch /\ IsMap(c) /\ c.at \in {"frozen", "loose"} /\ Faulty
    /\ r' = MapFailed(c, res)
    /\ ghost' = Faulted
    /\ UNCHANGED <<live, db, gate>>

\* ErrSummaryHandleCapacity
MapFindsStoreFull(c, counted) ==
    /\ c \in r.batch /\ IsMap(c) /\ c.at \in {"frozen", "loose"} /\ r.gen >= MaxHandles
    /\ RecordDropped(c, counted)
    /\ r' = MapFailed(c, "fatal")
    /\ ghost' = IF LosesCount(c, counted) THEN CountLost
                ELSE [Disobeyed EXCEPT !.dropped = @ \/ Drops(c)]
    /\ UNCHANGED <<live, gate>>

\* ResolveAllBefore accepts a merge only of all handles of the request, none
\* of them from this turn, and with no Map left to retry.
Resolvable(c) == r.failures = {} /\ c.seen > 0 /\ c.seen = r.gen

MergeResolves(c) ==
    /\ c \in r.batch /\ c.tool = "merge_summaries" /\ c.at = "sent" /\ Resolvable(c)
    /\ r' = [r EXCEPT !.batch = (@ \ {c}) \cup {[c EXCEPT !.at = "resolved"]}]
    /\ UNCHANGED <<live, db, gate, ghost>>

MergeRefused(c) ==
    /\ c \in r.batch /\ c.tool = "merge_summaries" /\ c.at = "sent" /\ ~Resolvable(c)
    /\ r' = Finish(r, c, "fatal")
    /\ UNCHANGED <<live, db, gate, ghost>>

\* MarkReduced counts only if no Map was added while the model reduced.
MarkReducedLate(reduced, seen, gen) == gen   \* mutant: no generation captured
MarkReduced(reduced, seen, gen) == IF seen = gen THEN seen ELSE reduced

MergeSucceeds(c) ==
    /\ c \in r.batch /\ c.tool = "merge_summaries" /\ c.at = "resolved"
    /\ r' = [Finish(r, c, "ok") EXCEPT !.reduced = MarkReduced(@, c.seen, r.gen)]
    /\ ghost' = [ghost EXCEPT !.merged = c.seen]
    /\ UNCHANGED <<live, db, gate>>

MergeFails(c) ==
    /\ c \in r.batch /\ c.tool = "merge_summaries" /\ c.at = "resolved" /\ Faulty
    /\ r' = Finish(r, c, "fatal")
    /\ ghost' = Faulted
    /\ UNCHANGED <<live, db, gate>>

-----------------------------------------------------------------------------
(* The end of a turn. *)

NextPhase ==
    /\ r.phase = "tools" /\ r.batch = {} /\ r.later # {}
    /\ r' = [r EXCEPT !.batch = r.later, !.later = {}]
    /\ UNCHANGED <<live, db, gate, ghost>>

Outcomes(res) == {o.key : o \in {p \in r.outs : p.res = res}}
Maps(res) == {k.on : k \in {l \in Outcomes(res) : l.tool = "summarize_chunk"}}

\* reportToolHookOutcomes: the turn's errors first, then its successes; the
\* hooks keep the set of fatal (tool, target) pairs.
FatalAfter(fatal) == (fatal \cup Outcomes("fatal")) \ Outcomes("ok")
Latches(fatal) == ~(Outcomes("fatal") \subseteq fatal)
Recovers(fatal) ==
    (fatal \cup Outcomes("fatal")) \cap Outcomes("ok") # {} /\ FatalAfter(fatal) = {}

\* syncStatus writes "failed" when a failure is new and "running" when the last
\* one has recovered. A write that fails is logged, and the hook, whose set has
\* changed already, does not repeat it: lost are the writes that failed.
StatusWrites(fatal) ==
    (IF Latches(fatal) THEN {"failed"} ELSE {}) \cup (IF Recovers(fatal) THEN {"running"} ELSE {})
StatusAfter(status, fatal, lost) ==
    LET written == StatusWrites(fatal) \ lost
    IN  IF "running" \in written THEN "running"
        ELSE IF "failed" \in written THEN "failed" ELSE status

\* The row lacks the last status it was to be given.
StatusLost(was, fatal, lost) ==
    IF Recovers(fatal) THEN "running" \in lost
    ELSE IF Latches(fatal) THEN "failed" \in lost ELSE was
LostAfter(lostWas, fatal, lost) ==
    (lostWas \ {"status"})
        \cup (IF StatusLost("status" \in lostWas, fatal, lost) THEN {"status"} ELSE {})

EndTurn(lost) ==
    /\ r.phase = "tools" /\ r.batch = {} /\ r.later = {}
    /\ lost \subseteq StatusWrites(r.fatal) /\ (lost # {} => Faulty)
    /\ db' = [db EXCEPT !.status = StatusAfter(@, r.fatal, lost)]
    /\ r' = NextStep([r EXCEPT !.fatal = FatalAfter(@)])
    /\ LET failed == Maps("soft") \cup Maps("fatal")
       IN  ghost' = [IF lost = {} THEN ghost ELSE Faulted EXCEPT
                !.owed = (@ \cup Outcomes("fatal")) \ Outcomes("ok"),
                !.doubtful = ((@ \cup failed) \ (Maps("ok") \ failed)) \ {{}},
                !.lost = LostAfter(@, r.fatal, lost)]
    /\ gate' = [gate EXCEPT !.decided = FALSE]
    /\ UNCHANGED live

-----------------------------------------------------------------------------
(* The end of the run. *)

Pending == PendingMapFailures \/ NeedsReduce

\* prepare_summary_draft, alone in its turn. The step it used is given back.
PrepareDraft ==
    /\ Planning /\ live /\ ~r.draft /\ ~Pending
    /\ r' = [r EXCEPT !.draft = TRUE]
    /\ UNCHANGED <<live, db, gate, ghost>>

\* After preparation only the submission is accepted: a text without a call is
\* reminded, any other call ends the run.
RemindToSubmit ==
    /\ Planning /\ r.draft /\ r.nudges < MaxNudges
    /\ r' = [r EXCEPT !.nudges = @ + 1]
    /\ UNCHANGED <<live, db, gate, ghost>>

NonterminalAfterPreparation ==
    /\ Planning /\ r.draft
    /\ Break("error")
    /\ ghost' = Disobeyed
    /\ UNCHANGED <<live, db, gate>>

\* FinishRunning closes the row of a workspace turn, unless it failed.
FinishAnyway(status) == "finished"   \* mutant: no condition on the status
FinishRunning(status) == IF status = "running" THEN "finished" ELSE status

Submits == Planning /\ (live => r.draft)

\* A failure to close the row is logged.
Answer(closed) ==
    /\ Submits /\ ~Pending
    /\ ~closed => live /\ Faulty
    /\ Break("answered")
    /\ db' = IF live /\ closed THEN [db EXCEPT !.status = FinishRunning(@)] ELSE db
    /\ ghost' = IF closed THEN ghost ELSE Faulted
    /\ UNCHANGED <<live, gate>>

AnswerRejected ==
    /\ Submits /\ Pending
    /\ r' = NextStep(r)
    /\ ghost' = [Disobeyed EXCEPT !.gated = FALSE]
    /\ UNCHANGED <<live, db, gate>>

\* finishgate.Evaluate over the row of the run. What is recorded is audited in
\* any run; that nothing is, or not all, only in one expected to fetch.
Gaps(expected) ==
    \/ ~CoverageMeasured /\ db.fetchExpected
    \/ Failed # {}
    \/ CoverageMeasured /\ db.fetchExpected /\ ~(expected \subseteq Succeeded)
    \/ db.dropped

Evaluate(citationsValid, expected) ==
    IF db.status = "failed" \/ ~citationsValid THEN "failed"
    ELSE IF Gaps(expected) THEN "partial" ELSE "complete"

\* finalizeRunForDeliverable: the answer is saved as a summary, with this
\* verdict. A spec that cannot be read counts as one that expects nothing.
Save(citationsValid, readable) ==
    /\ r.outcome = "answered" /\ db.verdict = "none"
    /\ ~readable => Faulty
    /\ db' = [db EXCEPT !.verdict =
                Evaluate(citationsValid, IF readable THEN Expected ELSE {})]
    /\ ghost' = IF readable THEN ghost ELSE [Faulted EXCEPT !.lost = @ \cup {"spec"}]
    /\ UNCHANGED <<live, gate, r>>

-----------------------------------------------------------------------------
RunsCall(c) ==
    \/ FetchChannel(c) \/ FetchUnrecorded(c)
    \/ \E res \in {"soft", "fatal"}, recorded \in BOOLEAN : FetchChannelFails(c, res, recorded)
    \/ \E ok, unrecorded \in SUBSET Channels, res \in {"soft", "fatal"} :
        FetchSummaryScope(c, ok, unrecorded, res)
    \/ MapMalformed(c) \/ MapSentBack(c)
    \/ \E res \in {"soft", "fatal"} : MapWithoutMessages(c, res)
    \/ MapOfNothing(c) \/ MapFreezes(c)
    \/ \E manifest \in SUBSET Handle : MapFallsBack(c, manifest)
    \/ \E counted \in BOOLEAN : MapSucceeds(c, counted)
    \/ \E res \in {"soft", "fatal"} : MapFails(c, res)
    \/ \E counted \in BOOLEAN : MapFindsStoreFull(c, counted)
    \/ MergeResolves(c) \/ MergeRefused(c) \/ MergeSucceeds(c) \/ MergeFails(c)

Runner ==
    \/ \E B \in Turns : Plan(B)
    \/ IdleTurn \/ PlanningFails
    \/ \E c \in r.batch : RunsCall(c)
    \/ NextPhase \/ (\E lost \in SUBSET {"failed", "running"} : EndTurn(lost))
    \/ PrepareDraft \/ RemindToSubmit \/ NonterminalAfterPreparation
    \/ (\E closed \in BOOLEAN : Answer(closed)) \/ AnswerRejected

Next == Runner \/ \E valid, readable \in BOOLEAN : Save(valid, readable)

Spec == Init /\ [][Next]_vars

-----------------------------------------------------------------------------
\* An answer is delivered only from one Reduce that covers every Map of the
\* request, and with no Map target whose last turn had a failure: a failure is
\* repaired by a later turn, never by the other half of its own
\* (runner.go:264-318, summary_handle_store.go:225-283).
AnswerIsReduced ==
    r.outcome = "answered" => ghost.merged = r.gen /\ ghost.doubtful = {}

\* The verdict of a deliverable is "failed" when some tool call failed fatally
\* and its (tool, target) never succeeded in that turn or later, and a fatal
\* failure that did recover is not held against it, in whatever order the
\* concurrent calls of the turns ended. The one exception is a row that was not
\* given the last status it was owed: the hook logs the failed write and does
\* not repeat it, and only its next change of status repairs the row
\* (agent_chat.go:448-502).
FatalIsJudged ==
    "status" \notin ghost.lost =>
        /\ (db.verdict # "none" /\ ghost.owed # {}) => db.verdict = "failed"
        /\ r.outcome = "answered" /\ ghost.owed = {} => db.status # "failed"

\* COMPLETE is never said of a run expected to fetch whose selected channels are
\* not all among the stored evidence, unless the spec that names them could not
\* be read; nor, whatever the run was expected to do, of one with a channel whose
\* last fetch failed, or that left messages out, unless that could not be written
\* down (gate.go:140-262, agent_summary_citations.go:466-477,
\* tool_fetch_channel.go:75-92, tool_summarize_chunk.go:436-448).
CompleteHasEvidence ==
    db.verdict = "complete" =>
        /\ db.fetchExpected /\ "spec" \notin ghost.lost => Expected \subseteq db.evidence
        /\ ghost.broken # {} => "fetch" \in ghost.lost
        /\ ghost.dropped => "dropped" \in ghost.lost

\* A planner the coverage gate sent back, that fetches what it is told and then
\* maps, reduces and answers with no tool failing, has the steps for it: the
\* gate never turns a slow run into no answer (coverage_gate.go:84-94, 166-212).
ObedientIsDelivered == r.outcome = "error" => ~ghost.obeys

-----------------------------------------------------------------------------
(* What makes them inductive.                                                 *)

IsMerge(c) == c.tool = "merge_summaries"
Calls == r.batch \cup r.later

\* Where a turn stands: fetches before its first Map, nothing left between turns.
Phases ==
    /\ r.phase # "tools" => Calls = {}
    /\ r.phase = "plan" => r.outs = {} /\ ~gate.decided
    /\ r.phase = "ended" <=> r.outcome # "none"
    /\ db.verdict # "none" => r.outcome = "answered"
    /\ r.later # {} => \A c \in r.batch : IsFetch(c)
    /\ (\E c \in r.batch : IsMap(c)) => \A c \in r.batch : ~IsFetch(c)
    /\ \A c \in r.later : ~IsFetch(c) /\ c.at = "sent"

\* The row is failed exactly while a fatal failure is owed, if it was told.
FatalKept ==
    /\ ghost.owed = r.fatal
    /\ "status" \notin ghost.lost => (db.status = "failed" <=> r.fatal # {})
    /\ db.verdict # "none" /\ db.status = "failed" => db.verdict = "failed"

\* What failed or was left out is in the row, if it was told.
Disclosed ==
    /\ "fetch" \notin ghost.lost => ghost.broken \subseteq Failed
    /\ "dropped" \notin ghost.lost => (db.dropped <=> ghost.dropped)

\* What the row counts as fetched is stored.
EvidenceKept == Succeeded \subseteq db.evidence /\ Disclosed /\ CompleteHasEvidence

\* The merges of a turn saw the Maps before it.
MergesAgree ==
    /\ r.reduced <= r.gen
    /\ r.reduced = r.gen => ghost.merged = r.gen
    /\ \A c \in Calls : IsMerge(c) => r.reduced <= c.seen /\ c.seen <= r.gen
    /\ \A c, d \in Calls : IsMerge(c) /\ IsMerge(d) => c.seen = d.seen

\* A turn that the gate sent back has no fetch.
GateKept ==
    r.phase = "tools" /\ ghost.gated => r.later = {} /\ \A c \in r.batch : ~IsFetch(c)

\* A target in doubt has a failure recorded, or a success of this turn; a failure of this
\* turn is recorded as such.
DoubtsKept ==
    /\ \A h \in ghost.doubtful :
         h # {} /\ ((\E f \in r.failures : f.on = h) \/ h \in Maps("ok"))
    /\ \A h \in (Maps("soft") \cup Maps("fatal")) \ {{}} :
         [on |-> h, call |-> 0, now |-> TRUE] \in r.failures
    /\ \A f \in r.failures : f.on # {} => f.call = 0
    /\ r.outcome = "answered" => r.failures = {} /\ r.outs = {} /\ r.reduced = r.gen

\* The steps an obedient planner still needs: fetch, Map, Reduce, answer.
MayBlock == r.phase = "tools" /\ gate.decided /\ gate.block => r.step + 4 <= MaxSteps
Fetching == r.step + 3 <= MaxSteps
Mapping ==
    /\ r.step + 2 <= MaxSteps
    /\ \A c \in Calls : ~IsFetch(c)
    /\ Todo \subseteq {c.on : c \in {d \in Calls : IsMap(d)}}
Merging ==
    /\ r.step + 1 <= MaxSteps
    /\ Todo = {}
    /\ \A c \in Calls : IsMerge(c) /\ c.seen > 0 /\ c.seen = r.gen
    /\ NeedsReduce => Calls # {}
Obedience ==
    /\ MayBlock
    /\ ghost.obeys =>
         /\ r.failures = {} /\ r.outcome # "error"
         /\ r.phase = "plan" =>
              /\ r.step <= MaxSteps
              /\ ghost.gated => r.step + 3 <= MaxSteps
              /\ Todo # {} => r.step + 2 <= MaxSteps
              /\ NeedsReduce => r.step + 1 <= MaxSteps
         /\ r.phase = "tools" =>
              IF ghost.gated THEN r.step + 4 <= MaxSteps ELSE Fetching \/ Mapping \/ Merging

IInv ==
    /\ TypeOK
    /\ Phases /\ FatalKept /\ EvidenceKept /\ MergesAgree /\ GateKept /\ DoubtsKept /\ Obedience
=============================================================================
