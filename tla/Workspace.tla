------------------------------ MODULE Workspace ------------------------------
(***************************************************************************)
(* One agent workspace session of one user: its turns (chat requests and   *)
(* confirmations, each retried by its client under one request id), the    *)
(* artifact the session shows (a preview, a pending proposal or a          *)
(* workflow), the formal summaries created from it, history polls and      *)
(* saves.  A transaction of the code is one step; a handler is a chain of  *)
(* steps that other handlers, crashes and lapsing leases cut into.         *)
(*                                                                         *)
(* A summary context is a number within its scope version: 0 is the one    *)
(* the scope was opened with, a message id the effective context that the  *)
(* message's turn wrote back.  A proposal's random token is the id of its  *)
(* message.  Cancelled counts as Failed: the workspace treats them alike.  *)
(***************************************************************************)
EXTENDS Naturals, Sequences

CONSTANTS
  Chat,        \* request ids of chat messages
  Key,         \* Idempotency-Keys of confirmations
  SaveKey,     \* Idempotency-Keys of saves
  None,
  MaxAttempt,  \* bound: attempts of a request
  MaxBegin,    \* bound: attempts of all requests
  MaxScope,    \* bound: scope versions
  MaxMsg       \* bound: final assistant messages

Request == Chat \cup Key

ASSUME ConstantsAssumption ==
  /\ None \notin Request /\ Chat \cap Key = {} /\ SaveKey \cap Request = {}
  /\ MaxAttempt \in Nat /\ MaxBegin \in Nat /\ MaxScope \in Nat /\ MaxMsg \in Nat

VARIABLES
  session,  \* the agent_summary_session row; scope 0: no row
  turn,     \* request -> its agent_summary_turn row
  msgs,     \* final assistant messages of agent_message, by id
  tasks,    \* summaries created from the session: by which key, of which
            \* proposal or preview, and their status
  binding,  \* idempotency bindings: intent or save key -> <<task, hash>>
  live,     \* turns being executed
  polls,    \* history requests between their reads and their transaction
  saves,    \* save requests between their check and their transaction
  begun     \* attempts begun so far: only bounds the model

vars == <<session, turn, msgs, tasks, binding, live, polls, saves, begun>>

Intent == ({"turn"} \X Request) \cup ({"proposal"} \X (1..MaxMsg))
           \cup ({"save"} \X SaveKey)

NoProposal == [st |-> "none", msg |-> 0, scope |-> 0]
NoWorkflow == [task |-> 0, scope |-> 0, started |-> 0, terminal |-> 0]
NoSession ==
  [scope |-> 0, ctx |-> 0, active |-> None, art |-> 0, prev |-> 0,
   savedAs |-> 0, prop |-> NoProposal, wf |-> NoWorkflow]
NoTurn ==
  [st |-> "none", attempt |-> 0, lease |-> FALSE, msg |-> 0, by |-> 0,
   body |-> [scope |-> 0, ctx |-> 0, token |-> 0]]
Unbound == [task |-> 0, hash |-> 0]
NoShown == [msg |-> 0, kind |-> "none"]
Gone == [kind |-> "gone", scope |-> 0, art |-> 0, ver |-> 0, parent |-> 0,
         saved |-> 0, task |-> 0]

Init ==
  /\ session = NoSession /\ turn = [q \in Request |-> NoTurn]
  /\ msgs = <<>> /\ tasks = <<>> /\ binding = [i \in Intent |-> Unbound]
  /\ live = {} /\ polls = {} /\ saves = {} /\ begun = 0

-----------------------------------------------------------------------------
(* Beginning a turn *)

Leased(q) == q # None /\ turn[q].st = "running" /\ turn[q].lease

ClearPreview(s) == [s EXCEPT !.prev = 0, !.savedAs = 0]
ClearProposal(s) == [s EXCEPT !.prop = NoProposal]
ClearWorkflow(s) == [s EXCEPT !.wf = NoWorkflow]

\* A newer scope starts with an empty workbench; so does a new session.
Opened(body) ==
  IF body.scope > session.scope
  THEN ClearWorkflow(ClearProposal(ClearPreview(
         [session EXCEPT !.scope = body.scope, !.ctx = body.ctx])))
  ELSE session

\* What a client can ask for that the server does not refuse at once: it
\* sends the context it was shown, or opens a scope of its own.
ChatBodies ==
  {[scope |-> s, ctx |-> IF s = session.scope THEN session.ctx ELSE 0, token |-> 0] :
     s \in {session.scope, session.scope + 1} \ {0}}
ConfirmBodies ==
  {[scope |-> session.scope, ctx |-> session.ctx, token |-> session.prop.msg]}

\* A request id keeps its body: another one under the same id is a mismatch.
Bodies(q, fresh) == IF turn[q].st = "none" THEN fresh ELSE {turn[q].body}

ScopeAccepted(body) ==
  /\ body.scope >= session.scope
  /\ body.scope = session.scope => body.ctx = session.ctx

ProposalAccepted(body) ==
  /\ body.scope = session.scope /\ body.ctx = session.ctx
  /\ session.prop.st = "pending" /\ session.prop.msg = body.token
  /\ session.prop.scope = body.scope

\* Each attempt decides anew where its request goes, by the message and the
\* session it found: the agent (or a reply of the server), or a workflow.
Routes == {"run", "find"}

Acquire(q, body, route, hash) ==
  LET s == [Opened(body) EXCEPT !.active = q]
      n == turn[q].attempt + 1
  IN /\ n <= MaxAttempt /\ begun < MaxBegin /\ begun' = begun + 1
     /\ session' = s
     /\ turn' = [turn EXCEPT ![q] = [st |-> "running", attempt |-> n, lease |-> TRUE,
                                     msg |-> 0, by |-> 0, body |-> body]]
     /\ live' = live \cup {[q |-> q, n |-> n, pc |-> route, prev |-> s.prev,
                            art |-> s.art, task |-> 0, hash |-> hash, done |-> FALSE]}
     /\ UNCHANGED <<msgs, tasks, binding, polls, saves>>

\* A workflow's hash covers its time range; a context without one gets the
\* range that ends now, so a later attempt of the request has another hash.
RequestHashes(q, route) == IF route = "find" THEN {1, turn[q].attempt + 1} ELSE {1}

BeginTurn(q) ==
  \E body \in Bodies(q, ChatBodies) :
    /\ turn[q].st # "completed" /\ body.scope <= MaxScope
    /\ ScopeAccepted(body)
    /\ ~Leased(session.active) /\ ~Leased(q)
    /\ \E route \in Routes : \E hash \in RequestHashes(q, route) : Acquire(q, body, route, hash)

\* A confirmed workflow takes members and time range from the proposal, so
\* its hash is the same for every confirmation of it.
BeginProposalConfirmation(k) ==
  \E body \in Bodies(k, ConfirmBodies) :
    /\ turn[k].st # "completed" /\ session.scope > 0
    /\ ProposalAccepted(body)
    /\ ~Leased(session.active) /\ ~Leased(k)
    /\ \E route \in {"find", "fail"} : Acquire(k, body, route, 1)

-----------------------------------------------------------------------------
(* Creating the workflow's summary *)

Goto(h, pc) == live' = (live \ {h}) \cup {[h EXCEPT !.pc = pc]}

\* Mutant: the key of the confirmation names the intent.
IntentByKey(q) == <<"turn", q>>

IntentOf(q) ==
  IF q \in Key THEN <<"proposal", turn[q].body.token>> ELSE <<"turn", q>>

FindIdempotent(h) ==
  /\ h.pc = "find"
  /\ LET b == binding[IntentOf(h.q)]
     IN CASE b = Unbound -> Goto(h, "persist")
          [] b # Unbound /\ (b.hash # h.hash \/ tasks[b.task].st = "Deleted") -> Goto(h, "fail")
          [] OTHER -> live' = (live \ {h}) \cup
                        {[h EXCEPT !.pc = "fold", !.task = b.task,
                                   !.done = tasks[b.task].st = "Completed"]}
  /\ UNCHANGED <<session, turn, msgs, tasks, binding, polls, saves, begun>>

\* The row of the unique key that stands after the insert says who won.
Bind(i, hash) ==
  IF binding[i] = Unbound
  THEN [binding EXCEPT ![i] = [task |-> Len(tasks) + 1, hash |-> hash]]
  ELSE binding
Wins(i) == binding[i] = Unbound

NewTask(key, of, st) == Append(tasks, [by |-> key, of |-> of, st |-> st])

\* The loser's transaction is rolled back and it looks for the winner's task.
Persist(h) ==
  /\ h.pc = "persist"
  /\ LET i == IntentOf(h.q)
     IN IF Wins(i)
        THEN /\ tasks' = NewTask(h.q, turn[h.q].body.token, "Pending") /\ binding' = Bind(i, h.hash)
             /\ live' = (live \ {h}) \cup
                          {[h EXCEPT !.pc = "fold", !.task = Len(tasks) + 1]}
        ELSE Goto(h, "find") /\ UNCHANGED <<tasks, binding>>
  /\ UNCHANGED <<session, turn, msgs, polls, saves, begun>>

-----------------------------------------------------------------------------
(* Ending a turn *)

\* Mutants: only the attempt is compared; the attempt is not.
OwnsTurn(h) == turn[h.q].attempt = h.n /\ turn[h.q].st = "running"
OwnsSession(h) ==
  /\ turn[h.q].st = "running" /\ session.active = h.q
  /\ turn[h.q].body.scope = session.scope

Owns(h) ==
  /\ turn[h.q].attempt = h.n /\ turn[h.q].st = "running"
  /\ session.active = h.q /\ turn[h.q].body.scope = session.scope

\* The context written back: the default time range joins the one a scope
\* was opened with, and an agent run may have declared another scope.
EffectiveContexts(h, id) ==
  IF session.ctx = 0 \/ h.pc = "run" THEN {session.ctx, id} ELSE {session.ctx}

\* CompleteTurn: m is the final message, s the session with the artifact.
\* A handler that lost its turn ends: its FailTurn is refused as well.
CompleteTurn(h, m, s) ==
  LET id == Len(msgs) + 1
  IN /\ Len(msgs) < MaxMsg
     /\ IF Owns(h)
        THEN /\ msgs' = Append(msgs, m)
             /\ \E ctx \in EffectiveContexts(h, id) :
                  session' = [s EXCEPT !.active = None, !.ctx = ctx]
             /\ turn' = [turn EXCEPT ![h.q].st = "completed", ![h.q].lease = FALSE,
                                     ![h.q].msg = id, ![h.q].by = h.n]
             /\ live' = live \ {h}
        ELSE live' = live \ {h} /\ UNCHANGED <<session, turn, msgs>>
     /\ UNCHANGED <<tasks, binding, polls, saves, begun>>

Message(kind) == [Gone EXCEPT !.kind = kind, !.scope = session.scope]

\* Words only, or the server asks back: sources, members or references of
\* the context are no longer valid, or nothing names what to summarise.
CompleteReply(h) == h.pc = "run" /\ CompleteTurn(h, Message("reply"), session)

\* A revision names the preview that the turn found.  The version inside the
\* payload was computed when the turn began; that of the row is the session's.
Preview(h, parent) ==
  [Message("preview") EXCEPT !.art = session.art + 1, !.ver = h.art + 1, !.parent = parent]

CompletePreview(h) ==
  /\ h.pc = "run"
  /\ \E parent \in {0, h.prev} : CompleteTurn(h, Preview(h, parent),
       ClearWorkflow(ClearProposal(
         [session EXCEPT !.art = @ + 1, !.prev = Len(msgs) + 1, !.savedAs = 0])))

\* Several members: they are asked for confirmation first.
CompleteProposal(h) ==
  /\ h.pc = "run"
  /\ CompleteTurn(h, Message("confirm"),
       [ClearWorkflow(ClearPreview(session)) EXCEPT
          !.prop = [st |-> "pending", msg |-> Len(msgs) + 1, scope |-> session.scope]])

CompleteWorkflow(h) ==
  /\ h.pc = "fold"
  /\ LET id == Len(msgs) + 1
         kept == IF h.q \in Key THEN [session EXCEPT !.prop.st = "confirmed"]
                                ELSE ClearProposal(session)
     IN CompleteTurn(h,
          [Message(IF h.done THEN "completed" ELSE "started") EXCEPT !.task = h.task],
          [ClearPreview(kept) EXCEPT
             !.wf = [task |-> h.task, scope |-> session.scope,
                     started |-> IF h.done THEN 0 ELSE id,
                     terminal |-> IF h.done THEN id ELSE 0]])

\* An error may come anywhere on the way.
FailTurn(h) ==
  /\ live' = live \ {h}
  /\ IF turn[h.q].attempt = h.n /\ turn[h.q].st = "running" /\ session.active = h.q
     THEN /\ turn' = [turn EXCEPT ![h.q].st = "failed", ![h.q].lease = FALSE]
          /\ session' = [session EXCEPT !.active = None]
     ELSE UNCHANGED <<session, turn>>
  /\ UNCHANGED <<msgs, tasks, binding, polls, saves, begun>>

\* The lease of a slow turn lapses, or of one whose process died: that is a
\* handler which takes no step any more.
LeaseExpires(q) ==
  /\ Leased(q) /\ turn' = [turn EXCEPT ![q].lease = FALSE]
  /\ UNCHANGED <<session, msgs, tasks, binding, live, polls, saves, begun>>

-----------------------------------------------------------------------------
(* History, saving, cleanup, and the summaries' own life *)

\* A poll reads the session, then the task, then folds what it read.
PollSession ==
  /\ session.wf.task > 0 /\ polls = {}
  /\ polls' = {[task |-> session.wf.task, scope |-> session.wf.scope,
                terminal |-> session.wf.terminal, seen |-> "none"]}
  /\ UNCHANGED <<session, turn, msgs, tasks, binding, live, saves, begun>>

TerminalState(t) ==
  CASE tasks[t].st \in {"Failed", "Deleted"} -> "error"
    [] tasks[t].st = "Completed"             -> "completed"
    [] OTHER                                 -> "none"

PollTask(p) ==
  /\ p.seen = "none"
  /\ polls' = (polls \ {p}) \cup
       IF TerminalState(p.task) = "none" THEN {} ELSE {[p EXCEPT !.seen = TerminalState(p.task)]}
  /\ UNCHANGED <<session, turn, msgs, tasks, binding, live, saves, begun>>

Folded(p) == session.wf.terminal > 0

\* "error" clears the pointer, "completed" keeps it.  The poll's twin, a
\* second request that read the same, may still be on its way.
ReconcileWorkflow(p) ==
  /\ p.seen # "none" /\ polls' \in {polls, polls \ {p}}
  /\ LET cleared == [session EXCEPT !.wf.task = 0, !.wf.scope = 0, !.wf.started = 0]
         s == IF p.seen = "error" THEN cleared ELSE session
     IN IF Folded(p)
        THEN session' = s /\ UNCHANGED msgs
        ELSE IF session.wf.task # p.task \/ session.wf.scope # p.scope
        THEN UNCHANGED <<session, msgs>>
        ELSE /\ Len(msgs) < MaxMsg
             /\ msgs' = Append(msgs, [Message(p.seen) EXCEPT !.scope = p.scope, !.task = p.task])
             /\ session' = [s EXCEPT !.wf.terminal = Len(msgs) + 1]
  /\ UNCHANGED <<turn, tasks, binding, live, saves, begun>>

\* Mutant: the saved marks are not looked at.
LatestPreview(m) ==
  /\ session.prev = m /\ m > 0 /\ msgs[m].kind = "preview"
  /\ msgs[m].scope = session.scope /\ msgs[m].art = session.art

\* The preview's row and payload name the session's scope and artifact.
StillSaveable(m) ==
  /\ session.prev = m /\ m > 0 /\ session.savedAs = 0
  /\ msgs[m].kind = "preview" /\ msgs[m].saved = 0
  /\ msgs[m].scope = session.scope
  /\ msgs[m].art = session.art /\ msgs[m].ver = msgs[m].art

LoadForSave(k) ==
  /\ binding[<<"save", k>>] = Unbound
  /\ \E m \in DOMAIN msgs :
       StillSaveable(m) /\ saves' = saves \cup {[key |-> k, msg |-> m]}
  /\ UNCHANGED <<session, turn, msgs, tasks, binding, live, polls, begun>>

\* A save's hash covers the message it names.
SaveHash(s) == s.msg

\* Loser and stale candidate only look up what the winner created.
CommitSave(s) ==
  /\ saves' \in {saves, saves \ {s}}
  /\ LET i == <<"save", s.key>> t == Len(tasks) + 1
     IN IF StillSaveable(s.msg) /\ Wins(i)
        THEN /\ tasks' = NewTask(s.key, s.msg, "Completed") /\ binding' = Bind(i, SaveHash(s))
             /\ msgs' = [msgs EXCEPT ![s.msg].saved = t]
             /\ session' = [session EXCEPT !.savedAs = t]
        ELSE UNCHANGED <<tasks, binding, msgs, session>>
  /\ UNCHANGED <<turn, live, polls, begun>>

\* Workers and users move a workflow's summary on.
TaskMoves(t) ==
  /\ tasks[t].by \in Request /\ tasks[t].st # "Deleted"
  /\ \E st \in (IF tasks[t].st = "Pending" THEN {"Completed", "Failed"} ELSE {"Pending"})
                \cup {"Deleted"} :
       tasks' = [tasks EXCEPT ![t].st = st]
  /\ UNCHANGED <<session, turn, msgs, binding, live, polls, saves, begun>>

\* After thirty days without a write nothing of the session still runs.
\* (MaxBegin: not modelled where no request could follow.)
ExpireWorkspace ==
  /\ session.scope > 0 /\ ~Leased(session.active) /\ begun < MaxBegin
  /\ live' = {} /\ polls' = {} /\ saves' = {}
  /\ session' = NoSession /\ turn' = [q \in Request |-> NoTurn]
  /\ msgs' = [m \in DOMAIN msgs |-> Gone]
  /\ binding' = [i \in Intent |->
       IF binding[i] # Unbound /\ i[1] # "save" /\ tasks[binding[i].task].st = "Deleted"
       THEN Unbound ELSE binding[i]]
  /\ UNCHANGED <<tasks, begun>>

\* Where the handler of an acquired turn goes next.
Execute(h) ==
  \/ FindIdempotent(h) \/ Persist(h)
  \/ CompleteReply(h) \/ CompletePreview(h) \/ CompleteProposal(h) \/ CompleteWorkflow(h)
  \/ FailTurn(h)

Next ==
  \/ \E q \in Chat : BeginTurn(q)
  \/ \E k \in Key : BeginProposalConfirmation(k)
  \/ \E h \in live : Execute(h)
  \/ \E q \in Request : LeaseExpires(q)
  \/ PollSession
  \/ \E p \in polls : PollTask(p) \/ ReconcileWorkflow(p)
  \/ \E k \in SaveKey : LoadForSave(k)
  \/ \E s \in saves : CommitSave(s)
  \/ \E t \in DOMAIN tasks : TaskMoves(t)
  \/ ExpireWorkspace

Spec == Init /\ [][Next]_vars

-----------------------------------------------------------------------------
(* What the session renders *)

\* The workflow that stateFromSnapshot shows: its message and its kind.
ShownWorkflow ==
  LET w == session.wf
      started == [msg |-> w.started, kind |-> "started"]
  IN IF w.task > 0
     THEN IF tasks[w.task].st = "Deleted" THEN NoShown
          ELSE IF tasks[w.task].st = "Completed" /\ w.terminal > 0
          THEN [msg |-> w.terminal, kind |-> "completed"]
          ELSE IF w.started > 0 THEN started ELSE NoShown
     ELSE IF w.terminal > 0 /\ msgs[w.terminal].kind \in {"started", "completed"}
     THEN [msg |-> w.terminal, kind |-> msgs[w.terminal].kind]
     ELSE NoShown

\* Does the session still show the artifact of message m?
MatchesState(m) ==
  CASE msgs[m].kind = "preview" -> session.prev = m
    [] msgs[m].kind = "confirm" -> session.prop.st = "pending" /\ session.prop.msg = m
    [] msgs[m].kind \in {"started", "completed"} ->
         ShownWorkflow = [msg |-> m, kind |-> msgs[m].kind]
    [] OTHER -> TRUE

\* Mutant: the latest message, whatever the session shows.
LatestMessage == Len(msgs)

\* What a replay shows instead of an artifact that was superseded.
CurrentMessage ==
  LET pending == session.prop.st = "pending"
      shown == <<session.prev, IF pending THEN session.prop.msg ELSE 0, ShownWorkflow.msg>>
      some == {i \in 1..3 : shown[i] > 0}
  IN IF some # {} THEN shown[CHOOSE i \in some : \A j \in some : i <= j] ELSE Len(msgs)

DeletedWorkflow == session.wf.task > 0 /\ TerminalState(session.wf.task) = "error"

\* A replay of q, or the response to it, can be rendered.
Renders(q) ==
  LET m == turn[q].msg
  IN \/ MatchesState(m)
     \/ msgs[m].kind \in {"started", "completed"} /\ DeletedWorkflow
     \/ MatchesState(CurrentMessage)

Replayable(q) == turn[q].st = "completed" /\ turn[q].body.scope = session.scope

-----------------------------------------------------------------------------
(* Properties *)

SessionRow ==
  [scope : Nat, ctx : Nat, active : Request \cup {None}, art : Nat, prev : Nat, savedAs : Nat,
   prop : [st : {"none", "pending", "confirmed"}, msg : Nat, scope : Nat],
   wf : [task : Nat, scope : Nat, started : Nat, terminal : Nat]]
Body == [scope : Nat, ctx : Nat, token : Nat]
TurnRow ==
  [st : {"none", "running", "failed", "completed"}, attempt : 0..MaxAttempt, lease : BOOLEAN,
   msg : Nat, by : 0..MaxAttempt, body : Body]
MsgRow ==
  [kind : {"gone", "reply", "preview", "confirm", "started", "completed", "error"},
   scope : Nat, art : Nat, ver : Nat, parent : Nat, saved : Nat, task : Nat]
TaskRow ==
  [by : Request \cup SaveKey, of : Nat, st : {"Pending", "Completed", "Failed", "Deleted"}]
Handler ==
  [q : Request, n : 1..MaxAttempt, pc : {"run", "find", "persist", "fold", "fail"},
   prev : Nat, art : Nat, task : Nat, hash : Nat, done : BOOLEAN]
Poll == [task : Nat, scope : Nat, terminal : Nat, seen : {"none", "error", "completed"}]

\* Every row and every request in flight has its shape.
TypeOK ==
  /\ session \in SessionRow /\ turn \in [Request -> TurnRow]
  /\ msgs \in Seq(MsgRow) /\ tasks \in Seq(TaskRow)
  /\ binding \in [Intent -> [task : Nat, hash : Nat]]
  /\ live \subseteq Handler /\ polls \subseteq Poll
  /\ saves \subseteq [key : SaveKey, msg : Nat]
  /\ begun \in Nat

\* The session shows one artifact, of its own scope: a preview that its Save
\* button can save (row, payload and session carry one version), a proposal
\* that can be confirmed, or a workflow with the message that shows it.
PreviewIsSaveable ==
  session.prev > 0 =>
    LET m == msgs[session.prev]
    IN /\ m.kind = "preview" /\ m.scope = session.scope
       /\ m.art = session.art /\ m.ver = m.art /\ m.saved = session.savedAs
       /\ m.parent > 0 => msgs[m.parent].kind = "preview" /\ msgs[m.parent].scope = m.scope
OneArtifact ==
  /\ session.prop.st = "pending" =>
       /\ session.prev = 0 /\ session.wf = NoWorkflow
       /\ session.prop.scope = session.scope
       /\ msgs[session.prop.msg].kind = "confirm"
  /\ session.wf.task > 0 =>
       /\ session.prev = 0 /\ session.wf.scope = session.scope
       /\ session.wf.started > 0 \/ session.wf.terminal > 0
WorkbenchAgrees == PreviewIsSaveable /\ OneArtifact

\* However often a request or a confirmation is retried, under one key or
\* another, by whichever attempt: it creates one summary that is not deleted.
SameIntent(t, u) ==
  \/ tasks[t].by \in Chat /\ tasks[u].by = tasks[t].by
  \/ {tasks[t].by, tasks[u].by} \subseteq Key /\ tasks[u].of = tasks[t].of
OneTaskPerIntent ==
  \A t, u \in DOMAIN tasks :
    SameIntent(t, u) /\ "Deleted" \notin {tasks[t].st, tasks[u].st} => t = u

\* One preview is saved as one summary, whatever keys its saves carry.
SavedOnce ==
  \A t \in DOMAIN tasks :
    tasks[t].by \in SaveKey =>
      /\ binding[<<"save", tasks[t].by>>].task = t
      /\ LET m == msgs[tasks[t].of] IN m.kind = "gone" \/ m.saved = t

\* What makes both so.  A confirmation names a message; a summary that is not deleted
\* is the one its intent is bound to; a save's binding is never dropped, and the preview
\* it saved is marked until the session is deleted.
IntentOfTask(row) ==
  IF row.by \in Key THEN <<"proposal", row.of>> ELSE <<"turn", row.by>>
TokensNamed ==
  /\ session.prop.st = "pending" => session.prop.msg \in 1..MaxMsg
  /\ \A h \in live : h.q \in Key => turn[h.q].body.token \in 1..MaxMsg
  /\ \A t \in DOMAIN tasks : tasks[t].by \in Key => tasks[t].of \in 1..MaxMsg
CreatedIsBound ==
  \A t \in DOMAIN tasks :
    tasks[t].by \in Request /\ tasks[t].st # "Deleted" => binding[IntentOfTask(tasks[t])].task = t
SavedIsMarked ==
  /\ session.prev <= Len(msgs)
  /\ \A t \in DOMAIN tasks :
       tasks[t].by \in SaveKey =>
         /\ tasks[t].of \in DOMAIN msgs
         /\ binding[<<"save", tasks[t].by>>].task = t
         /\ LET m == msgs[tasks[t].of] IN m.kind = "gone" \/ m.saved = t

IInv == TypeOK /\ TokensNamed /\ CreatedIsBound /\ SavedIsMarked

\* A completed request of the current scope can be replayed, while the
\* workflow it gave way to is neither deleted nor folded without a start.
CompletedTurnsRender ==
  \A q \in Request :
    /\ Replayable(q)
    /\ session.wf.task > 0 => /\ tasks[session.wf.task].st # "Deleted"
                              /\ session.wf.started > 0
    => Renders(q)

\* A reply of the session's turns goes to the holder's last attempt, once.
Holder ==
  IF session.active = None THEN None ELSE <<session.active, turn[session.active].attempt>>
Answers == [q \in Request |-> IF turn[q].st = "completed" THEN turn[q].by ELSE 0]
T == INSTANCE Turns WITH Attempt <- 1..MaxAttempt, holder <- Holder, held <- Leased(session.active), answer <- Answers
ImplementsTurns == T!Spec
=============================================================================
