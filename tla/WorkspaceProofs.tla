--------------------------- MODULE WorkspaceProofs ---------------------------
(***************************************************************************)
(* Proofs about Workspace, for any set of requests and keys and any bound  *)
(* on attempts, scopes and messages: it implements Turns, it creates one   *)
(* summary per intent and saves one summary per preview, and what it shows *)
(* can be acted on and replayed.                                           *)
(***************************************************************************)
EXTENDS Workspace, SequenceTheorems, TLAPS

USE ConstantsAssumption DEF Request

\* The rows that Init and the handlers start from.
LEMMA EmptyRows ==
  /\ NoSession \in SessionRow /\ NoTurn \in TurnRow
  /\ Gone \in MsgRow /\ Unbound \in [task : Nat, hash : Nat]
BY DEF NoSession, NoTurn, Gone, Unbound, NoProposal, NoWorkflow, SessionRow, TurnRow, MsgRow, Body

LEMMA InitInv == Init => IInv
<1> SUFFICES ASSUME Init PROVE IInv
  OBVIOUS
<1>1. TypeOK
  BY EmptyRows DEF Init, TypeOK
<1>2. TokensNamed /\ CreatedIsBound /\ SavedIsMarked
  <2>1. DOMAIN tasks = {} /\ Len(msgs) = 0 /\ live = {}
    BY DEF Init
  <2>2. session.prop.st = "none" /\ session.prev = 0
    BY DEF Init, NoSession, NoProposal
  <2> QED
    BY <2>1, <2>2 DEF TokensNamed, CreatedIsBound, SavedIsMarked
<1> QED
  BY <1>1, <1>2 DEF IInv

\* Clearing a part of the workbench keeps the row's shape, its holder, and what it names.
LEMMA Cleared ==
  ASSUME NEW s \in SessionRow
  PROVE  /\ ClearPreview(s) \in SessionRow /\ ClearPreview(s).active = s.active
         /\ ClearPreview(s).prop = s.prop /\ ClearPreview(s).prev = 0
         /\ ClearProposal(s) \in SessionRow /\ ClearProposal(s).active = s.active
         /\ ClearProposal(s).prop.st = "none" /\ ClearProposal(s).prev = s.prev
         /\ ClearWorkflow(s) \in SessionRow /\ ClearWorkflow(s).active = s.active
         /\ ClearWorkflow(s).prop = s.prop /\ ClearWorkflow(s).prev = s.prev
BY DEF ClearPreview, ClearProposal, ClearWorkflow, NoProposal, NoWorkflow, SessionRow

-----------------------------------------------------------------------------
(* Beginning a turn *)

LEMMA OpenedRow ==
  ASSUME IInv, NEW body \in Body
  PROVE  /\ Opened(body) \in SessionRow /\ Opened(body).active = session.active
         /\ Opened(body).prop.st = "pending" => Opened(body).prop.msg \in 1..MaxMsg
         /\ Opened(body).prev <= Len(msgs)
<1> DEFINE s0 == [session EXCEPT !.scope = body.scope, !.ctx = body.ctx]
<1>1. s0 \in SessionRow /\ s0.active = session.active /\ session.prop = s0.prop
  BY DEF IInv, TypeOK, SessionRow, Body
<1>2. ClearPreview(s0) \in SessionRow /\ ClearPreview(s0).active = session.active
      /\ ClearPreview(s0).prev = 0
  BY <1>1, Cleared
<1> DEFINE s1 == ClearProposal(ClearPreview(s0))
<1>3. s1 \in SessionRow /\ s1.active = session.active /\ s1.prop.st = "none" /\ s1.prev = 0
  BY <1>2, Cleared
<1>4. /\ ClearWorkflow(s1) \in SessionRow /\ ClearWorkflow(s1).active = session.active
      /\ ClearWorkflow(s1).prop.st = "none" /\ ClearWorkflow(s1).prev = 0
  BY <1>3, Cleared
<1>5. Len(msgs) \in Nat
  BY DEF IInv, TypeOK
<1>6. CASE body.scope > session.scope
  <2>1. Opened(body) = ClearWorkflow(s1)
    BY <1>6 DEF Opened
  <2> QED
    BY <1>4, <1>5, <2>1
<1>7. CASE ~(body.scope > session.scope)
  BY <1>7 DEF Opened, IInv, TypeOK, TokensNamed, SavedIsMarked
<1> QED
  BY <1>6, <1>7

LEMMA AcquireInv ==
  ASSUME IInv, NEW q \in Request, NEW body \in Body, NEW route \in {"run", "find", "fail"},
         NEW hash \in Nat, q \in Key => body.token \in 1..MaxMsg,
         Acquire(q, body, route, hash)
  PROVE  IInv'
<1> DEFINE s == [Opened(body) EXCEPT !.active = q]
           n == turn[q].attempt + 1
           h == [q |-> q, n |-> n, pc |-> route, prev |-> s.prev, art |-> s.art,
                 task |-> 0, hash |-> hash, done |-> FALSE]
           row == [st |-> "running", attempt |-> n, lease |-> TRUE, msg |-> 0, by |-> 0,
                   body |-> body]
<1>1. /\ s \in SessionRow /\ s.prop = Opened(body).prop /\ s.prev = Opened(body).prev
  BY OpenedRow DEF SessionRow
<1>2. n \in 1..MaxAttempt /\ row \in TurnRow /\ row.body = body
  <2>1. turn[q].attempt \in Nat /\ n <= MaxAttempt
    BY DEF IInv, TypeOK, TurnRow, Acquire
  <2>2. n \in 1..MaxAttempt
    BY <2>1
  <2> QED
    BY <2>2 DEF TurnRow
<1>3. h \in Handler /\ h.q = q
  BY <1>1, <1>2 DEF Handler, SessionRow
<1>4. /\ session' = s /\ turn' = [turn EXCEPT ![q] = row] /\ live' = live \cup {h}
      /\ UNCHANGED <<msgs, tasks, binding, polls, saves>> /\ begun' \in Nat
  BY DEF Acquire, IInv, TypeOK
<1>5. TypeOK'
  BY <1>1, <1>2, <1>3, <1>4 DEF IInv, TypeOK
<1>6. TokensNamed'
  <2>1. session'.prop.st = "pending" => session'.prop.msg \in 1..MaxMsg
    BY <1>1, <1>4, OpenedRow
  <2>2. ASSUME NEW g \in live', g.q \in Key
        PROVE  turn'[g.q].body.token \in 1..MaxMsg
    <3>1. CASE g.q = q
      BY <2>2, <3>1, <1>2, <1>4 DEF IInv, TypeOK
    <3>2. CASE g.q # q
      BY <2>2, <3>2, <1>3, <1>4 DEF IInv, TypeOK, TokensNamed, Handler
    <3> QED
      BY <3>1, <3>2
  <2>3. \A t \in DOMAIN tasks' : tasks'[t].by \in Key => tasks'[t].of \in 1..MaxMsg
    BY <1>4 DEF IInv, TokensNamed
  <2> QED
    BY <2>1, <2>2, <2>3 DEF TokensNamed
<1>7. CreatedIsBound' /\ SavedIsMarked'
  BY <1>1, <1>4, OpenedRow DEF IInv, CreatedIsBound, IntentOfTask, SavedIsMarked
<1> QED
  BY <1>5, <1>6, <1>7 DEF IInv

\* A body the server does not refuse has its shape; that of a confirmation it accepts
\* names a message.
LEMMA BodyType ==
  ASSUME IInv, NEW q \in Request, NEW body,
         body \in Bodies(q, ChatBodies) \/ body \in Bodies(q, ConfirmBodies)
  PROVE  body \in Body
<1>1. session \in SessionRow /\ turn[q] \in TurnRow
  BY DEF IInv, TypeOK
<1>2. turn[q].body \in Body
  BY <1>1 DEF TurnRow
<1>3. ASSUME NEW b \in ChatBodies PROVE b \in Body
  BY <1>1 DEF ChatBodies, Body, SessionRow
<1>4. ASSUME NEW b \in ConfirmBodies PROVE b \in Body
  BY <1>1 DEF ConfirmBodies, Body, SessionRow
<1> QED
  BY <1>2, <1>3, <1>4 DEF Bodies

LEMMA BeginInv ==
  ASSUME IInv, NEW q \in Chat, BeginTurn(q)
  PROVE  IInv'
<1>1. PICK body \in Bodies(q, ChatBodies), route \in Routes :
        \E hash \in RequestHashes(q, route) : Acquire(q, body, route, hash)
  BY DEF BeginTurn
<1>2. PICK hash \in RequestHashes(q, route) : Acquire(q, body, route, hash)
  BY <1>1
<1>3. body \in Body
  BY BodyType
<1>4. hash \in Nat /\ route \in {"run", "find", "fail"} /\ q \notin Key
  BY DEF RequestHashes, Routes, IInv, TypeOK, TurnRow
<1> QED
  BY <1>2, <1>3, <1>4, AcquireInv

LEMMA BeginConfirmInv ==
  ASSUME IInv, NEW k \in Key, BeginProposalConfirmation(k)
  PROVE  IInv'
<1>1. PICK body \in Bodies(k, ConfirmBodies), route \in {"find", "fail"} :
        ProposalAccepted(body) /\ Acquire(k, body, route, 1)
  BY DEF BeginProposalConfirmation
<1>2. body \in Body /\ body.token \in 1..MaxMsg
  BY <1>1, BodyType DEF ProposalAccepted, IInv, TokensNamed
<1> QED
  BY <1>1, <1>2, AcquireInv

-----------------------------------------------------------------------------
(* Handlers, polls, saves *)

\* A step that writes none of the rows the invariant relates.
LEMMA RowsKept ==
  ASSUME IInv, UNCHANGED <<session, turn, msgs, tasks, binding>>,
         live' \subseteq Handler, \A h \in live' : \E g \in live : g.q = h.q,
         polls' \subseteq Poll, saves' \subseteq [key : SaveKey, msg : Nat], begun' \in Nat
  PROVE  IInv'
<1>1. TypeOK'
  BY DEF IInv, TypeOK
<1>2. TokensNamed'
  BY DEF IInv, TokensNamed
<1>3. CreatedIsBound' /\ SavedIsMarked'
  BY DEF IInv, CreatedIsBound, IntentOfTask, SavedIsMarked
<1> QED
  BY <1>1, <1>2, <1>3 DEF IInv

LEMMA GotoKeeps ==
  ASSUME IInv, NEW h \in live, NEW g \in Handler, g.q = h.q,
         live' = live \ {h} \/ live' = (live \ {h}) \cup {g}
  PROVE  live' \subseteq Handler /\ \A x \in live' : \E y \in live : y.q = x.q
BY DEF IInv, TypeOK

\* What a handler looks for is an intent.
LEMMA IntentNamed ==
  ASSUME IInv, NEW h \in live
  PROVE  IntentOf(h.q) \in Intent
BY DEF IInv, TypeOK, TokensNamed, IntentOf, Intent, Handler, TurnRow, Body

LEMMA FindInv ==
  ASSUME IInv, NEW h \in live, FindIdempotent(h)
  PROVE  IInv'
<1> DEFINE b == binding[IntentOf(h.q)]
           found == [h EXCEPT !.pc = "fold", !.task = b.task, !.done = tasks[b.task].st = "Completed"]
<1>1. h \in Handler /\ h.q \in Request
  BY DEF IInv, TypeOK, Handler
<1>2. [h EXCEPT !.pc = "persist"] \in Handler /\ [h EXCEPT !.pc = "fail"] \in Handler
  BY <1>1 DEF Handler
<1>3. \E g \in Handler : g.q = h.q /\ live' = (live \ {h}) \cup {g}
  <2>1. CASE b = Unbound
    BY <1>1, <1>2, <2>1 DEF FindIdempotent, Goto, Handler
  <2>2. CASE b # Unbound /\ (b.hash # h.hash \/ tasks[b.task].st = "Deleted")
    BY <1>1, <1>2, <2>2 DEF FindIdempotent, Goto, Handler
  <2>3. CASE b # Unbound /\ ~(b.hash # h.hash \/ tasks[b.task].st = "Deleted")
    <3>1. live' = (live \ {h}) \cup {found}
      BY <2>3 DEF FindIdempotent
    <3>2. found \in Handler /\ found.q = h.q
      BY <1>1, IntentNamed DEF Handler, IInv, TypeOK
    <3> QED
      BY <3>1, <3>2
  <2> QED
    BY <2>1, <2>2, <2>3
<1> QED
  BY <1>3, GotoKeeps, RowsKept DEF FindIdempotent, IInv, TypeOK

\* The summaries after one was created for the free intent i.
LEMMA Created ==
  ASSUME IInv, NEW i \in Intent, Wins(i), NEW key \in Request \cup SaveKey, NEW of \in Nat,
         NEW st \in {"Pending", "Completed"}, NEW hash \in Nat,
         tasks' = NewTask(key, of, st), binding' = Bind(i, hash)
  PROVE  /\ tasks' \in Seq(TaskRow) /\ binding' \in [Intent -> [task : Nat, hash : Nat]]
         /\ DOMAIN tasks' = DOMAIN tasks \cup {Len(tasks) + 1}
         /\ tasks'[Len(tasks) + 1] = [by |-> key, of |-> of, st |-> st]
         /\ \A t \in DOMAIN tasks : tasks'[t] = tasks[t]
         /\ binding'[i].task = Len(tasks) + 1
         /\ \A j \in Intent : binding[j].task \in DOMAIN tasks => binding'[j] = binding[j]
<1> DEFINE row == [by |-> key, of |-> of, st |-> st]
<1>1. /\ tasks \in Seq(TaskRow) /\ row \in TaskRow /\ Len(tasks) \in Nat
      /\ tasks' = Append(tasks, row)
  BY DEF IInv, TypeOK, TaskRow, NewTask
<1>2. /\ tasks' \in Seq(TaskRow) /\ Len(tasks') = Len(tasks) + 1
      /\ tasks'[Len(tasks) + 1] = row
      /\ \A t \in 1..Len(tasks) : tasks'[t] = tasks[t]
  BY <1>1
<1>3. DOMAIN tasks = 1..Len(tasks) /\ DOMAIN tasks' = 1..(Len(tasks) + 1)
  BY <1>1, <1>2
<1>4. binding' = [binding EXCEPT ![i] = [task |-> Len(tasks) + 1, hash |-> hash]]
  BY DEF Bind, Wins
<1>5. binding[i].task = 0 /\ binding \in [Intent -> [task : Nat, hash : Nat]]
  BY DEF Wins, Unbound, IInv, TypeOK
<1>6. binding' \in [Intent -> [task : Nat, hash : Nat]] /\ binding'[i].task = Len(tasks) + 1
  BY <1>1, <1>4, <1>5
<1>7. \A j \in Intent : binding[j].task \in DOMAIN tasks => binding'[j] = binding[j]
  BY <1>3, <1>4, <1>5
<1> QED
  BY <1>1, <1>2, <1>3, <1>6, <1>7

\* The tasks there were are as bound and marked as before.
LEMMA CreatedKeeps ==
  ASSUME IInv, NEW t \in DOMAIN tasks, tasks'[t] = tasks[t],
         \A j \in Intent : binding[j].task \in DOMAIN tasks => binding'[j] = binding[j]
  PROVE  /\ tasks[t].by \in Request /\ tasks[t].st # "Deleted" =>
              binding'[IntentOfTask(tasks[t])].task = t
         /\ tasks[t].by \in SaveKey => binding'[<<"save", tasks[t].by>>].task = t
<1>1. tasks[t] \in TaskRow
  BY DEF IInv, TypeOK
<1>3. ASSUME tasks[t].by \in Request, tasks[t].st # "Deleted"
      PROVE  binding'[IntentOfTask(tasks[t])].task = t
  <2>1. binding[IntentOfTask(tasks[t])].task = t
    BY <1>3 DEF IInv, CreatedIsBound
  <2>2. IntentOfTask(tasks[t]) \in Intent
    BY <1>1, <1>3 DEF IntentOfTask, Intent, TaskRow, IInv, TokensNamed
  <2> QED
    BY <2>1, <2>2
<1>4. ASSUME tasks[t].by \in SaveKey
      PROVE  binding'[<<"save", tasks[t].by>>].task = t
  BY <1>4 DEF IInv, SavedIsMarked, Intent
<1> QED
  BY <1>3, <1>4

\* A handler that found or created its summary folds it into the session.
LEMMA Folding ==
  ASSUME NEW h \in Handler, NEW t \in Nat
  PROVE  [h EXCEPT !.pc = "fold", !.task = t] \in Handler /\ [h EXCEPT !.pc = "fold", !.task = t].q = h.q
BY DEF Handler

LEMMA PersistInv ==
  ASSUME IInv, NEW h \in live, Persist(h)
  PROVE  IInv'
<1> DEFINE i == IntentOf(h.q)
           t0 == Len(tasks) + 1
           g == [h EXCEPT !.pc = "fold", !.task = t0]
<1>1. h \in Handler /\ h.q \in Request /\ h.hash \in Nat /\ i \in Intent
  BY IntentNamed DEF IInv, TypeOK, Handler
<1>2. CASE Wins(i)
  <2>1. turn[h.q].body.token \in Nat /\ Len(tasks) \in Nat
    BY <1>1 DEF IInv, TypeOK, TurnRow, Body
  <2>2. /\ tasks' = NewTask(h.q, turn[h.q].body.token, "Pending") /\ binding' = Bind(i, h.hash)
        /\ live' = (live \ {h}) \cup {g}
        /\ UNCHANGED <<session, turn, msgs, polls, saves, begun>>
    BY <1>2 DEF Persist
  <2>3. /\ tasks' \in Seq(TaskRow) /\ binding' \in [Intent -> [task : Nat, hash : Nat]]
        /\ DOMAIN tasks' = DOMAIN tasks \cup {t0}
        /\ tasks'[t0] = [by |-> h.q, of |-> turn[h.q].body.token, st |-> "Pending"]
        /\ \A t \in DOMAIN tasks : tasks'[t] = tasks[t]
        /\ binding'[i].task = t0
        /\ \A j \in Intent : binding[j].task \in DOMAIN tasks => binding'[j] = binding[j]
    BY <1>1, <1>2, <2>1, <2>2, Created
  <2>4. g \in Handler /\ g.q = h.q
    <3>1. t0 \in Nat
      BY <2>1
    <3> QED
      BY <1>1, <3>1, Folding
  <2>5. live' \subseteq Handler /\ \A x \in live' : \E y \in live : y.q = x.q
    BY <2>2, <2>4, GotoKeeps
  <2>6. TypeOK'
    BY <2>2, <2>3, <2>5 DEF IInv, TypeOK
  <2>7. TokensNamed'
    <3>1. session'.prop.st = "pending" => session'.prop.msg \in 1..MaxMsg
      BY <2>2 DEF IInv, TokensNamed
    <3>2. \A x \in live : x.q \in Key => turn[x.q].body.token \in 1..MaxMsg
      BY DEF IInv, TokensNamed
    <3>3. \A x \in live' : x.q \in Key => turn'[x.q].body.token \in 1..MaxMsg
      BY <2>2, <2>5, <3>2
    <3>4. \A t \in DOMAIN tasks' : tasks'[t].by \in Key => tasks'[t].of \in 1..MaxMsg
      BY <2>3, <3>2 DEF IInv, TokensNamed
    <3> QED
      BY <3>1, <3>3, <3>4 DEF TokensNamed
  <2>8. IntentOfTask(tasks'[t0]) = i
    BY <2>3 DEF IntentOfTask, IntentOf
  <2>9. CreatedIsBound'
    <3> SUFFICES ASSUME NEW t \in DOMAIN tasks', tasks'[t].by \in Request, tasks'[t].st # "Deleted"
                 PROVE  binding'[IntentOfTask(tasks'[t])].task = t
      BY DEF CreatedIsBound
    <3>1. CASE t = t0
      BY <3>1, <2>3, <2>8
    <3>2. CASE t \in DOMAIN tasks
      BY <3>2, <2>3, CreatedKeeps
    <3> QED
      BY <3>1, <3>2, <2>3
  <2>10. SavedIsMarked'
    <3>1. session'.prev <= Len(msgs')
      BY <2>2 DEF IInv, SavedIsMarked
    <3>2. ASSUME NEW t \in DOMAIN tasks', tasks'[t].by \in SaveKey
          PROVE  /\ tasks'[t].of \in DOMAIN msgs'
                 /\ binding'[<<"save", tasks'[t].by>>].task = t
                 /\ msgs'[tasks'[t].of].kind = "gone" \/ msgs'[tasks'[t].of].saved = t
      <4>1. t \in DOMAIN tasks /\ tasks'[t] = tasks[t]
        BY <3>2, <2>3, <1>1
      <4> QED
        BY <3>2, <4>1, <2>2, <2>3, CreatedKeeps DEF IInv, SavedIsMarked
    <3> QED
      BY <3>1, <3>2 DEF SavedIsMarked
  <2> QED
    BY <2>6, <2>7, <2>9, <2>10 DEF IInv
<1>3. CASE ~Wins(i)
  <2>1. live' = (live \ {h}) \cup {[h EXCEPT !.pc = "find"]}
        /\ UNCHANGED <<session, turn, msgs, tasks, binding, polls, saves, begun>>
    BY <1>3 DEF Persist, Goto
  <2>2. [h EXCEPT !.pc = "find"] \in Handler /\ [h EXCEPT !.pc = "find"].q = h.q
    BY <1>1 DEF Handler
  <2> QED
    BY <2>1, <2>2, GotoKeeps, RowsKept DEF IInv, TypeOK
<1> QED
  BY <1>2, <1>3

\* A step that ends with new messages, or none, and keeps tasks and bindings.
LEMMA Answered ==
  ASSUME IInv, UNCHANGED <<tasks, binding, saves, begun>>,
         session' \in SessionRow, session'.prev <= Len(msgs'),
         session'.prop.st = "pending" => session'.prop.msg \in 1..MaxMsg,
         turn' \in [Request -> TurnRow], \A q \in Request : turn'[q].body = turn[q].body,
         live' \subseteq live, polls' \subseteq Poll,
         msgs' = msgs \/ \E m \in MsgRow : msgs' = Append(msgs, m)
  PROVE  IInv'
<1>1. /\ msgs' \in Seq(MsgRow) /\ DOMAIN msgs \subseteq DOMAIN msgs'
      /\ \A k \in DOMAIN msgs : msgs'[k] = msgs[k]
  <2>1. msgs \in Seq(MsgRow)
    BY DEF IInv, TypeOK
  <2>2. CASE msgs' = msgs
    BY <2>1, <2>2
  <2>3. ASSUME NEW m \in MsgRow, msgs' = Append(msgs, m)
        PROVE  /\ msgs' \in Seq(MsgRow) /\ DOMAIN msgs \subseteq DOMAIN msgs'
               /\ \A k \in DOMAIN msgs : msgs'[k] = msgs[k]
    BY <2>1, <2>3
  <2> QED
    BY <2>2, <2>3
<1>2. TypeOK'
  BY <1>1 DEF IInv, TypeOK
<1>3. TokensNamed'
  <2>1. \A h \in live' : h.q \in Key => turn'[h.q].body.token \in 1..MaxMsg
    BY DEF IInv, TypeOK, TokensNamed, Handler
  <2> QED
    BY <2>1 DEF IInv, TokensNamed
<1>4. CreatedIsBound'
  BY DEF IInv, CreatedIsBound
<1>5. SavedIsMarked'
  BY <1>1 DEF IInv, SavedIsMarked
<1> QED
  BY <1>2, <1>3, <1>4, <1>5 DEF IInv

LEMMA CompleteInv ==
  ASSUME IInv, NEW h \in live, NEW m \in MsgRow, NEW s \in SessionRow,
         s.prop.st = "pending" => s.prop.msg \in 1..MaxMsg, s.prev <= Len(msgs) + 1,
         CompleteTurn(h, m, s)
  PROVE  IInv'
<1>1. h.q \in Request /\ h.n \in 1..MaxAttempt /\ msgs \in Seq(MsgRow)
  BY DEF IInv, TypeOK, Handler
<1>2. CASE Owns(h)
  <2> DEFINE id == Len(msgs) + 1
             row == [turn[h.q] EXCEPT !.st = "completed", !.lease = FALSE, !.msg = id, !.by = h.n]
  <2>1. /\ msgs' = Append(msgs, m) /\ live' = live \ {h}
        /\ turn' = [turn EXCEPT ![h.q] = row]
        /\ UNCHANGED <<tasks, binding, polls, saves, begun>>
    BY <1>2 DEF CompleteTurn
  <2>2. PICK ctx \in EffectiveContexts(h, id) :
          session' = [s EXCEPT !.active = None, !.ctx = ctx]
    BY <1>2 DEF CompleteTurn
  <2>3. id \in Nat /\ Len(msgs') = id
    BY <1>1, <2>1
  <2>4. ctx \in Nat
    BY <2>3 DEF EffectiveContexts, IInv, TypeOK, SessionRow
  <2>5. session' \in SessionRow /\ session'.prop = s.prop /\ session'.prev = s.prev
    BY <2>2, <2>4 DEF SessionRow
  <2>6. turn[h.q] \in TurnRow /\ turn \in [Request -> TurnRow]
    BY <1>1 DEF IInv, TypeOK
  <2>7. row \in TurnRow /\ row.body = turn[h.q].body
    <3>1. h.n \in 0..MaxAttempt
      BY <1>1
    <3> HIDE DEF id
    <3> QED
      BY <2>3, <2>6, <3>1 DEF TurnRow
  <2>8. turn' \in [Request -> TurnRow] /\ \A q \in Request : turn'[q].body = turn[q].body
    BY <2>1, <2>6, <2>7, <1>1
  <2> QED
    BY <2>1, <2>3, <2>5, <2>8, Answered DEF IInv, TypeOK
<1>3. CASE ~Owns(h)
  <2>1. live' = live \ {h} /\ UNCHANGED <<session, turn, msgs, tasks, binding, polls, saves, begun>>
    BY <1>3 DEF CompleteTurn
  <2> QED
    BY <2>1, RowsKept DEF IInv, TypeOK
<1> QED
  BY <1>2, <1>3

\* A message without an artifact's fields, of one of the kinds.
LEMMA MessageRow ==
  ASSUME IInv,
         NEW kind \in {"gone", "reply", "preview", "confirm", "started", "completed", "error"}
  PROVE  Message(kind) \in MsgRow
BY DEF IInv, TypeOK, SessionRow, Message, Gone, MsgRow

\* The rows that the handlers edit keep their shape.
LEMMA ProposalShown ==
  ASSUME NEW s \in SessionRow, NEW k \in Nat, NEW c \in Nat
  PROVE  LET p == [st |-> "pending", msg |-> k, scope |-> c]
         IN [s EXCEPT !.prop = p] \in SessionRow /\ [s EXCEPT !.prop = p].prev = s.prev
            /\ [s EXCEPT !.prop = p].prop.msg = k
BY DEF SessionRow

LEMMA TerminalShown ==
  ASSUME NEW s \in SessionRow, NEW k \in Nat
  PROVE  /\ [s EXCEPT !.wf.terminal = k] \in SessionRow /\ [s EXCEPT !.wf.terminal = k].prev = s.prev
         /\ [s EXCEPT !.wf.terminal = k].prop = s.prop
BY DEF SessionRow

LEMMA PreviewMessage ==
  ASSUME NEW m \in MsgRow, NEW a \in Nat, NEW b \in Nat, NEW c \in Nat
  PROVE  [m EXCEPT !.art = a, !.ver = b, !.parent = c] \in MsgRow
BY DEF MsgRow

\* Each of the four ends is a CompleteTurn with a proper message and session row.
LEMMA Completers ==
  ASSUME IInv, NEW h \in live,
         CompleteReply(h) \/ CompletePreview(h) \/ CompleteProposal(h) \/ CompleteWorkflow(h)
  PROVE  \E m \in MsgRow, s \in SessionRow :
           /\ s.prop.st = "pending" => s.prop.msg \in 1..MaxMsg
           /\ s.prev <= Len(msgs) + 1
           /\ CompleteTurn(h, m, s)
<1> DEFINE id == Len(msgs) + 1
<1>1. /\ session \in SessionRow /\ session.prev <= Len(msgs) /\ Len(msgs) \in Nat
      /\ session.prop.st = "pending" => session.prop.msg \in 1..MaxMsg
      /\ h \in Handler
  BY DEF IInv, TypeOK, SavedIsMarked, TokensNamed
<1>2. CASE CompleteReply(h)
  <2>1. session.prev <= Len(msgs) + 1
    BY <1>1 DEF SessionRow
  <2> QED
    BY <1>1, <1>2, <2>1, MessageRow DEF CompleteReply
<1>3. CASE CompletePreview(h)
  <2> DEFINE s0 == [session EXCEPT !.art = @ + 1, !.prev = id, !.savedAs = 0]
             s == ClearWorkflow(ClearProposal(s0))
  <2>1. PICK parent \in {0, h.prev} : CompleteTurn(h, Preview(h, parent), s)
    BY <1>3 DEF CompletePreview
  <2>2. s0 \in SessionRow /\ s0.prev = id
    <3> DEFINE a == session.art + 1
    <3>1. a \in Nat /\ id \in Nat
      BY <1>1 DEF SessionRow
    <3>2. s0 = [session EXCEPT !.art = a, !.prev = id, !.savedAs = 0]
      OBVIOUS
    <3> HIDE DEF id, a, s0
    <3> QED
      BY <1>1, <3>1, <3>2 DEF SessionRow
  <2>3. ClearProposal(s0) \in SessionRow /\ ClearProposal(s0).prop.st = "none"
        /\ ClearProposal(s0).prev = id
    BY <2>2, Cleared
  <2>4. s \in SessionRow /\ s.prop.st = "none" /\ s.prev = id
    BY <2>3, Cleared
  <2>5. Preview(h, parent) \in MsgRow
    <3>1. parent \in Nat /\ h.art \in Nat /\ session.art \in Nat
      BY <1>1 DEF Handler, SessionRow
    <3>2. session.art + 1 \in Nat /\ h.art + 1 \in Nat
      BY <3>1
    <3>3. Message("preview") \in MsgRow
      BY MessageRow
    <3> QED
      BY <1>1, <3>1, <3>2, <3>3, PreviewMessage DEF Preview
  <2>6. s.prev <= Len(msgs) + 1
    BY <1>1, <2>4
  <2> QED
    BY <2>1, <2>4, <2>5, <2>6
<1>4. CASE CompleteProposal(h)
  <2> DEFINE s0 == ClearWorkflow(ClearPreview(session))
             s == [s0 EXCEPT !.prop = [st |-> "pending", msg |-> id, scope |-> session.scope]]
  <2>1. CompleteTurn(h, Message("confirm"), s)
    BY <1>4 DEF CompleteProposal
  <2>2. s0 \in SessionRow /\ s0.prev = 0
    BY <1>1, Cleared
  <2>3. id \in 1..MaxMsg
    <3>1. Len(msgs) < MaxMsg
      BY <2>1 DEF CompleteTurn
    <3> QED
      BY <1>1, <3>1
  <2>4. s \in SessionRow /\ s.prop.msg = id /\ s.prev = 0
    <3>1. session.scope \in Nat /\ id \in Nat
      BY <1>1 DEF SessionRow
    <3> HIDE DEF id, s0
    <3> QED
      BY <2>2, <3>1, ProposalShown
  <2>5. s.prev <= Len(msgs) + 1
    BY <1>1, <2>4
  <2> QED
    BY <2>1, <2>3, <2>4, <2>5, MessageRow
<1>5. CASE CompleteWorkflow(h)
  <2> DEFINE kept == IF h.q \in Key THEN [session EXCEPT !.prop.st = "confirmed"]
                                    ELSE ClearProposal(session)
             wf == [task |-> h.task, scope |-> session.scope,
                    started |-> IF h.done THEN 0 ELSE id, terminal |-> IF h.done THEN id ELSE 0]
             s == [ClearPreview(kept) EXCEPT !.wf = wf]
             m == [Message(IF h.done THEN "completed" ELSE "started") EXCEPT !.task = h.task]
  <2>1. CompleteTurn(h, m, s)
    BY <1>5 DEF CompleteWorkflow
  <2>2. kept \in SessionRow /\ kept.prop.st # "pending"
    <3>1. CASE h.q \in Key
      BY <1>1, <3>1 DEF SessionRow
    <3>2. CASE h.q \notin Key
      BY <1>1, <3>2, Cleared
    <3> QED
      BY <3>1, <3>2
  <2>3. ClearPreview(kept) \in SessionRow /\ ClearPreview(kept).prop = kept.prop
        /\ ClearPreview(kept).prev = 0
    <3> HIDE DEF kept
    <3> QED
      BY <2>2, Cleared
  <2>4. wf \in [task : Nat, scope : Nat, started : Nat, terminal : Nat]
    BY <1>1 DEF Handler, SessionRow
  <2>5. s \in SessionRow /\ s.prop = kept.prop /\ s.prev = 0
    <3> HIDE DEF kept, wf
    <3> QED
      BY <2>3, <2>4 DEF SessionRow
  <2>6. m \in MsgRow
    <3>1. Message(IF h.done THEN "completed" ELSE "started") \in MsgRow
      BY MessageRow
    <3>2. h.task \in Nat
      BY <1>1 DEF Handler
    <3> QED
      BY <3>1, <3>2 DEF MsgRow
  <2>7. s.prev <= Len(msgs) + 1 /\ s.prop.st # "pending"
    <3> HIDE DEF s
    <3> QED
      BY <1>1, <2>2, <2>5
  <2> HIDE DEF m, s
  <2> QED
    BY <2>1, <2>5, <2>6, <2>7
<1> QED
  BY <1>2, <1>3, <1>4, <1>5

LEMMA CompletersInv ==
  ASSUME IInv, NEW h \in live,
         CompleteReply(h) \/ CompletePreview(h) \/ CompleteProposal(h) \/ CompleteWorkflow(h)
  PROVE  IInv'
BY Completers, CompleteInv

LEMMA TurnEndsInv ==
  ASSUME IInv, NEW h \in live, FailTurn(h)
  PROVE  IInv'
<1>1. h.q \in Request /\ live' \subseteq live /\ session \in SessionRow /\ turn \in [Request -> TurnRow]
  BY DEF FailTurn, IInv, TypeOK, Handler
<1>2. session' \in SessionRow /\ session'.prev = session.prev /\ session'.prop = session.prop
  BY <1>1 DEF FailTurn, SessionRow
<1>3. turn' \in [Request -> TurnRow] /\ \A q \in Request : turn'[q].body = turn[q].body
  <2> DEFINE row == [turn[h.q] EXCEPT !.st = "failed", !.lease = FALSE]
  <2>1. turn' = turn \/ turn' = [turn EXCEPT ![h.q] = row]
    BY DEF FailTurn
  <2>2. row \in TurnRow /\ row.body = turn[h.q].body
    BY <1>1 DEF TurnRow
  <2> QED
    BY <1>1, <2>1, <2>2
<1> QED
  BY <1>1, <1>2, <1>3, Answered DEF FailTurn, IInv, TypeOK, TokensNamed, SavedIsMarked

LEMMA LeaseInv ==
  ASSUME IInv, NEW q \in Request, LeaseExpires(q)
  PROVE  IInv'
<1>1. turn' \in [Request -> TurnRow] /\ \A r \in Request : turn'[r].body = turn[r].body
  BY ZenonT(30) DEF LeaseExpires, IInv, TypeOK, TurnRow
<1> QED
  BY <1>1, Answered DEF LeaseExpires, IInv, TypeOK, TokensNamed, SavedIsMarked

LEMMA PollsInv ==
  ASSUME IInv, PollSession \/ \E p \in polls : PollTask(p) \/ ReconcileWorkflow(p)
  PROVE  IInv'
<1>1. CASE PollSession
  BY <1>1, RowsKept, SMTT(30) DEF PollSession, IInv, TypeOK, SessionRow, Poll
<1>2. ASSUME NEW p \in polls, PollTask(p) PROVE IInv'
  <2>1. TerminalState(p.task) \in {"none", "error", "completed"}
    BY DEF TerminalState
  <2>2. [p EXCEPT !.seen = TerminalState(p.task)] \in Poll
    BY <2>1 DEF IInv, TypeOK, Poll
  <2>3. polls' \subseteq Poll
    BY <1>2, <2>2 DEF PollTask, IInv, TypeOK
  <2> QED
    BY <1>2, <2>3, RowsKept DEF PollTask, IInv, TypeOK
<1>3. ASSUME NEW p \in polls, ReconcileWorkflow(p) PROVE IInv'
  <2> DEFINE cleared == [session EXCEPT !.wf.task = 0, !.wf.scope = 0, !.wf.started = 0]
             s == IF p.seen = "error" THEN cleared ELSE session
             m == [Message(p.seen) EXCEPT !.scope = p.scope, !.task = p.task]
  <2>1. /\ session \in SessionRow /\ msgs \in Seq(MsgRow) /\ Len(msgs) \in Nat /\ p \in Poll
        /\ session.prev <= Len(msgs)
    BY DEF IInv, TypeOK, SavedIsMarked
  <2>2. s \in SessionRow /\ s.prev = session.prev /\ s.prop = session.prop
    BY <2>1 DEF SessionRow
  <2>3. m \in MsgRow
    <3>1. p.seen \in {"error", "completed"} /\ p.scope \in Nat /\ p.task \in Nat
      BY <1>3, <2>1 DEF ReconcileWorkflow, Poll
    <3>2. Message(p.seen) \in MsgRow
      BY <3>1, MessageRow
    <3> QED
      BY <3>1, <3>2 DEF MsgRow
  <2>4. /\ session' \in SessionRow /\ session'.prev = session.prev /\ session'.prop = session.prop
        /\ msgs' = msgs \/ msgs' = Append(msgs, m)
    <3> HIDE DEF s, m
    <3>1. \/ session' = s /\ msgs' = msgs
          \/ session' = session /\ msgs' = msgs
          \/ session' = [s EXCEPT !.wf.terminal = Len(msgs) + 1] /\ msgs' = Append(msgs, m)
      BY <1>3 DEF ReconcileWorkflow, s, m
    <3> DEFINE k == Len(msgs) + 1
    <3>3. k \in Nat
      BY <2>1
    <3>4. [s EXCEPT !.wf.terminal = k] \in SessionRow /\ [s EXCEPT !.wf.terminal = k].prev = s.prev
          /\ [s EXCEPT !.wf.terminal = k].prop = s.prop
      <4> HIDE DEF k
      <4> QED
        BY <2>2, <3>3, TerminalShown
    <3> QED
      BY <3>1, <2>1, <2>2, <3>4
  <2>5. session'.prev <= Len(msgs')
    <3> HIDE DEF m
    <3>1. session.prev \in Nat
      BY <2>1 DEF SessionRow
    <3> QED
      BY <2>1, <2>3, <2>4, <3>1
  <2> HIDE DEF m
  <2> QED
    BY <1>3, <2>3, <2>4, <2>5, Answered DEF ReconcileWorkflow, IInv, TypeOK, TokensNamed
<1> QED
  BY <1>1, <1>2, <1>3

LEMMA LoadInv ==
  ASSUME IInv, NEW k \in SaveKey, LoadForSave(k)
  PROVE  IInv'
<1>1. PICK m \in DOMAIN msgs : saves' = saves \cup {[key |-> k, msg |-> m]}
  BY DEF LoadForSave
<1>2. m \in Nat
  BY DEF IInv, TypeOK
<1>3. saves' \subseteq [key : SaveKey, msg : Nat]
  BY <1>1, <1>2 DEF IInv, TypeOK
<1> QED
  BY <1>3, RowsKept DEF LoadForSave, IInv, TypeOK

LEMMA CommitInv ==
  ASSUME IInv, NEW s \in saves, CommitSave(s)
  PROVE  IInv'
<1> DEFINE i == <<"save", s.key>>
           t0 == Len(tasks) + 1
           k == s.msg
           m == [msgs[k] EXCEPT !.saved = t0]
<1>1. s.key \in SaveKey /\ k \in Nat /\ i \in Intent /\ saves' \subseteq [key : SaveKey, msg : Nat]
  BY DEF IInv, TypeOK, Intent, CommitSave
<1>2. CASE ~(StillSaveable(k) /\ Wins(i))
  BY <1>1, <1>2, RowsKept DEF CommitSave, IInv, TypeOK
<1>3. CASE StillSaveable(k) /\ Wins(i)
  <2>1. /\ tasks' = NewTask(s.key, k, "Completed") /\ binding' = Bind(i, k)
        /\ msgs' = [msgs EXCEPT ![k] = m]
        /\ session' = [session EXCEPT !.savedAs = t0]
        /\ UNCHANGED <<turn, live, polls, begun>>
    BY <1>3 DEF CommitSave, SaveHash
  <2>2. /\ tasks' \in Seq(TaskRow) /\ binding' \in [Intent -> [task : Nat, hash : Nat]]
        /\ DOMAIN tasks' = DOMAIN tasks \cup {t0}
        /\ tasks'[t0] = [by |-> s.key, of |-> k, st |-> "Completed"]
        /\ \A t \in DOMAIN tasks : tasks'[t] = tasks[t]
        /\ binding'[i].task = t0
        /\ \A j \in Intent : binding[j].task \in DOMAIN tasks => binding'[j] = binding[j]
    <3>1. s.key \in Request \cup SaveKey
      BY <1>1
    <3> QED
      BY <1>1, <1>3, <2>1, <3>1, Created
  <2>3. t0 \in Nat /\ t0 \notin DOMAIN tasks /\ \A t \in DOMAIN tasks : t # 0
    BY DEF IInv, TypeOK
  <2>4. msgs \in Seq(MsgRow) /\ session \in SessionRow /\ Len(msgs) \in Nat /\ k \in 1..Len(msgs)
    <3>1. msgs \in Seq(MsgRow) /\ session \in SessionRow /\ Len(msgs) \in Nat
      BY DEF IInv, TypeOK
    <3>2. k > 0 /\ session.prev = k /\ session.prev <= Len(msgs)
      BY <1>3 DEF StillSaveable, IInv, SavedIsMarked
    <3> QED
      BY <1>1, <3>1, <3>2
  <2>5. m \in MsgRow /\ m.saved = t0
    <3>1. msgs[k] \in MsgRow
      BY <2>4
    <3> HIDE DEF t0
    <3> QED
      BY <2>3, <3>1 DEF MsgRow
  <2>6. /\ msgs' \in Seq(MsgRow) /\ Len(msgs') = Len(msgs) /\ DOMAIN msgs' = DOMAIN msgs
        /\ msgs'[k] = m /\ \A j \in DOMAIN msgs : j # k => msgs'[j] = msgs[j]
    <3> HIDE DEF m
    <3>1. /\ msgs' \in Seq(MsgRow) /\ Len(msgs') = Len(msgs)
          /\ \A j \in 1..Len(msgs) : msgs'[j] = IF j = k THEN m ELSE msgs[j]
      BY <2>1, <2>4, <2>5, ExceptSeq
    <3> QED
      BY <2>4, <3>1
  <2>7. session' \in SessionRow /\ session'.prev = session.prev /\ session'.prop = session.prop
    <3> HIDE DEF t0
    <3> QED
      BY <2>1, <2>3, <2>4 DEF SessionRow
  <2>8. TypeOK'
    BY <1>1, <2>1, <2>2, <2>6, <2>7 DEF IInv, TypeOK
  <2>9. TokensNamed'
    <3>1. s.key \notin Key
      BY <1>1
    <3>2. \A t \in DOMAIN tasks' : tasks'[t].by \in Key => tasks'[t].of \in 1..MaxMsg
      BY <2>2, <3>1 DEF IInv, TokensNamed
    <3> QED
      BY <2>1, <2>7, <3>2 DEF IInv, TokensNamed
  <2>10. CreatedIsBound'
    <3> SUFFICES ASSUME NEW t \in DOMAIN tasks', tasks'[t].by \in Request, tasks'[t].st # "Deleted"
                 PROVE  binding'[IntentOfTask(tasks'[t])].task = t
      BY DEF CreatedIsBound
    <3>1. t # t0
      BY <1>1, <2>2
    <3> QED
      BY <3>1, <2>2, CreatedKeeps
  <2>11. SavedIsMarked'
    <3> SUFFICES ASSUME NEW t \in DOMAIN tasks', tasks'[t].by \in SaveKey
                 PROVE  /\ tasks'[t].of \in DOMAIN msgs'
                        /\ binding'[<<"save", tasks'[t].by>>].task = t
                        /\ msgs'[tasks'[t].of].kind = "gone" \/ msgs'[tasks'[t].of].saved = t
      BY <2>6, <2>7 DEF IInv, SavedIsMarked
    <3>1. CASE t = t0
      <4>1. tasks'[t].of = k /\ tasks'[t].by = s.key
        BY <3>1, <2>2
      <4>2. k \in DOMAIN msgs' /\ msgs'[k].saved = t
        <5> HIDE DEF m, k
        <5> QED
          BY <3>1, <2>4, <2>5, <2>6
      <4>3. binding'[<<"save", s.key>>].task = t
        BY <3>1, <2>2
      <4> QED
        BY <4>1, <4>2, <4>3
    <3>2. CASE t \in DOMAIN tasks
      <4>1. /\ tasks'[t] = tasks[t] /\ binding'[<<"save", tasks[t].by>>].task = t
            /\ tasks[t].of \in DOMAIN msgs
            /\ msgs[tasks[t].of].kind = "gone" \/ msgs[tasks[t].of].saved = t
        BY <3>2, <2>2, CreatedKeeps DEF IInv, SavedIsMarked
      <4>2. msgs[k].kind # "gone" /\ msgs[k].saved = 0
        BY <1>3 DEF StillSaveable
      <4>3. tasks[t].of # k
        BY <3>2, <2>3, <4>1, <4>2
      <4> QED
        BY <2>6, <4>1, <4>3
    <3> QED
      BY <3>1, <3>2, <2>2
  <2> QED
    BY <2>8, <2>9, <2>10, <2>11 DEF IInv
<1> QED
  BY <1>2, <1>3

LEMMA MovesInv ==
  ASSUME IInv, NEW t \in DOMAIN tasks, TaskMoves(t)
  PROVE  IInv'
<1>1. PICK st \in {"Pending", "Completed", "Failed", "Deleted"} :
        tasks' = [tasks EXCEPT ![t] = [tasks[t] EXCEPT !.st = st]]
  BY DEF TaskMoves
<1>2. tasks \in Seq(TaskRow) /\ t \in 1..Len(tasks) /\ tasks[t] \in TaskRow
  BY DEF IInv, TypeOK
<1> DEFINE row == [tasks[t] EXCEPT !.st = st]
<1>3. row \in TaskRow /\ row.by = tasks[t].by /\ row.of = tasks[t].of
  BY <1>2 DEF TaskRow
<1>4. /\ tasks' \in Seq(TaskRow) /\ DOMAIN tasks' = DOMAIN tasks
      /\ \A u \in DOMAIN tasks : tasks'[u] = IF u = t THEN row ELSE tasks[u]
  <2> HIDE DEF row
  <2>1. /\ tasks' \in Seq(TaskRow) /\ Len(tasks') = Len(tasks)
        /\ \A u \in 1..Len(tasks) : tasks'[u] = IF u = t THEN row ELSE tasks[u]
    BY <1>1, <1>2, <1>3, ExceptSeq DEF row
  <2> QED
    BY <1>2, <2>1
<1>5. /\ UNCHANGED <<session, turn, msgs, binding, live, polls, saves, begun>>
      /\ tasks[t].by \in Request /\ tasks[t].st # "Deleted"
  BY DEF TaskMoves
<1>6. TypeOK'
  BY <1>4, <1>5 DEF IInv, TypeOK
<1>6a. TokensNamed'
  <2> HIDE DEF row
  <2>1. \A u \in DOMAIN tasks' : tasks'[u].by \in Key => tasks'[u].of \in 1..MaxMsg
    BY <1>3, <1>4 DEF IInv, TokensNamed
  <2> QED
    BY <1>5, <2>1 DEF IInv, TokensNamed
<1>7. CreatedIsBound'
  <2> HIDE DEF row
  <2> SUFFICES ASSUME NEW u \in DOMAIN tasks, tasks'[u].by \in Request, tasks'[u].st # "Deleted"
               PROVE  binding[IntentOfTask(tasks'[u])].task = u
    BY <1>4, <1>5 DEF CreatedIsBound
  <2>1. tasks[u].by \in Request /\ tasks[u].st # "Deleted"
    BY <1>3, <1>4, <1>5
  <2>2. IntentOfTask(tasks'[u]) = IntentOfTask(tasks[u])
    BY <1>3, <1>4 DEF IntentOfTask
  <2> QED
    BY <2>1, <2>2 DEF IInv, CreatedIsBound
<1>8. SavedIsMarked'
  <2> HIDE DEF row
  <2>1. \A u \in DOMAIN tasks : tasks'[u].by = tasks[u].by /\ tasks'[u].of = tasks[u].of
    BY <1>3, <1>4
  <2> QED
    BY <1>4, <1>5, <2>1 DEF IInv, SavedIsMarked
<1> QED
  BY <1>6, <1>6a, <1>7, <1>8 DEF IInv

LEMMA ExpireInv ==
  ASSUME IInv, ExpireWorkspace
  PROVE  IInv'
<1>1. /\ live' = {} /\ polls' = {} /\ saves' = {} /\ session' = NoSession
      /\ turn' = [q \in Request |-> NoTurn] /\ msgs' = [m \in DOMAIN msgs |-> Gone]
      /\ UNCHANGED <<tasks, begun>>
  BY DEF ExpireWorkspace
<1>2. /\ msgs \in Seq(MsgRow) /\ Len(msgs) \in Nat /\ DOMAIN msgs = 1..Len(msgs)
  BY DEF IInv, TypeOK
<1>3. msgs' \in Seq(MsgRow) /\ DOMAIN msgs' = DOMAIN msgs /\ Len(msgs') = Len(msgs)
  <2>1. msgs' \in [1..Len(msgs) -> MsgRow]
    BY <1>1, <1>2, EmptyRows
  <2>2. msgs' \in Seq(MsgRow)
    BY <1>2, <2>1, SeqDef
  <2>3. DOMAIN msgs' = 1..Len(msgs)
    BY <2>1
  <2> QED
    BY <1>2, <2>2, <2>3, LenProperties
<1>4. \A j \in Intent : binding'[j] = binding[j] \/ binding'[j] = Unbound
  BY DEF ExpireWorkspace
<1>5. binding' \in [Intent -> [task : Nat, hash : Nat]]
  BY EmptyRows DEF ExpireWorkspace, IInv, TypeOK
<1>6. TypeOK'
  BY <1>1, <1>3, <1>5, EmptyRows DEF IInv, TypeOK
<1>7. session'.prop.st # "pending" /\ session'.prev = 0
  BY <1>1 DEF NoSession, NoProposal
<1>8. TokensNamed'
  BY <1>1, <1>7 DEF IInv, TokensNamed
<1>9. CreatedIsBound'
  <2> SUFFICES ASSUME NEW t \in DOMAIN tasks, tasks[t].by \in Request, tasks[t].st # "Deleted"
               PROVE  binding'[IntentOfTask(tasks[t])].task = t
    BY <1>1 DEF CreatedIsBound
  <2> DEFINE j == IntentOfTask(tasks[t])
  <2>1. binding[j].task = t
    BY DEF IInv, CreatedIsBound
  <2>2. j \in Intent
    BY DEF IntentOfTask, Intent, TaskRow, IInv, TypeOK, TokensNamed
  <2>3. binding'[j] = binding[j]
    <3> HIDE DEF j
    <3> QED
      BY <2>1, <2>2 DEF ExpireWorkspace
  <2> QED
    BY <2>1, <2>3
<1>10. SavedIsMarked'
  <2>1. session'.prev <= Len(msgs')
    BY <1>2, <1>3, <1>7
  <2>2. ASSUME NEW t \in DOMAIN tasks, tasks[t].by \in SaveKey
        PROVE  /\ tasks[t].of \in DOMAIN msgs' /\ msgs'[tasks[t].of].kind = "gone"
               /\ binding'[<<"save", tasks[t].by>>].task = t
    <3>1. tasks[t].of \in DOMAIN msgs /\ binding[<<"save", tasks[t].by>>].task = t
      BY <2>2 DEF IInv, SavedIsMarked
    <3>2. <<"save", tasks[t].by>> \in Intent
      BY <2>2 DEF Intent
    <3>3. binding'[<<"save", tasks[t].by>>] = binding[<<"save", tasks[t].by>>]
      BY <3>2 DEF ExpireWorkspace
    <3> QED
      BY <1>1, <1>3, <3>1, <3>3 DEF Gone
  <2> QED
    BY <1>1, <2>1, <2>2 DEF SavedIsMarked
<1> QED
  BY <1>6, <1>8, <1>9, <1>10 DEF IInv

LEMMA NextInv == IInv /\ [Next]_vars => IInv'
<1> SUFFICES ASSUME IInv, [Next]_vars PROVE IInv'
  OBVIOUS
<1>1. ASSUME NEW q \in Chat, BeginTurn(q) PROVE IInv'
  BY <1>1, BeginInv
<1>2. ASSUME NEW k \in Key, BeginProposalConfirmation(k) PROVE IInv'
  BY <1>2, BeginConfirmInv
<1>3. ASSUME NEW h \in live, Execute(h) PROVE IInv'
  BY <1>3, FindInv, PersistInv, CompletersInv, TurnEndsInv DEF Execute
<1>4. ASSUME NEW q \in Request, LeaseExpires(q) PROVE IInv'
  BY <1>4, LeaseInv
<1>5. CASE PollSession \/ \E p \in polls : PollTask(p) \/ ReconcileWorkflow(p)
  BY <1>5, PollsInv
<1>6. ASSUME NEW k \in SaveKey, LoadForSave(k) PROVE IInv'
  BY <1>6, LoadInv
<1>7. ASSUME NEW s \in saves, CommitSave(s) PROVE IInv'
  BY <1>7, CommitInv
<1>8. ASSUME NEW t \in DOMAIN tasks, TaskMoves(t) PROVE IInv'
  BY <1>8, MovesInv
<1>9. CASE ExpireWorkspace
  BY <1>9, ExpireInv
<1>10. CASE UNCHANGED vars
  BY <1>10 DEF vars, IInv, TypeOK, TokensNamed, CreatedIsBound, IntentOfTask, SavedIsMarked
<1> QED
  BY <1>1, <1>2, <1>3, <1>4, <1>5, <1>6, <1>7, <1>8, <1>9, <1>10 DEF Next

\* The inductive invariant holds in every reachable state.
THEOREM Invariance == Spec => []IInv
<1>1. Init => IInv
  BY InitInv
<1>2. IInv /\ [Next]_vars => IInv'
  BY NextInv
<1> QED
  BY <1>1, <1>2, PTL DEF Spec

-----------------------------------------------------------------------------
(* Its consequences *)

\* Every row, and every request in flight, keeps its shape.
THEOREM TypeCorrect == Spec => []TypeOK
<1>1. IInv => TypeOK
  BY DEF IInv
<1> QED
  BY <1>1, Invariance, PTL

\* One summary per request or proposal, however often and under whatever key it is
\* retried: two that are not deleted would both be the one their intent is bound to.
THEOREM OnePerIntent == Spec => []OneTaskPerIntent
<1>1. ASSUME IInv PROVE OneTaskPerIntent
  <2> SUFFICES ASSUME NEW t \in DOMAIN tasks, NEW u \in DOMAIN tasks, SameIntent(t, u),
                      "Deleted" \notin {tasks[t].st, tasks[u].st}
               PROVE  t = u
    BY DEF OneTaskPerIntent
  <2>1. tasks[t].by \in Request /\ tasks[u].by \in Request
    BY DEF SameIntent
  <2>2. IntentOfTask(tasks[t]) = IntentOfTask(tasks[u])
    BY DEF SameIntent, IntentOfTask
  <2>3. binding[IntentOfTask(tasks[t])].task = t /\ binding[IntentOfTask(tasks[u])].task = u
    BY <1>1, <2>1 DEF IInv, CreatedIsBound
  <2> QED
    BY <2>2, <2>3
<1> QED
  BY <1>1, Invariance, PTL

\* One summary per saved preview: its row keeps the mark of the save that won.
THEOREM OnePerSave == Spec => []SavedOnce
<1>1. IInv => SavedOnce
  BY DEF IInv, SavedIsMarked, SavedOnce
<1> QED
  BY <1>1, Invariance, PTL

-----------------------------------------------------------------------------
(* What the session renders *)

\* What the rendering rests on.  The session names messages there are, and a workflow's
\* messages are of their kind: it has a terminal one that is an error only once it is gone.
ArtifactsNamed ==
  /\ session.prev > 0 => msgs[session.prev].parent <= Len(msgs)
  /\ session.prop.st = "pending" => session.prop.msg \in 1..Len(msgs)
  /\ session.wf.started <= Len(msgs) /\ session.wf.terminal <= Len(msgs)
WorkflowMessages ==
  /\ session.wf.started > 0 => msgs[session.wf.started].kind = "started"
  /\ session.wf.terminal > 0 =>
       \/ msgs[session.wf.terminal].kind = "completed"
       \/ msgs[session.wf.terminal].kind = "error" /\ session.wf.task = 0

\* A handler that still owns its turn read the session's artifact as it stands; what it
\* and a poll know of summaries are summaries.
Knows(h) ==
  /\ h.art = session.art /\ h.prev <= Len(msgs)
  /\ h.prev > 0 => msgs[h.prev].kind = "preview" /\ msgs[h.prev].scope = session.scope
HandlersKnow ==
  \A h \in live :
    /\ h.n <= turn[h.q].attempt
    /\ h.pc = "fold" => h.task > 0
    /\ Owns(h) => Knows(h)
CreatedNamed ==
  /\ \A i \in Intent : binding[i] # Unbound => binding[i].task > 0
  /\ \A p \in polls : p.task > 0

\* Where a request of the current scope was completed and no artifact is left, the
\* last message has none to show.
NothingShown ==
  /\ session.prev = 0 /\ session.prop.st # "pending" /\ session.wf.task = 0
  /\ session.wf.terminal > 0 => msgs[session.wf.terminal].kind = "error"
ScopesBelow == \A q \in Request : turn[q].body.scope <= session.scope
LastSpeaks ==
  NothingShown /\ (\E q \in Request : Replayable(q)) =>
    Len(msgs) > 0 /\ msgs[Len(msgs)].kind \in {"reply", "error"}

ShowsInv ==
  /\ IInv /\ WorkbenchAgrees /\ ArtifactsNamed /\ WorkflowMessages
  /\ HandlersKnow /\ CreatedNamed /\ ScopesBelow /\ LastSpeaks

\* The part of it that speaks of the session and its messages alone.
Shown == WorkbenchAgrees /\ ArtifactsNamed /\ WorkflowMessages

\* Messages are added, and those there are stay what they are (a save marks one).
MessagesKept ==
  /\ Len(msgs') \in Nat /\ Len(msgs) <= Len(msgs')
  /\ \A i \in 1..Len(msgs) :
       /\ msgs'[i].kind = msgs[i].kind /\ msgs'[i].scope = msgs[i].scope
       /\ msgs'[i].art = msgs[i].art /\ msgs'[i].ver = msgs[i].ver
       /\ msgs'[i].parent = msgs[i].parent

LEMMA SameMessages ==
  ASSUME IInv, UNCHANGED msgs
  PROVE  MessagesKept
BY DEF IInv, TypeOK, MessagesKept

LEMMA OneMessageMore ==
  ASSUME IInv, NEW m \in MsgRow, msgs' = Append(msgs, m)
  PROVE  /\ MessagesKept /\ Len(msgs) \in Nat /\ Len(msgs') = Len(msgs) + 1
         /\ msgs'[Len(msgs) + 1] = m
         /\ \A i \in 1..Len(msgs) : msgs'[i] = msgs[i]
<1>1. msgs \in Seq(MsgRow) /\ Len(msgs) \in Nat
  BY DEF IInv, TypeOK
<1>2. /\ Len(msgs') = Len(msgs) + 1 /\ msgs'[Len(msgs) + 1] = m
      /\ \A i \in 1..Len(msgs) : msgs'[i] = msgs[i]
  BY <1>1
<1> QED
  BY <1>1, <1>2 DEF MessagesKept

\* The artifact that the session shows, and what it names.
SameArtifact ==
  /\ session'.prev = session.prev /\ session'.prop = session.prop /\ session'.wf = session.wf
  /\ session'.scope = session.scope /\ session'.art = session.art

LEMMA KeptPreview ==
  ASSUME IInv, Shown, MessagesKept, session'.prev = session.prev,
         session'.scope = session.scope, session'.art = session.art,
         session.prev > 0 => msgs'[session.prev].saved = session'.savedAs
  PROVE  /\ PreviewIsSaveable'
         /\ session'.prev > 0 => msgs'[session'.prev].parent <= Len(msgs')
<1> SUFFICES ASSUME session.prev > 0
             PROVE  LET m == msgs'[session.prev]
                    IN /\ m.kind = "preview" /\ m.scope = session.scope
                       /\ m.art = session.art /\ m.ver = m.art /\ m.saved = session'.savedAs
                       /\ m.parent > 0 => msgs'[m.parent].kind = "preview"
                                          /\ msgs'[m.parent].scope = m.scope
                       /\ m.parent <= Len(msgs')
  BY DEF PreviewIsSaveable
<1> DEFINE k == session.prev
           p == msgs[k].parent
<1>1. /\ k \in Nat /\ k <= Len(msgs) /\ Len(msgs) \in Nat /\ Len(msgs') \in Nat
      /\ Len(msgs) <= Len(msgs')
  BY DEF IInv, TypeOK, SessionRow, SavedIsMarked, MessagesKept
<1>2. k \in 1..Len(msgs) /\ msgs[k] \in MsgRow
  BY <1>1 DEF IInv, TypeOK
<1>3. /\ msgs[k].kind = "preview" /\ msgs[k].scope = session.scope
      /\ msgs[k].art = session.art /\ msgs[k].ver = msgs[k].art
      /\ p > 0 => msgs[p].kind = "preview" /\ msgs[p].scope = msgs[k].scope
  BY DEF Shown, WorkbenchAgrees, PreviewIsSaveable
<1>4. p \in Nat /\ p <= Len(msgs)
  BY <1>2 DEF Shown, ArtifactsNamed, MsgRow
<1>5. (p > 0 => p \in 1..Len(msgs)) /\ p <= Len(msgs')
  BY <1>1, <1>4
<1>6. msgs'[k].parent = p
  BY <1>2 DEF MessagesKept
<1> QED
  BY <1>2, <1>3, <1>5, <1>6 DEF MessagesKept

LEMMA KeptShows ==
  ASSUME IInv, Shown, SameArtifact, MessagesKept,
         session.prev > 0 => msgs'[session.prev].saved = session'.savedAs
  PROVE  Shown'
<1>1. /\ Len(msgs) \in Nat
      /\ session.wf.started \in Nat /\ session.wf.terminal \in Nat /\ Len(msgs') \in Nat
      /\ Len(msgs) <= Len(msgs')
  BY DEF IInv, TypeOK, SessionRow, MessagesKept
<1>2. PreviewIsSaveable' /\ (session'.prev > 0 => msgs'[session'.prev].parent <= Len(msgs'))
  BY KeptPreview DEF SameArtifact
<1>3. OneArtifact'
  <2>1. session.prop.st = "pending" => session.prop.msg \in 1..Len(msgs)
    BY DEF Shown, ArtifactsNamed
  <2> QED
    BY <2>1 DEF Shown, WorkbenchAgrees, OneArtifact, SameArtifact, MessagesKept
<1>4. ArtifactsNamed'
  <2>1. session.prop.st = "pending" => session.prop.msg \in 1..Len(msgs')
    BY <1>1 DEF Shown, ArtifactsNamed
  <2>2. session.wf.started <= Len(msgs') /\ session.wf.terminal <= Len(msgs')
    BY <1>1 DEF Shown, ArtifactsNamed
  <2> QED
    BY <1>2, <2>1, <2>2 DEF ArtifactsNamed, SameArtifact
<1>5. WorkflowMessages'
  <2>1. session.wf.started > 0 => session.wf.started \in 1..Len(msgs)
    BY <1>1 DEF Shown, ArtifactsNamed
  <2>2. session.wf.terminal > 0 => session.wf.terminal \in 1..Len(msgs)
    BY <1>1 DEF Shown, ArtifactsNamed
  <2> QED
    BY <2>1, <2>2 DEF Shown, WorkflowMessages, SameArtifact, MessagesKept
<1> QED
  BY <1>2, <1>3, <1>4, <1>5 DEF Shown, WorkbenchAgrees

\* An empty workbench.
LEMMA EmptyShows ==
  ASSUME IInv', session'.prev = 0, session'.prop.st # "pending", session'.wf = NoWorkflow
  PROVE  Shown'
<1>1. Len(msgs') \in Nat
  BY DEF IInv, TypeOK
<1>2. session'.wf.task = 0 /\ session'.wf.started = 0 /\ session'.wf.terminal = 0
  BY DEF NoWorkflow
<1> QED
  BY <1>1, <1>2 DEF Shown, WorkbenchAgrees, PreviewIsSaveable, OneArtifact, ArtifactsNamed, WorkflowMessages

\* A handler that keeps what it read, and its turn's fate.
LEMMA KeptKnows ==
  ASSUME IInv, HandlersKnow, MessagesKept,
         \A h \in live' : \E g \in live :
           /\ g.q = h.q /\ g.n = h.n /\ g.art = h.art /\ g.prev = h.prev
           /\ h.pc = "fold" => h.task > 0,
         \A q \in Request : turn'[q].attempt = turn[q].attempt,
         \A h \in live' : Owns(h)' =>
           Owns(h) /\ session'.scope = session.scope /\ session'.art = session.art
  PROVE  HandlersKnow'
<1> SUFFICES ASSUME NEW h \in live'
             PROVE  /\ h.n <= turn'[h.q].attempt
                    /\ h.pc = "fold" => h.task > 0
                    /\ Owns(h)' => Knows(h)'
  BY DEF HandlersKnow
<1>1. PICK g \in live : /\ g.q = h.q /\ g.n = h.n /\ g.art = h.art /\ g.prev = h.prev
                        /\ h.pc = "fold" => h.task > 0
  OBVIOUS
<1>2. g.n <= turn[g.q].attempt /\ (Owns(g) => Knows(g))
  BY DEF HandlersKnow
<1>3. g \in Handler /\ g.q \in Request /\ g.prev \in Nat
  BY DEF IInv, TypeOK, Handler
<1>4. h.n <= turn'[h.q].attempt
  BY <1>1, <1>2, <1>3
<1>5. ASSUME Owns(h)' PROVE Knows(h)'
  <2>1. Owns(g) /\ session'.scope = session.scope /\ session'.art = session.art
    BY <1>1, <1>5 DEF Owns
  <2>2. /\ g.art = session.art /\ g.prev <= Len(msgs)
        /\ g.prev > 0 => msgs[g.prev].kind = "preview" /\ msgs[g.prev].scope = session.scope
    BY <1>2, <2>1 DEF Knows
  <2>3. Len(msgs) \in Nat /\ Len(msgs') \in Nat /\ Len(msgs) <= Len(msgs')
    BY DEF IInv, TypeOK, MessagesKept
  <2>4. g.prev > 0 => g.prev \in 1..Len(msgs)
    BY <1>3, <2>2, <2>3
  <2>5. g.prev > 0 => msgs'[g.prev].kind = "preview" /\ msgs'[g.prev].scope = session.scope
    BY <2>2, <2>4 DEF MessagesKept
  <2>6. g.prev <= Len(msgs')
    BY <1>3, <2>2, <2>3
  <2> QED
    BY <1>1, <2>1, <2>2, <2>5, <2>6 DEF Knows
<1> QED
  BY <1>1, <1>4, <1>5

\* What is left to be shown, and the last message.
LEMMA KeptSpeaks ==
  ASSUME IInv, LastSpeaks, MessagesKept, Len(msgs') = Len(msgs), NothingShown' => NothingShown,
         \A q \in Request : Replayable(q)' => Replayable(q)
  PROVE  LastSpeaks'
<1>1. Len(msgs) > 0 => Len(msgs) \in 1..Len(msgs)
  BY DEF IInv, TypeOK
<1> QED
  BY <1>1 DEF LastSpeaks, MessagesKept

LEMMA KeptNothing ==
  ASSUME IInv, Shown, SameArtifact, MessagesKept
  PROVE  NothingShown' => NothingShown
<1>1. session.wf.terminal > 0 => session.wf.terminal \in 1..Len(msgs)
  BY DEF IInv, TypeOK, SessionRow, Shown, ArtifactsNamed
<1> QED
  BY <1>1 DEF NothingShown, SameArtifact, MessagesKept

-----------------------------------------------------------------------------
(* Every step keeps what the session renders *)

\* What every step gives that writes no message and leaves the artifact alone.
LEMMA StillShows ==
  ASSUME ShowsInv, IInv', CreatedNamed', UNCHANGED msgs, SameArtifact,
         session'.savedAs = session.savedAs,
         \A h \in live' : \E g \in live :
           /\ g.q = h.q /\ g.n = h.n /\ g.art = h.art /\ g.prev = h.prev
           /\ h.pc = "fold" => h.task > 0,
         \A q \in Request :
           /\ turn'[q].attempt = turn[q].attempt /\ turn'[q].body = turn[q].body
           /\ turn'[q].st = "completed" => turn[q].st = "completed",
         \A h \in live' : Owns(h)' => Owns(h)
  PROVE  ShowsInv'
<1>1. IInv /\ Shown /\ MessagesKept
  BY SameMessages DEF ShowsInv, Shown
<1>2. Shown'
  <2>1. session.prev > 0 => msgs'[session.prev].saved = session'.savedAs
    BY DEF ShowsInv, WorkbenchAgrees, PreviewIsSaveable
  <2> QED
    BY <1>1, <2>1, KeptShows
<1>3. session'.scope = session.scope /\ session'.art = session.art
  BY DEF SameArtifact
<1>4. HandlersKnow'
  <2>1. HandlersKnow /\ (\A q \in Request : turn'[q].attempt = turn[q].attempt)
    BY DEF ShowsInv
  <2>2. \A h \in live' : Owns(h)' =>
          Owns(h) /\ session'.scope = session.scope /\ session'.art = session.art
    BY <1>3
  <2> QED
    BY <1>1, <2>1, <2>2, KeptKnows
<1>5. ScopesBelow'
  BY <1>3 DEF ShowsInv, ScopesBelow
<1>6. LastSpeaks'
  <2>1. NothingShown' => NothingShown
    BY <1>1, KeptNothing
  <2>2. \A q \in Request : Replayable(q)' => Replayable(q)
    BY <1>3 DEF Replayable
  <2> QED
    BY <1>1, <2>1, <2>2, KeptSpeaks DEF ShowsInv
<1> QED
  BY <1>2, <1>4, <1>5, <1>6 DEF ShowsInv, Shown

\* What an owner's end writes, whichever it is.
LEMMA OwnerEnds ==
  ASSUME IInv, NEW h \in live, Owns(h), NEW m, NEW s \in SessionRow, CompleteTurn(h, m, s)
  PROVE  /\ msgs' = Append(msgs, m) /\ live' = live \ {h}
         /\ session'.active = None /\ session'.prev = s.prev /\ session'.prop = s.prop
         /\ session'.wf = s.wf /\ session'.scope = s.scope /\ session'.art = s.art
         /\ session'.savedAs = s.savedAs
         /\ \A q \in Request : turn'[q].attempt = turn[q].attempt /\ turn'[q].body = turn[q].body
         /\ UNCHANGED <<tasks, binding, polls, saves, begun>>
<1> DEFINE id == Len(msgs) + 1
           row == [turn[h.q] EXCEPT !.st = "completed", !.lease = FALSE, !.msg = id, !.by = h.n]
<1>1. h.q \in Request /\ turn \in [Request -> TurnRow]
  BY DEF IInv, TypeOK, Handler
<1>2. PICK ctx : session' = [s EXCEPT !.active = None, !.ctx = ctx]
  BY DEF CompleteTurn
<1>3. turn' = [turn EXCEPT ![h.q] = row]
  BY DEF CompleteTurn
<1>4. row.attempt = turn[h.q].attempt /\ row.body = turn[h.q].body
  <2> HIDE DEF id
  <2> QED
    BY <1>1 DEF TurnRow
<1>5. \A q \in Request : turn'[q].attempt = turn[q].attempt /\ turn'[q].body = turn[q].body
  <2> HIDE DEF row
  <2> QED
    BY <1>1, <1>3, <1>4
<1>6. /\ session'.active = None /\ session'.prev = s.prev /\ session'.prop = s.prop
      /\ session'.wf = s.wf /\ session'.scope = s.scope /\ session'.art = s.art
      /\ session'.savedAs = s.savedAs
  BY <1>2 DEF SessionRow
<1> QED
  BY <1>5, <1>6 DEF CompleteTurn

\* ... and what that leaves of the invariant to be shown: the new artifact and message.
LEMMA EndShows ==
  ASSUME ShowsInv, IInv', NEW h \in live, MessagesKept, live' = live \ {h},
         session'.active = None, session'.scope = session.scope,
         \A q \in Request : turn'[q].attempt = turn[q].attempt /\ turn'[q].body = turn[q].body,
         UNCHANGED <<binding, polls>>, Shown', LastSpeaks'
  PROVE  ShowsInv'
<1>1. IInv /\ HandlersKnow
  BY DEF ShowsInv
<1>2. ASSUME NEW g \in live' PROVE ~Owns(g)'
  <2>1. g.q # None
    BY <1>1 DEF IInv, TypeOK, Handler
  <2> QED
    BY <2>1 DEF Owns
<1>3. HandlersKnow'
  <2> SUFFICES ASSUME NEW g \in live'
               PROVE  g.n <= turn'[g.q].attempt /\ (g.pc = "fold" => g.task > 0)
    BY <1>2 DEF HandlersKnow
  <2>1. g \in live /\ g.q \in Request
    BY <1>1 DEF IInv, TypeOK, Handler
  <2> QED
    BY <1>1, <2>1 DEF HandlersKnow
<1>4. ScopesBelow' /\ CreatedNamed'
  BY DEF ShowsInv, ScopesBelow, CreatedNamed
<1> QED
  BY <1>3, <1>4 DEF ShowsInv, Shown

\* A handler that lost its turn is gone, and nothing else.
LEMMA LoserShows ==
  ASSUME ShowsInv, IInv', NEW h \in live, live' = live \ {h},
         UNCHANGED <<session, turn, msgs, tasks, binding, polls>>
  PROVE  ShowsInv'
<1>1. CreatedNamed' /\ SameArtifact /\ session'.savedAs = session.savedAs
  BY DEF ShowsInv, CreatedNamed, SameArtifact
<1>2. \A g \in live' : \E x \in live :
           /\ x.q = g.q /\ x.n = g.n /\ x.art = g.art /\ x.prev = g.prev
           /\ g.pc = "fold" => g.task > 0
  BY DEF ShowsInv, HandlersKnow
<1>3. \A g \in live' : Owns(g)' => Owns(g)
  BY DEF Owns
<1> QED
  BY <1>1, <1>2, <1>3, StillShows

LEMMA ReplyShows ==
  ASSUME ShowsInv, IInv', NEW h \in live, CompleteReply(h)
  PROVE  ShowsInv'
<1> DEFINE m == Message("reply")
<1>1. IInv /\ Shown /\ session \in SessionRow /\ m \in MsgRow /\ CompleteTurn(h, m, session)
  BY MessageRow DEF ShowsInv, Shown, IInv, TypeOK, CompleteReply
<1>2. CASE Owns(h)
  <2>1. /\ msgs' = Append(msgs, m) /\ live' = live \ {h}
        /\ session'.active = None /\ SameArtifact /\ session'.savedAs = session.savedAs
        /\ \A q \in Request : turn'[q].attempt = turn[q].attempt /\ turn'[q].body = turn[q].body
        /\ UNCHANGED <<binding, polls>>
    <3> HIDE DEF m
    <3> QED
      BY <1>1, <1>2, OwnerEnds DEF SameArtifact
  <2>2. /\ MessagesKept /\ Len(msgs) \in Nat /\ Len(msgs') = Len(msgs) + 1
        /\ msgs'[Len(msgs) + 1] = m /\ \A i \in 1..Len(msgs) : msgs'[i] = msgs[i]
    <3> HIDE DEF m
    <3> QED
      BY <1>1, <2>1, OneMessageMore
  <2>3. Shown'
    <3>1. session.prev > 0 => msgs'[session.prev].saved = session'.savedAs
      <4>1. session.prev > 0 => session.prev \in 1..Len(msgs)
        BY <1>1, <2>2 DEF IInv, SavedIsMarked, SessionRow
      <4> QED
        BY <2>1, <2>2, <4>1 DEF ShowsInv, WorkbenchAgrees, PreviewIsSaveable
    <3> QED
      BY <1>1, <2>1, <2>2, <3>1, KeptShows
  <2>4. LastSpeaks'
    <3>1. m.kind = "reply"
      BY DEF Message, Gone
    <3> HIDE DEF m
    <3> QED
      BY <2>2, <3>1 DEF LastSpeaks
  <2> QED
    BY <2>1, <2>2, <2>3, <2>4, EndShows DEF SameArtifact
<1>3. CASE ~Owns(h)
  <2> HIDE DEF m
  <2> QED
    BY <1>1, <1>3, LoserShows DEF CompleteTurn
<1> QED
  BY <1>2, <1>3

LEMMA PreviewSession ==
  ASSUME session \in SessionRow, NEW id \in Nat
  PROVE  LET s == ClearWorkflow(ClearProposal(
                    [session EXCEPT !.art = @ + 1, !.prev = id, !.savedAs = 0]))
         IN /\ s \in SessionRow /\ s.prev = id /\ s.savedAs = 0 /\ s.prop = NoProposal
            /\ s.wf = NoWorkflow /\ s.scope = session.scope /\ s.art = session.art + 1
<1> DEFINE a == session.art + 1
<1>1. a \in Nat
  BY DEF SessionRow
<1> HIDE DEF a
<1>2. LET s == ClearWorkflow(ClearProposal([session EXCEPT !.art = a, !.prev = id, !.savedAs = 0]))
      IN /\ s \in SessionRow /\ s.prev = id /\ s.savedAs = 0 /\ s.prop = NoProposal
         /\ s.wf = NoWorkflow /\ s.scope = session.scope /\ s.art = a
  BY <1>1 DEF ClearWorkflow, ClearProposal, NoProposal, NoWorkflow, SessionRow
<1> QED
  BY <1>2 DEF a

LEMMA PreviewFields ==
  ASSUME NEW h, NEW parent
  PROVE  LET m == Preview(h, parent)
         IN /\ m.kind = "preview" /\ m.scope = session.scope /\ m.art = session.art + 1
            /\ m.ver = h.art + 1 /\ m.parent = parent /\ m.saved = 0
BY DEF Preview, Message, Gone

\* A revision's version, row and parent are those of the session it started from: a
\* handler that still owns the turn is the only one that could have moved them.
LEMMA PreviewShows ==
  ASSUME ShowsInv, IInv', NEW h \in live, CompletePreview(h)
  PROVE  ShowsInv'
<1> DEFINE id == Len(msgs) + 1
           s == ClearWorkflow(ClearProposal(
                  [session EXCEPT !.art = @ + 1, !.prev = id, !.savedAs = 0]))
<1>1. /\ IInv /\ session \in SessionRow /\ id \in Nat /\ h \in Handler /\ Len(msgs) \in Nat
      /\ msgs \in Seq(MsgRow)
  BY DEF ShowsInv, IInv, TypeOK
<1>2. PICK parent \in {0, h.prev} : CompleteTurn(h, Preview(h, parent), s)
  BY DEF CompletePreview
<1> DEFINE m == Preview(h, parent)
<1>3. /\ s \in SessionRow /\ s.prev = id /\ s.savedAs = 0 /\ s.prop = NoProposal
      /\ s.wf = NoWorkflow /\ s.scope = session.scope /\ s.art = session.art + 1
  <2> HIDE DEF id
  <2> QED
    BY <1>1, PreviewSession
<1>4. /\ m.kind = "preview" /\ m.scope = session.scope /\ m.art = session.art + 1
      /\ m.ver = h.art + 1 /\ m.parent = parent /\ m.saved = 0
  BY PreviewFields
<1> HIDE DEF s, m
<1>5. CASE Owns(h)
  <2>1. /\ msgs' = Append(msgs, m) /\ live' = live \ {h}
        /\ session'.active = None /\ session'.prev = s.prev /\ session'.prop = s.prop
        /\ session'.wf = s.wf /\ session'.scope = s.scope /\ session'.art = s.art
        /\ session'.savedAs = s.savedAs
        /\ \A q \in Request : turn'[q].attempt = turn[q].attempt /\ turn'[q].body = turn[q].body
        /\ UNCHANGED <<tasks, binding, polls, saves, begun>>
    <3>1. CompleteTurn(h, m, s)
      BY <1>2 DEF m
    <3> QED
      BY <1>1, <1>3, <1>5, <3>1, OwnerEnds
  <2>2. m \in MsgRow
    <3>0. h.prev \in Nat /\ h.art \in Nat /\ session.art \in Nat
      BY <1>1 DEF Handler, SessionRow
    <3>1. parent \in Nat /\ h.art + 1 \in Nat /\ session.art + 1 \in Nat
      BY <3>0
    <3>2. Message("preview") \in MsgRow
      BY <1>1, MessageRow
    <3> QED
      BY <3>1, <3>2, PreviewMessage DEF Preview, m
  <2>3. /\ MessagesKept /\ Len(msgs') = id
        /\ msgs'[id] = m /\ \A i \in 1..Len(msgs) : msgs'[i] = msgs[i]
    BY <1>1, <2>1, <2>2, OneMessageMore
  <2>4. Knows(h)
    BY <1>5 DEF ShowsInv, HandlersKnow
  <2>5. parent \in 0..Len(msgs)
    BY <1>1, <2>4 DEF Knows, Handler
  <2>6. parent > 0 => msgs'[parent].kind = "preview" /\ msgs'[parent].scope = session.scope
    <3>1. parent > 0 => /\ parent \in 1..Len(msgs)
                        /\ msgs[parent].kind = "preview" /\ msgs[parent].scope = session.scope
      BY <1>1, <2>4, <2>5 DEF Knows
    <3> QED
      BY <2>3, <3>1
  <2>7. session'.prop.st = "none" /\ session'.prev = id /\ session'.wf = NoWorkflow
    BY <1>3, <2>1 DEF NoProposal
  <2>8. PreviewIsSaveable'
    <3>1. m.ver = m.art
      BY <1>4, <2>4 DEF Knows
    <3>2. msgs'[session'.prev] = m
      BY <2>3, <2>7
    <3>3. session'.scope = session.scope /\ session'.art = m.art /\ session'.savedAs = m.saved
      BY <1>3, <1>4, <2>1
    <3> QED
      BY <1>4, <2>6, <3>1, <3>2, <3>3 DEF PreviewIsSaveable
  <2>9. OneArtifact' /\ WorkflowMessages'
    BY <2>7 DEF OneArtifact, WorkflowMessages, NoWorkflow
  <2>10. ArtifactsNamed'
    <3>1. m.parent <= Len(msgs')
      BY <1>1, <1>4, <2>3, <2>5
    <3>2. session'.wf.started <= Len(msgs') /\ session'.wf.terminal <= Len(msgs')
      BY <1>1, <2>3, <2>7 DEF NoWorkflow
    <3> QED
      BY <2>3, <2>7, <3>1, <3>2 DEF ArtifactsNamed
  <2>11. LastSpeaks'
    BY <1>1, <2>7 DEF LastSpeaks, NothingShown
  <2>12. Shown'
    BY <2>8, <2>9, <2>10 DEF Shown, WorkbenchAgrees
  <2> QED
    BY <1>3, <2>1, <2>3, <2>11, <2>12, EndShows
<1>6. CASE ~Owns(h)
  BY <1>2, <1>6, LoserShows DEF CompleteTurn
<1> QED
  BY <1>5, <1>6

LEMMA ProposalSession ==
  ASSUME session \in SessionRow, NEW id \in Nat
  PROVE  LET s == [ClearWorkflow(ClearPreview(session)) EXCEPT
                     !.prop = [st |-> "pending", msg |-> id, scope |-> session.scope]]
         IN /\ s \in SessionRow /\ s.prev = 0
            /\ s.prop = [st |-> "pending", msg |-> id, scope |-> session.scope]
            /\ s.wf = NoWorkflow /\ s.scope = session.scope
BY DEF ClearWorkflow, ClearPreview, NoWorkflow, SessionRow

LEMMA ProposalShows ==
  ASSUME ShowsInv, IInv', NEW h \in live, CompleteProposal(h)
  PROVE  ShowsInv'
<1> DEFINE id == Len(msgs) + 1
           m == Message("confirm")
           prop == [st |-> "pending", msg |-> id, scope |-> session.scope]
           s == [ClearWorkflow(ClearPreview(session)) EXCEPT !.prop = prop]
<1>1. /\ IInv /\ session \in SessionRow /\ id \in Nat /\ Len(msgs) \in Nat /\ id \in 1..id
  BY DEF ShowsInv, IInv, TypeOK
<1>2. CompleteTurn(h, m, s)
  BY DEF CompleteProposal
<1>3. /\ s \in SessionRow /\ s.prev = 0 /\ s.prop = prop
      /\ s.wf = NoWorkflow /\ s.scope = session.scope
  <2> HIDE DEF id
  <2> QED
    BY <1>1, ProposalSession
<1>4. m.kind = "confirm" /\ m \in MsgRow
  BY <1>1, MessageRow DEF Message, Gone
<1> HIDE DEF s, m
<1>5. CASE Owns(h)
  <2>1. /\ msgs' = Append(msgs, m) /\ live' = live \ {h}
        /\ session'.active = None /\ session'.prev = 0 /\ session'.prop = prop
        /\ session'.wf = NoWorkflow /\ session'.scope = session.scope
        /\ \A q \in Request : turn'[q].attempt = turn[q].attempt /\ turn'[q].body = turn[q].body
        /\ UNCHANGED <<binding, polls>>
    BY <1>1, <1>2, <1>3, <1>5, OwnerEnds
  <2>2. MessagesKept /\ Len(msgs') = id /\ msgs'[id] = m
    BY <1>1, <1>4, <2>1, OneMessageMore
  <2>3. Shown'
    <3>1. PreviewIsSaveable' /\ OneArtifact'
      BY <1>4, <2>1, <2>2 DEF PreviewIsSaveable, OneArtifact, NoWorkflow
    <3>2. ArtifactsNamed' /\ WorkflowMessages'
      BY <1>1, <2>1, <2>2 DEF ArtifactsNamed, WorkflowMessages, NoWorkflow
    <3> QED
      BY <3>1, <3>2 DEF Shown, WorkbenchAgrees
  <2>4. LastSpeaks'
    BY <2>1 DEF LastSpeaks, NothingShown
  <2> QED
    BY <2>1, <2>2, <2>3, <2>4, EndShows
<1>6. CASE ~Owns(h)
  BY <1>2, <1>6, LoserShows DEF CompleteTurn
<1> QED
  BY <1>5, <1>6

LEMMA WorkflowSession ==
  ASSUME session \in SessionRow, NEW h,
         NEW wf \in [task : Nat, scope : Nat, started : Nat, terminal : Nat]
  PROVE  LET kept == IF h.q \in Key THEN [session EXCEPT !.prop.st = "confirmed"]
                                    ELSE ClearProposal(session)
             s == [ClearPreview(kept) EXCEPT !.wf = wf]
         IN /\ s \in SessionRow /\ s.prev = 0 /\ s.prop.st # "pending"
            /\ s.wf = wf /\ s.scope = session.scope
<1> DEFINE kept == IF h.q \in Key THEN [session EXCEPT !.prop.st = "confirmed"]
                                  ELSE ClearProposal(session)
<1>1. kept \in SessionRow /\ kept.prop.st # "pending" /\ kept.scope = session.scope
  <2>1. CASE h.q \in Key
    BY <2>1 DEF SessionRow
  <2>2. CASE h.q \notin Key
    BY <2>2 DEF SessionRow, ClearProposal, NoProposal
  <2> QED
    BY <2>1, <2>2
<1> HIDE DEF kept
<1>2. LET s == [ClearPreview(kept) EXCEPT !.wf = wf]
      IN /\ s \in SessionRow /\ s.prev = 0 /\ s.prop.st # "pending"
         /\ s.wf = wf /\ s.scope = session.scope
  BY <1>1 DEF ClearPreview, SessionRow
<1> QED
  BY <1>2 DEF kept

LEMMA WorkflowShows ==
  ASSUME ShowsInv, IInv', NEW h \in live, CompleteWorkflow(h)
  PROVE  ShowsInv'
<1> DEFINE id == Len(msgs) + 1
           kept == IF h.q \in Key THEN [session EXCEPT !.prop.st = "confirmed"]
                                  ELSE ClearProposal(session)
           wf == [task |-> h.task, scope |-> session.scope,
                  started |-> IF h.done THEN 0 ELSE id, terminal |-> IF h.done THEN id ELSE 0]
           s == [ClearPreview(kept) EXCEPT !.wf = wf]
           kind == IF h.done THEN "completed" ELSE "started"
           m == [Message(kind) EXCEPT !.task = h.task]
<1>1. /\ IInv /\ session \in SessionRow /\ id \in Nat /\ Len(msgs) \in Nat /\ h \in Handler
  BY DEF ShowsInv, IInv, TypeOK
<1>2. CompleteTurn(h, m, s)
  BY DEF CompleteWorkflow
<1>3. s \in SessionRow /\ s.prev = 0 /\ s.prop.st # "pending" /\ s.wf = wf /\ s.scope = session.scope
  <2>1. wf \in [task : Nat, scope : Nat, started : Nat, terminal : Nat]
    BY <1>1 DEF Handler, SessionRow
  <2> HIDE DEF wf
  <2> QED
    BY <1>1, <2>1, WorkflowSession
<1>4. m.kind = kind /\ m \in MsgRow
  <2>1. Message(kind) \in MsgRow /\ h.task \in Nat
    BY <1>1, MessageRow DEF Handler
  <2>2. m \in MsgRow
    <3> HIDE DEF kind
    <3> QED
      BY <2>1 DEF MsgRow
  <2> QED
    BY <2>2 DEF Message, Gone
<1>5. wf.task > 0 /\ wf.scope = session.scope
  BY DEF CompleteWorkflow, ShowsInv, HandlersKnow
<1>6. /\ h.done => wf.started = 0 /\ wf.terminal = id /\ kind = "completed"
      /\ ~h.done => wf.started = id /\ wf.terminal = 0 /\ kind = "started"
  OBVIOUS
<1> HIDE DEF s, m, wf, kind, kept
<1>7. CASE Owns(h)
  <2>1. /\ msgs' = Append(msgs, m) /\ live' = live \ {h}
        /\ session'.active = None /\ session'.prev = 0 /\ session'.prop.st # "pending"
        /\ session'.wf = wf /\ session'.scope = session.scope
        /\ \A q \in Request : turn'[q].attempt = turn[q].attempt /\ turn'[q].body = turn[q].body
        /\ UNCHANGED <<binding, polls>>
    BY <1>1, <1>2, <1>3, <1>7, OwnerEnds
  <2>2. MessagesKept /\ Len(msgs') = id /\ msgs'[id] = m
    BY <1>1, <1>4, <2>1, OneMessageMore
  <2>3. Shown'
    <3>1. wf.started > 0 \/ wf.terminal > 0
      BY <1>1, <1>6
    <3>2. PreviewIsSaveable' /\ OneArtifact'
      BY <1>5, <2>1, <3>1 DEF PreviewIsSaveable, OneArtifact
    <3>3. ArtifactsNamed'
      BY <1>1, <1>6, <2>1, <2>2 DEF ArtifactsNamed
    <3>4. WorkflowMessages'
      BY <1>1, <1>4, <1>6, <2>1, <2>2 DEF WorkflowMessages
    <3> QED
      BY <3>2, <3>3, <3>4 DEF Shown, WorkbenchAgrees
  <2>4. LastSpeaks'
    BY <1>1, <1>5, <2>1 DEF LastSpeaks, NothingShown, wf, Handler
  <2> QED
    BY <2>1, <2>2, <2>3, <2>4, EndShows
<1>8. CASE ~Owns(h)
  BY <1>2, <1>8, LoserShows DEF CompleteTurn
<1> QED
  BY <1>7, <1>8

\* The four ends of a turn.
LEMMA EndsShow ==
  ASSUME ShowsInv, IInv', NEW h \in live,
         CompleteReply(h) \/ CompletePreview(h) \/ CompleteProposal(h) \/ CompleteWorkflow(h)
  PROVE  ShowsInv'
BY ReplyShows, PreviewShows, ProposalShows, WorkflowShows

\* A step that leaves session, turns and messages to others.
LEMMA ElsewhereShows ==
  ASSUME ShowsInv, IInv', CreatedNamed', UNCHANGED <<session, turn, msgs>>,
         \A h \in live' : \E g \in live :
           /\ g.q = h.q /\ g.n = h.n /\ g.art = h.art /\ g.prev = h.prev
           /\ h.pc = "fold" => h.task > 0
  PROVE  ShowsInv'
<1>1. SameArtifact /\ session'.savedAs = session.savedAs
  BY DEF SameArtifact
<1>2. \A h \in live' : Owns(h)' => Owns(h)
  BY DEF Owns
<1> QED
  BY <1>1, <1>2, StillShows

\* Handlers at work but one keep theirs.
LEMMA OneMoves ==
  ASSUME ShowsInv, NEW h \in live, NEW g,
         g.q = h.q, g.n = h.n, g.art = h.art, g.prev = h.prev, g.pc = "fold" => g.task > 0,
         live' = (live \ {h}) \cup {g}
  PROVE  \A y \in live' : \E x \in live :
           /\ x.q = y.q /\ x.n = y.n /\ x.art = y.art /\ x.prev = y.prev
           /\ y.pc = "fold" => y.task > 0
<1> SUFFICES ASSUME NEW y \in live'
             PROVE  \E x \in live :
                      /\ x.q = y.q /\ x.n = y.n /\ x.art = y.art /\ x.prev = y.prev
                      /\ y.pc = "fold" => y.task > 0
  OBVIOUS
<1>1. CASE y = g
  BY <1>1
<1>2. CASE y \in live
  BY <1>2 DEF ShowsInv, HandlersKnow
<1> QED
  BY <1>1, <1>2

\* Where a handler goes, and what it takes along.
LEMMA WhereItGoes ==
  ASSUME NEW h \in Handler, NEW pc \in {"find", "persist", "fail"}, NEW t, NEW d
  PROVE  /\ LET g == [h EXCEPT !.pc = pc]
            IN g.q = h.q /\ g.n = h.n /\ g.art = h.art /\ g.prev = h.prev /\ g.pc # "fold"
         /\ LET g == [h EXCEPT !.pc = "fold", !.task = t]
            IN g.q = h.q /\ g.n = h.n /\ g.art = h.art /\ g.prev = h.prev /\ g.task = t
         /\ LET g == [h EXCEPT !.pc = "fold", !.task = t, !.done = d]
            IN g.q = h.q /\ g.n = h.n /\ g.art = h.art /\ g.prev = h.prev /\ g.task = t
BY DEF Handler

LEMMA FindShows ==
  ASSUME ShowsInv, IInv', NEW h \in live, FindIdempotent(h)
  PROVE  ShowsInv'
<1> DEFINE b == binding[IntentOf(h.q)]
           d == tasks[b.task].st = "Completed"
<1>1. IInv /\ h \in Handler /\ IntentOf(h.q) \in Intent
  BY IntentNamed DEF ShowsInv, IInv, TypeOK
<1>2. b # Unbound => b.task > 0
  BY <1>1 DEF ShowsInv, CreatedNamed
<1>3. \/ live' = (live \ {h}) \cup {[h EXCEPT !.pc = "persist"]}
      \/ live' = (live \ {h}) \cup {[h EXCEPT !.pc = "fail"]}
      \/ b # Unbound /\ live' = (live \ {h}) \cup {[h EXCEPT !.pc = "fold", !.task = b.task, !.done = d]}
  <2>1. CASE b = Unbound
    BY <2>1 DEF FindIdempotent, Goto
  <2>2. CASE b # Unbound /\ (b.hash # h.hash \/ tasks[b.task].st = "Deleted")
    BY <2>2 DEF FindIdempotent, Goto
  <2>3. CASE b # Unbound /\ ~(b.hash # h.hash \/ tasks[b.task].st = "Deleted")
    BY <2>3 DEF FindIdempotent
  <2> QED
    BY <2>1, <2>2, <2>3
<1>4. PICK g : /\ live' = (live \ {h}) \cup {g}
               /\ g.q = h.q /\ g.n = h.n /\ g.art = h.art /\ g.prev = h.prev
               /\ g.pc = "fold" => g.task > 0
  <2> HIDE DEF b, d
  <2>1. CASE live' = (live \ {h}) \cup {[h EXCEPT !.pc = "persist"]}
    <3> DEFINE g == [h EXCEPT !.pc = "persist"]
    <3>1. g.q = h.q /\ g.n = h.n /\ g.art = h.art /\ g.prev = h.prev /\ g.pc # "fold"
      BY <1>1, WhereItGoes
    <3> HIDE DEF g
    <3> QED
      BY <2>1, <3>1 DEF g
  <2>2. CASE live' = (live \ {h}) \cup {[h EXCEPT !.pc = "fail"]}
    <3> DEFINE g == [h EXCEPT !.pc = "fail"]
    <3>1. g.q = h.q /\ g.n = h.n /\ g.art = h.art /\ g.prev = h.prev /\ g.pc # "fold"
      BY <1>1, WhereItGoes
    <3> HIDE DEF g
    <3> QED
      BY <2>2, <3>1 DEF g
  <2>3. CASE b # Unbound /\ live' = (live \ {h}) \cup {[h EXCEPT !.pc = "fold", !.task = b.task, !.done = d]}
    <3> DEFINE g == [h EXCEPT !.pc = "fold", !.task = b.task, !.done = d]
    <3>1. g.q = h.q /\ g.n = h.n /\ g.art = h.art /\ g.prev = h.prev /\ g.task = b.task
      BY <1>1, WhereItGoes
    <3> HIDE DEF g
    <3> QED
      BY <1>2, <2>3, <3>1 DEF g
  <2> QED
    BY <1>3, <2>1, <2>2, <2>3
<1>5. CreatedNamed' /\ UNCHANGED <<session, turn, msgs>>
  BY DEF FindIdempotent, ShowsInv, CreatedNamed
<1> QED
  BY <1>4, <1>5, OneMoves, ElsewhereShows

\* A new summary has a number, and so has the binding that names it.
LEMMA BoundNamed ==
  ASSUME IInv, CreatedNamed, NEW i \in Intent, NEW hash, binding' = Bind(i, hash),
         \A p \in polls' : p.task > 0
  PROVE  CreatedNamed'
<1>1. Len(tasks) + 1 > 0 /\ binding \in [Intent -> [task : Nat, hash : Nat]]
  BY DEF IInv, TypeOK
<1>2. \A j \in Intent : binding'[j] # Unbound => binding'[j].task > 0
  BY <1>1 DEF CreatedNamed, Bind
<1> QED
  BY <1>2 DEF CreatedNamed

LEMMA PersistShows ==
  ASSUME ShowsInv, IInv', NEW h \in live, Persist(h)
  PROVE  ShowsInv'
<1> DEFINE i == IntentOf(h.q)
           t0 == Len(tasks) + 1
<1>1. IInv /\ h \in Handler /\ i \in Intent /\ t0 > 0
  BY IntentNamed DEF ShowsInv, IInv, TypeOK
<1>2. UNCHANGED <<session, turn, msgs, polls>>
  BY DEF Persist
<1>3. CASE Wins(i)
  <2> DEFINE g == [h EXCEPT !.pc = "fold", !.task = t0]
  <2>1. binding' = Bind(i, h.hash) /\ live' = (live \ {h}) \cup {g}
    BY <1>3 DEF Persist
  <2>2. g.q = h.q /\ g.n = h.n /\ g.art = h.art /\ g.prev = h.prev /\ g.task = t0
    BY <1>1, WhereItGoes
  <2>3. CreatedNamed'
    <3> HIDE DEF i
    <3> QED
      BY <1>1, <1>2, <2>1, BoundNamed DEF ShowsInv, CreatedNamed
  <2> HIDE DEF g, t0
  <2> QED
    BY <1>1, <1>2, <2>1, <2>2, <2>3, OneMoves, ElsewhereShows
<1>4. CASE ~Wins(i)
  <2> DEFINE g == [h EXCEPT !.pc = "find"]
  <2>1. live' = (live \ {h}) \cup {g} /\ UNCHANGED binding
    BY <1>4 DEF Persist, Goto
  <2>2. g.q = h.q /\ g.n = h.n /\ g.art = h.art /\ g.prev = h.prev /\ g.pc # "fold"
    BY <1>1, WhereItGoes
  <2>3. CreatedNamed'
    BY <1>2, <2>1 DEF ShowsInv, CreatedNamed
  <2> HIDE DEF g
  <2> QED
    BY <1>2, <2>1, <2>2, <2>3, OneMoves, ElsewhereShows
<1> QED
  BY <1>3, <1>4

LEMMA FailShows ==
  ASSUME ShowsInv, IInv', NEW h \in live, FailTurn(h)
  PROVE  ShowsInv'
<1>1. IInv /\ h.q \in Request /\ session \in SessionRow /\ turn \in [Request -> TurnRow]
  BY DEF ShowsInv, IInv, TypeOK, Handler
<1>2. UNCHANGED msgs /\ CreatedNamed'
  BY DEF FailTurn, ShowsInv, CreatedNamed
<1>3. \A g \in live' : \E x \in live :
        /\ x.q = g.q /\ x.n = g.n /\ x.art = g.art /\ x.prev = g.prev
        /\ g.pc = "fold" => g.task > 0
  BY DEF FailTurn, ShowsInv, HandlersKnow
<1>4. CASE turn[h.q].attempt = h.n /\ turn[h.q].st = "running" /\ session.active = h.q
  <2> DEFINE row == [turn[h.q] EXCEPT !.st = "failed", !.lease = FALSE]
  <2>1. session' = [session EXCEPT !.active = None] /\ turn' = [turn EXCEPT ![h.q] = row]
    BY <1>4 DEF FailTurn
  <2>2. SameArtifact /\ session'.savedAs = session.savedAs /\ session'.active = None
    BY <1>1, <2>1 DEF SameArtifact, SessionRow
  <2>3. row.attempt = turn[h.q].attempt /\ row.body = turn[h.q].body /\ row.st = "failed"
    BY <1>1 DEF TurnRow
  <2>4. \A q \in Request :
          /\ turn'[q].attempt = turn[q].attempt /\ turn'[q].body = turn[q].body
          /\ turn'[q].st = "completed" => turn[q].st = "completed"
    <3> HIDE DEF row
    <3> QED
      BY <1>1, <2>1, <2>3
  <2>5. \A g \in live' : Owns(g)' => Owns(g)
    <3> SUFFICES ASSUME NEW g \in live' PROVE ~Owns(g)'
      OBVIOUS
    <3>1. g.q # None
      BY <1>1 DEF FailTurn, IInv, TypeOK, Handler
    <3> QED
      BY <2>2, <3>1 DEF Owns
  <2> QED
    BY <1>2, <1>3, <2>2, <2>4, <2>5, StillShows
<1>5. CASE ~(turn[h.q].attempt = h.n /\ turn[h.q].st = "running" /\ session.active = h.q)
  BY <1>2, <1>3, <1>5, ElsewhereShows DEF FailTurn
<1> QED
  BY <1>4, <1>5

LEMMA LeaseShows ==
  ASSUME ShowsInv, IInv', NEW q \in Request, LeaseExpires(q)
  PROVE  ShowsInv'
<1> DEFINE row == [turn[q] EXCEPT !.lease = FALSE]
<1>1. turn \in [Request -> TurnRow] /\ turn' = [turn EXCEPT ![q] = row] /\ live \subseteq Handler
  BY DEF ShowsInv, IInv, TypeOK, LeaseExpires
<1>2. row.attempt = turn[q].attempt /\ row.body = turn[q].body /\ row.st = turn[q].st
  BY <1>1 DEF TurnRow
<1>3. \A r \in Request : /\ turn'[r].attempt = turn[r].attempt /\ turn'[r].body = turn[r].body
                         /\ turn'[r].st = turn[r].st
  <2> HIDE DEF row
  <2> QED
    BY <1>1, <1>2
<1>4. CreatedNamed' /\ SameArtifact /\ UNCHANGED <<session, msgs, live>>
  BY DEF LeaseExpires, ShowsInv, CreatedNamed, SameArtifact
<1>5. \A h \in live' : Owns(h)' => Owns(h)
  BY <1>1, <1>3, <1>4 DEF Owns, Handler
<1>6. \A g \in live' : \E x \in live :
        /\ x.q = g.q /\ x.n = g.n /\ x.art = g.art /\ x.prev = g.prev
        /\ g.pc = "fold" => g.task > 0
  BY <1>4 DEF ShowsInv, HandlersKnow
<1> QED
  BY <1>3, <1>4, <1>5, <1>6, StillShows

\* Steps of polls, saves and summaries that touch no row of the session.
LEMMA AsideShows ==
  ASSUME ShowsInv, IInv', UNCHANGED <<session, turn, msgs, binding, live>>,
         \A p \in polls' : p.task > 0
  PROVE  ShowsInv'
<1>1. CreatedNamed'
  BY DEF ShowsInv, CreatedNamed
<1>2. \A g \in live' : \E x \in live :
        /\ x.q = g.q /\ x.n = g.n /\ x.art = g.art /\ x.prev = g.prev
        /\ g.pc = "fold" => g.task > 0
  BY DEF ShowsInv, HandlersKnow
<1> QED
  BY <1>1, <1>2, ElsewhereShows

LEMMA PollSessionShows ==
  ASSUME ShowsInv, IInv', PollSession
  PROVE  ShowsInv'
<1>1. \A p \in polls' : p.task > 0
  BY DEF PollSession
<1> QED
  BY <1>1, AsideShows DEF PollSession

LEMMA PollTaskShows ==
  ASSUME ShowsInv, IInv', NEW p \in polls, PollTask(p)
  PROVE  ShowsInv'
<1> DEFINE g == [p EXCEPT !.seen = TerminalState(p.task)]
<1>1. p \in Poll /\ \A r \in polls : r.task > 0
  BY DEF ShowsInv, CreatedNamed, IInv, TypeOK
<1>2. g.task = p.task
  BY <1>1 DEF Poll
<1>3. polls' \subseteq polls \cup {g}
  BY DEF PollTask
<1> HIDE DEF g
<1>4. \A r \in polls' : r.task > 0
  BY <1>1, <1>2, <1>3
<1> QED
  BY <1>4, AsideShows DEF PollTask

LEMMA LoadShows ==
  ASSUME ShowsInv, IInv', NEW k \in SaveKey, LoadForSave(k)
  PROVE  ShowsInv'
BY AsideShows DEF LoadForSave, ShowsInv, CreatedNamed

LEMMA MovesShow ==
  ASSUME ShowsInv, IInv', NEW t \in DOMAIN tasks, TaskMoves(t)
  PROVE  ShowsInv'
BY AsideShows DEF TaskMoves, ShowsInv, CreatedNamed

\* The workflow once its end was folded: with the message that says so, and without the
\* pointer if that is an error.
LEMMA UnpointedRow ==
  ASSUME NEW s \in SessionRow
  PROVE  LET c == [s EXCEPT !.wf.task = 0, !.wf.scope = 0, !.wf.started = 0]
         IN /\ c \in SessionRow /\ c.wf.task = 0 /\ c.wf.started = 0 /\ c.wf.terminal = s.wf.terminal
            /\ c.prev = s.prev /\ c.prop = s.prop /\ c.scope = s.scope /\ c.art = s.art
            /\ c.savedAs = s.savedAs /\ c.active = s.active
BY DEF SessionRow

LEMMA FoldedRow ==
  ASSUME NEW s \in SessionRow, NEW k \in Nat
  PROVE  LET e == [s EXCEPT !.wf.terminal = k]
         IN /\ e.wf.task = s.wf.task /\ e.wf.scope = s.wf.scope /\ e.wf.started = s.wf.started
            /\ e.wf.terminal = k
            /\ e.prev = s.prev /\ e.prop = s.prop /\ e.scope = s.scope /\ e.art = s.art
            /\ e.savedAs = s.savedAs /\ e.active = s.active
BY DEF SessionRow

\* A workflow's end moves the workflow and adds messages, and nothing else.
LEMMA WorkflowMoves ==
  ASSUME ShowsInv, IInv', MessagesKept, \A i \in 1..Len(msgs) : msgs'[i] = msgs[i],
         session'.prev = session.prev, session'.prop = session.prop,
         session'.scope = session.scope, session'.art = session.art,
         session'.savedAs = session.savedAs, session'.active = session.active,
         UNCHANGED <<turn, live, binding>>, polls' \subseteq polls,
         session.prop.st # "pending",
         \/ session'.wf.task = 0
         \/ /\ session'.wf.task = session.wf.task /\ session'.wf.scope = session.wf.scope
            /\ session'.wf.terminal > 0,
         session'.wf.started <= Len(msgs'), session'.wf.terminal <= Len(msgs'),
         WorkflowMessages', LastSpeaks'
  PROVE  ShowsInv'
<1>1. IInv /\ Shown /\ HandlersKnow
  BY DEF ShowsInv, Shown
<1>2. session.prev > 0 => msgs'[session.prev].saved = session'.savedAs
  <2>0. session.prev \in Nat /\ session.prev <= Len(msgs) /\ Len(msgs) \in Nat
    BY <1>1 DEF IInv, TypeOK, SessionRow, SavedIsMarked
  <2>1. session.prev > 0 => session.prev \in 1..Len(msgs)
    BY <2>0
  <2> QED
    BY <2>1 DEF ShowsInv, WorkbenchAgrees, PreviewIsSaveable
<1>3. PreviewIsSaveable' /\ (session'.prev > 0 => msgs'[session'.prev].parent <= Len(msgs'))
  BY <1>1, <1>2, KeptPreview
<1>4. OneArtifact'
  BY DEF ShowsInv, WorkbenchAgrees, OneArtifact
<1>5. ArtifactsNamed'
  BY <1>3 DEF ArtifactsNamed
<1>6. HandlersKnow'
  <2>1. \A h \in live' : Owns(h)' =>
          Owns(h) /\ session'.scope = session.scope /\ session'.art = session.art
    BY DEF Owns
  <2>2. \A h \in live' : \E g \in live :
          /\ g.q = h.q /\ g.n = h.n /\ g.art = h.art /\ g.prev = h.prev
          /\ h.pc = "fold" => h.task > 0
    BY <1>1 DEF HandlersKnow
  <2>3. \A q \in Request : turn'[q].attempt = turn[q].attempt
    OBVIOUS
  <2> QED
    BY <1>1, <2>1, <2>2, <2>3, KeptKnows
<1>7. CreatedNamed' /\ ScopesBelow'
  BY DEF ShowsInv, CreatedNamed, ScopesBelow
<1> QED
  BY <1>3, <1>4, <1>5, <1>6, <1>7 DEF ShowsInv, WorkbenchAgrees

LEMMA ReconcileShows ==
  ASSUME ShowsInv, IInv', NEW p \in polls, ReconcileWorkflow(p)
  PROVE  ShowsInv'
<1> DEFINE id == Len(msgs) + 1
           cleared == [session EXCEPT !.wf.task = 0, !.wf.scope = 0, !.wf.started = 0]
           s == IF p.seen = "error" THEN cleared ELSE session
           m == [Message(p.seen) EXCEPT !.scope = p.scope, !.task = p.task]
           e == [s EXCEPT !.wf.terminal = id]
<1>1. /\ IInv /\ Shown /\ session \in SessionRow /\ Len(msgs) \in Nat /\ id \in Nat /\ p \in Poll
      /\ p.task > 0
  BY DEF ShowsInv, Shown, IInv, TypeOK, CreatedNamed
<1>2. p.seen \in {"error", "completed"} /\ UNCHANGED <<turn, live, binding>> /\ polls' \subseteq polls
  BY <1>1 DEF ReconcileWorkflow, Poll
<1>3. /\ cleared \in SessionRow /\ cleared.wf.task = 0 /\ cleared.wf.started = 0
      /\ cleared.wf.terminal = session.wf.terminal
      /\ cleared.prev = session.prev /\ cleared.prop = session.prop
      /\ cleared.scope = session.scope /\ cleared.art = session.art
      /\ cleared.savedAs = session.savedAs /\ cleared.active = session.active
  BY <1>1, UnpointedRow
<1>4. /\ session.wf.started \in Nat /\ session.wf.started <= Len(msgs)
      /\ session.wf.terminal \in Nat /\ session.wf.terminal <= Len(msgs)
  BY <1>1 DEF Shown, ArtifactsNamed, SessionRow
<1>5. \/ session' = session /\ msgs' = msgs
      \/ p.seen = "error" /\ session.wf.terminal > 0 /\ session' = cleared /\ msgs' = msgs
      \/ /\ session.wf.terminal = 0 /\ session.wf.task = p.task
         /\ session' = e /\ msgs' = Append(msgs, m)
  <2> HIDE DEF cleared, m
  <2> QED
    BY <1>1, <1>2, <1>4 DEF ReconcileWorkflow, Folded, cleared, m
<1>6. (session.wf.terminal > 0 \/ session.wf.task > 0) => session.prop.st # "pending"
  BY DEF ShowsInv, WorkbenchAgrees, OneArtifact, NoWorkflow
<1>7. CASE session' = session /\ msgs' = msgs
  BY <1>2, <1>7, AsideShows DEF ShowsInv, CreatedNamed
<1>8. CASE p.seen = "error" /\ session.wf.terminal > 0 /\ session' = cleared /\ msgs' = msgs
  <2> HIDE DEF cleared
  <2>1. MessagesKept /\ Len(msgs') = Len(msgs)
    BY <1>1, <1>8, SameMessages
  <2>2. WorkflowMessages'
    BY <1>3, <1>8 DEF ShowsInv, WorkflowMessages
  <2>3. NothingShown' => NothingShown
    BY <1>3, <1>8 DEF NothingShown, ShowsInv, WorkflowMessages
  <2>4. \A q \in Request : Replayable(q)' => Replayable(q)
    BY <1>2, <1>3, <1>8 DEF Replayable
  <2>5. LastSpeaks'
    BY <1>1, <2>1, <2>3, <2>4, KeptSpeaks DEF ShowsInv
  <2>6. session'.wf.started <= Len(msgs') /\ session'.wf.terminal <= Len(msgs')
    BY <1>1, <1>3, <1>4, <1>8
  <2> QED
    BY <1>2, <1>3, <1>6, <1>8, <2>1, <2>2, <2>5, <2>6, WorkflowMoves
<1>9. CASE /\ session.wf.terminal = 0 /\ session.wf.task = p.task
           /\ session' = e /\ msgs' = Append(msgs, m)
  <2>1. s \in SessionRow
    <3> HIDE DEF cleared
    <3> QED
      BY <1>1, <1>3
  <2>2. /\ e.wf.task = s.wf.task /\ e.wf.scope = s.wf.scope /\ e.wf.started = s.wf.started
        /\ e.wf.terminal = id
        /\ e.prev = s.prev /\ e.prop = s.prop /\ e.scope = s.scope /\ e.art = s.art
        /\ e.savedAs = s.savedAs /\ e.active = s.active
    <3> HIDE DEF s, id
    <3> QED
      BY <1>1, <2>1, FoldedRow
  <2>3. /\ s.prev = session.prev /\ s.prop = session.prop /\ s.scope = session.scope
        /\ s.art = session.art /\ s.savedAs = session.savedAs /\ s.active = session.active
        /\ \/ p.seen = "error" /\ s.wf.task = 0 /\ s.wf.started = 0
           \/ p.seen = "completed" /\ s = session
    <3> HIDE DEF cleared
    <3> QED
      BY <1>2, <1>3
  <2>4. m.kind = p.seen /\ m \in MsgRow
    <3>1. Message(p.seen) \in MsgRow /\ p.scope \in Nat /\ p.task \in Nat
      BY <1>1, <1>2, MessageRow DEF Poll
    <3>2. m \in MsgRow
      BY <3>1 DEF MsgRow
    <3> QED
      BY <3>2 DEF Message, Gone
  <2> HIDE DEF m, e, s
  <2>5. /\ MessagesKept /\ Len(msgs') = id /\ msgs'[id] = m
        /\ \A i \in 1..Len(msgs) : msgs'[i] = msgs[i]
    BY <1>1, <1>9, <2>4, OneMessageMore
  <2>6. WorkflowMessages'
    <3>1. session'.wf.terminal = id /\ msgs'[id].kind = p.seen
      BY <1>9, <2>2, <2>4, <2>5
    <3>2. p.seen = "error" => session'.wf.task = 0 /\ session'.wf.started = 0
      BY <1>9, <2>2, <2>3
    <3>3. p.seen = "completed" => session'.wf.started = session.wf.started
      BY <1>9, <2>2, <2>3
    <3>4. session.wf.started > 0 => msgs'[session.wf.started].kind = "started"
      <4>1. session.wf.started > 0 => session.wf.started \in 1..Len(msgs)
        BY <1>1, <1>4
      <4> QED
        BY <2>5, <4>1 DEF ShowsInv, WorkflowMessages
    <3> QED
      BY <1>2, <3>1, <3>2, <3>3, <3>4 DEF WorkflowMessages
  <2>7. LastSpeaks'
    <3>1. p.seen = "completed" => session'.wf.task > 0
      BY <1>1, <1>9, <2>2, <2>3
    <3>2. p.seen = "error" => Len(msgs') > 0 /\ msgs'[Len(msgs')].kind = "error"
      BY <1>1, <2>4, <2>5
    <3> QED
      BY <1>1, <1>2, <3>1, <3>2 DEF LastSpeaks, NothingShown, Poll
  <2>8. session'.wf.started <= Len(msgs') /\ session'.wf.terminal <= Len(msgs')
    BY <1>1, <1>4, <1>9, <2>2, <2>3, <2>5
  <2>9. \/ session'.wf.task = 0
        \/ /\ session'.wf.task = session.wf.task /\ session'.wf.scope = session.wf.scope
           /\ session'.wf.terminal > 0
    BY <1>1, <1>9, <2>2, <2>3
  <2>10. session.prop.st # "pending"
    BY <1>1, <1>6, <1>9
  <2>11. /\ session'.prev = session.prev /\ session'.prop = session.prop
         /\ session'.scope = session.scope /\ session'.art = session.art
         /\ session'.savedAs = session.savedAs /\ session'.active = session.active
    BY <1>9, <2>2, <2>3
  <2> QED
    BY <1>2, <2>5, <2>6, <2>7, <2>8, <2>9, <2>10, <2>11, WorkflowMoves
<1> QED
  BY <1>5, <1>7, <1>8, <1>9

\* The save that wins marks row and session alike.
LEMMA CommitShows ==
  ASSUME ShowsInv, IInv', NEW v \in saves, CommitSave(v)
  PROVE  ShowsInv'
<1> DEFINE i == <<"save", v.key>>
           t0 == Len(tasks) + 1
           k == v.msg
<1>1. /\ IInv /\ Shown /\ HandlersKnow /\ i \in Intent /\ k \in Nat
      /\ session \in SessionRow /\ msgs \in Seq(MsgRow)
  BY DEF ShowsInv, Shown, IInv, TypeOK, Intent
<1>2. CASE ~(StillSaveable(k) /\ Wins(i))
  BY <1>2, AsideShows DEF CommitSave, ShowsInv, CreatedNamed
<1>3. CASE StillSaveable(k) /\ Wins(i)
  <2> DEFINE m == [msgs[k] EXCEPT !.saved = t0]
  <2>1. /\ binding' = Bind(i, k) /\ msgs' = [msgs EXCEPT ![k] = m]
        /\ session' = [session EXCEPT !.savedAs = t0]
        /\ UNCHANGED <<turn, live, polls>>
    BY <1>3 DEF CommitSave, SaveHash
  <2>2. k > 0 /\ session.prev = k /\ session.prev <= Len(msgs) /\ Len(msgs) \in Nat
    BY <1>1, <1>3 DEF StillSaveable, IInv, TypeOK, SavedIsMarked
  <2>3. k \in 1..Len(msgs) /\ msgs[k] \in MsgRow
    BY <1>1, <2>2
  <2>4. /\ m.kind = msgs[k].kind /\ m.scope = msgs[k].scope /\ m.art = msgs[k].art
        /\ m.ver = msgs[k].ver /\ m.parent = msgs[k].parent /\ m.saved = t0
    <3> HIDE DEF t0, k
    <3> QED
      BY <2>3 DEF MsgRow
  <2>5. Len(msgs') = Len(msgs) /\ \A j \in 1..Len(msgs) : msgs'[j] = IF j = k THEN m ELSE msgs[j]
    <3> HIDE DEF m, k
    <3> QED
      BY <1>1, <2>1, <2>3
  <2>6. SameArtifact /\ session'.savedAs = t0 /\ session'.active = session.active
    <3> HIDE DEF t0
    <3> QED
      BY <1>1, <2>1 DEF SameArtifact, SessionRow
  <2> HIDE DEF m, k, t0
  <2>7. MessagesKept
    BY <2>2, <2>4, <2>5 DEF MessagesKept
  <2>8. Shown'
    <3>1. session.prev > 0 => msgs'[session.prev].saved = session'.savedAs
      BY <2>2, <2>3, <2>4, <2>5, <2>6
    <3> QED
      BY <1>1, <2>6, <2>7, <3>1, KeptShows
  <2>9. HandlersKnow'
    <3>1. \A h \in live' : Owns(h)' =>
            Owns(h) /\ session'.scope = session.scope /\ session'.art = session.art
      BY <2>1, <2>6 DEF Owns, SameArtifact
    <3>2. \A h \in live' : \E g \in live :
            /\ g.q = h.q /\ g.n = h.n /\ g.art = h.art /\ g.prev = h.prev
            /\ h.pc = "fold" => h.task > 0
      BY <1>1, <2>1 DEF HandlersKnow
    <3>3. \A q \in Request : turn'[q].attempt = turn[q].attempt
      BY <2>1
    <3> QED
      BY <1>1, <2>7, <3>1, <3>2, <3>3, KeptKnows
  <2>10. CreatedNamed'
    <3> HIDE DEF i
    <3> QED
      BY <1>1, <2>1, BoundNamed DEF ShowsInv, CreatedNamed
  <2>11. ScopesBelow'
    BY <2>1, <2>6 DEF ShowsInv, ScopesBelow, SameArtifact
  <2>12. LastSpeaks'
    <3>1. NothingShown' => NothingShown
      BY <1>1, <2>6, <2>7, KeptNothing
    <3>2. \A q \in Request : Replayable(q)' => Replayable(q)
      BY <2>1, <2>6 DEF Replayable, SameArtifact
    <3> QED
      BY <1>1, <2>5, <2>7, <3>1, <3>2, KeptSpeaks DEF ShowsInv
  <2> QED
    BY <2>8, <2>9, <2>10, <2>11, <2>12 DEF ShowsInv, Shown
<1> QED
  BY <1>2, <1>3

\* The session a turn starts from: as it was, or the empty workbench of a newer scope.
LEMMA OpenedShows ==
  ASSUME session \in SessionRow, NEW body \in Body, NEW q \in Request
  PROVE  LET s == [Opened(body) EXCEPT !.active = q]
         IN /\ s.active = q /\ s.art = session.art
            /\ body.scope > session.scope =>
                 s.scope = body.scope /\ s.prev = 0 /\ s.prop = NoProposal /\ s.wf = NoWorkflow
            /\ ~(body.scope > session.scope) =>
                 /\ s.scope = session.scope /\ s.prev = session.prev /\ s.prop = session.prop
                 /\ s.wf = session.wf /\ s.savedAs = session.savedAs
<1> DEFINE s0 == [session EXCEPT !.scope = body.scope, !.ctx = body.ctx]
           s1 == ClearWorkflow(ClearProposal(ClearPreview(s0)))
<1>1. /\ s1 \in SessionRow /\ s1.scope = body.scope /\ s1.prev = 0 /\ s1.prop = NoProposal
      /\ s1.wf = NoWorkflow /\ s1.art = session.art
  BY DEF ClearWorkflow, ClearProposal, ClearPreview, NoProposal, NoWorkflow, SessionRow, Body
<1>2. CASE body.scope > session.scope
  <2>1. Opened(body) = s1
    BY <1>2 DEF Opened
  <2> HIDE DEF s1
  <2> QED
    BY <1>1, <1>2, <2>1 DEF SessionRow
<1>3. CASE ~(body.scope > session.scope)
  <2>1. Opened(body) = session
    BY <1>3 DEF Opened
  <2> QED
    BY <1>3, <2>1 DEF SessionRow
<1> QED
  BY <1>2, <1>3

\* A new attempt of a request outdates its handlers, and finds the session as it stands.
LEMMA AcquireShows ==
  ASSUME ShowsInv, IInv', NEW q \in Request, NEW body \in Body, NEW hash,
         NEW route \in {"run", "find", "fail"},
         body.scope >= session.scope, Acquire(q, body, route, hash)
  PROVE  ShowsInv'
<1> DEFINE s == [Opened(body) EXCEPT !.active = q]
           n == turn[q].attempt + 1
           h == [q |-> q, n |-> n, pc |-> route, prev |-> s.prev, art |-> s.art,
                 task |-> 0, hash |-> hash, done |-> FALSE]
           row == [st |-> "running", attempt |-> n, lease |-> TRUE, msg |-> 0, by |-> 0,
                   body |-> body]
<1>1. /\ IInv /\ Shown /\ HandlersKnow /\ session \in SessionRow /\ turn \in [Request -> TurnRow]
      /\ live \subseteq Handler
  BY DEF ShowsInv, Shown, IInv, TypeOK
<1>2. /\ session' = s /\ turn' = [turn EXCEPT ![q] = row] /\ live' = live \cup {h}
      /\ UNCHANGED <<msgs, binding, polls>>
  BY DEF Acquire
<1>3. /\ s.active = q /\ s.art = session.art
      /\ body.scope > session.scope =>
           s.scope = body.scope /\ s.prev = 0 /\ s.prop = NoProposal /\ s.wf = NoWorkflow
      /\ ~(body.scope > session.scope) =>
           /\ s.scope = session.scope /\ s.prev = session.prev /\ s.prop = session.prop
           /\ s.wf = session.wf /\ s.savedAs = session.savedAs
  BY <1>1, OpenedShows
<1>4. /\ h.q = q /\ h.n = n /\ h.art = s.art /\ h.prev = s.prev /\ h.pc # "fold"
      /\ row.attempt = n /\ row.body = body /\ row.st = "running"
  OBVIOUS
<1>5. turn[q].attempt \in Nat /\ n = turn[q].attempt + 1
  BY <1>1 DEF TurnRow
<1>6. session.scope \in Nat /\ body.scope \in Nat /\ session.prev \in Nat
  BY <1>1 DEF SessionRow, Body
<1> HIDE DEF s, h, row, n
<1>7. turn'[q] = row /\ \A r \in Request : r # q => turn'[r] = turn[r]
  BY <1>1, <1>2
<1>8. MessagesKept /\ CreatedNamed' /\ Len(msgs) \in Nat
  BY <1>1, <1>2, SameMessages DEF ShowsInv, CreatedNamed, IInv, TypeOK
<1>9. s.scope = body.scope
  BY <1>3, <1>6
<1>10. Shown'
  <2>1. CASE body.scope > session.scope
    BY <1>2, <1>3, <2>1, EmptyShows DEF NoProposal
  <2>2. CASE ~(body.scope > session.scope)
    <3>1. SameArtifact /\ session'.savedAs = session.savedAs
      BY <1>2, <1>3, <2>2 DEF SameArtifact
    <3>2. session.prev > 0 => msgs'[session.prev].saved = session'.savedAs
      BY <1>2, <3>1 DEF ShowsInv, WorkbenchAgrees, PreviewIsSaveable
    <3> QED
      BY <1>1, <1>8, <3>1, <3>2, KeptShows
  <2> QED
    BY <2>1, <2>2
<1>11. HandlersKnow'
  <2> SUFFICES ASSUME NEW g \in live'
               PROVE  /\ g.n <= turn'[g.q].attempt
                      /\ g.pc = "fold" => g.task > 0
                      /\ Owns(g)' => Knows(g)'
    BY DEF HandlersKnow
  <2>1. CASE g \in live
    <3>1. /\ g.q \in Request /\ g.n \in Nat /\ g.n <= turn[g.q].attempt
          /\ g.pc = "fold" => g.task > 0
      BY <1>1, <2>1 DEF HandlersKnow, Handler
    <3>2. g.n <= turn'[g.q].attempt /\ (g.q = q => g.n # turn'[g.q].attempt)
      BY <1>4, <1>5, <1>7, <3>1
    <3>3. ~Owns(g)'
      BY <1>2, <1>3, <3>2 DEF Owns
    <3> QED
      BY <3>1, <3>2, <3>3
  <2>2. CASE g = h
    <3>0. g.q = q /\ g.n = n /\ g.art = s.art /\ g.prev = s.prev /\ g.pc # "fold"
      BY <1>4, <2>2
    <3>1. Knows(g)'
      <4>1. CASE s.prev > 0
        <5>1. s.prev = session.prev /\ s.scope = session.scope
          BY <1>3, <4>1
        <5>2. /\ session.prev <= Len(msgs) /\ msgs[session.prev].kind = "preview"
              /\ msgs[session.prev].scope = session.scope
          BY <4>1, <5>1 DEF ShowsInv, IInv, SavedIsMarked, WorkbenchAgrees, PreviewIsSaveable
        <5> QED
          BY <1>2, <3>0, <5>1, <5>2 DEF Knows
      <4>2. CASE ~(s.prev > 0)
        <5>1. s.prev = 0
          BY <1>3, <1>6, <4>2
        <5> QED
          BY <1>2, <1>8, <3>0, <5>1 DEF Knows
      <4> QED
        BY <4>1, <4>2
    <3>2. g.n <= turn'[g.q].attempt
      BY <1>4, <1>5, <1>7, <3>0
    <3> QED
      BY <3>0, <3>1, <3>2
  <2> QED
    BY <1>2, <2>1, <2>2
<1>12. ScopesBelow'
  <2> SUFFICES ASSUME NEW r \in Request PROVE turn'[r].body.scope <= session'.scope
    BY DEF ScopesBelow
  <2>1. CASE r = q
    BY <1>2, <1>4, <1>6, <1>7, <1>9, <2>1
  <2>2. CASE r # q
    <3>1. turn[r].body.scope \in Nat /\ turn[r].body.scope <= session.scope
      BY <1>1 DEF ShowsInv, ScopesBelow, TurnRow, Body
    <3> QED
      BY <1>2, <1>6, <1>7, <1>9, <2>2, <3>1
  <2> QED
    BY <2>1, <2>2
<1>13. LastSpeaks'
  <2>1. \A r \in Request : Replayable(r)' => r # q /\ turn'[r] = turn[r]
    BY <1>4, <1>7 DEF Replayable
  <2>2. CASE body.scope > session.scope
    <3>1. ASSUME NEW r \in Request PROVE ~Replayable(r)'
      <4>1. turn[r].body.scope \in Nat /\ turn[r].body.scope <= session.scope
        BY <1>1 DEF ShowsInv, ScopesBelow, TurnRow, Body
      <4> QED
        BY <1>2, <1>6, <1>9, <2>1, <2>2, <4>1 DEF Replayable
    <3> QED
      BY <3>1 DEF LastSpeaks
  <2>3. CASE ~(body.scope > session.scope)
    <3>1. SameArtifact
      BY <1>2, <1>3, <2>3 DEF SameArtifact
    <3>2. NothingShown' => NothingShown
      BY <1>1, <1>8, <3>1, KeptNothing
    <3>3. \A r \in Request : Replayable(r)' => Replayable(r)
      BY <2>1, <3>1 DEF Replayable, SameArtifact
    <3> QED
      BY <1>1, <1>2, <1>8, <3>2, <3>3, KeptSpeaks DEF ShowsInv
  <2> QED
    BY <2>2, <2>3
<1> QED
  BY <1>8, <1>10, <1>11, <1>12, <1>13 DEF ShowsInv, Shown

LEMMA BeginShows ==
  ASSUME ShowsInv, IInv', NEW q \in Chat, BeginTurn(q)
  PROVE  ShowsInv'
<1>1. PICK body \in Bodies(q, ChatBodies), route \in Routes :
        /\ ScopeAccepted(body)
        /\ \E hash \in RequestHashes(q, route) : Acquire(q, body, route, hash)
  BY DEF BeginTurn
<1>2. PICK hash \in RequestHashes(q, route) : Acquire(q, body, route, hash)
  BY <1>1
<1>3. body \in Body
  BY BodyType DEF ShowsInv
<1>4. route \in {"run", "find", "fail"} /\ body.scope >= session.scope /\ q \in Request
  BY <1>1 DEF Routes, ScopeAccepted
<1> QED
  BY <1>2, <1>3, <1>4, AcquireShows

LEMMA BeginConfirmShows ==
  ASSUME ShowsInv, IInv', NEW k \in Key, BeginProposalConfirmation(k)
  PROVE  ShowsInv'
<1>1. PICK body \in Bodies(k, ConfirmBodies), route \in {"find", "fail"} :
        ProposalAccepted(body) /\ Acquire(k, body, route, 1)
  BY DEF BeginProposalConfirmation
<1>2. body \in Body /\ k \in Request
  BY <1>1, BodyType DEF ShowsInv
<1>3. body.scope >= session.scope
  BY <1>1, <1>2 DEF ProposalAccepted, Body
<1> QED
  BY <1>1, <1>2, <1>3, AcquireShows

LEMMA ExpireShows ==
  ASSUME ShowsInv, IInv', ExpireWorkspace
  PROVE  ShowsInv'
<1>1. /\ live' = {} /\ polls' = {} /\ session' = NoSession /\ turn' = [q \in Request |-> NoTurn]
      /\ \A i \in Intent : binding'[i] = binding[i] \/ binding'[i] = Unbound
  BY DEF ExpireWorkspace
<1>2. Shown'
  BY <1>1, EmptyShows DEF NoSession, NoProposal
<1>3. CreatedNamed' /\ HandlersKnow'
  BY <1>1 DEF ShowsInv, CreatedNamed, HandlersKnow
<1>4. \A q \in Request : turn'[q].st = "none" /\ turn'[q].body.scope = 0
  BY <1>1 DEF NoTurn
<1>5. session'.scope = 0
  BY <1>1 DEF NoSession
<1>6. ScopesBelow' /\ LastSpeaks'
  BY <1>4, <1>5 DEF ScopesBelow, LastSpeaks, Replayable
<1> QED
  BY <1>2, <1>3, <1>6 DEF ShowsInv, Shown

LEMMA InitShows == Init => ShowsInv
<1> SUFFICES ASSUME Init PROVE ShowsInv
  OBVIOUS
<1>1. /\ session = NoSession /\ turn = [q \in Request |-> NoTurn] /\ live = {} /\ polls = {}
      /\ Len(msgs) = 0 /\ binding = [i \in Intent |-> Unbound]
  BY DEF Init
<1>2. /\ session.prev = 0 /\ session.prop.st = "none" /\ session.wf.task = 0 /\ session.scope = 0
      /\ session.wf.started = 0 /\ session.wf.terminal = 0
  BY <1>1 DEF NoSession, NoProposal, NoWorkflow
<1>3. WorkbenchAgrees /\ ArtifactsNamed /\ WorkflowMessages
  BY <1>1, <1>2 DEF WorkbenchAgrees, PreviewIsSaveable, OneArtifact, ArtifactsNamed, WorkflowMessages
<1>4. \A q \in Request : turn[q].st = "none" /\ turn[q].body.scope = 0
  BY <1>1 DEF NoTurn
<1>5. HandlersKnow /\ CreatedNamed /\ ScopesBelow /\ LastSpeaks
  BY <1>1, <1>2, <1>4 DEF HandlersKnow, CreatedNamed, ScopesBelow, LastSpeaks, Replayable
<1> QED
  BY <1>3, <1>5, InitInv DEF ShowsInv

LEMMA NextShows == ShowsInv /\ [Next]_vars => ShowsInv'
<1> SUFFICES ASSUME ShowsInv, [Next]_vars PROVE ShowsInv'
  OBVIOUS
<1>0. IInv'
  BY NextInv DEF ShowsInv
<1>1. ASSUME NEW q \in Chat, BeginTurn(q) PROVE ShowsInv'
  BY <1>0, <1>1, BeginShows
<1>2. ASSUME NEW k \in Key, BeginProposalConfirmation(k) PROVE ShowsInv'
  BY <1>0, <1>2, BeginConfirmShows
<1>3. ASSUME NEW h \in live, Execute(h) PROVE ShowsInv'
  BY <1>0, <1>3, FindShows, PersistShows, EndsShow, FailShows DEF Execute
<1>4. ASSUME NEW q \in Request, LeaseExpires(q) PROVE ShowsInv'
  BY <1>0, <1>4, LeaseShows
<1>5. CASE PollSession
  BY <1>0, <1>5, PollSessionShows
<1>6. ASSUME NEW p \in polls, PollTask(p) \/ ReconcileWorkflow(p) PROVE ShowsInv'
  BY <1>0, <1>6, PollTaskShows, ReconcileShows
<1>7. ASSUME NEW k \in SaveKey, LoadForSave(k) PROVE ShowsInv'
  BY <1>0, <1>7, LoadShows
<1>8. ASSUME NEW v \in saves, CommitSave(v) PROVE ShowsInv'
  BY <1>0, <1>8, CommitShows
<1>9. ASSUME NEW t \in DOMAIN tasks, TaskMoves(t) PROVE ShowsInv'
  BY <1>0, <1>9, MovesShow
<1>10. CASE ExpireWorkspace
  BY <1>0, <1>10, ExpireShows
<1>11. CASE UNCHANGED vars
  BY <1>0, <1>11, AsideShows DEF vars, ShowsInv, CreatedNamed
<1> QED
  BY <1>1, <1>2, <1>3, <1>4, <1>5, <1>6, <1>7, <1>8, <1>9, <1>10, <1>11 DEF Next

\* What the session shows, its messages and its handlers agree in every reachable state.
THEOREM ShownInvariance == Spec => []ShowsInv
<1>1. Init => ShowsInv
  BY InitShows
<1>2. ShowsInv /\ [Next]_vars => ShowsInv'
  BY NextShows
<1> QED
  BY <1>1, <1>2, PTL DEF Spec

\* The session shows one artifact, of its own scope, that its button can act on: a
\* preview of the version that row, payload and session carry, a proposal that can be
\* confirmed, or a workflow with its message.
THEOREM OneWorkbench == Spec => []WorkbenchAgrees
<1>1. ShowsInv => WorkbenchAgrees
  BY DEF ShowsInv
<1> QED
  BY <1>1, ShownInvariance, PTL

\* What a session falls back to is always what it shows.
LEMMA CurrentMatches ==
  ASSUME ShowsInv, NEW q \in Request, Replayable(q),
         session.wf.task > 0 => /\ tasks[session.wf.task].st # "Deleted"
                                /\ session.wf.started > 0
  PROVE  MatchesState(CurrentMessage)
<1> DEFINE w == session.wf
           pmsg == IF session.prop.st = "pending" THEN session.prop.msg ELSE 0
           shown == <<session.prev, pmsg, ShownWorkflow.msg>>
           some == {i \in 1..3 : shown[i] > 0}
<1>1. /\ session.prev \in Nat /\ w.started \in Nat /\ w.terminal \in Nat /\ w.task \in Nat
      /\ Len(msgs) \in Nat
  BY DEF ShowsInv, IInv, TypeOK, SessionRow
<1>2. session.prev > 0 => msgs[session.prev].kind = "preview"
  BY DEF ShowsInv, WorkbenchAgrees, PreviewIsSaveable
<1>3. session.prop.st = "pending" => session.prop.msg > 0 /\ msgs[session.prop.msg].kind = "confirm"
  BY <1>1 DEF ShowsInv, WorkbenchAgrees, OneArtifact, ArtifactsNamed
<1>4. ShownWorkflow.msg > 0 => /\ ShownWorkflow = [msg |-> ShownWorkflow.msg,
                                                    kind |-> msgs[ShownWorkflow.msg].kind]
                               /\ msgs[ShownWorkflow.msg].kind \in {"started", "completed"}
  BY <1>1 DEF ShownWorkflow, NoShown, ShowsInv, WorkflowMessages
<1>5. ShownWorkflow.msg \in Nat
  BY <1>1 DEF ShownWorkflow, NoShown
<1>6. shown[1] = session.prev /\ shown[2] = pmsg /\ shown[3] = ShownWorkflow.msg
  OBVIOUS
<1>7. CASE some # {}
  <2>1. PICK i : i \in some /\ CurrentMessage = shown[i]
    <3>1. \E i \in some : \A j \in some : i <= j
      <4>1. \A i \in some : i = 1 \/ i = 2 \/ i = 3
        OBVIOUS
      <4> HIDE DEF some
      <4>2. CASE 1 \in some
        BY <4>1, <4>2
      <4>3. CASE 1 \notin some /\ 2 \in some
        BY <4>1, <4>3
      <4>4. CASE 1 \notin some /\ 2 \notin some
        BY <1>7, <4>1, <4>4
      <4> QED
        BY <4>2, <4>3, <4>4
    <3>2. CurrentMessage = shown[CHOOSE i \in some : \A j \in some : i <= j]
      BY <1>7 DEF CurrentMessage
    <3> HIDE DEF some, shown
    <3> QED
      BY <3>1, <3>2
  <2>2. i \in 1..3 /\ shown[i] > 0
    BY <2>1
  <2> HIDE DEF shown, pmsg
  <2>3. CASE i = 1
    BY <1>2, <1>6, <2>1, <2>2, <2>3 DEF MatchesState
  <2>4. CASE i = 2
    BY <1>3, <1>6, <2>1, <2>2, <2>4 DEF MatchesState, pmsg
  <2>5. CASE i = 3
    BY <1>4, <1>6, <2>1, <2>2, <2>5 DEF MatchesState
  <2> QED
    BY <2>2, <2>3, <2>4, <2>5
<1>8. CASE some = {}
  <2>1. CurrentMessage = Len(msgs)
    BY <1>8 DEF CurrentMessage
  <2>2. ~(session.prev > 0) /\ ~(pmsg > 0) /\ ~(ShownWorkflow.msg > 0)
    <3>1. 1 \notin some /\ 2 \notin some /\ 3 \notin some
      BY <1>8
    <3> HIDE DEF shown
    <3> QED
      BY <1>6, <3>1
  <2>3. session.prev = 0 /\ session.prop.st # "pending"
    BY <1>1, <1>3, <2>2
  <2>4. w.task = 0 /\ (w.terminal > 0 => msgs[w.terminal].kind = "error")
    BY <1>1, <2>2 DEF ShownWorkflow, NoShown, ShowsInv, WorkflowMessages
  <2>5. msgs[Len(msgs)].kind \in {"reply", "error"}
    BY <2>3, <2>4 DEF ShowsInv, LastSpeaks, NothingShown
  <2> QED
    BY <2>1, <2>5 DEF MatchesState
<1> QED
  BY <1>7, <1>8

\* A completed request of the current scope can be replayed: its own message still
\* stands, or the session has one to show in its place.
THEOREM ReplaysRender == Spec => []CompletedTurnsRender
<1>1. ShowsInv => CompletedTurnsRender
  BY CurrentMatches DEF CompletedTurnsRender, Renders
<1> QED
  BY <1>1, ShownInvariance, PTL

-----------------------------------------------------------------------------
(* The refinement *)

\* A step that keeps the holder, its row's lease and attempt, and what was answered.
LEMMA Stutters ==
  ASSUME session'.active = session.active, UNCHANGED turn
  PROVE  UNCHANGED T!vars
BY DEF T!vars, Holder, Leased, Answers

LEMMA AcquireTakes ==
  ASSUME TypeOK, NEW q \in Request, NEW body, NEW route, NEW hash, turn[q].st # "completed",
         ~Leased(session.active), Acquire(q, body, route, hash)
  PROVE  T!Next
<1> DEFINE n == turn[q].attempt + 1
           row == [st |-> "running", attempt |-> n, lease |-> TRUE, msg |-> 0, by |-> 0,
                   body |-> body]
<1>1. turn' = [turn EXCEPT ![q] = row] /\ turn \in [Request -> TurnRow] /\ q # None
  BY DEF Acquire, TypeOK
<1>2. session'.active = q
  BY DEF Acquire, Opened, ClearWorkflow, ClearProposal, ClearPreview, TypeOK, SessionRow
<1>3. n \in 1..MaxAttempt
  BY <1>1 DEF Acquire, TurnRow
<1>4. turn'[q] = row /\ \A r \in Request : r # q => turn'[r] = turn[r]
  BY <1>1
<1>5. Holder' = <<q, n>>
  BY <1>1, <1>2, <1>4 DEF Holder
<1>6. Leased(session.active)'
  BY <1>1, <1>2, <1>4 DEF Leased
<1>7. Answers' = Answers /\ Answers[q] = 0
  BY <1>1, <1>4 DEF Answers
<1>8. T!Take(q, n)
  BY <1>5, <1>6, <1>7 DEF T!Take
<1> QED
  BY <1>3, <1>8 DEF T!Next

LEMMA CompleteAnswers ==
  ASSUME TypeOK, NEW h \in live, NEW m, NEW s \in SessionRow, CompleteTurn(h, m, s)
  PROVE  [T!Next]_(T!vars)
<1>1. h.q \in Request /\ h.n \in 1..MaxAttempt /\ turn \in [Request -> TurnRow] /\ h.q # None
  BY DEF TypeOK, Handler
<1>2. CASE Owns(h)
  <2> DEFINE id == Len(msgs) + 1
             row == [turn[h.q] EXCEPT !.st = "completed", !.lease = FALSE, !.msg = id, !.by = h.n]
  <2>1. turn' = [turn EXCEPT ![h.q] = row]
    BY <1>2 DEF CompleteTurn
  <2>2. PICK ctx : session' = [s EXCEPT !.active = None, !.ctx = ctx]
    BY <1>2 DEF CompleteTurn
  <2>3. session'.active = None
    BY <2>2 DEF SessionRow
  <2>4. row.st = "completed" /\ row.by = h.n
    BY <1>1 DEF TurnRow
  <2>5. turn'[h.q] = row /\ \A r \in Request : r # h.q => turn'[r] = turn[r]
    BY <1>1, <2>1
  <2>6. Holder = <<h.q, h.n>> /\ Answers[h.q] = 0
    BY <1>1, <1>2 DEF Owns, Holder, Answers
  <2>7. Holder' = None /\ Leased(session.active)' = FALSE
    BY <2>3 DEF Holder, Leased
  <2>8. Answers' = [Answers EXCEPT ![h.q] = h.n]
    <3> HIDE DEF row
    <3> QED
      BY <1>1, <2>4, <2>5 DEF Answers
  <2>9. T!Answer(h.q, h.n)
    BY <2>6, <2>7, <2>8 DEF T!Answer
  <2> QED
    BY <1>1, <2>9 DEF T!Next
<1>3. CASE ~Owns(h)
  BY <1>3, Stutters DEF CompleteTurn
<1> QED
  BY <1>2, <1>3

LEMMA FailGivesUp ==
  ASSUME TypeOK, NEW h \in live, FailTurn(h)
  PROVE  [T!Next]_(T!vars)
<1>1. h.q \in Request /\ turn \in [Request -> TurnRow] /\ session \in SessionRow
  BY DEF TypeOK, Handler
<1>2. CASE turn[h.q].attempt = h.n /\ turn[h.q].st = "running" /\ session.active = h.q
  <2> DEFINE row == [turn[h.q] EXCEPT !.st = "failed", !.lease = FALSE]
  <2>1. turn' = [turn EXCEPT ![h.q] = row] /\ session' = [session EXCEPT !.active = None]
    BY <1>2 DEF FailTurn
  <2>2. row.st = "failed" /\ session'.active = None
    BY <1>1, <2>1 DEF TurnRow, SessionRow
  <2>3. Holder' = None /\ Leased(session.active)' = FALSE
    BY <2>2 DEF Holder, Leased
  <2>4. Answers' = Answers
    <3> HIDE DEF row
    <3> QED
      BY <1>1, <1>2, <2>1, <2>2 DEF Answers
  <2> QED
    BY <2>3, <2>4 DEF T!Next, T!GiveUp
<1>3. CASE ~(turn[h.q].attempt = h.n /\ turn[h.q].st = "running" /\ session.active = h.q)
  BY <1>3, Stutters DEF FailTurn
<1> QED
  BY <1>2, <1>3

LEMMA LeaseLapses ==
  ASSUME TypeOK, NEW q \in Request, LeaseExpires(q)
  PROVE  [T!Next]_(T!vars)
<1> DEFINE row == [turn[q] EXCEPT !.lease = FALSE]
<1>1. turn' = [turn EXCEPT ![q] = row] /\ turn \in [Request -> TurnRow] /\ UNCHANGED session
  BY DEF LeaseExpires, TypeOK
<1>2. /\ row.lease = FALSE /\ row.st = turn[q].st /\ row.attempt = turn[q].attempt
      /\ row.by = turn[q].by
  BY <1>1 DEF TurnRow
<1>3. turn'[q] = row /\ \A r \in Request : r # q => turn'[r] = turn[r]
  BY <1>1
<1> HIDE DEF row
<1>4. Answers' = Answers
  BY <1>2, <1>3 DEF Answers
<1>5. session.active # None => session.active \in Request
  BY DEF TypeOK, SessionRow
<1>6. Holder' = Holder
  BY <1>1, <1>2, <1>3, <1>5 DEF Holder
<1>7. CASE session.active = q
  <2>1. Leased(session.active) /\ Leased(session.active)' = FALSE
    BY <1>1, <1>2, <1>3, <1>7 DEF LeaseExpires, Leased
  <2> QED
    BY <2>1, <1>4, <1>6 DEF T!Next, T!Lapse
<1>8. CASE session.active # q
  <2>1. Leased(session.active)' = Leased(session.active)
    BY <1>1, <1>3, <1>5, <1>8 DEF Leased
  <2> QED
    BY <2>1, <1>4, <1>6 DEF T!vars
<1> QED
  BY <1>7, <1>8

LEMMA ExpireForgets ==
  ASSUME TypeOK, ExpireWorkspace
  PROVE  T!Next
<1>1. session'.active = None /\ turn' = [q \in Request |-> NoTurn]
  BY DEF ExpireWorkspace, NoSession
<1>2. Holder' = None /\ Leased(session.active)' = FALSE
  BY <1>1 DEF Holder, Leased
<1>3. Answers' = [q \in Request |-> 0]
  BY <1>1 DEF Answers, NoTurn
<1>4. ~Leased(session.active)
  BY DEF ExpireWorkspace
<1> QED
  BY <1>2, <1>3, <1>4 DEF T!Next, T!Forget

\* Every step of the session is a step of Turns or leaves it where it is.
LEMMA StepSimulation == IInv /\ [Next]_vars => [T!Next]_(T!vars)
<1> SUFFICES ASSUME IInv, [Next]_vars PROVE [T!Next]_(T!vars)
  OBVIOUS
<1>1. TypeOK
  BY DEF IInv
<1>2. ASSUME NEW q \in Chat, BeginTurn(q) PROVE T!Next
  BY <1>1, <1>2, AcquireTakes DEF BeginTurn
<1>3. ASSUME NEW k \in Key, BeginProposalConfirmation(k) PROVE T!Next
  BY <1>1, <1>3, AcquireTakes DEF BeginProposalConfirmation
<1>4. ASSUME NEW h \in live, Execute(h) PROVE [T!Next]_(T!vars)
  <2>1. CASE FindIdempotent(h) \/ Persist(h)
    BY <2>1, Stutters DEF FindIdempotent, Persist, Goto
  <2>2. CASE CompleteReply(h) \/ CompletePreview(h) \/ CompleteProposal(h) \/ CompleteWorkflow(h)
    BY <1>1, <2>2, Completers, CompleteAnswers
  <2>3. CASE FailTurn(h)
    BY <1>1, <2>3, FailGivesUp
  <2> QED
    BY <1>4, <2>1, <2>2, <2>3 DEF Execute
<1>5. ASSUME NEW q \in Request, LeaseExpires(q) PROVE [T!Next]_(T!vars)
  BY <1>1, <1>5, LeaseLapses
<1>6. CASE PollSession
  BY <1>6, Stutters DEF PollSession
<1>7. ASSUME NEW p \in polls, PollTask(p) \/ ReconcileWorkflow(p) PROVE UNCHANGED T!vars
  <2>1. session' = session \/ session'.active = session.active
    BY <1>1, <1>7 DEF PollTask, ReconcileWorkflow, TypeOK, SessionRow
  <2> QED
    BY <1>7, <2>1, Stutters DEF PollTask, ReconcileWorkflow
<1>8. ASSUME NEW k \in SaveKey, LoadForSave(k) PROVE UNCHANGED T!vars
  BY <1>8, Stutters DEF LoadForSave
<1>9. ASSUME NEW s \in saves, CommitSave(s) PROVE UNCHANGED T!vars
  <2>1. session' = session \/ session'.active = session.active
    BY <1>1, <1>9 DEF CommitSave, TypeOK, SessionRow
  <2> QED
    BY <1>9, <2>1, Stutters DEF CommitSave
<1>10. ASSUME NEW t \in DOMAIN tasks, TaskMoves(t) PROVE UNCHANGED T!vars
  BY <1>10, Stutters DEF TaskMoves
<1>11. CASE ExpireWorkspace
  BY <1>1, <1>11, ExpireForgets
<1>12. CASE UNCHANGED vars
  BY <1>12, Stutters DEF vars
<1> QED
  BY <1>2, <1>3, <1>4, <1>5, <1>6, <1>7, <1>8, <1>9, <1>10, <1>11, <1>12 DEF Next

\* One request holds the session at a time; only the last attempt that took it answers,
\* and once: the workspace implements Turns.
THEOREM Implements == Spec => ImplementsTurns
<1>1. Init => T!Init
  <2> SUFFICES ASSUME Init PROVE T!Init
    OBVIOUS
  <2>1. session.active = None /\ turn = [q \in Request |-> NoTurn]
    BY DEF Init, NoSession
  <2>2. Holder = None /\ Leased(session.active) = FALSE
    BY <2>1 DEF Holder, Leased
  <2>3. Answers = [q \in Request |-> 0]
    BY <2>1 DEF Answers, NoTurn
  <2> QED
    BY <2>2, <2>3 DEF T!Init
<1>2. IInv /\ [Next]_vars => [T!Next]_(T!vars)
  BY StepSimulation
<1> QED
  BY <1>1, <1>2, Invariance, PTL DEF Spec, ImplementsTurns, T!Spec
=============================================================================
