---------------------------- MODULE PipelineProofs ----------------------------
(* Proofs about Pipeline, for any runs, models, connections and buffers: one   *)
(* answer per stream, what a browser is shown and told; and for any channels,  *)
(* window, batch size and concurrency: what a fetch has read when it returns.  *)
EXTENDS Pipeline, TLAPS, FiniteSetTheorems, SequenceTheorems

USE PipelineAssumption, HubAssumption DEF Runs, NoRun

-----------------------------------------------------------------------------
(* Frames and queues *)

LEMMA FrameType ==
    ASSUME NEW r \in Runs, NEW type \in {"start", "delta", "snapshot", "done", "error"},
           NEW text \in Texts
    PROVE  /\ Frame(type, r, text) \in Frames /\ Frame(type, r, text).type = type
           /\ Frame(type, r, text).run = r /\ Frame(type, r, text).text = text
BY DEF Frame, Frames

LEMMA TextTypes ==
    ASSUME NEW r \in Runs
    PROVE  /\ <<>> \in Texts
           /\ \A part \in Nat : /\ <<Piece(r, part)>> \in Texts /\ Len(<<Piece(r, part)>>) = 1
                               /\ <<Piece(r, part)>>[1].run = r
           /\ Final(r) \in Texts /\ \A k \in 1..Len(Final(r)) : Final(r)[k].run = r
BY DEF Texts, Piece, Final

LEMMA ResultType ==
    ASSUME NEW r \in Runs
    PROVE  /\ Result(r) \in Frames /\ Result(r).type = "snapshot" /\ Result(r).run = r
           /\ Result(r).text = Final(r)
<1>1. Final(r) \in Texts /\ Result(r) = Frame("snapshot", r, Final(r))
    BY TextTypes DEF Result
<1> QED
    BY <1>1, FrameType

\* The elements of a queue after a frame more, and after one less.
LEMMA Appended ==
    ASSUME NEW q \in Seq(Frames), NEW ev \in Frames
    PROVE  /\ Append(q, ev) \in Seq(Frames) /\ Append(q, ev) # <<>>
           /\ Len(Append(q, ev)) = Len(q) + 1 /\ Append(q, ev)[Len(q) + 1] = ev
           /\ \A i \in 1..Len(q) : Append(q, ev)[i] = q[i]
OBVIOUS

LEMMA Shortened ==
    ASSUME NEW q \in Seq(Frames), q # <<>>
    PROVE  /\ Tail(q) \in Seq(Frames) /\ Head(q) \in Frames /\ Head(q) = q[1]
           /\ Len(q) \in Nat /\ Len(q) > 0 /\ Len(Tail(q)) = Len(q) - 1
           /\ \A i \in 1..(Len(q) - 1) : Tail(q)[i] = q[i + 1]
OBVIOUS

LEMMA AppendedFrom ==
    ASSUME NEW q \in Seq(Frames), NEW ev \in Frames, NEW ch, ch = Append(q, ev)
    PROVE  /\ ch \in Seq(Frames) /\ Len(ch) \in 1..Len(ch) /\ ch[Len(ch)] = ev
           /\ \A i \in 1..Len(ch) : (\E j \in 1..Len(q) : ch[i] = q[j]) \/ ch[i] = ev
<1>1. /\ ch \in Seq(Frames) /\ Len(ch) = Len(q) + 1 /\ ch[Len(q) + 1] = ev /\ Len(q) \in Nat
      /\ \A i \in 1..Len(q) : ch[i] = q[i]
    BY Appended
<1>2. \A i \in 1..Len(ch) : i \in 1..Len(q) \/ i = Len(q) + 1
    BY <1>1
<1>3. \A i \in 1..Len(ch) : (\E j \in 1..Len(q) : ch[i] = q[j]) \/ ch[i] = ev
    BY <1>1, <1>2
<1> QED
    BY <1>1, <1>3

\* A frame that comes in its turn.
LEMMA AppendInOrder ==
    ASSUME NEW r \in Runs, NEW q \in Seq(Frames), NEW ev \in Frames, InOrder(r, q),
           ev.run = r, ev.type # "start",
           \A k \in 1..Len(ev.text) : ev.text[k].run = r,
           ev.type = "snapshot" => ev = Result(r),
           \A i \in 1..Len(q) : q[i].type # "done",
           ev.type = "done" => q = <<>> \/ q[Len(q)] = Result(r)
    PROVE  InOrder(r, Append(q, ev))
<1> DEFINE p == Append(q, ev)
<1>1. /\ Len(p) = Len(q) + 1 /\ p[Len(q) + 1] = ev /\ Len(q) \in Nat
      /\ \A i \in 1..Len(q) : p[i] = q[i]
    BY Appended
<1>2. q # <<>> => Len(q) > 0
    OBVIOUS
<1> HIDE DEF p
<1>3. ASSUME NEW i \in 1..Len(q)
      PROVE  /\ p[i].run = r /\ (\A k \in 1..Len(p[i].text) : p[i].text[k].run = r)
             /\ p[i].type = "start" => i = 1
             /\ p[i].type = "snapshot" => p[i] = Result(r)
             /\ p[i].type # "done"
    BY <1>1 DEF InOrder
<1>4. q = <<>> => Len(q) + 1 = 1
    OBVIOUS
<1>5. /\ p[Len(q) + 1].run = r
      /\ \A k \in 1..Len(p[Len(q) + 1].text) : p[Len(q) + 1].text[k].run = r
      /\ p[Len(q) + 1].type # "start"
      /\ p[Len(q) + 1].type = "snapshot" => p[Len(q) + 1] = Result(r)
      /\ p[Len(q) + 1].type = "done" /\ Len(q) + 1 > 1 => p[Len(q) + 1 - 1] = Result(r)
    BY <1>1, <1>2, <1>4
<1>6. \A i \in 1..Len(p) : i \in 1..Len(q) \/ i = Len(q) + 1
    BY <1>1
<1> QED
    BY <1>1, <1>3, <1>5, <1>6 DEF InOrder, p

\* A closed or full sender takes nothing, and stays closed.
LEMMA SendFields ==
    ASSUME NEW s \in Sender, NEW ev \in Frames
    PROVE  /\ Send(s, ev) \in Sender /\ Close(s) \in Sender
           /\ Close(s).q = s.q /\ ~Close(s).open
           /\ \/ s.open /\ Send(s, ev).open /\ Send(s, ev).q = Append(s.q, ev)
              \/ ~Send(s, ev).open /\ Send(s, ev).q = s.q
<1>1. s.q \in Seq(Frames)
    BY DEF Sender
<1> DEFINE q == Append(s.q, ev)
<1>2. q \in Seq(Frames)
    BY <1>1, Appended
<1>3. \/ s.open /\ Send(s, ev) = [s EXCEPT !.q = q]
      \/ Send(s, ev) = [s EXCEPT !.open = FALSE]
    BY DEF Send
<1> HIDE DEF q
<1>4. /\ Send(s, ev) \in Sender
      /\ \/ s.open /\ Send(s, ev).open /\ Send(s, ev).q = q
         \/ ~Send(s, ev).open /\ Send(s, ev).q = s.q
    BY <1>2, <1>3 DEF Sender
<1>5. Close(s) \in Sender /\ Close(s).q = s.q /\ ~Close(s).open
    BY DEF Sender, Close
<1> QED
    BY <1>4, <1>5 DEF q

\* A run's queue after an attempt to send something other than its end.
LEMMA SendQueue ==
    ASSUME TypeOK, NEW r \in Runs, NEW at \in Stages, NEW to \in Stages, NEW s \in Sender,
           Queue(r, at, s), at \notin Unstarted, at # "over", to \notin Unstarted, to # "over",
           NEW ev \in Frames, ev.run = r, ev.type \in {"delta", "snapshot"},
           \A k \in 1..Len(ev.text) : ev.text[k].run = r,
           ev.type = "snapshot" => ev = Result(r),
           to \in Persisted => ev.type = "snapshot"
    PROVE  Queue(r, to, Send(s, ev))
<1> DEFINE t == Send(s, ev)
<1>1. t \in Sender /\ (\/ s.open /\ t.open /\ t.q = Append(s.q, ev)
                       \/ ~t.open /\ t.q = s.q)
    BY SendFields
<1>2. s.q \in Seq(Frames)
    BY DEF Sender
<1> HIDE DEF t
<1>3. CASE t.open /\ t.q = Append(s.q, ev)
    <2>1. InOrder(r, t.q)
        BY <1>2, <1>3, AppendInOrder DEF Queue
    <2>2. /\ t.q # <<>> /\ t.q[Len(t.q)] = ev
          /\ \A i \in 1..Len(t.q) : t.q[i].type # "done"
        BY <1>2, <1>3, Appended DEF Queue
    <2>3. 1 \in 1..Len(t.q)
        BY <1>1, <2>2 DEF Sender
    <2> QED
        BY <1>3, <2>1, <2>2, <2>3 DEF Queue, t
<1>4. CASE ~t.open /\ t.q = s.q
    BY <1>4 DEF Queue, t
<1> QED
    BY <1>1, <1>3, <1>4

\* The last frame of a run.
LEMMA EndQueue ==
    ASSUME TypeOK, NEW r \in Runs, NEW at \in Stages, NEW s \in Sender,
           Queue(r, at, s), at \notin Unstarted, at # "over",
           NEW ev \in Frames, ev.run = r, ev.text = <<>>,
           \/ ev.type = "error"
           \/ ev.type = "done" /\ at \in Persisted
    PROVE  Queue(r, "over", Close(Send(s, ev)))
<1> DEFINE t == Send(s, ev)
           u == Close(t)
<1>1. t \in Sender /\ (\/ s.open /\ t.open /\ t.q = Append(s.q, ev)
                       \/ ~t.open /\ t.q = s.q)
    BY SendFields
<1>2. s.q \in Seq(Frames)
    BY DEF Sender
<1> HIDE DEF t
<1>3. u.q = t.q /\ ~u.open
    BY <1>1, SendFields
<1> HIDE DEF u
<1>4. CASE s.open /\ t.q = Append(s.q, ev)
    <2>1. ev.type = "done" => IF s.q = <<>> THEN Holds(r) ELSE s.q[Len(s.q)] = Result(r)
        BY <1>4 DEF Queue
    <2>2. InOrder(r, t.q)
        BY <1>2, <1>4, <2>1, AppendInOrder, SMTT(30) DEF Queue
    <2>3. /\ t.q # <<>> /\ Len(t.q) = Len(s.q) + 1 /\ t.q[Len(s.q) + 1] = ev
          /\ \A i \in 1..Len(s.q) : t.q[i] = s.q[i]
        BY <1>2, <1>4, Appended, SMTT(30)
    <2>4. t.q[1].type = "done" => Holds(r)
        <3>1. CASE s.q = <<>>
            BY <2>1, <2>3, <3>1
        <3>2. CASE s.q # <<>>
            <4>1. 1 \in 1..Len(s.q)
                BY <1>2, <3>2
            <4> QED
                BY <2>3, <4>1 DEF Queue
        <3> QED
            BY <3>1, <3>2
    <2> QED
        BY <1>3, <2>2, <2>4 DEF Queue, Unstarted, t, u
<1>5. CASE t.q = s.q
    BY <1>3, <1>5 DEF Queue, Unstarted, t, u
<1> QED
    BY <1>1, <1>4, <1>5

-----------------------------------------------------------------------------
(* The runs *)

TaskRows == [kind : Kinds, status : {"pending", "processing", "completed", "failed"},
             armed : BOOLEAN, requeue : BOOLEAN, scheduled : BOOLEAN]

\* A step of a run touches its own state, its sender and the task.
LEMMA RunKeeps ==
    ASSUME IInv, NEW r \in Runs, NEW here \in RunState, NEW s \in Sender,
           run' = [run EXCEPT ![r] = here], sender' = [sender EXCEPT ![r] = s],
           task' \in TaskRows,
           UNCHANGED <<pend, hub, timers, conn>>,
           Queue(r, here.at, s),
           here.at \in Unstarted \/ (\E i \in 1..Len(s.q) : s.q[i].type = "start") => StartWaits(r),
           here.answers \subseteq {<<here.model, here.attempt>>},
           here.parts = 0 => here.answers = {}
    PROVE  IInv'
<1>1. run'[r] = here /\ sender'[r] = s
      /\ \A x \in Runs : x # r => run'[x] = run[x] /\ sender'[x] = sender[x]
    BY DEF IInv, TypeOK, HubTypeOK
<1>2. TypeOK'
    BY DEF IInv, TypeOK, HubTypeOK, TaskRows
<1>3. Attempts'
    BY <1>1 DEF IInv, Attempts
<1>4. Queues'
    <2>1. \A x, at, y : Queue(x, at, y)' = Queue(x, at', y')
        BY DEF Queue, Holds, InOrder
    <2>2. \A x \in Runs : Queue(x, run'[x].at, sender'[x])
        BY <1>1 DEF IInv, Queues
    <2> QED
        BY <2>1, <2>2 DEF Queues, Queue, Holds, InOrder
<1>5. Heard'
    <2>1. StartWaits(r)' => StartWaits(r)
        BY <1>1 DEF StartWaits
    <2>2. ASSUME NEW x \in Runs, x # r
          PROVE  StartWaits(x)' => StartWaits(x)
        BY <1>1, <2>2, Zenon DEF StartWaits
    <2>3. \A x \in Runs : StartWaits(x)' => StartWaits(x)
        BY <2>1, <2>2, Zenon
    <2> QED
        BY <2>3 DEF IInv, Heard, AllTimers
<1>6. EntryKept' /\ Deliveries'
    BY SMTT(30) DEF IInv, EntryKept, Deliveries, AllTimers, EndsComing, Reaches
<1>7. DoneCarriesResult' /\ ConnectionIsServed'
    BY DEF IInv, DoneCarriesResult, ConnectionIsServed, EndsComing
<1> QED
    BY <1>2, <1>3, <1>4, <1>5, <1>6, <1>7 DEF IInv

LEMMA MoveFields ==
    ASSUME TypeOK, NEW r \in Runs, NEW at \in Stages, NEW here, here = [run[r] EXCEPT !.at = at]
    PROVE  /\ here \in RunState /\ here.at = at /\ here.model = run[r].model
           /\ here.attempt = run[r].attempt /\ here.parts = run[r].parts
           /\ here.answers = run[r].answers
           /\ Moves(r, at) => run' = [run EXCEPT ![r] = here]
<1>1. run[r] \in RunState
    BY DEF TypeOK
<1> QED
    BY <1>1 DEF RunState, Moves

\* A run moves and nothing is sent: nothing opened, ended or persisted by it.
LEMMA MoveKeeps ==
    ASSUME IInv, NEW r \in Runs, NEW at \in Stages, Moves(r, at),
           sender' = sender, UNCHANGED <<pend, hub, timers, conn>>, task' \in TaskRows,
           run[r].at # "over", at # "over", at \notin Persisted,
           at \in Unstarted => run[r].at \in Unstarted
    PROVE  IInv'
<1> DEFINE here == [run[r] EXCEPT !.at = at]
<1>1. /\ here \in RunState /\ here.at = at /\ here.model = run[r].model
      /\ here.attempt = run[r].attempt /\ here.parts = run[r].parts
      /\ here.answers = run[r].answers
      /\ run' = [run EXCEPT ![r] = here]
    BY MoveFields DEF IInv
<1> HIDE DEF here
<1>2. sender[r] \in Sender /\ sender' = [sender EXCEPT ![r] = sender[r]]
    BY DEF IInv, TypeOK, HubTypeOK
<1>3. Queue(r, run[r].at, sender[r])
    BY DEF IInv, Queues
<1>4. Queue(r, at, sender[r])
    BY <1>3 DEF Queue
<1>5. here.at \in Unstarted \/ (\E i \in 1..Len(sender[r].q) : sender[r].q[i].type = "start")
        => StartWaits(r)
    BY <1>1 DEF StartWaits
<1>6. /\ here.answers \subseteq {<<here.model, here.attempt>>}
      /\ here.parts = 0 => here.answers = {}
    BY <1>1 DEF IInv, Attempts
<1> QED
    BY <1>1, <1>2, <1>4, <1>5, <1>6, RunKeeps

\* The stream opens: its start frame waits.
LEMMA OpenKeeps ==
    ASSUME IInv, NEW r \in Runs, NEW at \in {"streaming", "answered"}, OpensStream(r, at),
           UNCHANGED <<pend, hub, timers, conn>>, task' = task, run[r].at = "reading"
    PROVE  IInv'
<1> DEFINE here == [run[r] EXCEPT !.at = at]
           s == Opens(sender[r], r)
           ev == Frame("start", r, <<>>)
<1>1. /\ here \in RunState /\ here.at = at /\ here.model = run[r].model
      /\ here.attempt = run[r].attempt /\ here.parts = run[r].parts
      /\ here.answers = run[r].answers
      /\ run' = [run EXCEPT ![r] = here]
    BY MoveFields DEF IInv, Stages, OpensStream
<1> HIDE DEF here
<1>2. ev \in Frames /\ ev.type = "start" /\ ev.run = r /\ ev.text = <<>>
    <2>1. <<>> \in Texts
        BY TextTypes
    <2> QED
        BY <2>1, FrameType
<1>3. s = [open |-> TRUE, q |-> <<ev>>]
    BY DEF Opens
<1> HIDE DEF ev
<1>4. s \in Sender /\ s.open /\ Len(s.q) = 1 /\ s.q[1] = ev
    BY <1>2, <1>3 DEF Sender
<1>5. sender' = [sender EXCEPT ![r] = s]
    BY DEF OpensStream
<1> HIDE DEF s
<1>6. Queue(r, at, s)
    BY <1>2, <1>4 DEF Queue, InOrder, Unstarted, Persisted
<1>7. StartWaits(r)
    BY DEF StartWaits, Unstarted
<1>8. /\ here.answers \subseteq {<<here.model, here.attempt>>}
      /\ here.parts = 0 => here.answers = {}
    BY <1>1 DEF IInv, Attempts
<1>9. task' \in TaskRows
    BY DEF IInv, TypeOK, TaskRows
<1> QED
    BY <1>1, <1>4, <1>5, <1>6, <1>7, <1>8, <1>9, RunKeeps

\* Up to the answer: the steps that open no stream, or open it.
LEMMA EarlyKeeps ==
    ASSUME IInv, NEW r \in Runs,
           \/ Claim(r) \/ SourcesRefused(r) \/ Discover(r) \/ TakeMessages(r) \/ LoadFails(r)
           \/ NothingToSay(r) \/ OneChunk(r) \/ MapChunks(r)
    PROVE  IInv'
<1> USE DEF KeepFetch, SendsNothing, Keep, Unstarted, Stages, Persisted
<1>1. task \in TaskRows /\ run[r] \in RunState
    BY DEF IInv, TypeOK, TaskRows
<1>2. CASE Claim(r)
    <2>1. run[r].at = "unclaimed"
        BY <1>2 DEF Claim, Claimed
    <2>2. task' \in TaskRows
        BY <1>1, <1>2 DEF Claim, TaskRows
    <2> QED
        BY <1>2, <2>1, <2>2, MoveKeeps DEF Claim
<1>3. CASE SourcesRefused(r) \/ Discover(r) \/ TakeMessages(r) \/ LoadFails(r) \/ NothingToSay(r)
    <2>1. PICK at \in {"failing", "fetching", "reading", "answered"} :
             /\ Moves(r, at) /\ task' = task /\ sender' = sender
             /\ UNCHANGED <<pend, hub, timers, conn>>
             /\ run[r].at \in {"discovering", "fetching", "reading"}
        BY <1>3 DEF SourcesRefused, Discover, TakeMessages, LoadFails, NothingToSay
    <2> QED
        BY <1>1, <2>1, MoveKeeps
<1>4. CASE OneChunk(r)
    BY <1>4, OpenKeeps DEF OneChunk
<1>5. CASE MapChunks(r)
    <2>1. /\ run[r].at = "reading" /\ task' = task /\ UNCHANGED <<pend, hub, timers, conn>>
          /\ \/ Moves(r, "failing") /\ sender' = sender
             \/ \E at \in {"streaming", "answered"} : OpensStream(r, at)
        BY <1>5 DEF MapChunks
    <2> QED
        BY <1>1, <2>1, MoveKeeps, OpenKeeps
<1> QED
    BY <1>2, <1>3, <1>4, <1>5

\* What closing a sender leaves of the start frame.
LEMMA SendStarts ==
    ASSUME TypeOK, NEW r \in Runs, NEW s \in Sender, NEW ev \in Frames, ev.type # "start"
    PROVE  /\ (\E i \in 1..Len(Send(s, ev).q) : Send(s, ev).q[i].type = "start")
                => \E i \in 1..Len(s.q) : s.q[i].type = "start"
           /\ Close(s).q = s.q
<1> DEFINE t == Send(s, ev)
<1>1. s.q \in Seq(Frames) /\ (t.q = s.q \/ t.q = Append(s.q, ev))
    BY SendFields DEF Sender
<1> HIDE DEF t
<1>2. CASE t.q = s.q
    BY <1>2, SendFields DEF t
<1>3. CASE t.q = Append(s.q, ev)
    <2>1. /\ Len(t.q) = Len(s.q) + 1 /\ t.q[Len(s.q) + 1] = ev /\ Len(s.q) \in Nat
          /\ \A i \in 1..Len(s.q) : t.q[i] = s.q[i]
        BY <1>1, <1>3, Appended
    <2>2. \A i \in 1..Len(t.q) : i \in 1..Len(s.q) \/ i = Len(s.q) + 1
        <3> DEFINE m == Len(t.q)
                   n == Len(s.q)
        <3> HIDE DEF m, n
        <3>1. n \in Nat /\ m = n + 1
            BY <2>1 DEF m, n
        <3>2. \A i \in 1..m : i \in 1..n \/ i = n + 1
            BY ONLY <3>1
        <3> QED
            BY <3>2 DEF m, n
    <2>3. \A i \in 1..Len(t.q) : t.q[i].type = "start" => i \in 1..Len(s.q) /\ s.q[i].type = "start"
        BY <2>1, <2>2
    <2>4. (\E i \in 1..Len(t.q) : t.q[i].type = "start") => \E i \in 1..Len(s.q) : s.q[i].type = "start"
        BY <2>3
    <2> QED
        BY <2>4, SendFields DEF t
<1> QED
    BY <1>1, <1>2, <1>3

LEMMA StreamKeeps ==
    ASSUME IInv, NEW r \in Runs, StreamDelta(r)
    PROVE  IInv'
<1> DEFINE n == run[r].parts + 1
           answers == run[r].answers \cup {<<run[r].model, run[r].attempt>>}
           here == [run[r] EXCEPT !.parts = n, !.answers = answers]
           ev == Frame("delta", r, <<Piece(r, n)>>)
           s == Send(sender[r], ev)
<1>1. run[r] \in RunState /\ sender[r] \in Sender
    BY DEF IInv, TypeOK, HubTypeOK
<1>2. n \in Nat /\ n # 0 /\ answers \in SUBSET (Nat \X Nat)
    BY <1>1 DEF RunState
<1>3. /\ run[r].at = "streaming" /\ UNCHANGED <<task, pend, hub, timers, conn>>
      /\ run' = [run EXCEPT ![r] = here] /\ sender' = [sender EXCEPT ![r] = s]
    BY DEF StreamDelta, Sends, Keep
<1>4. answers \subseteq {<<run[r].model, run[r].attempt>>}
    BY DEF IInv, Attempts
<1>5. ev \in Frames /\ ev.type = "delta" /\ ev.run = r /\ (\A k \in 1..Len(ev.text) : ev.text[k].run = r)
    BY <1>2, FrameType, TextTypes
<1> HIDE DEF n, answers, ev
<1>6. /\ here \in RunState /\ here.at = "streaming" /\ here.parts = n /\ here.answers = answers
      /\ here.model = run[r].model /\ here.attempt = run[r].attempt
    BY <1>1, <1>2, <1>3 DEF RunState
<1> HIDE DEF here
<1>7. s \in Sender /\ Queue(r, "streaming", s)
    <2>1. Queue(r, "streaming", sender[r])
        BY <1>3 DEF IInv, Queues
    <2> QED
        BY <1>1, <1>5, <2>1, SendFields, SendQueue DEF IInv, Stages, Unstarted, Persisted
<1>8. (\E i \in 1..Len(s.q) : s.q[i].type = "start") => StartWaits(r)
    <2>1. ev.type # "start"
        BY <1>5
    <2>2. (\E i \in 1..Len(s.q) : s.q[i].type = "start")
            => \E i \in 1..Len(sender[r].q) : sender[r].q[i].type = "start"
        BY <1>1, <1>5, <2>1, SendStarts DEF IInv
    <2> QED
        BY <2>2 DEF StartWaits
<1> HIDE DEF s
<1>9. task' \in TaskRows /\ "streaming" \notin Unstarted
    BY <1>3 DEF IInv, TypeOK, TaskRows, Unstarted
<1> QED
    BY <1>2, <1>3, <1>4, <1>6, <1>7, <1>8, <1>9, RunKeeps

\* A call's text and attempts end with it.
LEMMA ReturnFields ==
    ASSUME TypeOK, NEW r \in Runs, NEW at \in Stages, NEW here, here = Returns(run[r], at)
    PROVE  here \in RunState /\ here.at = at /\ here.answers = {}
<1>1. run[r] \in RunState
    BY DEF TypeOK
<1> QED
    BY <1>1 DEF RunState, Returns

LEMMA NextNat ==
    /\ 0 \in Nat /\ 1 \in Nat
    /\ \A n \in Nat : n + 1 \in Nat
OBVIOUS

\* What was streamed cannot be taken back.
LEMMA TextIsFinal ==
    ASSUME NEW outcome, NEW parts \in Nat, StreamOutcome(outcome, parts) # "terminal"
    PROVE  parts = 0
BY DEF StreamOutcome

LEMMA CallKeeps ==
    ASSUME IInv, NEW r \in Runs, StreamEnds(r) \/ AttemptFails(r)
    PROVE  IInv'
<1>1. /\ run[r] \in RunState /\ sender[r] \in Sender /\ run[r].at = "streaming"
      /\ UNCHANGED <<task, pend, hub, timers, conn>> /\ sender' = [sender EXCEPT ![r] = sender[r]]
    BY DEF IInv, TypeOK, HubTypeOK, StreamEnds, AttemptFails, SendsNothing, Keep
<1>2. \E there \in RunState :
        /\ run' = [run EXCEPT ![r] = there]
        /\ there.at \in {"streaming", "answered", "failing"}
        /\ there.answers \subseteq {<<there.model, there.attempt>>}
        /\ there.parts = 0 => there.answers = {}
    <2>1. CASE StreamEnds(r)
        <3> DEFINE here == Returns(run[r], "answered")
        <3>1. here \in RunState /\ here.at = "answered" /\ here.answers = {}
            BY ReturnFields DEF IInv, Stages
        <3>2. run' = [run EXCEPT ![r] = here]
            BY <2>1 DEF StreamEnds
        <3> HIDE DEF here
        <3> QED
            BY <3>1, <3>2
    <2>2. CASE AttemptFails(r)
        <3> DEFINE here == run[r]
                   After(outcome) == TriesAgain(here, outcome) \cup FallsBack(here, outcome)
        <3>0. /\ here \in RunState /\ here.at = "streaming" /\ here.parts \in Nat
              /\ here.attempt \in Nat /\ here.model \in Nat
              /\ here.parts = 0 => here.answers = {}
            BY <1>1 DEF IInv, Attempts, RunState
        <3>1. PICK outcome \in {"retry", "next model", "terminal"} :
                LET next == After(StreamOutcome(outcome, here.parts))
                IN  \E there \in IF next = {} THEN {Returns(here, "failing")} ELSE next :
                        run' = [run EXCEPT ![r] = there]
            BY <2>2 DEF AttemptFails
        <3>2. PICK there \in {Returns(here, "failing")} \cup After(StreamOutcome(outcome, here.parts)) :
                run' = [run EXCEPT ![r] = there]
            BY <3>1
        <3>3. CASE there = Returns(here, "failing")
            BY <3>2, <3>3, ReturnFields DEF IInv, Stages
        <3>4. CASE there \in After(StreamOutcome(outcome, here.parts))
            <4> DEFINE came == StreamOutcome(outcome, here.parts)
                       attempt == here.attempt + 1
                       model == here.model + 1
            <4>1. came # "terminal"
                BY <3>4 DEF TriesAgain, FallsBack
            <4>2. \/ there = [here EXCEPT !.attempt = attempt, !.parts = 0]
                  \/ there = [here EXCEPT !.model = model, !.attempt = 1, !.parts = 0]
                BY <3>4 DEF TriesAgain, FallsBack
            <4>3. attempt \in Nat /\ model \in Nat /\ 1 \in Nat /\ 0 \in Nat
                BY <3>0, NextNat
            <4>4. here.parts = 0 /\ here.answers = {}
                <5> HIDE DEF here
                <5> QED
                    BY <3>0, <4>1, TextIsFinal
            <4> HIDE DEF here, attempt, model, came
            <4>5. there \in RunState /\ there.at = "streaming" /\ there.answers = {}
                BY <3>0, <4>2, <4>3, <4>4 DEF RunState
            <4> QED
                BY <3>2, <4>5
        <3> QED
            BY <3>2, <3>3, <3>4
    <2> QED
        BY <2>1, <2>2
<1>3. PICK there \in RunState :
        /\ run' = [run EXCEPT ![r] = there]
        /\ there.at \in {"streaming", "answered", "failing"}
        /\ there.answers \subseteq {<<there.model, there.attempt>>}
        /\ there.parts = 0 => there.answers = {}
    BY <1>2
<1>4. Queue(r, "streaming", sender[r])
    BY <1>1 DEF IInv, Queues
<1>5. Queue(r, there.at, sender[r])
    BY <1>3, <1>4 DEF Queue, Unstarted, Persisted
<1>6. there.at \notin Unstarted /\
      ((\E i \in 1..Len(sender[r].q) : sender[r].q[i].type = "start") => StartWaits(r))
    BY <1>3 DEF StartWaits, Unstarted
<1>7. task' \in TaskRows
    BY <1>1 DEF IInv, TypeOK, TaskRows
<1> QED
    BY <1>1, <1>3, <1>5, <1>6, <1>7, RunKeeps

\* A run that ends after one more frame.
LEMMA EndKeeps ==
    ASSUME IInv, NEW r \in Runs, NEW s \in Sender, NEW ev \in Frames, NEW at \in Stages,
           Moves(r, "over"), sender' = [sender EXCEPT ![r] = Close(Send(s, ev))],
           UNCHANGED <<pend, hub, timers, conn>>, task' \in TaskRows,
           Queue(r, at, s), at \notin Unstarted, at # "over",
           (\E i \in 1..Len(s.q) : s.q[i].type = "start") => StartWaits(r),
           ev.run = r, ev.text = <<>>,
           ev.type = "error" \/ (ev.type = "done" /\ at \in Persisted)
    PROVE  IInv'
<1> DEFINE here == [run[r] EXCEPT !.at = "over"]
           t == Send(s, ev)
           u == Close(t)
<1>1. /\ here \in RunState /\ here.at = "over" /\ here.model = run[r].model
      /\ here.attempt = run[r].attempt /\ here.parts = run[r].parts
      /\ here.answers = run[r].answers
      /\ run' = [run EXCEPT ![r] = here]
    BY MoveFields DEF IInv, Stages
<1> HIDE DEF here
<1>2. Queue(r, "over", u)
    BY EndQueue DEF IInv
<1>3. t \in Sender
    BY SendFields
<1>4. (\E i \in 1..Len(t.q) : t.q[i].type = "start") => StartWaits(r)
    BY SendStarts DEF IInv
<1> HIDE DEF t
<1>5. u \in Sender /\ u.q = t.q
    BY <1>3, SendFields
<1>6. sender' = [sender EXCEPT ![r] = u]
    BY DEF t
<1> HIDE DEF u
<1>7. /\ here.answers \subseteq {<<here.model, here.attempt>>}
      /\ here.parts = 0 => here.answers = {}
    BY <1>1 DEF IInv, Attempts
<1>8. here.at \in Unstarted \/ (\E i \in 1..Len(u.q) : u.q[i].type = "start") => StartWaits(r)
    BY <1>1, <1>4, <1>5 DEF Unstarted
<1>9. Queue(r, here.at, u)
    BY <1>1, <1>2
<1> QED
    BY ONLY IInv, r \in Runs, UNCHANGED <<pend, hub, timers, conn>>, task' \in TaskRows,
            <1>1, <1>5, <1>6, <1>7, <1>8, <1>9, RunKeeps

LEMMA LateKeeps ==
    ASSUME IInv, NEW r \in Runs, SendResult(r) \/ CompleteTask(r) \/ PipelineFails(r)
    PROVE  IInv'
<1> DEFINE error == Frame("error", r, <<>>)
           done == Frame("done", r, <<>>)
<1>1. /\ run[r] \in RunState /\ sender[r] \in Sender /\ task \in TaskRows
      /\ UNCHANGED <<pend, hub, timers, conn>>
      /\ Queue(r, run[r].at, sender[r])
      /\ (\E i \in 1..Len(sender[r].q) : sender[r].q[i].type = "start") => StartWaits(r)
    BY DEF IInv, TypeOK, TaskRows, HubTypeOK, Queues, SendResult, CompleteTask, PipelineFails, Keep,
           StartWaits
<1>2. /\ error \in Frames /\ error.type = "error" /\ error.run = r /\ error.text = <<>>
      /\ done \in Frames /\ done.type = "done" /\ done.run = r /\ done.text = <<>>
    BY FrameType, TextTypes
<1>3. Result(r) = Frame("snapshot", r, Final(r)) /\ Result(r) \in Frames
      /\ Result(r).type = "snapshot" /\ Result(r).run = r
      /\ \A k \in 1..Len(Result(r).text) : Result(r).text[k].run = r
    BY ResultType, TextTypes DEF Result
<1> HIDE DEF error, done
<1>4. CASE SendResult(r)
    <2> DEFINE s == Send(sender[r], Result(r))
    <2>1. s \in Sender
        BY <1>1, <1>3, SendFields
    <2>2. (\A at \in Persisted : Queue(r, at, s)) /\ Queue(r, "answered", s)
        BY <1>1, <1>3, <1>4, SendQueue DEF SendResult, IInv, Stages, Unstarted, Persisted
    <2>3. (\E i \in 1..Len(s.q) : s.q[i].type = "start") => StartWaits(r)
        BY <1>1, <1>3, SendStarts DEF IInv
    <2>4. \/ /\ (\E at \in Persisted : Moves(r, at)) /\ task' = [task EXCEPT !.armed = FALSE]
             /\ sender' = [sender EXCEPT ![r] = s]
          \/ /\ Moves(r, "over") /\ task' = task
             /\ sender' = [sender EXCEPT ![r] = Close(Send(s, error))]
        BY <1>3, <1>4 DEF SendResult, Ends, error, Persisted
    <2> HIDE DEF s
    <2>5. CASE /\ (\E at \in Persisted : Moves(r, at)) /\ task' = [task EXCEPT !.armed = FALSE]
               /\ sender' = [sender EXCEPT ![r] = s]
        <3>0. PICK at \in Persisted : Moves(r, at)
            BY <2>5
        <3> DEFINE here == [run[r] EXCEPT !.at = at]
        <3>1. /\ here \in RunState /\ here.at = at /\ here.model = run[r].model
              /\ here.attempt = run[r].attempt /\ here.parts = run[r].parts
              /\ here.answers = run[r].answers
              /\ run' = [run EXCEPT ![r] = here]
            BY <3>0, MoveFields DEF IInv, Stages, Persisted
        <3> HIDE DEF here
        <3>2. task' \in TaskRows
            BY <1>1, <2>5 DEF TaskRows
        <3>3. /\ here.answers \subseteq {<<here.model, here.attempt>>}
              /\ here.parts = 0 => here.answers = {}
            BY <3>1 DEF IInv, Attempts
        <3>4. at \notin Unstarted
            BY DEF Unstarted, Persisted
        <3> QED
            BY <1>1, <2>1, <2>2, <2>3, <2>5, <3>1, <3>2, <3>3, <3>4, RunKeeps
    <2>6. CASE /\ Moves(r, "over") /\ task' = task
               /\ sender' = [sender EXCEPT ![r] = Close(Send(s, error))]
        <3>1. "answered" \in Stages /\ "answered" \notin Unstarted
            BY DEF Stages, Unstarted
        <3> QED
            BY <1>1, <1>2, <2>1, <2>2, <2>3, <2>6, <3>1, EndKeeps
    <2> QED
        BY <2>4, <2>5, <2>6
<1>5. CASE CompleteTask(r) \/ PipelineFails(r)
    <2>1. task' \in TaskRows
        BY <1>1, <1>5 DEF CompleteTask, PipelineFails, TaskRows
    <2>2. run[r].at \in Persisted \cup {"failing"} /\ Moves(r, "over") /\
          \/ sender' = [sender EXCEPT ![r] = Close(Send(sender[r], error))]
          \/ run[r].at \in Persisted /\ sender' = [sender EXCEPT ![r] = Close(Send(sender[r], done))]
        BY <1>5 DEF CompleteTask, PipelineFails, Ends, GivesUp, error, done
    <2>3. run[r].at \in Stages /\ run[r].at \notin Unstarted /\ run[r].at # "over"
        BY <2>2 DEF Stages, Unstarted, Persisted
    <2>4. CASE sender' = [sender EXCEPT ![r] = Close(Send(sender[r], error))]
        BY <1>1, <1>2, <2>1, <2>2, <2>3, <2>4, EndKeeps
    <2>5. CASE run[r].at \in Persisted /\ sender' = [sender EXCEPT ![r] = Close(Send(sender[r], done))]
        BY <1>1, <1>2, <2>1, <2>2, <2>3, <2>5, EndKeeps
    <2> QED
        BY <2>2, <2>4, <2>5
<1> QED
    BY <1>4, <1>5

\* What users, sweeps and the fetch do touches neither the runs nor the hub.
LEMMA OtherKeeps ==
    ASSUME IInv, UNCHANGED <<run, sender, pend, hub, timers, conn>>, task' \in TaskRows
    PROVE  IInv'
<1>1. TypeOK' /\ Attempts'
    BY DEF IInv, TypeOK, HubTypeOK, Attempts, TaskRows
<1>2. Queues' /\ Heard'
    <2>1. Queues'
        BY SMTT(30) DEF IInv, Queues, Queue, Holds, InOrder
    <2>2. \A x \in Runs : StartWaits(x)' <=> StartWaits(x)
        BY DEF StartWaits
    <2>3. Heard'
        BY <2>2 DEF IInv, Heard, AllTimers
    <2> QED
        BY <2>1, <2>3
<1>3. EntryKept' /\ Deliveries'
    BY DEF IInv, EntryKept, Deliveries, AllTimers, EndsComing, Reaches
<1>4. DoneCarriesResult' /\ ConnectionIsServed'
    BY DEF IInv, DoneCarriesResult, ConnectionIsServed, EndsComing
<1> QED
    BY <1>1, <1>2, <1>3, <1>4 DEF IInv

-----------------------------------------------------------------------------
(* The hub *)

\* A run's queue, when the hub's entry is e.
HoldsIn(r, e) == e.active = r => e.snap = Final(r)
QueueOf(r, at, s, e) ==
    /\ InOrder(r, s.q)
    /\ at \in Unstarted => s.q = <<>> /\ ~s.open
    /\ at = "over" => ~s.open
    /\ at # "over" => \A i \in 1..Len(s.q) : s.q[i].type # "done"
    /\ at \in Persisted /\ s.open => IF s.q = <<>> THEN HoldsIn(r, e) ELSE s.q[Len(s.q)] = Result(r)
    /\ s.q # <<>> /\ s.q[1].type = "done" => HoldsIn(r, e)

LEMMA QueuesOf ==
    /\ Queues <=> \A r \in Runs : QueueOf(r, run[r].at, sender[r], hub)
    /\ Queues' <=> \A r \in Runs : QueueOf(r, run'[r].at, sender'[r], hub')
<1>1. Queues <=> \A r \in Runs : QueueOf(r, run[r].at, sender[r], hub)
    BY DEF Queues, Queue, QueueOf, Holds, HoldsIn
<1>2. Queues' <=> \A r \in Runs : QueueOf(r, run'[r].at, sender'[r], hub')
    BY DEF Queues, Queue, QueueOf, Holds, HoldsIn, InOrder
<1> QED
    BY <1>1, <1>2

\* The queues of a step that leaves them, or empties one.
LEMMA QueuesKept ==
    ASSUME IInv, UNCHANGED <<run, sender>>, \A r \in Runs : Holds(r) => Holds(r)'
    PROVE  Queues'
<1>1. ASSUME NEW r \in Runs
      PROVE  QueueOf(r, run'[r].at, sender'[r], hub')
    <2>1. QueueOf(r, run[r].at, sender[r], hub)
        BY QueuesOf DEF IInv
    <2>2. Holds(r) => Holds(r)'
        OBVIOUS
    <2> QED
        BY <2>1, <2>2 DEF QueueOf, Holds, HoldsIn
<1> QED
    BY <1>1, QueuesOf

\* A step of the hub leaves the task and the runs.
LEMMA HubKeeps ==
    ASSUME IInv, UNCHANGED run, task' \in TaskRows, HubTypeOK', Queues', Heard', EntryKept',
           Deliveries', DoneCarriesResult', ConnectionIsServed'
    PROVE  IInv'
BY DEF IInv, TypeOK, TaskRows, Attempts

\* Ensured is the entry, created if there is none.
LEMMA EnsuredFields ==
    ASSUME IInv
    PROVE  /\ Ensured \in Entry /\ Ensured.on = TRUE
           /\ Ensured.active = hub.active /\ Ensured.retired = hub.retired
           /\ Ensured.awaiting = hub.awaiting /\ Ensured.snap = hub.snap
           /\ Ensured.done = hub.done /\ Ensured.clients = hub.clients
           /\ Ensured.barred = hub.barred
<1>1. hub \in Entry /\ (~hub.on => hub = NoEntry) /\ hub.on \in BOOLEAN
    BY DEF IInv, TypeOK, HubTypeOK, EntryKept, Entry
<1>2. CASE hub.on
    BY <1>1, <1>2 DEF Ensured, Entry
<1>3. CASE ~hub.on
    <2>1. Ensured = [hub EXCEPT !.on = TRUE]
        BY <1>1, <1>3 DEF Ensured
    <2> QED
        BY <1>1, <2>1 DEF Entry
<1> QED
    BY <1>1, <1>2, <1>3

LEMMA TimerType ==
    ASSUME NEW kind \in {"idle", "ttl"}, NEW e \in Entry
    PROVE  Timer(kind, e) \in Timers /\ Timer(kind, e).kind = kind /\ Timer(kind, e).run = e.active
BY DEF Timer, Timers, Entry

LEMMA TimersType ==
    ASSUME NEW armed \in SUBSET Timers, NEW fired \in SUBSET Timers,
           timers' = [armed |-> armed, fired |-> fired]
    PROVE  /\ timers' \in [armed : SUBSET Timers, fired : SUBSET Timers]
           /\ AllTimers' = armed \cup fired
BY DEF AllTimers

\* A terminal frame on its way stays on its way.
LEMMA EndsKept ==
    ASSUME NEW c \in Conns, conn'[c].ch = conn[c].ch,
           \A r \in Runs : c \in pend[r].to \cup pend[r].retry =>
                c \in pend'[r].to \cup pend'[r].retry /\ pend'[r].ev = pend[r].ev
    PROVE  EndsComing(c) => EndsComing(c)'
BY DEF EndsComing

LEMMA SenderFailsKeeps ==
    ASSUME IInv, NEW r \in Runs, SenderFails(r), UNCHANGED <<task, run>>
    PROVE  IInv'
<1> DEFINE s == [open |-> FALSE, q |-> <<>>]
<1>1. s \in Sender /\ ~s.open /\ s.q = <<>> /\ Len(s.q) = 0
    BY DEF Sender
<1>2. sender' = [sender EXCEPT ![r] = s] /\ UNCHANGED <<pend, hub, timers, conn>>
    BY DEF SenderFails
<1> HIDE DEF s
<1>3. sender'[r] = s /\ \A x \in Runs : x # r => sender'[x] = sender[x]
    BY <1>2 DEF IInv, TypeOK, HubTypeOK
<1>4. HubTypeOK' /\ task' \in TaskRows
    BY <1>1, <1>2 DEF IInv, TypeOK, HubTypeOK, TaskRows
<1>5. Queues'
    <2>1. \A x \in Runs : QueueOf(x, run[x].at, sender[x], hub)
        BY QueuesOf DEF IInv
    <2>2. hub' = hub
        BY <1>2
    <2>3. QueueOf(r, run'[r].at, s, hub')
        BY <1>1 DEF QueueOf, InOrder
    <2>4. \A x \in Runs : QueueOf(x, run'[x].at, sender'[x], hub')
        BY <1>3, <2>1, <2>2, <2>3
    <2> QED
        BY <2>4, QueuesOf
<1>6. Heard'
    <2>1. \A x \in Runs : StartWaits(x)' => StartWaits(x)
        BY <1>1, <1>3 DEF StartWaits
    <2> QED
        BY <1>2, <2>1 DEF IInv, Heard, AllTimers
<1>7. EntryKept' /\ Deliveries'
    BY <1>2 DEF IInv, EntryKept, Deliveries, AllTimers, EndsComing, Reaches
<1>8. DoneCarriesResult' /\ ConnectionIsServed'
    BY <1>2 DEF IInv, DoneCarriesResult, ConnectionIsServed, EndsComing
<1> QED
    BY <1>4, <1>5, <1>6, <1>7, <1>8, HubKeeps

\* Timers come and go; a new one is an idle timer of the entry.
LEMMA TimersKeep ==
    ASSUME IInv, UNCHANGED <<task, run, sender, pend, hub, conn>>, hub.on,
           NEW armed \in SUBSET Timers, NEW fired \in SUBSET Timers,
           timers' = [armed |-> armed, fired |-> fired],
           \A t \in armed \cup fired : t \in AllTimers \/ (t.kind = "idle" /\ t.run = hub.active)
    PROVE  IInv'
<1>1. timers' \in [armed : SUBSET Timers, fired : SUBSET Timers] /\ AllTimers' = armed \cup fired
    BY TimersType
<1>2. HubTypeOK' /\ task' \in TaskRows
    BY <1>1 DEF IInv, TypeOK, HubTypeOK, TaskRows
<1>3. Queues'
    BY QueuesKept DEF Holds
<1>4. \A x \in Runs : StartWaits(x)' <=> StartWaits(x)
    BY DEF StartWaits
<1>5. Heard'
    BY <1>1, <1>4 DEF IInv, Heard
<1>6. \A c \in Conns : EndsComing(c)' <=> EndsComing(c)
    BY DEF EndsComing
<1>7. EntryKept'
    <2>1. \A t \in AllTimers' : t.kind = "ttl" /\ t.run = hub.active => hub.done
        BY <1>1 DEF IInv, EntryKept
    <2>2. hub.clients \subseteq Conns
        BY DEF IInv, TypeOK, HubTypeOK, Entry
    <2> QED
        BY <1>6, <2>1, <2>2 DEF IInv, EntryKept
<1>8. Deliveries'
    BY DEF IInv, Deliveries, Reaches
<1>9. DoneCarriesResult' /\ ConnectionIsServed'
    BY <1>6 DEF IInv, DoneCarriesResult, ConnectionIsServed
<1> QED
    BY <1>2, <1>3, <1>5, <1>7, <1>8, <1>9, HubKeeps

LEMMA TimerFiresKeeps ==
    ASSUME IInv, NEW t \in timers.armed \cup timers.fired, TimerFires(t), UNCHANGED <<task, run>>
    PROVE  IInv'
<1> DEFINE fired == timers.fired \cup {t}
<1>1. t \in timers.armed /\ timers' = [armed |-> {}, fired |-> fired]
      /\ UNCHANGED <<sender, pend, hub, conn>>
    BY DEF TimerFires
<1>2. fired \in SUBSET Timers /\ fired \subseteq AllTimers
    BY <1>1 DEF IInv, TypeOK, HubTypeOK, AllTimers
<1>3. hub.on
    BY <1>1, <1>2 DEF IInv, EntryKept
<1> HIDE DEF fired
<1> QED
    BY <1>1, <1>2, <1>3, TimersKeep

\* The entry is deleted, and nobody waits there in vain.
LEMMA DeleteKeeps ==
    ASSUME IInv, UNCHANGED <<task, run, sender, pend, conn>>,
           hub' = NoEntry, timers' = [armed |-> {}, fired |-> {}],
           hub.clients = {} \/ hub.done
    PROVE  IInv'
<1>1. /\ hub' \in Entry /\ ~hub'.on /\ hub'.active = NoRun /\ hub'.barred = {} /\ hub'.snap = <<>>
      /\ hub'.clients = {} /\ ~hub'.awaiting
    BY DEF NoEntry, Entry, Texts
<1>2. timers' \in [armed : SUBSET Timers, fired : SUBSET Timers] /\ AllTimers' = {}
    BY TimersType
<1>3. HubTypeOK' /\ task' \in TaskRows
    BY <1>1, <1>2 DEF IInv, TypeOK, HubTypeOK, TaskRows
<1>4. Queues'
    BY <1>1, QueuesKept DEF Holds
<1>5. \A x \in Runs : StartWaits(x)' <=> StartWaits(x)
    BY DEF StartWaits
<1>6. Heard'
    BY <1>1, <1>2, <1>5 DEF IInv, Heard
<1>7. EntryKept'
    BY <1>1, <1>2 DEF EntryKept
<1>8. Deliveries'
    BY DEF IInv, Deliveries, Reaches
<1>9. \A c \in Conns : EndsComing(c)' <=> EndsComing(c)
    BY DEF EndsComing
<1>10. ConnectionIsServed'
    <2>1. ASSUME NEW c \in Conns, conn[c].at = "open"
          PROVE  EndsComing(c) \/ conn[c].lostEnd
        BY <2>1 DEF IInv, ConnectionIsServed, EntryKept
    <2> QED
        BY <1>9, <2>1 DEF ConnectionIsServed
<1>11. DoneCarriesResult'
    BY DEF IInv, DoneCarriesResult
<1> QED
    BY <1>3, <1>4, <1>6, <1>7, <1>8, <1>10, <1>11, HubKeeps

LEMMA CleanUpKeeps ==
    ASSUME IInv, NEW t \in timers.armed \cup timers.fired, CleanUp(t), UNCHANGED <<task, run>>
    PROVE  IInv'
<1> DEFINE waiting == timers.fired \ {t}
           kept == t.kind = "idle" /\ ~hub.done /\ (hub.clients # {} \/ ~t.fresh)
           idle == Timer("idle", hub)
<1>1. t \in timers.fired /\ UNCHANGED <<sender, pend, conn>>
    BY DEF CleanUp
<1>2. /\ \/ kept /\ timers' = [armed |-> {idle}, fired |-> waiting] /\ UNCHANGED hub
         \/ ~kept /\ SameRun(t) /\ timers' = [armed |-> {}, fired |-> {}] /\ hub' = NoEntry
         \/ timers' = [timers EXCEPT !.fired = waiting] /\ UNCHANGED hub
    BY DEF CleanUp
<1>3. hub \in Entry /\ t \in Timers /\ t \in AllTimers /\ hub.on
    BY <1>1 DEF IInv, TypeOK, HubTypeOK, AllTimers, EntryKept
<1>4. waiting \in SUBSET Timers /\ waiting \subseteq AllTimers
      /\ timers.armed \in SUBSET Timers /\ timers.armed \subseteq AllTimers
    BY DEF IInv, TypeOK, HubTypeOK, AllTimers
<1>5. idle \in Timers /\ idle.kind = "idle" /\ idle.run = hub.active
    BY <1>3, TimerType
<1>6. timers' = [timers EXCEPT !.fired = waiting] =>
        timers' = [armed |-> timers.armed, fired |-> waiting]
    BY DEF IInv, TypeOK, HubTypeOK
<1>7. ~kept /\ SameRun(t) => hub.clients = {} \/ hub.done
    <2>1. t.kind \in {"idle", "ttl"} /\ (t.kind = "ttl" /\ t.run = hub.active => hub.done)
        BY <1>3 DEF IInv, EntryKept, Timers
    <2> QED
        BY <2>1 DEF SameRun
<1> HIDE DEF waiting, kept, idle
<1>8. CASE timers' = [armed |-> {idle}, fired |-> waiting] /\ UNCHANGED hub
    <2>1. {idle} \in SUBSET Timers
        BY <1>5
    <2> QED
        BY <1>1, <1>3, <1>4, <1>5, <1>8, <2>1, TimersKeep
<1>9. CASE hub' = NoEntry /\ timers' = [armed |-> {}, fired |-> {}] /\ (hub.clients = {} \/ hub.done)
    BY <1>1, <1>9, DeleteKeeps
<1>10. CASE timers' = [armed |-> timers.armed, fired |-> waiting] /\ UNCHANGED hub
    BY <1>1, <1>3, <1>4, <1>10, TimersKeep
<1> QED
    BY <1>2, <1>6, <1>7, <1>8, <1>9, <1>10

LEMMA SubscribeKeeps ==
    ASSUME IInv, NEW c \in Conns, Subscribe(c), UNCHANGED <<task, run>>
    PROVE  IInv'
<1> DEFINE e == Ensured
           row == [conn[c] EXCEPT !.at = IF e.done THEN "ended" ELSE "open",
                                  !.told = IF e.done THEN "already done" ELSE "nothing",
                                  !.shown = IF e.done THEN e.snap ELSE <<>>,
                                  !.barred = e.barred,
                                  !.knows = e.active]
           clients == hub.clients \cup {c}
<1>1. /\ conn[c].at = "off" /\ conn' = [conn EXCEPT ![c] = row]
      /\ hub' = IF e.done THEN e ELSE [e EXCEPT !.clients = e.clients \cup {c}]
      /\ timers' = IF e.done THEN timers ELSE [timers EXCEPT !.armed = {}]
      /\ UNCHANGED <<sender, pend>>
    BY DEF Subscribe
<1>2. /\ e \in Entry /\ e.on = TRUE /\ e.active = hub.active /\ e.awaiting = hub.awaiting
      /\ e.snap = hub.snap /\ e.done = hub.done /\ e.clients = hub.clients
      /\ e.barred = hub.barred
    BY EnsuredFields
<1> HIDE DEF e
<1>3. /\ conn[c] \in Connection /\ conn[c].ch = <<>> /\ conn[c].ch \in Seq(Frames)
      /\ timers \in [armed : SUBSET Timers, fired : SUBSET Timers] /\ conn[c].lostEnd \in BOOLEAN
    BY <1>1 DEF IInv, TypeOK, HubTypeOK, Deliveries, Connection
<1>4. hub \in Entry /\ hub.snap \in Texts /\ <<>> \in Texts /\ hub.active \in Runs \cup {NoRun}
      /\ hub.barred \in SUBSET Runs /\ hub.done \in BOOLEAN /\ hub.clients \in SUBSET Conns
    BY DEF IInv, TypeOK, HubTypeOK, Entry, Texts
<1>5. /\ row \in Connection /\ row.ch = <<>> /\ row.barred = hub.barred /\ row.knows = hub.active
      /\ row.told # "done" /\ row.lostEnd = conn[c].lostEnd
      /\ row.at = (IF hub.done THEN "ended" ELSE "open")
      /\ row.at = "open" => row.told = "nothing"
    BY <1>2, <1>3, <1>4 DEF Connection
<1> HIDE DEF row
<1>6. /\ hub' \in Entry /\ hub'.on /\ hub'.active = hub.active /\ hub'.awaiting = hub.awaiting
      /\ hub'.snap = hub.snap /\ hub'.done = hub.done /\ hub'.barred = hub.barred
      /\ hub'.clients = (IF hub.done THEN hub.clients ELSE clients)
    BY <1>1, <1>2, <1>4 DEF Entry
<1>7. timers' \in [armed : SUBSET Timers, fired : SUBSET Timers] /\ AllTimers' \subseteq AllTimers
    <2>1. CASE hub.done
        BY <1>1, <1>2, <1>3, <2>1 DEF AllTimers
    <2>2. CASE ~hub.done
        <3>1. timers' = [armed |-> {}, fired |-> timers.fired]
            BY <1>1, <1>2, <1>3, <2>2
        <3>2. timers.fired \in SUBSET Timers /\ {} \in SUBSET Timers
            BY <1>3
        <3> QED
            BY <3>1, <3>2, TimersType DEF AllTimers
    <2> QED
        BY <2>1, <2>2
<1>8. conn'[c] = row /\ \A d \in Conns : d # c => conn'[d] = conn[d]
    BY <1>1 DEF IInv, TypeOK, HubTypeOK
<1>9. HubTypeOK' /\ task' \in TaskRows
    BY <1>1, <1>5, <1>6, <1>7 DEF IInv, TypeOK, HubTypeOK, TaskRows
<1>10. Queues'
    BY <1>1, <1>6, QueuesKept DEF Holds
<1>11. Heard'
    <2>1. \A x \in Runs : StartWaits(x)' <=> StartWaits(x)
        BY <1>1 DEF StartWaits
    <2>2. Len(row.ch) = 0
        BY <1>5
    <2> QED
        BY <1>1, <1>5, <1>6, <1>7, <1>8, <2>1, <2>2 DEF IInv, Heard
<1>12. \A d \in Conns : EndsComing(d) => EndsComing(d)'
    <2>1. \A d \in Conns : conn'[d].ch = conn[d].ch
        BY <1>3, <1>5, <1>8
    <2> QED
        BY <1>1, <2>1, EndsKept
<1>13. EntryKept'
    <2>1. ASSUME NEW d \in hub'.clients
          PROVE  /\ conn'[d].at = "open" /\ conn'[d].barred \subseteq hub'.barred
                 /\ ~hub'.awaiting => conn'[d].knows = hub'.active
                 /\ hub'.done => EndsComing(d)' \/ conn'[d].lostEnd
        <3>1. CASE d = c /\ ~hub.done
            BY <1>5, <1>6, <1>8, <3>1
        <3>2. CASE d \in hub.clients /\ d # c
            BY <1>4, <1>6, <1>8, <1>12, <3>2 DEF IInv, EntryKept
        <3>3. c \notin hub.clients
            BY <1>1 DEF IInv, EntryKept
        <3> QED
            BY <1>6, <2>1, <3>1, <3>2, <3>3
    <2> QED
        BY <1>6, <1>7, <2>1 DEF IInv, EntryKept
<1>14. Deliveries'
    <2>1. \A r \in Runs : c \notin pend[r].to \cup pend[r].retry
        BY <1>1 DEF IInv, Deliveries
    <2>2. \A r \in Runs : pend[r].to \cup pend[r].retry \subseteq Conns
        BY DEF IInv, TypeOK, HubTypeOK, Pending
    <2>3. Len(row.ch) = 0
        BY <1>5
    <2> QED
        BY <1>1, <1>5, <1>8, <2>1, <2>2, <2>3 DEF IInv, Deliveries, Reaches
<1>15. DoneCarriesResult'
    BY <1>5, <1>8 DEF IInv, DoneCarriesResult
<1>16. ConnectionIsServed'
    <2>1. ASSUME NEW d \in Conns, conn'[d].at = "open"
          PROVE  d \in hub'.clients \/ EndsComing(d)' \/ conn'[d].lostEnd
        <3>1. CASE d = c
            BY <1>5, <1>6, <1>8, <2>1, <3>1
        <3>2. CASE d # c
            BY <1>6, <1>8, <1>12, <2>1, <3>2 DEF IInv, ConnectionIsServed
        <3> QED
            BY <3>1, <3>2
    <2> QED
        BY <1>6, <2>1 DEF ConnectionIsServed
<1> QED
    BY <1>1, <1>9, <1>10, <1>11, <1>13, <1>14, <1>15, <1>16, HubKeeps

\* A connection that ends leaves the entry.
LEMMA CancelKeeps ==
    ASSUME IInv, NEW c \in Conns, Cancelled(c), UNCHANGED <<task, run, sender, pend>>,
           NEW row \in Connection, conn' = [conn EXCEPT ![c] = row],
           conn[c].at = "open", row.at \in {"ended", "left"}, row.ch = <<>>,
           row.barred = conn[c].barred, row.knows = conn[c].knows,
           row.told = "done" /\ row.by = row.knows => row.shown = Final(row.by)
    PROVE  IInv'
<1> DEFINE e == [hub EXCEPT !.clients = hub.clients \ {c}]
           idle == Timer("idle", e)
<1>1. /\ hub' = IF hub.on THEN e ELSE hub
      /\ timers' = IF hub.on /\ e.clients = {} /\ ~e.done
                   THEN [timers EXCEPT !.armed = {idle}] ELSE timers
    BY DEF Cancelled
<1>2. /\ hub \in Entry /\ timers \in [armed : SUBSET Timers, fired : SUBSET Timers]
      /\ hub.clients \in SUBSET Conns
    BY DEF IInv, TypeOK, HubTypeOK, Entry
<1>3. /\ e \in Entry /\ e.on = hub.on /\ e.active = hub.active /\ e.awaiting = hub.awaiting
      /\ e.snap = hub.snap /\ e.done = hub.done /\ e.barred = hub.barred
      /\ e.clients = hub.clients \ {c}
    BY <1>2 DEF Entry
<1>4. idle \in Timers /\ idle.kind = "idle" /\ idle.run = hub.active
    BY <1>3, TimerType
<1>5. /\ hub' \in Entry /\ hub'.on = hub.on /\ hub'.active = hub.active
      /\ hub'.awaiting = hub.awaiting /\ hub'.snap = hub.snap /\ hub'.done = hub.done
      /\ hub'.barred = hub.barred /\ hub'.clients = hub.clients \ {c}
      /\ ~hub.on => hub' = hub /\ timers' = timers
    <2>1. ~hub.on => hub.clients = {}
        BY DEF IInv, EntryKept, NoEntry
    <2> HIDE DEF e, idle
    <2> QED
        BY <1>1, <1>2, <1>3, <2>1
<1> HIDE DEF e, idle
<1>6. /\ timers' \in [armed : SUBSET Timers, fired : SUBSET Timers]
      /\ \A t \in AllTimers' : t \in AllTimers \/ (t.kind = "idle" /\ t.run = hub.active)
    <2>1. CASE timers' = timers
        BY <1>2, <2>1 DEF AllTimers
    <2>2. CASE timers' = [timers EXCEPT !.armed = {idle}]
        <3>1. timers' = [armed |-> {idle}, fired |-> timers.fired]
            BY <1>2, <2>2
        <3>2. timers.fired \in SUBSET Timers /\ {idle} \in SUBSET Timers
            BY <1>2, <1>4
        <3>3. /\ timers' \in [armed : SUBSET Timers, fired : SUBSET Timers]
              /\ AllTimers' = {idle} \cup timers.fired
            BY <3>1, <3>2, TimersType
        <3> QED
            BY <1>4, <3>3 DEF AllTimers
    <2> QED
        BY <1>1, <2>1, <2>2
<1>7. conn'[c] = row /\ \A d \in Conns : d # c => conn'[d] = conn[d]
    BY DEF IInv, TypeOK, HubTypeOK
<1>8. HubTypeOK' /\ task' \in TaskRows
    BY <1>5, <1>6 DEF IInv, TypeOK, HubTypeOK, TaskRows
<1>9. Queues'
    BY <1>5, QueuesKept DEF Holds
<1>10. Len(row.ch) = 0
    OBVIOUS
<1>11. Heard'
    <2>1. \A x \in Runs : StartWaits(x)' <=> StartWaits(x)
        BY DEF StartWaits
    <2> QED
        BY <1>5, <1>6, <1>7, <1>10, <2>1, SMTT(30) DEF IInv, Heard
<1>12. \A d \in Conns : d # c => (EndsComing(d) => EndsComing(d)')
    BY <1>7, EndsKept
<1>13. EntryKept'
    <2>1. ASSUME NEW d \in hub'.clients
          PROVE  /\ conn'[d].at = "open" /\ conn'[d].barred \subseteq hub'.barred
                 /\ ~hub'.awaiting => conn'[d].knows = hub'.active
                 /\ hub'.done => EndsComing(d)' \/ conn'[d].lostEnd
        <3>1. d \in hub.clients /\ d # c /\ d \in Conns
            BY <1>2, <1>5, <2>1
        <3> QED
            BY <1>5, <1>7, <1>12, <3>1 DEF IInv, EntryKept
    <2>2. \A t \in AllTimers' : t.kind = "ttl" /\ t.run = hub'.active => hub'.done
        BY <1>5, <1>6 DEF IInv, EntryKept
    <2>3. ~hub'.on => hub' = NoEntry /\ AllTimers' = {}
        BY <1>5 DEF IInv, EntryKept, AllTimers
    <2> QED
        BY <1>5, <2>1, <2>2, <2>3 DEF IInv, EntryKept
<1>14. Deliveries'
    <2>1. \A r \in Runs : pend[r].to \cup pend[r].retry \subseteq Conns
        BY DEF IInv, TypeOK, HubTypeOK, Pending
    <2> QED
        BY <1>7, <1>10, <2>1 DEF IInv, Deliveries, Reaches
<1>15. DoneCarriesResult'
    BY <1>7 DEF IInv, DoneCarriesResult
<1>16. ConnectionIsServed'
    BY <1>5, <1>7, <1>12 DEF IInv, ConnectionIsServed
<1> QED
    BY <1>8, <1>9, <1>11, <1>13, <1>14, <1>15, <1>16, HubKeeps

\* Run r's frame is delivered to connection c, or c reads one: its row, and who is still to
\* be served.
PendingOf(r, c) ==
    /\ pend' \in [Runs -> Pending]
    /\ \A x \in Runs : x # r => pend'[x] = pend[x]
    /\ \A d : /\ d \in pend'[r].to \/ d \in pend'[r].retry => d \in pend[r].to \/ d \in pend[r].retry
              /\ d \in pend[r].to \/ d \in pend[r].retry =>
                    d = c \/ d \in pend'[r].to \/ d \in pend'[r].retry
    /\ pend'[r].to # {} \/ pend'[r].retry # {} => pend'[r].ev = pend[r].ev
    /\ pend'[r].retry # {} => Terminal(pend'[r].ev)

SameButFrames(row, c) ==
    /\ row.at = conn[c].at /\ row.barred = conn[c].barred /\ row.knows = conn[c].knows
    /\ row.told = conn[c].told /\ row.by = conn[c].by /\ row.shown = conn[c].shown
    /\ row.at # "off" /\ (row.at = "open" => row.told = "nothing")
    /\ conn[c].lostEnd => row.lostEnd
    /\ EndsComing(c) => EndsComing(c)' \/ row.lostEnd

FramesOf(row, r, c) ==
    \A i \in 1..Len(row.ch) :
        \/ \E j \in 1..Len(conn[c].ch) : row.ch[i] = conn[c].ch[j]
        \/ (c \in pend[r].to \/ c \in pend[r].retry) /\ row.ch[i] = pend[r].ev

LEMMA ChannelKeeps ==
    ASSUME IInv, UNCHANGED <<task, run, sender, hub, timers>>, NEW c \in Conns, NEW r \in Runs,
           NEW row \in Connection, conn' = [conn EXCEPT ![c] = row],
           PendingOf(r, c), SameButFrames(row, c), FramesOf(row, r, c)
    PROVE  IInv'
<1> USE DEF PendingOf, SameButFrames, FramesOf
<1>1. conn'[c] = row /\ \A d \in Conns : d # c => conn'[d] = conn[d]
    BY DEF IInv, TypeOK, HubTypeOK
<1>2. HubTypeOK' /\ task' \in TaskRows
    BY DEF IInv, TypeOK, HubTypeOK, TaskRows
<1>3. Queues'
    BY QueuesKept DEF Holds
<1>4. ASSUME NEW i \in 1..Len(row.ch)
      PROVE  row.ch[i].run \in Runs /\ Reaches(row.ch[i], c)
    <2>1. CASE \E j \in 1..Len(conn[c].ch) : row.ch[i] = conn[c].ch[j]
        <3>1. PICK j \in 1..Len(conn[c].ch) : row.ch[i] = conn[c].ch[j]
            BY <2>1
        <3>2. conn[c].ch[j].run \in Runs /\ Reaches(conn[c].ch[j], c)
            BY DEF IInv, Deliveries
        <3> QED
            BY <3>1, <3>2
    <2>2. CASE c \in pend[r].to \cup pend[r].retry /\ row.ch[i] = pend[r].ev
        <3>1. pend[r].ev.run = r /\ Reaches(pend[r].ev, c)
            BY <2>2 DEF IInv, Deliveries
        <3> QED
            BY <2>2, <3>1
    <2> QED
        BY <2>1, <2>2
<1>5. Heard'
    <2>1. \A x \in Runs : StartWaits(x)' <=> StartWaits(x)
        BY DEF StartWaits
    <2>2. ASSUME NEW x \in Runs, StartWaits(x)
          PROVE  /\ pend'[x].to = {} /\ pend'[x].retry = {}
                 /\ \A i \in 1..Len(row.ch) : row.ch[i].run # x
        <3>1. pend[x].to = {} /\ pend[x].retry = {}
              /\ \A i \in 1..Len(conn[c].ch) : conn[c].ch[i].run # x
            BY <2>2 DEF IInv, Heard
        <3>2. pend'[x].to = {} /\ pend'[x].retry = {}
            <4>1. \A d : d \notin pend'[x].to /\ d \notin pend'[x].retry
                BY <3>1
            <4> QED
                BY <4>1
        <3>3. c \in pend[r].to \cup pend[r].retry => r # x /\ pend[r].ev.run = r
            BY <3>1 DEF IInv, Deliveries
        <3>4. ASSUME NEW i \in 1..Len(row.ch)
              PROVE  row.ch[i].run # x
            <4>1. CASE \E j \in 1..Len(conn[c].ch) : row.ch[i] = conn[c].ch[j]
                <5>1. PICK j \in 1..Len(conn[c].ch) : row.ch[i] = conn[c].ch[j]
                    BY <4>1
                <5> QED
                    BY <3>1, <5>1
            <4>2. CASE c \in pend[r].to \cup pend[r].retry /\ row.ch[i] = pend[r].ev
                BY <3>3, <4>2
            <4> QED
                BY <4>1, <4>2
        <3> QED
            BY <3>2, <3>4
    <2>3. ASSUME NEW x \in Runs, StartWaits(x), NEW d \in Conns
          PROVE  /\ conn'[d].knows # x
                 /\ \A i \in 1..Len(conn'[d].ch) : conn'[d].ch[i].run # x
        <3>1. /\ conn[d].knows # x
              /\ \A i \in 1..Len(conn[d].ch) : conn[d].ch[i].run # x
            BY <2>3 DEF IInv, Heard
        <3> QED
            BY <1>1, <2>2, <2>3, <3>1
    <2> QED
        BY <2>1, <2>2, <2>3 DEF IInv, Heard, AllTimers
<1>6. \A d \in Conns : EndsComing(d) \/ conn[d].lostEnd => EndsComing(d)' \/ conn'[d].lostEnd
    <2>1. ASSUME NEW d \in Conns, d # c
          PROVE  EndsComing(d) => EndsComing(d)'
        <3>1. \A x \in Runs : d \in pend[x].to \cup pend[x].retry =>
                d \in pend'[x].to \cup pend'[x].retry /\ pend'[x].ev = pend[x].ev
            BY <2>1
        <3> QED
            BY <1>1, <2>1, <3>1, EndsKept
    <2> QED
        BY <1>1, <2>1
<1>7. EntryKept'
    <2>1. hub.clients \subseteq Conns
        BY DEF IInv, TypeOK, HubTypeOK, Entry
    <2>2. ASSUME NEW d \in hub'.clients
          PROVE  /\ conn'[d].at = "open" /\ conn'[d].barred \subseteq hub'.barred
                 /\ ~hub'.awaiting => conn'[d].knows = hub'.active
                 /\ hub'.done => EndsComing(d)' \/ conn'[d].lostEnd
        BY <1>1, <1>6, <2>1 DEF IInv, EntryKept
    <2> QED
        BY <2>2 DEF IInv, EntryKept, AllTimers
<1>8. Deliveries'
    <2>1. \A ev, d : d \in Conns => (Reaches(ev, d)' <=> Reaches(ev', d))
        BY <1>1 DEF Reaches
    <2>2. ASSUME NEW x \in Runs
          PROVE  /\ pend'[x].to \cup pend'[x].retry # {} => pend'[x].ev.run = x
                 /\ pend'[x].retry # {} => Terminal(pend'[x].ev)
                 /\ \A d \in pend'[x].to \cup pend'[x].retry :
                        conn'[d].at # "off" /\ Reaches(pend'[x].ev, d)
        <3>1. pend[x].to \cup pend[x].retry \subseteq Conns
            BY DEF IInv, TypeOK, HubTypeOK, Pending
        <3>2. CASE x = r
            <4>1. /\ \A d \in pend[r].to \cup pend[r].retry :
                        pend[r].ev.run = r /\ conn[d].at # "off" /\ Reaches(pend[r].ev, d)
                BY DEF IInv, Deliveries
            <4>2. \A d \in Conns : conn'[d].at = conn[d].at
                BY <1>1
            <4>3. \A d : d \in pend'[r].to \/ d \in pend'[r].retry =>
                     /\ d \in Conns /\ pend'[r].ev = pend[r].ev /\ pend[r].ev.run = r
                     /\ conn[d].at # "off" /\ Reaches(pend[r].ev, d)
                BY <3>1, <3>2, <4>1
            <4> QED
                BY <3>2, <4>2, <4>3
        <3>3. CASE x # r
            BY <1>1, <3>1, <3>3 DEF IInv, Deliveries
        <3> QED
            BY <3>2, <3>3
    <2>3. \A x \in Runs : pend'[x].to \cup pend'[x].retry \subseteq Conns
        BY DEF Pending
    <2>4. ASSUME NEW d \in Conns
          PROVE  /\ \A i \in 1..Len(conn'[d].ch) :
                        conn'[d].ch[i].run \in Runs /\ Reaches(conn'[d].ch[i], d)
                 /\ conn'[d].at = "off" => conn'[d].ch = <<>>
                 /\ conn'[d].at \in {"off", "open"} => conn'[d].told = "nothing"
        <3>1. CASE d = c
            BY <1>1, <1>4, <3>1
        <3>2. CASE d # c
            BY <1>1, <3>2 DEF IInv, Deliveries
        <3> QED
            BY <3>1, <3>2
    <2>5. \A d \in Conns : conn'[d].barred = conn[d].barred /\ conn'[d].knows = conn[d].knows
        BY <1>1
    <2> QED
        BY <2>2, <2>3, <2>4, <2>5 DEF Deliveries, Reaches
<1>9. DoneCarriesResult'
    BY <1>1 DEF IInv, DoneCarriesResult
<1>10. ConnectionIsServed'
    BY <1>1, <1>6 DEF IInv, ConnectionIsServed
<1> QED
    BY <1>2, <1>3, <1>5, <1>7, <1>8, <1>9, <1>10, HubKeeps

LEMMA ReadKeeps ==
    ASSUME IInv, NEW c \in Conns, Read(c), UNCHANGED <<task, run>>
    PROVE  IInv'
<1> DEFINE ch == conn[c].ch
           ev == Head(ch)
<1>1. conn[c] \in Connection /\ ch \in Seq(Frames) /\ conn[c].at = "open" /\ ch # <<>>
      /\ UNCHANGED <<sender, pend>>
    BY DEF IInv, TypeOK, HubTypeOK, Connection, Read
<1>2. /\ Tail(ch) \in Seq(Frames) /\ ev \in Frames /\ ev = ch[1] /\ Len(ch) \in Nat /\ Len(ch) > 0
      /\ Len(Tail(ch)) = Len(ch) - 1 /\ \A i \in 1..(Len(ch) - 1) : Tail(ch)[i] = ch[i + 1]
    BY <1>1, Shortened
<1>3. CASE Terminal(ev)
    <2> DEFINE row == [conn[c] EXCEPT !.at = "ended", !.ch = <<>>, !.told = ev.type,
                                      !.shown = ev.text, !.by = ev.run]
    <2>1. conn' = [conn EXCEPT ![c] = row] /\ Cancelled(c)
        BY <1>3 DEF Read
    <2>2. Reaches(ev, c)
        BY <1>2 DEF IInv, Deliveries
    <2>3. ev.type \in {"done", "error"} /\ ev.text \in Texts /\ ev.run \in Runs \cup {NoRun}
        BY <1>2, <1>3 DEF Terminal, Frames
    <2>4. <<>> \in Seq(Frames)
        OBVIOUS
    <2> HIDE DEF ev
    <2>5. /\ row \in Connection /\ row.at = "ended" /\ row.ch = <<>> /\ row.told = ev.type
          /\ row.shown = ev.text /\ row.by = ev.run /\ row.barred = conn[c].barred
          /\ row.knows = conn[c].knows
        BY <1>1, <2>3, <2>4 DEF Connection
    <2> HIDE DEF row
    <2>6. row.told = "done" /\ row.by = row.knows => row.shown = Final(row.by)
        BY <2>2, <2>5 DEF Reaches
    <2> QED
        BY <1>1, <2>1, <2>5, <2>6, CancelKeeps
<1>4. CASE ~Terminal(ev)
    <2> DEFINE row == [conn[c] EXCEPT !.ch = Tail(ch)]
    <2>1. conn' = [conn EXCEPT ![c] = row] /\ UNCHANGED <<hub, timers>>
        BY <1>4 DEF Read
    <2>2. /\ row \in Connection /\ row.ch = Tail(ch) /\ row.at = conn[c].at
          /\ row.barred = conn[c].barred /\ row.knows = conn[c].knows /\ row.told = conn[c].told
          /\ row.by = conn[c].by /\ row.shown = conn[c].shown /\ row.lostEnd = conn[c].lostEnd
        BY <1>1, <1>2 DEF Connection
    <2> HIDE DEF row
    <2>3. conn'[c] = row
        BY <2>1 DEF IInv, TypeOK, HubTypeOK
    <2>4. EndsComing(c) => EndsComing(c)'
        <3>1. ASSUME NEW i \in 1..Len(ch), Terminal(ch[i])
              PROVE  \E k \in 1..Len(row.ch) : Terminal(row.ch[k])
            <4>1. i # 1
                BY <1>2, <1>4, <3>1
            <4>2. i - 1 \in 1..(Len(ch) - 1) /\ (i - 1) + 1 = i
                BY <1>2, <4>1
            <4>3. Tail(ch)[i - 1] = ch[i]
                BY <1>2, <4>2
            <4> QED
                BY <1>2, <2>2, <3>1, <4>2, <4>3
        <3> QED
            BY <1>1, <2>3, <3>1 DEF EndsComing, Terminal
    <2>5. \A i \in 1..Len(row.ch) : \E j \in 1..Len(ch) : row.ch[i] = ch[j]
        <3>1. \A i \in 1..Len(row.ch) : i \in 1..(Len(ch) - 1) /\ i + 1 \in 1..Len(ch)
            BY <1>2, <2>2
        <3> QED
            BY <1>2, <2>2, <3>1
    <2>6. pend \in [Runs -> Pending] /\ pend' = pend
        BY <1>1 DEF IInv, TypeOK, HubTypeOK
    <2>7. row.at \in {"off", "open"} => row.told = "nothing"
        BY <1>1, <2>2 DEF IInv, Deliveries
    <2> QED
        <3>1. CASE Runs = {}
            \* No run has a frame on its way.
            <4>1. \A i \in 1..Len(ch) : ch[i].run \in Runs
                BY DEF IInv, Deliveries
            <4> QED
                BY <1>2, <3>1, <4>1
        <3>2. ASSUME NEW r \in Runs
              PROVE  IInv'
            <4>1. /\ pend'[r] = pend[r] /\ (pend[r].retry # {} => Terminal(pend[r].ev))
                BY <2>6 DEF IInv, Deliveries
            <4> QED
                <5>1. PendingOf(r, c)
                    BY <2>6, <4>1 DEF PendingOf
                <5>2. SameButFrames(row, c)
                    BY <1>1, <2>2, <2>4, <2>7 DEF SameButFrames
                <5>3. FramesOf(row, r, c)
                    BY <2>5 DEF FramesOf
                <5> QED
                    BY <1>1, <2>1, <2>2, <5>1, <5>2, <5>3, ChannelKeeps
        <3> QED
            BY <3>1, <3>2
<1> QED
    BY <1>3, <1>4

LEMMA LeaveKeeps ==
    ASSUME IInv, NEW c \in Conns, Leave(c), UNCHANGED <<task, run>>
    PROVE  IInv'
<1> DEFINE row == [conn[c] EXCEPT !.at = "left", !.ch = <<>>]
<1>1. /\ conn[c].at = "open" /\ conn' = [conn EXCEPT ![c] = row] /\ Cancelled(c)
      /\ UNCHANGED <<sender, pend>>
    BY DEF Leave
<1>2. conn[c] \in Connection /\ conn[c].told = "nothing" /\ <<>> \in Seq(Frames)
    BY <1>1 DEF IInv, TypeOK, HubTypeOK, Deliveries
<1>3. /\ row \in Connection /\ row.at = "left" /\ row.ch = <<>> /\ row.told = "nothing"
      /\ row.barred = conn[c].barred /\ row.knows = conn[c].knows
    BY <1>2 DEF Connection
<1> HIDE DEF row
<1> QED
    BY <1>1, <1>3, CancelKeeps

\* One subscriber is served.
LEMMA DeliveryFields ==
    ASSUME NEW ev, NEW to, NEW retry, NEW p, p = Delivery(ev, to, retry)
    PROVE  /\ p.to = to /\ p.retry = retry
           /\ to # {} \/ retry # {} => p.ev = ev
           /\ p = NoDelivery \/ p = [ev |-> ev, to |-> to, retry |-> retry]
BY DEF Delivery, NoDelivery

LEMMA NoDeliveryType == NoDelivery \in Pending
<1>1. <<>> \in Texts
    BY DEF Texts
<1> QED
    BY <1>1 DEF NoDelivery, Pending, Frame, Frames

LEMMA DeliverKeeps ==
    ASSUME IInv, NEW r \in Runs, NEW c \in Conns, Deliver(r, c), UNCHANGED <<task, run>>
    PROVE  IInv'
<1> DEFINE ev == pend[r].ev
           full == Full(c) /\ Terminal(ev)
           to == pend[r].to \ {c}
           retry == IF full THEN pend[r].retry \cup {c} ELSE pend[r].retry
           p == Delivery(ev, to, retry)
           ch == IF ~Full(c) THEN Append(conn[c].ch, ev) ELSE IF full THEN Tail(conn[c].ch) ELSE conn[c].ch
           row == [conn[c] EXCEPT !.ch = ch]
<1>1. /\ c \in pend[r].to /\ UNCHANGED <<sender, hub, timers>>
      /\ pend' = [pend EXCEPT ![r] = p] /\ conn' = [conn EXCEPT ![c] = row]
    BY DEF Deliver
<1>2. /\ pend[r] \in Pending /\ ev \in Frames /\ pend[r].to \in SUBSET Conns
      /\ pend[r].retry \in SUBSET Conns /\ conn[c] \in Connection /\ conn[c].ch \in Seq(Frames)
    BY DEF IInv, TypeOK, HubTypeOK, Pending, Connection
<1>3. /\ \A d : /\ d \in to \/ d \in retry => d \in pend[r].to \/ d \in pend[r].retry
                /\ d \in pend[r].to \/ d \in pend[r].retry => d = c \/ d \in to \/ d \in retry
      /\ full => c \in retry
    BY <1>1, <1>2
<1>16. to \in SUBSET Conns /\ retry \in SUBSET Conns /\ ev \in Frames
    BY <1>2
<1>4. retry # {} => Terminal(ev)
    BY DEF IInv, Deliveries
<1>5. full => Full(c) /\ Terminal(ev)
    OBVIOUS
<1>6. Full(c) => conn[c].ch # <<>>
    <2>1. ClientBuffer \in Nat /\ ClientBuffer > 0
        OBVIOUS
    <2> QED
        BY <1>2, <2>1 DEF Full
<1>7. \/ ~Full(c) /\ ch = Append(conn[c].ch, ev)
      \/ full /\ ch = Tail(conn[c].ch) /\ conn[c].ch # <<>>
      \/ Full(c) /\ ~Terminal(ev) /\ ch = conn[c].ch
    BY <1>6
<1> HIDE DEF ev, to, retry, ch, full
<1> HIDE DEF p
<1>8. /\ p \in Pending /\ p.to = to /\ p.retry = retry /\ (to # {} \/ retry # {} => p.ev = ev)
    <2>1. p = Delivery(ev, to, retry)
        BY DEF p
    <2>2. /\ p.to = to /\ p.retry = retry /\ (to # {} \/ retry # {} => p.ev = ev)
          /\ p = NoDelivery \/ p = [ev |-> ev, to |-> to, retry |-> retry]
        BY ONLY <2>1, DeliveryFields
    <2>3. p \in Pending
        BY <1>16, <2>2, NoDeliveryType DEF Pending
    <2> QED
        BY <2>2, <2>3
<1>9. /\ ch \in Seq(Frames)
      /\ \A i \in 1..Len(ch) : (\E j \in 1..Len(conn[c].ch) : ch[i] = conn[c].ch[j]) \/ ch[i] = ev
    <2>1. CASE ch = Append(conn[c].ch, ev)
        BY <1>2, <2>1, AppendedFrom
    <2>2. CASE ch = Tail(conn[c].ch) /\ conn[c].ch # <<>>
        <3>1. \A i \in 1..Len(ch) : i \in 1..(Len(conn[c].ch) - 1) /\ i + 1 \in 1..Len(conn[c].ch)
            BY <1>2, <2>2, Shortened
        <3> QED
            BY <1>2, <2>2, <3>1, Shortened
    <2>3. CASE ch = conn[c].ch
        BY <1>2, <2>3
    <2> QED
        BY <1>7, <2>1, <2>2, <2>3
<1>10. /\ row \in Connection /\ row.ch = ch /\ row.at = conn[c].at
       /\ row.barred = conn[c].barred /\ row.knows = conn[c].knows /\ row.told = conn[c].told
       /\ row.by = conn[c].by /\ row.shown = conn[c].shown /\ row.lostEnd = conn[c].lostEnd
    BY <1>2, <1>9 DEF Connection
<1> HIDE DEF row
<1>11. /\ conn'[c] = row /\ pend'[r] = p /\ (\A x \in Runs : x # r => pend'[x] = pend[x])
       /\ pend' \in [Runs -> Pending]
    BY <1>1, <1>8 DEF IInv, TypeOK, HubTypeOK
<1>12. EndsComing(c) => EndsComing(c)'
    <2>1. CASE Terminal(ev)
        <3>1. CASE full
            <4>1. c \in pend'[r].to \cup pend'[r].retry /\ pend'[r].ev = ev
                BY <1>3, <1>8, <1>11, <3>1
            <4> QED
                BY <2>1, <4>1 DEF EndsComing, Terminal
        <3>2. CASE ~Full(c)
            <4>1. ch = Append(conn[c].ch, ev)
                BY <1>5, <1>7, <3>2
            <4>2. Len(ch) \in 1..Len(ch) /\ ch[Len(ch)] = ev
                BY <1>2, <4>1
            <4> QED
                BY <1>10, <1>11, <2>1, <4>2 DEF EndsComing, Terminal
        <3> QED
            BY <1>7, <2>1, <3>1, <3>2
    <2>2. CASE ~Terminal(ev)
        <3>1. \A i \in 1..Len(conn[c].ch) : i \in 1..Len(ch) /\ ch[i] = conn[c].ch[i]
            BY <1>2, <1>5, <1>7, <2>2, Appended
        <3>2. \A x \in Runs : c \in pend[x].to \cup pend[x].retry /\ Terminal(pend[x].ev) => x # r
            BY <2>2 DEF ev
        <3> QED
            BY <1>10, <1>11, <3>1, <3>2 DEF EndsComing, Terminal
    <2> QED
        BY <2>1, <2>2
<1>13. conn[c].at # "off" /\ (row.at \in {"off", "open"} => row.told = "nothing")
    BY <1>1, <1>10 DEF IInv, Deliveries
<1>14. /\ \A d :
              /\ d \in pend'[r].to \/ d \in pend'[r].retry => d \in pend[r].to \/ d \in pend[r].retry
              /\ d \in pend[r].to \/ d \in pend[r].retry =>
                    d = c \/ d \in pend'[r].to \/ d \in pend'[r].retry
       /\ pend'[r].to # {} \/ pend'[r].retry # {} => pend'[r].ev = pend[r].ev
       /\ pend'[r].retry # {} => Terminal(pend'[r].ev)
    <2>1. pend'[r].to = to /\ pend'[r].retry = retry
        BY <1>8, <1>11
    <2>2. to # {} \/ retry # {} => pend'[r].ev = ev
        BY <1>8, <1>11
    <2>3. ev = pend[r].ev
        BY DEF ev
    <2>4. \A d : /\ d \in pend'[r].to \/ d \in pend'[r].retry => d \in pend[r].to \/ d \in pend[r].retry
                 /\ d \in pend[r].to \/ d \in pend[r].retry =>
                       d = c \/ d \in pend'[r].to \/ d \in pend'[r].retry
        BY <1>3, <2>1
    <2>5. pend'[r].to # {} \/ pend'[r].retry # {} => pend'[r].ev = pend[r].ev
        BY <2>1, <2>2, <2>3
    <2>6. pend'[r].retry # {} => Terminal(pend'[r].ev)
        BY <1>4, <2>1, <2>2
    <2> QED
        BY <2>4, <2>5, <2>6
<1>15. \A i \in 1..Len(row.ch) :
          \/ \E j \in 1..Len(conn[c].ch) : row.ch[i] = conn[c].ch[j]
          \/ (c \in pend[r].to \/ c \in pend[r].retry) /\ row.ch[i] = pend[r].ev
    BY <1>1, <1>9, <1>10 DEF ev
<1> QED
    <2>1. PendingOf(r, c)
        BY <1>11, <1>14 DEF PendingOf
    <2>2. SameButFrames(row, c)
        BY <1>10, <1>12, <1>13 DEF SameButFrames
    <2>3. FramesOf(row, r, c)
        BY <1>15 DEF FramesOf
    <2> QED
        BY <1>1, <1>10, <2>1, <2>2, <2>3, ChannelKeeps

LEMMA DeliverAgainKeeps ==
    ASSUME IInv, NEW r \in Runs, NEW c \in Conns, DeliverAgain(r, c), UNCHANGED <<task, run>>
    PROVE  IInv'
<1> DEFINE ev == pend[r].ev
           to == pend[r].to
           retry == pend[r].retry \ {c}
           p == Delivery(ev, to, retry)
           ch == Append(conn[c].ch, ev)
           row == IF Full(c) THEN [conn[c] EXCEPT !.lostEnd = TRUE] ELSE [conn[c] EXCEPT !.ch = ch]
<1>1. /\ c \in pend[r].retry /\ UNCHANGED <<sender, hub, timers>>
      /\ pend' = [pend EXCEPT ![r] = p] /\ conn' = [conn EXCEPT ![c] = row]
    BY DEF DeliverAgain
<1>2. /\ pend[r] \in Pending /\ ev \in Frames /\ pend[r].to \in SUBSET Conns
      /\ pend[r].retry \in SUBSET Conns /\ conn[c] \in Connection /\ conn[c].ch \in Seq(Frames)
    BY DEF IInv, TypeOK, HubTypeOK, Pending, Connection
<1>3. \A d : /\ d \in to \/ d \in retry => d \in pend[r].to \/ d \in pend[r].retry
             /\ d \in pend[r].to \/ d \in pend[r].retry => d = c \/ d \in to \/ d \in retry
    BY <1>2
<1>16. to \in SUBSET Conns /\ retry \in SUBSET Conns /\ ev \in Frames
    BY <1>2
<1>4. Terminal(ev)
    BY <1>1 DEF IInv, Deliveries
<1> HIDE DEF ev, to, retry, p
<1>17. ch = Append(conn[c].ch, ev)
    OBVIOUS
<1> HIDE DEF ch
<1>5. /\ ch \in Seq(Frames) /\ Len(ch) \in 1..Len(ch) /\ ch[Len(ch)] = ev
      /\ \A i \in 1..Len(ch) : (\E j \in 1..Len(conn[c].ch) : ch[i] = conn[c].ch[j]) \/ ch[i] = ev
    <2> DEFINE q == conn[c].ch
    <2>1. q \in Seq(Frames) /\ ev \in Frames /\ ch = Append(q, ev)
        BY <1>2, <1>16, <1>17
    <2> HIDE DEF q
    <2>2. /\ ch \in Seq(Frames) /\ Len(ch) \in 1..Len(ch) /\ ch[Len(ch)] = ev
          /\ \A i \in 1..Len(ch) : (\E j \in 1..Len(q) : ch[i] = q[j]) \/ ch[i] = ev
        BY ONLY <2>1, AppendedFrom
    <2> QED
        BY <2>2 DEF q
<1>6. /\ p \in Pending /\ p.to = to /\ p.retry = retry /\ (to # {} \/ retry # {} => p.ev = ev)
    <2>1. p = Delivery(ev, to, retry)
        BY DEF p
    <2>2. /\ p.to = to /\ p.retry = retry /\ (to # {} \/ retry # {} => p.ev = ev)
          /\ p = NoDelivery \/ p = [ev |-> ev, to |-> to, retry |-> retry]
        BY ONLY <2>1, DeliveryFields
    <2>3. p \in Pending
        BY <1>16, <2>2, NoDeliveryType DEF Pending
    <2> QED
        BY <2>2, <2>3
<1>7. /\ row \in Connection /\ row.at = conn[c].at
      /\ row.barred = conn[c].barred /\ row.knows = conn[c].knows /\ row.told = conn[c].told
      /\ row.by = conn[c].by /\ row.shown = conn[c].shown
      /\ \/ row.ch = conn[c].ch /\ row.lostEnd
         \/ row.ch = ch /\ row.lostEnd = conn[c].lostEnd
    BY <1>2, <1>5 DEF Connection
<1> HIDE DEF row
<1>8. /\ conn'[c] = row /\ pend'[r] = p /\ (\A x \in Runs : x # r => pend'[x] = pend[x])
      /\ pend' \in [Runs -> Pending]
    BY <1>1, <1>6 DEF IInv, TypeOK, HubTypeOK
<1>9. EndsComing(c)' \/ row.lostEnd
    BY <1>4, <1>5, <1>7, <1>8 DEF EndsComing, Terminal
<1>10. conn[c].at # "off" /\ (row.at \in {"off", "open"} => row.told = "nothing")
    BY <1>1, <1>7 DEF IInv, Deliveries
<1>11. /\ \A d :
              /\ d \in pend'[r].to \/ d \in pend'[r].retry => d \in pend[r].to \/ d \in pend[r].retry
              /\ d \in pend[r].to \/ d \in pend[r].retry =>
                    d = c \/ d \in pend'[r].to \/ d \in pend'[r].retry
       /\ pend'[r].to # {} \/ pend'[r].retry # {} => pend'[r].ev = pend[r].ev
       /\ pend'[r].retry # {} => Terminal(pend'[r].ev)
    <2>1. pend'[r].to = to /\ pend'[r].retry = retry
        BY <1>6, <1>8
    <2>2. to # {} \/ retry # {} => pend'[r].ev = ev
        BY <1>6, <1>8
    <2>3. ev = pend[r].ev
        BY DEF ev
    <2>4. \A d : /\ d \in pend'[r].to \/ d \in pend'[r].retry => d \in pend[r].to \/ d \in pend[r].retry
                 /\ d \in pend[r].to \/ d \in pend[r].retry =>
                       d = c \/ d \in pend'[r].to \/ d \in pend'[r].retry
        BY <1>3, <2>1
    <2>5. pend'[r].to # {} \/ pend'[r].retry # {} => pend'[r].ev = pend[r].ev
        BY <2>1, <2>2, <2>3
    <2>6. pend'[r].retry # {} => Terminal(pend'[r].ev)
        BY <1>4, <2>1, <2>2
    <2> QED
        BY <2>4, <2>5, <2>6
<1>12. \A i \in 1..Len(row.ch) :
          \/ \E j \in 1..Len(conn[c].ch) : row.ch[i] = conn[c].ch[j]
          \/ (c \in pend[r].to \/ c \in pend[r].retry) /\ row.ch[i] = pend[r].ev
    BY <1>1, <1>5, <1>7 DEF ev
<1> QED
    <2>1. PendingOf(r, c)
        BY <1>8, <1>11 DEF PendingOf
    <2>2. SameButFrames(row, c)
        BY <1>7, <1>9, <1>10 DEF SameButFrames
    <2>3. FramesOf(row, r, c)
        BY <1>12 DEF FramesOf
    <2> QED
        BY <1>1, <1>7, <2>1, <2>2, <2>3, ChannelKeeps

\* The entry is prepared for the next run.
LEMMA PrepareKeeps ==
    ASSUME IInv, PrepareStream
    PROVE  IInv'
<1> DEFINE e == Ensured
           retired == IF e.active = NoRun THEN e.retired ELSE e.active
           barred == (e.barred \cup {e.active}) \ {NoRun}
           fresh == [NoEntry EXCEPT !.on = TRUE, !.clients = e.clients, !.awaiting = TRUE,
                                    !.retired = retired, !.barred = barred]
           idle == Timer("idle", fresh)
<1>1. /\ hub' = fresh /\ timers' = [armed |-> {idle}, fired |-> {}]
      /\ task' = [task EXCEPT !.requeue = FALSE] /\ UNCHANGED <<run, sender, pend, conn>>
    BY DEF PrepareStream, PrepareHub, Forget
<1>2. /\ e \in Entry /\ e.active = hub.active /\ e.clients = hub.clients /\ e.barred = hub.barred
    BY EnsuredFields
<1> HIDE DEF e
<1>3. /\ e.clients \in SUBSET Conns /\ retired \in Runs \cup {NoRun} /\ barred \in SUBSET Runs
      /\ <<>> \in Texts
    BY <1>2 DEF Entry, Texts
<1>4. \A x : x \in barred <=> x \in Runs /\ (x \in hub.barred \/ x = hub.active)
    BY <1>2 DEF Entry
<1> HIDE DEF retired, barred
<1>5. /\ fresh \in Entry /\ fresh.on /\ fresh.active = NoRun /\ fresh.awaiting /\ fresh.snap = <<>>
      /\ ~fresh.done /\ fresh.clients = hub.clients /\ fresh.barred = barred
    BY <1>2, <1>3 DEF NoEntry, Entry
<1> HIDE DEF fresh
<1>6. idle \in Timers /\ idle.kind = "idle" /\ idle.run = NoRun
    BY <1>5, TimerType
<1> HIDE DEF idle
<1>7. timers' \in [armed : SUBSET Timers, fired : SUBSET Timers] /\ AllTimers' = {idle}
    <2>1. {idle} \in SUBSET Timers /\ {} \in SUBSET Timers
        BY <1>6
    <2> QED
        BY <1>1, <2>1, TimersType
<1>8. task' \in TaskRows
    BY <1>1 DEF IInv, TypeOK, TaskRows
<1>9. HubTypeOK'
    BY <1>1, <1>5, <1>7 DEF IInv, TypeOK, HubTypeOK
<1>10. Queues'
    BY <1>1, <1>5, QueuesKept DEF Holds
<1>11. Heard'
    <2>1. \A x \in Runs : StartWaits(x)' <=> StartWaits(x)
        BY <1>1 DEF StartWaits
    <2> QED
        BY <1>1, <1>4, <1>5, <1>6, <1>7, <2>1 DEF IInv, Heard
<1>12. \A c \in Conns : EndsComing(c)' <=> EndsComing(c)
    BY <1>1 DEF EndsComing
<1>13. EntryKept'
    <2>1. ASSUME NEW c \in hub'.clients
          PROVE  conn'[c].at = "open" /\ conn'[c].barred \subseteq hub'.barred
        <3>1. c \in Conns /\ conn[c].at = "open" /\ conn[c].barred \subseteq hub.barred
            BY <1>1, <1>2, <1>3, <1>5 DEF IInv, EntryKept
        <3>2. conn[c].barred \subseteq Runs
            BY <3>1 DEF IInv, TypeOK, HubTypeOK, Connection
        <3> QED
            BY <1>1, <1>4, <1>5, <3>1, <3>2
    <2> QED
        BY <1>1, <1>3, <1>5, <1>6, <1>7, <2>1 DEF EntryKept
<1>14. Deliveries'
    BY <1>1 DEF IInv, Deliveries, Reaches
<1>15. DoneCarriesResult'
    BY <1>1 DEF IInv, DoneCarriesResult
<1>16. ConnectionIsServed'
    BY <1>1, <1>5, <1>12 DEF IInv, ConnectionIsServed
<1> QED
    BY <1>1, <1>8, <1>9, <1>10, <1>11, <1>13, <1>14, <1>15, <1>16, HubKeeps

\* A run's queue without its first frame.
OneLess(t, s) ==
    s \in Sender /\ t \in Sender /\ s.q # <<>> /\ t.q = Tail(s.q) /\ t.open = s.open
AfterHead(r, s, e) == s.q[1] = Result(r) => HoldsIn(r, e)
NoStart(s) == \A i \in 1..Len(s.q) : s.q[i].type # "start"

LEMMA TailQueue ==
    ASSUME NEW r \in Runs, NEW at, NEW s, NEW t, OneLess(t, s),
           NEW d, NEW e, QueueOf(r, at, s, d), AfterHead(r, s, e)
    PROVE  QueueOf(r, at, t, e) /\ at \notin Unstarted /\ NoStart(t)
<1> USE DEF OneLess, AfterHead, NoStart
<1> DEFINE q == s.q
<1>1. q \in Seq(Frames) /\ q # <<>>
    BY DEF Sender
<1>2. /\ Len(q) \in Nat /\ Len(q) > 0 /\ Len(t.q) = Len(q) - 1
      /\ \A i \in 1..(Len(q) - 1) : t.q[i] = q[i + 1]
    BY <1>1, Shortened
<1>3. 1 \in 1..Len(q) /\ at \notin Unstarted
    BY <1>1, <1>2 DEF QueueOf
<1>5. ASSUME NEW i \in 1..Len(t.q)
      PROVE  /\ i + 1 \in 1..Len(q) /\ t.q[i] = q[i + 1] /\ i + 1 # 1 /\ i \in Nat
             /\ t.q[i].run = r /\ (\A k \in 1..Len(t.q[i].text) : t.q[i].text[k].run = r)
             /\ t.q[i].type # "start"
             /\ (t.q[i].type = "snapshot" => t.q[i] = Result(r))
             /\ (t.q[i].type = "done" => i = Len(t.q) /\ q[i] = Result(r))
    <2>1. i + 1 \in 1..Len(q) /\ t.q[i] = q[i + 1] /\ i + 1 # 1 /\ i \in Nat
        BY <1>2
    <2>2. q[i + 1].type = "done" => i + 1 = Len(q) /\ (i + 1 > 1 => q[(i + 1) - 1] = Result(r))
        BY <2>1 DEF QueueOf, InOrder
    <2>3. i + 1 > 1 /\ (i + 1) - 1 = i /\ (i + 1 = Len(q) => i = Len(t.q))
        BY <1>2, <2>1
    <2>4. /\ q[i + 1].run = r /\ (\A k \in 1..Len(q[i + 1].text) : q[i + 1].text[k].run = r)
          /\ q[i + 1].type # "start"
          /\ (q[i + 1].type = "snapshot" => q[i + 1] = Result(r))
        BY <2>1 DEF QueueOf, InOrder
    <2> QED
        BY <2>1, <2>2, <2>3, <2>4
<1>6. InOrder(r, t.q)
    <2>1. \A i \in 1..Len(t.q) : i > 1 => i - 1 \in 1..(Len(q) - 1) /\ (i - 1) + 1 = i
        BY <1>2
    <2>2. \A i \in 1..Len(t.q) : i > 1 => t.q[i - 1] = q[i]
        BY <1>2, <2>1
    <2> QED
        BY <1>5, <2>2, ZenonT(30) DEF InOrder
<1>7. at # "over" => \A i \in 1..Len(t.q) : t.q[i].type # "done"
    BY <1>5 DEF QueueOf
<1>8. at \in Persisted /\ t.open => IF t.q = <<>> THEN HoldsIn(r, e) ELSE t.q[Len(t.q)] = Result(r)
    <2>1. SUFFICES ASSUME at \in Persisted, s.open
                   PROVE  IF t.q = <<>> THEN HoldsIn(r, e) ELSE t.q[Len(t.q)] = Result(r)
        OBVIOUS
    <2>2. q[Len(q)] = Result(r)
        BY <1>1, <2>1 DEF QueueOf
    <2>3. CASE t.q = <<>>
        <3>1. Len(q) = 1
            <4>1. Len(t.q) = 0
                BY ONLY <2>3
            <4>2. Len(q) \in Nat /\ Len(t.q) = Len(q) - 1
                BY ONLY <1>2
            <4> DEFINE n == Len(t.q)
            <4>3. n = 0 /\ n = Len(q) - 1
                BY <4>1, <4>2
            <4> HIDE DEF q, n
            <4> QED
                BY ONLY <4>2, <4>3
        <3> QED
            BY <2>2, <2>3, <3>1
    <2>4. CASE t.q # <<>>
        <3>1. Len(t.q) \in 1..Len(t.q) /\ Len(t.q) + 1 = Len(q)
            BY <1>2, <2>4 DEF Sender
        <3> DEFINE i == Len(t.q)
        <3>2. i \in 1..Len(t.q)
            BY <3>1
        <3> HIDE DEF i
        <3>3. t.q[i] = q[i + 1]
            BY ONLY <1>5, <3>2
        <3> QED
            BY <2>2, <2>4, <3>1, <3>3 DEF i
    <2> QED
        BY <2>3, <2>4
<1>9. t.q # <<>> /\ t.q[1].type = "done" => HoldsIn(r, e)
    <2>1. t.q # <<>> => 1 \in 1..Len(t.q)
        BY <1>2 DEF Sender
    <2> QED
        BY <1>5, <2>1
<1>10. (at = "over" => ~t.open) /\ (at \in Unstarted => t.q = <<>> /\ ~t.open)
    BY <1>3 DEF QueueOf
<1> QED
    BY <1>3, <1>5, <1>6, <1>7, <1>8, <1>9, <1>10 DEF QueueOf

\* The first frame of run r leaves its queue.
LEMMA PublishQueue ==
    ASSUME IInv, NEW r \in Runs, sender[r].q # <<>>, UNCHANGED run,
           sender' = [sender EXCEPT ![r].q = Tail(@)],
           sender[r].q[1] = Result(r) => Holds(r)',
           \A x \in Runs : x # r /\ Holds(x) => Holds(x)'
    PROVE  /\ Queues' /\ sender' \in [Runs -> Sender]
           /\ \A x \in Runs : StartWaits(x)' => StartWaits(x) /\ x # r
<1> DEFINE s == sender[r]
           t == [s EXCEPT !.q = Tail(s.q)]
<1>1. s \in Sender /\ s.q \in Seq(Frames) /\ s.open \in BOOLEAN
    BY DEF IInv, TypeOK, HubTypeOK, Sender
<1>2. Tail(s.q) \in Seq(Frames)
    BY <1>1, Shortened
<1>3. t \in Sender /\ t.q = Tail(s.q) /\ t.open = s.open
    BY <1>1, <1>2 DEF Sender
<1>4. sender' = [sender EXCEPT ![r] = t] /\ sender \in [Runs -> Sender]
    BY DEF IInv, TypeOK, HubTypeOK
<1> HIDE DEF t
<1>5. sender'[r] = t /\ (\A x \in Runs : x # r => sender'[x] = sender[x])
      /\ sender' \in [Runs -> Sender]
    BY <1>3, <1>4
<1>6. QueueOf(r, run[r].at, s, hub)
    BY QueuesOf DEF IInv
<1>7. /\ QueueOf(r, run[r].at, t, hub') /\ run[r].at \notin Unstarted
      /\ \A i \in 1..Len(t.q) : t.q[i].type # "start"
    <2> DEFINE at == run[r].at
    <2>1. AfterHead(r, s, hub')
        BY DEF Holds, HoldsIn, AfterHead
    <2> HIDE DEF at, s
    <2>2. QueueOf(r, at, s, hub) /\ s.q # <<>>
        BY <1>6 DEF at, s
    <2>4. OneLess(t, s)
        BY <1>1, <1>3, <2>2 DEF OneLess
    <2>3. QueueOf(r, at, t, hub') /\ at \notin Unstarted /\ NoStart(t)
        BY ONLY r \in Runs, <2>1, <2>2, <2>4, TailQueue
    <2> QED
        BY <2>3 DEF at, NoStart
<1>8. ASSUME NEW x \in Runs
      PROVE  QueueOf(x, run'[x].at, sender'[x], hub')
    <2>1. CASE x = r
        BY <1>5, <1>7, <2>1
    <2>2. CASE x # r
        <3>1. QueueOf(x, run'[x].at, sender'[x], hub)
            BY <1>5, <2>2, QueuesOf DEF IInv
        <3>2. Holds(x) => Holds(x)'
            BY <2>2
        <3> QED
            BY <3>1, <3>2 DEF QueueOf, Holds, HoldsIn
    <2> QED
        BY <2>1, <2>2
<1>9. Queues'
    BY <1>8, QueuesOf
<1>10. \A x \in Runs : StartWaits(x)' => StartWaits(x) /\ x # r
    BY <1>5, <1>7 DEF StartWaits
<1> QED
    BY <1>5, <1>9, <1>10

\* What is known of that frame.
LEMMA PublishHead ==
    ASSUME IInv, NEW r \in Runs, sender[r].q # <<>>, NEW ev, ev = Head(sender[r].q)
    PROVE  /\ ev \in Frames /\ ev = sender[r].q[1] /\ ev.run = r
           /\ \A k \in 1..Len(ev.text) : ev.text[k].run = r
           /\ ev.type = "snapshot" => ev.text = Final(r)
           /\ ev.type = "done" => Holds(r)
           /\ ev.type = "start" <=> StartWaits(r)
           /\ ev = Result(r) => ev.type = "snapshot"
<1> DEFINE q == sender[r].q
<1>1. q \in Seq(Frames) /\ Queue(r, run[r].at, sender[r])
    BY DEF IInv, TypeOK, HubTypeOK, Sender, Queues
<1>2. ev \in Frames /\ ev = q[1] /\ 1 \in 1..Len(q)
    BY <1>1, Shortened
<1>3. /\ ev.run = r /\ (\A k \in 1..Len(ev.text) : ev.text[k].run = r)
      /\ (ev.type = "snapshot" => ev = Result(r)) /\ run[r].at \notin Unstarted
    BY <1>1, <1>2 DEF Queue, InOrder
<1>4. ev.type = "done" => Holds(r)
    BY <1>1, <1>2 DEF Queue
<1>5. ev.type = "start" <=> StartWaits(r)
    <2>1. \A i \in 1..Len(q) : q[i].type = "start" => i = 1
        BY <1>1 DEF Queue, InOrder
    <2> QED
        BY <1>2, <1>3, <2>1 DEF StartWaits
<1>6. Result(r).text = Final(r) /\ Result(r).type = "snapshot"
    BY ResultType
<1> QED
    BY <1>2, <1>3, <1>4, <1>5, <1>6

\* A frame that is refused is forgotten.
LEMMA RefusedKeeps ==
    ASSUME IInv, NEW r \in Runs, sender[r].q # <<>>,
           sender' = [sender EXCEPT ![r].q = Tail(@)], ~Accepts(Ensured, Head(sender[r].q)),
           hub' = Ensured, UNCHANGED <<task, run, pend, timers, conn>>
    PROVE  IInv'
<1> DEFINE ev == Head(sender[r].q)
           e == Ensured
<1>1. /\ e \in Entry /\ e.on = TRUE /\ e.active = hub.active /\ e.retired = hub.retired
      /\ e.awaiting = hub.awaiting /\ e.snap = hub.snap
      /\ e.done = hub.done /\ e.clients = hub.clients /\ e.barred = hub.barred
    BY EnsuredFields
<1>2. ev = sender[r].q[1] /\ ev.run = r /\ (ev = Result(r) => ev.type = "snapshot")
    BY PublishHead
<1>3. ~Accepts(e, ev)
    OBVIOUS
<1> HIDE DEF ev, e
<1>4. /\ hub' \in Entry /\ hub'.on = TRUE /\ hub'.active = hub.active /\ hub'.awaiting = hub.awaiting
      /\ hub'.snap = hub.snap /\ hub'.done = hub.done /\ hub'.clients = hub.clients
      /\ hub'.barred = hub.barred
    BY <1>1 DEF e
<1>5. ev = Result(r) => hub'.active # r
    <2>1. ev = Result(r) => hub.awaiting \/ hub.active # r
        BY <1>1, <1>2, <1>3 DEF Accepts
    <2>2. hub.awaiting => hub.active # r
        BY DEF IInv, EntryKept
    <2> QED
        BY <1>4, <2>1, <2>2
<1>6. /\ sender[r].q[1] = Result(r) => Holds(r)'
      /\ \A x \in Runs : x # r /\ Holds(x) => Holds(x)'
    BY <1>2, <1>4, <1>5 DEF Holds
<1>7. /\ Queues' /\ sender' \in [Runs -> Sender]
      /\ \A x \in Runs : StartWaits(x)' => StartWaits(x) /\ x # r
    BY <1>6, PublishQueue
<1>8. HubTypeOK' /\ task' \in TaskRows
    BY <1>4, <1>7 DEF IInv, TypeOK, HubTypeOK, TaskRows
<1>9. Heard'
    BY <1>4, <1>7 DEF IInv, Heard, AllTimers
<1>10. \A c \in Conns : EndsComing(c)' <=> EndsComing(c)
    BY DEF EndsComing
<1>11. EntryKept'
    <2>1. hub.clients \subseteq Conns
        BY DEF IInv, TypeOK, HubTypeOK, Entry
    <2> QED
        BY <1>4, <1>10, <2>1 DEF IInv, EntryKept, AllTimers
<1>12. Deliveries' /\ DoneCarriesResult'
    BY DEF IInv, Deliveries, Reaches, DoneCarriesResult
<1>13. ConnectionIsServed'
    BY <1>4, <1>10 DEF IInv, ConnectionIsServed
<1> QED
    BY <1>7, <1>8, <1>9, <1>11, <1>12, <1>13, HubKeeps

\* The subscribers of an accepted frame, and the timers after it.
LEMMA AcceptTimers ==
    ASSUME IInv, NEW e \in Entry, NEW ev, e.active \in Runs \cup {NoRun},
           timers' = [armed |-> IF e.done /\ ~Terminal(ev) THEN timers.armed
                                ELSE {Timer(IF Terminal(ev) THEN "ttl" ELSE "idle", e)},
                      fired |-> Stale(timers.fired)]
    PROVE  /\ timers' \in [armed : SUBSET Timers, fired : SUBSET Timers]
           /\ \A t \in AllTimers' :
                \/ \E u \in AllTimers : t.kind = u.kind /\ t.run = u.run
                \/ t.kind = (IF Terminal(ev) THEN "ttl" ELSE "idle") /\ t.run = e.active
<1> DEFINE kind == IF Terminal(ev) THEN "ttl" ELSE "idle"
           new == Timer(kind, e)
           fired == Stale(timers.fired)
           armed == IF e.done /\ ~Terminal(ev) THEN timers.armed ELSE {new}
<1>1. timers.armed \in SUBSET Timers /\ timers.fired \in SUBSET Timers
    BY DEF IInv, TypeOK, HubTypeOK
<1>2. kind \in {"idle", "ttl"}
    OBVIOUS
<1>3. timers' = [armed |-> armed, fired |-> fired]
    OBVIOUS
<1> HIDE DEF kind
<1>4. new \in Timers /\ new.kind = kind /\ new.run = e.active
    BY <1>2, TimerType
<1>5. \A t \in Timers : LET u == [t EXCEPT !.fresh = FALSE]
                        IN  u \in Timers /\ u.kind = t.kind /\ u.run = t.run
    BY DEF Timers
<1>6. fired \in SUBSET Timers /\ \A t \in fired : \E u \in timers.fired : t.kind = u.kind /\ t.run = u.run
    BY <1>1, <1>5 DEF Stale
<1>7. armed \in SUBSET Timers /\ \A t \in armed : t = new \/ t \in timers.armed
    BY <1>1, <1>4
<1> HIDE DEF new, fired, armed
<1>8. /\ timers' \in [armed : SUBSET Timers, fired : SUBSET Timers]
      /\ AllTimers' = armed \cup fired
    BY <1>3, <1>6, <1>7, TimersType
<1>9. ASSUME NEW t \in AllTimers'
      PROVE  \/ \E u \in AllTimers : t.kind = u.kind /\ t.run = u.run
             \/ t.kind = kind /\ t.run = e.active
    BY <1>4, <1>6, <1>7, <1>8 DEF AllTimers
<1> QED
    BY <1>8, <1>9 DEF kind

\* The subscribers get the frame; the others' deliveries go on.
LEMMA PublishPending ==
    ASSUME IInv, NEW r \in Runs, NEW ev \in Frames, NEW to \in SUBSET Conns,
           NEW p, p = Delivery(ev, to, {}), pend' = [pend EXCEPT ![r] = p]
    PROVE  /\ pend' \in [Runs -> Pending]
           /\ pend'[r].to = to /\ pend'[r].retry = {} /\ (to # {} => pend'[r].ev = ev)
           /\ \A x \in Runs : x # r => pend'[x] = pend[x]
<1>1. /\ p.to = to /\ p.retry = {} /\ (to # {} => p.ev = ev)
      /\ p = NoDelivery \/ p = [ev |-> ev, to |-> to, retry |-> {}]
    BY DeliveryFields
<1>2. p \in Pending
    BY <1>1, NoDeliveryType DEF Pending
<1> QED
    BY <1>1, <1>2 DEF IInv, TypeOK, HubTypeOK

\* What is on its way stays on its way.
LEMMA PublishEnds ==
    ASSUME NEW r \in Runs, pend[r].to = {}, pend[r].retry = {},
           \A x \in Runs : x # r => pend'[x] = pend[x],
           NEW c \in Conns, conn'[c].ch = conn[c].ch
    PROVE  EndsComing(c) => EndsComing(c)'
<1>1. \A x \in Runs : c \in pend[x].to \cup pend[x].retry => x # r
    OBVIOUS
<1> QED
    BY <1>1, EndsKept

\* The start frame of run r is accepted.
LEMMA StartKeeps ==
    ASSUME IInv, NEW r \in Runs, Publish(r), UNCHANGED <<task, run>>,
           Accepts(Ensured, Head(sender[r].q)), Head(sender[r].q).type = "start"
    PROVE  IInv'
<1> DEFINE ev == Head(sender[r].q)
           b == Ensured
           e == Applied(b, ev)
           told == Carried(e, ev)
<1>1. /\ sender[r].q # <<>> /\ pend[r].to = {} /\ pend[r].retry = {}
      /\ sender' = [sender EXCEPT ![r].q = Tail(@)] /\ hub' = e
      /\ timers' = [armed |-> IF e.done /\ ~Terminal(ev) THEN timers.armed
                              ELSE {Timer(IF Terminal(ev) THEN "ttl" ELSE "idle", e)},
                    fired |-> Stale(timers.fired)]
      /\ pend' = [pend EXCEPT ![r] = Delivery(told, e.clients, {})]
      /\ conn' = [c \in Conns |-> IF c \in e.clients /\ ev.type = "start"
                                  THEN [conn[c] EXCEPT !.knows = r] ELSE conn[c]]
    BY DEF Publish
<1>2. /\ ev \in Frames /\ ev = sender[r].q[1] /\ ev.run = r /\ ev.type = "start"
      /\ StartWaits(r) /\ ev # Result(r)
    BY <1>1, PublishHead
<1>3. /\ b \in Entry /\ b.on = TRUE /\ b.active = hub.active /\ b.awaiting = hub.awaiting
      /\ b.clients = hub.clients /\ b.barred = hub.barred
    BY EnsuredFields
<1> HIDE DEF ev, b
<1>4. e = [b EXCEPT !.active = r, !.snap = <<>>, !.done = FALSE, !.awaiting = FALSE]
    BY <1>2 DEF Applied
<1>5. <<>> \in Texts
    BY DEF Texts
<1> HIDE DEF e
<1>6. /\ e \in Entry /\ e.on = TRUE /\ e.active = r /\ e.awaiting = FALSE /\ e.snap = <<>>
      /\ e.done = FALSE /\ e.clients = hub.clients /\ e.barred = hub.barred
    BY <1>3, <1>4, <1>5 DEF Entry
<1>7. /\ told \in Frames /\ told.run = r /\ told.type = "start"
    BY <1>2, <1>5 DEF Carried, Terminal, Frames
<1> HIDE DEF told
<1>8. hub.clients \in SUBSET Conns
    BY DEF IInv, TypeOK, HubTypeOK, Entry
<1>9. /\ pend' \in [Runs -> Pending]
      /\ pend'[r].to = hub.clients /\ pend'[r].retry = {}
      /\ (hub.clients # {} => pend'[r].ev = told)
      /\ \A x \in Runs : x # r => pend'[x] = pend[x]
    <2> DEFINE to == hub.clients
               p == Delivery(told, to, {})
    <2>1. pend' = [pend EXCEPT ![r] = p]
        BY <1>1, <1>6
    <2>2. p = Delivery(told, to, {}) /\ told \in Frames /\ to \in SUBSET Conns
        BY <1>7, <1>8
    <2> HIDE DEF p, to
    <2>3. /\ pend' \in [Runs -> Pending]
          /\ pend'[r].to = to /\ pend'[r].retry = {} /\ (to # {} => pend'[r].ev = told)
          /\ \A x \in Runs : x # r => pend'[x] = pend[x]
        BY ONLY IInv, r \in Runs, <2>1, <2>2, PublishPending
    <2> QED
        BY <2>3 DEF to
<1>10. /\ timers' \in [armed : SUBSET Timers, fired : SUBSET Timers]
       /\ \A t \in AllTimers' :
            \/ \E u \in AllTimers : t.kind = u.kind /\ t.run = u.run
            \/ t.kind = "idle" /\ t.run = r
    <2>1. ~Terminal(ev)
        BY <1>2 DEF Terminal
    <2> QED
        BY <1>1, <1>6, <2>1, AcceptTimers
<1>11. ASSUME NEW c \in Conns
       PROVE  /\ conn'[c] \in Connection /\ conn'[c].at = conn[c].at /\ conn'[c].ch = conn[c].ch
              /\ conn'[c].shown = conn[c].shown /\ conn'[c].told = conn[c].told
              /\ conn'[c].by = conn[c].by /\ conn'[c].barred = conn[c].barred
              /\ conn'[c].lostEnd = conn[c].lostEnd
              /\ conn'[c].knows = IF c \in hub.clients THEN r ELSE conn[c].knows
    <2>1. conn[c] \in Connection
        BY DEF IInv, TypeOK, HubTypeOK
    <2>2. conn'[c] = IF c \in hub.clients THEN [conn[c] EXCEPT !.knows = r] ELSE conn[c]
        BY <1>1, <1>2, <1>6
    <2> QED
        BY <2>1, <2>2, ZenonT(30) DEF Connection
<1>12. conn' \in [Conns -> Connection]
    <2>1. conn' = [c \in Conns |-> conn'[c]]
        BY <1>1
    <2> QED
        BY <1>11, <2>1
<1>13. /\ sender[r].q[1] = Result(r) => Holds(r)'
       /\ \A x \in Runs : x # r /\ Holds(x) => Holds(x)'
    BY <1>1, <1>2, <1>6 DEF Holds
<1>14. /\ Queues' /\ sender' \in [Runs -> Sender]
       /\ \A x \in Runs : StartWaits(x)' => StartWaits(x) /\ x # r
    BY <1>1, <1>13, PublishQueue
<1>15. HubTypeOK' /\ task' \in TaskRows
    BY <1>1, <1>6, <1>9, <1>10, <1>12, <1>14 DEF IInv, TypeOK, HubTypeOK, TaskRows
<1>16. /\ r \notin hub.barred /\ (\A t \in AllTimers : t.run # r)
       /\ \A c \in Conns : \A i \in 1..Len(conn[c].ch) : conn[c].ch[i].run # r
    BY <1>2 DEF IInv, Heard
<1>17. Heard'
    <2>1. ASSUME NEW x \in Runs, StartWaits(x)'
          PROVE  /\ x \notin hub'.barred /\ hub'.active # x
                 /\ \A t \in AllTimers' : t.run # x
                 /\ pend'[x].to = {} /\ pend'[x].retry = {}
                 /\ \A c \in Conns : /\ conn'[c].knows # x
                                     /\ \A i \in 1..Len(conn'[c].ch) : conn'[c].ch[i].run # x
        <3>1. StartWaits(x) /\ x # r
            BY <1>14, <2>1
        <3>2. /\ x \notin hub.barred /\ (\A t \in AllTimers : t.run # x)
              /\ pend[x].to = {} /\ pend[x].retry = {}
              /\ \A c \in Conns : /\ conn[c].knows # x
                                  /\ \A i \in 1..Len(conn[c].ch) : conn[c].ch[i].run # x
            BY <3>1 DEF IInv, Heard
        <3>3. \A t \in AllTimers' : t.run # x
            BY <1>10, <3>1, <3>2
        <3>4. \A c \in Conns : /\ conn'[c].knows # x
                               /\ \A i \in 1..Len(conn'[c].ch) : conn'[c].ch[i].run # x
            BY <1>11, <3>1, <3>2, SMTT(30)
        <3> QED
            BY <1>1, <1>6, <1>9, <3>1, <3>2, <3>3, <3>4
    <2> QED
        BY <2>1 DEF Heard
<1>18. \A c \in Conns : EndsComing(c) => EndsComing(c)'
    BY <1>1, <1>9, <1>11, PublishEnds
<1>19. EntryKept'
    <2>1. ASSUME NEW c \in hub.clients
          PROVE  /\ conn'[c].at = "open" /\ conn'[c].barred \subseteq hub'.barred
                 /\ conn'[c].knows = r
        <3>1. c \in Conns /\ conn[c].at = "open" /\ conn[c].barred \subseteq hub.barred
            BY <1>8 DEF IInv, EntryKept
        <3> QED
            BY <1>1, <1>6, <1>11, <3>1, ZenonT(30)
    <2>2. \A t \in AllTimers' : t.kind = "ttl" => t.run # r
        BY <1>10, <1>16
    <2>3. Len(hub'.snap) = 0
        BY <1>1, <1>6
    <2> QED
        BY <1>1, <1>6, <1>16, <2>1, <2>2, <2>3 DEF EntryKept
<1>20. Deliveries'
    <2>1. ASSUME NEW c \in Conns, NEW x, x.run \in Runs, x.run # r, Reaches(x, c)
          PROVE  x.run \notin conn'[c].barred
                 /\ (x.type = "done" /\ conn'[c].knows = x.run => x.text = Final(x.run))
        BY <1>11, <2>1 DEF Reaches
    <2>2. ASSUME NEW c \in hub.clients
          PROVE  /\ c \in Conns /\ conn'[c].at # "off" /\ r \notin conn'[c].barred
        <3>1. c \in Conns /\ conn[c].at = "open" /\ conn[c].barred \subseteq hub.barred
            BY <1>8 DEF IInv, EntryKept
        <3> QED
            BY <1>11, <1>16, <3>1
    <2>3. ASSUME NEW x \in Runs
          PROVE  /\ pend'[x].to \cup pend'[x].retry # {} => pend'[x].ev.run = x
                 /\ pend'[x].retry # {} => Terminal(pend'[x].ev)
                 /\ \A c \in pend'[x].to \cup pend'[x].retry :
                       /\ conn'[c].at # "off" /\ pend'[x].ev.run \notin conn'[c].barred
                       /\ pend'[x].ev.type = "done" /\ conn'[c].knows = pend'[x].ev.run
                            => pend'[x].ev.text = Final(pend'[x].ev.run)
        <3>1. CASE x = r
            <4>1. \A c : c \in pend'[r].to \cup pend'[r].retry => c \in hub.clients /\ pend'[r].ev = told
                BY <1>9
            <4>2. pend'[r].to \cup pend'[r].retry # {} => pend'[r].ev = told
                BY <4>1
            <4> QED
                BY <1>7, <1>9, <2>2, <3>1, <4>1, <4>2
        <3>2. CASE x # r
            <4>1. pend'[x] = pend[x]
                BY <1>9, <3>2
            <4>2. pend[x].to \cup pend[x].retry \subseteq Conns
                BY DEF IInv, TypeOK, HubTypeOK, Pending
            <4>3. /\ pend[x].to \cup pend[x].retry # {} => pend[x].ev.run = x
                  /\ pend[x].retry # {} => Terminal(pend[x].ev)
                  /\ \A c \in pend[x].to \cup pend[x].retry :
                        pend[x].ev.run = x /\ conn[c].at # "off" /\ Reaches(pend[x].ev, c)
                BY DEF IInv, Deliveries
            <4>4. ASSUME NEW c \in pend[x].to \cup pend[x].retry
                  PROVE  /\ conn'[c].at # "off" /\ pend[x].ev.run \notin conn'[c].barred
                         /\ pend[x].ev.type = "done" /\ conn'[c].knows = pend[x].ev.run
                              => pend[x].ev.text = Final(pend[x].ev.run)
                <5>1. c \in Conns /\ pend[x].ev.run = x /\ conn[c].at # "off" /\ Reaches(pend[x].ev, c)
                    BY <4>2, <4>3
                <5> QED
                    BY <1>11, <2>1, <3>2, <5>1
            <4> QED
                BY <4>1, <4>3, <4>4
        <3> QED
            BY <3>1, <3>2
    <2>4. ASSUME NEW c \in Conns
          PROVE  /\ \A i \in 1..Len(conn'[c].ch) :
                       /\ conn'[c].ch[i].run \in Runs /\ conn'[c].ch[i].run \notin conn'[c].barred
                       /\ conn'[c].ch[i].type = "done" /\ conn'[c].knows = conn'[c].ch[i].run
                            => conn'[c].ch[i].text = Final(conn'[c].ch[i].run)
                 /\ conn'[c].at = "off" => conn'[c].ch = <<>>
                 /\ conn'[c].at \in {"off", "open"} => conn'[c].told = "nothing"
        <3>1. conn'[c].ch = conn[c].ch
            BY <1>11
        <3>2. ASSUME NEW i \in 1..Len(conn[c].ch)
              PROVE  /\ conn[c].ch[i].run \in Runs /\ conn[c].ch[i].run \notin conn'[c].barred
                     /\ conn[c].ch[i].type = "done" /\ conn'[c].knows = conn[c].ch[i].run
                          => conn[c].ch[i].text = Final(conn[c].ch[i].run)
            <4>1. conn[c].ch[i].run \in Runs /\ conn[c].ch[i].run # r /\ Reaches(conn[c].ch[i], c)
                BY <1>16 DEF IInv, Deliveries
            <4> QED
                BY <2>1, <4>1
        <3>3. /\ conn[c].at = "off" => conn[c].ch = <<>>
              /\ conn[c].at \in {"off", "open"} => conn[c].told = "nothing"
            BY DEF IInv, Deliveries
        <3> QED
            BY <1>11, <3>1, <3>2, <3>3
    <2> QED
        BY <2>3, <2>4 DEF Deliveries, Reaches
<1>21. DoneCarriesResult'
    <2>1. ASSUME NEW c \in Conns, conn'[c].told = "done", conn'[c].by = conn'[c].knows
          PROVE  conn'[c].shown = Final(conn'[c].by)
        <3>1. c \notin hub.clients
            <4>1. c \in hub.clients => conn[c].at = "open"
                BY DEF IInv, EntryKept
            <4>2. conn[c].at = "open" => conn[c].told = "nothing"
                BY DEF IInv, Deliveries
            <4> QED
                BY <1>11, <2>1, <4>1, <4>2
        <3> QED
            BY <1>11, <2>1, <3>1 DEF IInv, DoneCarriesResult
    <2> QED
        BY <2>1 DEF DoneCarriesResult
<1>22. ConnectionIsServed'
    BY <1>1, <1>6, <1>11, <1>18 DEF IInv, ConnectionIsServed
<1> QED
    BY <1>14, <1>15, <1>17, <1>19, <1>20, <1>21, <1>22, HubKeeps

\* The entry e after a frame that is not a start came to the entry b.
FrameApplied(b, ev, e) ==
    /\ e \in Entry /\ e.on = b.on /\ e.active = b.active /\ e.awaiting = b.awaiting
    /\ e.clients = b.clients /\ e.barred = b.barred
    /\ Terminal(ev) => e.snap = b.snap /\ e.done = TRUE
    /\ ~Terminal(ev) => e.done = b.done
    /\ ev.type = "snapshot" => e.snap = ev.text
    /\ \A i \in 1..Len(e.snap) :
         \/ \E k \in 1..Len(b.snap) : e.snap[i] = b.snap[k]
         \/ \E k \in 1..Len(ev.text) : e.snap[i] = ev.text[k]

LEMMA AppliedFields ==
    ASSUME NEW b \in Entry, NEW ev \in Frames, ev.type # "start", NEW e, e = Applied(b, ev)
    PROVE  FrameApplied(b, ev, e)
<1>1. ev.text \in Texts /\ b.snap \in Texts /\ ev.type \in {"delta", "snapshot", "done", "error"}
    BY DEF Frames, Entry
<1>2. CASE ev.type = "delta"
    <2> DEFINE s == b.snap \o ev.text
    <2>1. e = [b EXCEPT !.snap = s] /\ ~Terminal(ev)
        BY <1>2 DEF Applied, Terminal
    <2>2. s \in Texts /\ \A i \in 1..Len(s) :
                \/ \E k \in 1..Len(b.snap) : s[i] = b.snap[k]
                \/ \E k \in 1..Len(ev.text) : s[i] = ev.text[k]
        <3> DEFINE P == [run : Runs, part : Nat]
                   x == b.snap
                   y == ev.text
        <3>1. x \in Seq(P) /\ y \in Seq(P)
            BY <1>1 DEF Texts
        <3> HIDE DEF P, x, y
        <3>2. /\ x \o y \in Seq(P) /\ Len(x) \in Nat /\ Len(y) \in Nat /\ Len(x \o y) = Len(x) + Len(y)
              /\ \A i \in 1..(Len(x) + Len(y)) : (x \o y)[i] = IF i <= Len(x) THEN x[i] ELSE y[i - Len(x)]
            BY <3>1
        <3>3. ASSUME NEW i \in 1..Len(x \o y)
              PROVE  \/ \E k \in 1..Len(x) : (x \o y)[i] = x[k]
                     \/ \E k \in 1..Len(y) : (x \o y)[i] = y[k]
            <4>1. CASE i <= Len(x)
                BY <3>2, <3>3, <4>1
            <4>2. CASE ~(i <= Len(x))
                <5>1. i - Len(x) \in 1..Len(y)
                    BY <3>2, <3>3, <4>2
                <5> QED
                    BY <3>2, <3>3, <4>2, <5>1
            <4> QED
                BY <4>1, <4>2
        <3> QED
            BY <3>2, <3>3 DEF Texts, P, x, y
    <2> HIDE DEF s
    <2> QED
        BY <1>1, <1>2, <2>1, <2>2, SMTT(30) DEF Entry, FrameApplied
<1>3. CASE ev.type = "snapshot"
    <2>1. e = [b EXCEPT !.snap = ev.text] /\ ~Terminal(ev)
        BY <1>3 DEF Applied, Terminal
    <2> QED
        BY <1>1, <1>3, <2>1 DEF Entry, FrameApplied
<1>4. CASE ev.type \in {"done", "error"}
    <2>1. e = [b EXCEPT !.done = TRUE] /\ Terminal(ev)
        BY <1>4 DEF Applied, Terminal
    <2> QED
        BY <1>1, <1>4, <2>1 DEF Entry, FrameApplied
<1> QED
    BY <1>1, <1>2, <1>3, <1>4 DEF FrameApplied

\* A later frame of run r is accepted.
LEMMA AcceptKeeps ==
    ASSUME IInv, NEW r \in Runs, Publish(r), UNCHANGED <<task, run>>,
           Accepts(Ensured, Head(sender[r].q)), Head(sender[r].q).type # "start"
    PROVE  IInv'
<1> DEFINE ev == Head(sender[r].q)
           b == Ensured
           e == Applied(b, ev)
           told == Carried(e, ev)
           to == hub.clients
           p == Delivery(told, to, {})
<1>1. /\ sender[r].q # <<>> /\ pend[r].to = {} /\ pend[r].retry = {}
      /\ sender' = [sender EXCEPT ![r].q = Tail(@)] /\ hub' = e
      /\ timers' = [armed |-> IF e.done /\ ~Terminal(ev) THEN timers.armed
                              ELSE {Timer(IF Terminal(ev) THEN "ttl" ELSE "idle", e)},
                    fired |-> Stale(timers.fired)]
      /\ pend' = [pend EXCEPT ![r] = Delivery(told, e.clients, {})]
      /\ conn' = [c \in Conns |-> IF c \in e.clients /\ ev.type = "start"
                                  THEN [conn[c] EXCEPT !.knows = r] ELSE conn[c]]
    BY DEF Publish
<1>2. /\ ev \in Frames /\ ev = sender[r].q[1] /\ ev.run = r /\ ev.type # "start"
      /\ \A k \in 1..Len(ev.text) : ev.text[k].run = r
      /\ ev.type = "snapshot" => ev.text = Final(r)
      /\ ev.type = "done" => Holds(r)
      /\ ~StartWaits(r) /\ (ev = Result(r) => ev.type = "snapshot")
    BY <1>1, PublishHead, SMTT(30)
<1>3. /\ b \in Entry /\ b.on = TRUE /\ b.active = hub.active /\ b.awaiting = hub.awaiting
      /\ b.snap = hub.snap /\ b.done = hub.done
      /\ b.clients = hub.clients /\ b.barred = hub.barred
    BY EnsuredFields
<1>4. Accepts(b, ev)
    OBVIOUS
<1> HIDE DEF ev, b
<1>5. hub.awaiting = FALSE /\ (hub.active = NoRun \/ hub.active = r)
    BY <1>2, <1>3, <1>4 DEF Accepts, Entry
<1>6. r \notin hub.barred
    BY <1>5 DEF IInv, EntryKept
<1>7. e = Applied(b, ev)
    OBVIOUS
<1> HIDE DEF e
<1>8. /\ e \in Entry /\ e.on = b.on /\ e.active = b.active /\ e.awaiting = b.awaiting
      /\ e.clients = b.clients /\ e.barred = b.barred
      /\ Terminal(ev) => e.snap = b.snap /\ e.done = TRUE
      /\ ~Terminal(ev) => e.done = b.done
      /\ ev.type = "snapshot" => e.snap = ev.text
      /\ \A i \in 1..Len(e.snap) :
            \/ \E k \in 1..Len(b.snap) : e.snap[i] = b.snap[k]
            \/ \E k \in 1..Len(ev.text) : e.snap[i] = ev.text[k]
    <2>1. b \in Entry /\ ev \in Frames /\ ev.type # "start"
        BY <1>2, <1>3
    <2>2. FrameApplied(b, ev, e)
        BY ONLY <1>7, <2>1, AppliedFields
    <2> QED
        BY <2>2 DEF FrameApplied
<1>9. /\ e.on = TRUE /\ e.active = hub.active /\ e.awaiting = FALSE
      /\ e.clients = hub.clients /\ e.barred = hub.barred
      /\ Terminal(ev) => e.snap = hub.snap
      /\ hub.done => e.done = TRUE
      /\ e.done => hub.done \/ Terminal(ev)
      /\ \A i \in 1..Len(e.snap) : e.snap[i].run \notin e.barred
    <2>1. \A k \in 1..Len(hub.snap) : hub.snap[k].run \notin hub.barred
        BY DEF IInv, EntryKept
    <2>2. \A i \in 1..Len(e.snap) : e.snap[i].run \notin e.barred
        <3>1. ASSUME NEW i \in 1..Len(e.snap), NEW k \in 1..Len(b.snap), e.snap[i] = b.snap[k]
              PROVE  e.snap[i].run \notin e.barred
            BY <1>3, <1>8, <2>1, <3>1
        <3>2. ASSUME NEW i \in 1..Len(e.snap), NEW k \in 1..Len(ev.text), e.snap[i] = ev.text[k]
              PROVE  e.snap[i].run \notin e.barred
            BY <1>2, <1>3, <1>6, <1>8, <3>2, SMTT(30)
        <3> QED
            BY <1>8, <3>1, <3>2
    <2>3. e.done => hub.done \/ Terminal(ev)
        BY <1>3, <1>8
    <2>4. hub.done => e.done = TRUE
        BY <1>3, <1>8 DEF Entry
    <2> QED
        BY <1>3, <1>5, <1>8, <2>2, <2>3, <2>4
<1>10. hub.clients \in SUBSET Conns /\ e.snap \in Texts
    BY <1>8 DEF IInv, TypeOK, HubTypeOK, Entry
<1>11. /\ told \in Frames /\ told.run = r /\ told.type = ev.type
       /\ Terminal(ev) => told.text = hub.snap
    <2>1. <<>> \in Texts
        BY DEF Texts
    <2> QED
        BY <1>2, <1>9, <1>10, <2>1 DEF Carried, Frames
<1> HIDE DEF told
<1>12. pend' = [pend EXCEPT ![r] = p] /\ p = Delivery(told, to, {}) /\ to \in SUBSET Conns
    BY <1>1, <1>9, <1>10
<1> HIDE DEF p, to
<1>13. /\ pend' \in [Runs -> Pending]
       /\ pend'[r].to = to /\ pend'[r].retry = {} /\ (to # {} => pend'[r].ev = told)
       /\ \A x \in Runs : x # r => pend'[x] = pend[x]
    <2>1. pend' = [pend EXCEPT ![r] = p]
        BY <1>12
    <2>2. p = Delivery(told, to, {}) /\ told \in Frames /\ to \in SUBSET Conns
        BY <1>11, <1>12
    <2> QED
        BY ONLY IInv, r \in Runs, <2>1, <2>2, PublishPending
<1>14. conn' = conn
    <2>1. conn' = [c \in Conns |-> conn[c]]
        BY <1>1, <1>2
    <2> QED
        BY <2>1 DEF IInv, TypeOK, HubTypeOK
<1>15. e.active \in Runs \cup {NoRun}
    BY <1>8 DEF Entry
<1>16. /\ timers' \in [armed : SUBSET Timers, fired : SUBSET Timers]
       /\ \A t \in AllTimers' :
            \/ \E u \in AllTimers : t.kind = u.kind /\ t.run = u.run
            \/ t.kind = (IF Terminal(ev) THEN "ttl" ELSE "idle") /\ t.run = e.active
    <2>1. timers' = [armed |-> IF e.done /\ ~Terminal(ev) THEN timers.armed
                               ELSE {Timer(IF Terminal(ev) THEN "ttl" ELSE "idle", e)},
                     fired |-> Stale(timers.fired)]
        BY <1>1
    <2>2. e \in Entry
        BY <1>8
    <2> QED
        BY ONLY IInv, <1>15, <2>1, <2>2, AcceptTimers
<1>17. /\ sender[r].q[1] = Result(r) => Holds(r)'
       /\ \A x \in Runs : x # r /\ Holds(x) => Holds(x)'
    <2>1. \A x \in Runs : x # NoRun
        BY HubAssumption DEF Runs, NoRun
    <2> QED
        BY <1>1, <1>2, <1>5, <1>8, <1>9, <2>1 DEF Holds
<1>18. /\ Queues' /\ sender' \in [Runs -> Sender]
       /\ \A x \in Runs : StartWaits(x)' => StartWaits(x) /\ x # r
    BY <1>1, <1>17, PublishQueue
<1>19. HubTypeOK' /\ task' \in TaskRows
    BY <1>1, <1>8, <1>13, <1>14, <1>16, <1>18 DEF IInv, TypeOK, HubTypeOK, TaskRows
<1>20. Heard'
    <2>1. ASSUME NEW x \in Runs, StartWaits(x)'
          PROVE  /\ x \notin hub'.barred /\ hub'.active # x
                 /\ \A t \in AllTimers' : t.run # x
                 /\ pend'[x].to = {} /\ pend'[x].retry = {}
                 /\ \A c \in Conns : /\ conn'[c].knows # x
                                     /\ \A i \in 1..Len(conn'[c].ch) : conn'[c].ch[i].run # x
        <3>1. StartWaits(x) /\ x # r
            BY <1>18, <2>1
        <3>2. /\ x \notin hub.barred /\ hub.active # x /\ (\A t \in AllTimers : t.run # x)
              /\ pend[x].to = {} /\ pend[x].retry = {}
              /\ \A c \in Conns : /\ conn[c].knows # x
                                  /\ \A i \in 1..Len(conn[c].ch) : conn[c].ch[i].run # x
            BY <3>1 DEF IInv, Heard
        <3>3. \A t \in AllTimers' : t.run # x
            BY <1>9, <1>16, <3>2
        <3> QED
            BY <1>1, <1>9, <1>13, <1>14, <3>1, <3>2, <3>3
    <2> QED
        BY <2>1 DEF Heard
<1>21. ASSUME NEW c \in Conns
       PROVE  EndsComing(c) => EndsComing(c)'
    <2>1. conn'[c].ch = conn[c].ch
        BY <1>14
    <2> QED
        BY <1>1, <1>13, <2>1, PublishEnds
<1>22. ASSUME NEW c \in hub.clients
       PROVE  /\ c \in Conns /\ conn[c].at = "open" /\ conn[c].barred \subseteq hub.barred
              /\ conn[c].knows = hub.active
              /\ hub.done => EndsComing(c) \/ conn[c].lostEnd
    BY <1>5, <1>10 DEF IInv, EntryKept
<1>23. ASSUME NEW c \in hub.clients, Terminal(ev)
       PROVE  EndsComing(c)'
    <2>1. c \in pend'[r].to /\ pend'[r].ev = told /\ Terminal(told)
        BY <1>11, <1>13, <1>23 DEF to, Terminal
    <2>2. c \in pend'[r].to \cup pend'[r].retry /\ Terminal(pend'[r].ev)
        BY <2>1
    <2> QED
        BY <2>2 DEF EndsComing
<1>24. EntryKept'
    <2>1. ASSUME NEW c \in hub'.clients
          PROVE  /\ conn'[c].at = "open" /\ conn'[c].barred \subseteq hub'.barred
                 /\ conn'[c].knows = hub'.active
                 /\ hub'.done => EndsComing(c)' \/ conn'[c].lostEnd
        <3>1. c \in hub.clients
            BY <1>1, <1>9
        <3>2. /\ c \in Conns /\ conn[c].at = "open" /\ conn[c].barred \subseteq hub.barred
              /\ conn[c].knows = hub.active /\ (hub.done => EndsComing(c) \/ conn[c].lostEnd)
            BY <1>22, <3>1
        <3>3. hub'.done => hub.done \/ Terminal(ev)
            BY <1>1, <1>9
        <3>4. hub'.done => EndsComing(c)' \/ conn[c].lostEnd
            BY <1>21, <1>23, <3>1, <3>2, <3>3
        <3> QED
            BY <1>1, <1>9, <1>14, <3>2, <3>4
    <2>2. ASSUME NEW t \in AllTimers', t.kind = "ttl", t.run = hub'.active
          PROVE  hub'.done
        <3>1. \/ \E u \in AllTimers : t.kind = u.kind /\ t.run = u.run
              \/ t.kind = (IF Terminal(ev) THEN "ttl" ELSE "idle")
            BY <1>16
        <3>2. \A u \in AllTimers : u.kind = "ttl" /\ u.run = hub.active => hub.done
            BY DEF IInv, EntryKept
        <3> QED
            BY <1>1, <1>8, <1>9, <2>2, <3>1, <3>2
    <2>3. /\ hub'.on /\ hub'.awaiting = FALSE /\ hub'.active \notin hub'.barred
          /\ hub'.barred # {} => hub'.active # NoRun
        BY <1>1, <1>5, <1>9 DEF IInv, EntryKept
    <2>4. \A i \in 1..Len(hub'.snap) : hub'.snap[i].run \notin hub'.barred
        BY <1>1, <1>9
    <2> QED
        BY <2>1, <2>2, <2>3, <2>4 DEF EntryKept
<1>25. Deliveries'
    <2>1. ASSUME NEW x \in Runs
          PROVE  /\ pend'[x].to \cup pend'[x].retry # {} => pend'[x].ev.run = x
                 /\ pend'[x].retry # {} => Terminal(pend'[x].ev)
                 /\ \A c \in pend'[x].to \cup pend'[x].retry :
                       conn[c].at # "off" /\ Reaches(pend'[x].ev, c)
        <3>1. CASE x = r
            <4>1. ASSUME NEW c \in pend'[r].to \cup pend'[r].retry
                  PROVE  pend'[r].ev = told /\ conn[c].at # "off" /\ Reaches(pend'[r].ev, c)
                <5>1. c \in hub.clients /\ pend'[r].ev = told
                    BY <1>13, <4>1 DEF to
                <5>2. /\ conn[c].at = "open" /\ conn[c].barred \subseteq hub.barred
                      /\ conn[c].knows = hub.active
                    BY <1>22, <5>1
                <5>3. told.type = "done" /\ conn[c].knows = told.run => told.text = Final(told.run)
                    BY <1>2, <1>11, <5>2 DEF Terminal, Holds
                <5> QED
                    BY <1>6, <1>11, <5>1, <5>2, <5>3 DEF Reaches
            <4>2. pend'[r].to \cup pend'[r].retry # {} => pend'[r].ev = told
                BY <4>1
            <4> QED
                BY <1>11, <1>13, <3>1, <4>1, <4>2
        <3>2. CASE x # r
            <4>1. pend'[x] = pend[x]
                BY <1>13, <3>2
            <4> QED
                BY <4>1 DEF IInv, Deliveries
        <3> QED
            BY <3>1, <3>2
    <2> QED
        BY <1>14, <2>1 DEF IInv, Deliveries, Reaches
<1>26. DoneCarriesResult'
    BY <1>14 DEF IInv, DoneCarriesResult
<1>27. ConnectionIsServed'
    BY <1>1, <1>9, <1>14, <1>21 DEF IInv, ConnectionIsServed
<1> QED
    BY <1>18, <1>19, <1>20, <1>24, <1>25, <1>26, <1>27, HubKeeps

\* A frame of run r reaches the hub: refused, a start, or a later one.
LEMMA PublishKeeps ==
    ASSUME IInv, NEW r \in Runs, Publish(r), UNCHANGED <<task, run>>
    PROVE  IInv'
<1>1. CASE ~Accepts(Ensured, Head(sender[r].q))
    <2>1. /\ sender[r].q # <<>> /\ sender' = [sender EXCEPT ![r].q = Tail(@)]
          /\ hub' = Ensured /\ UNCHANGED <<pend, timers, conn>>
        BY <1>1 DEF Publish
    <2> QED
        BY <1>1, <2>1, RefusedKeeps
<1>2. CASE Accepts(Ensured, Head(sender[r].q)) /\ Head(sender[r].q).type = "start"
    BY <1>2, StartKeeps
<1>3. CASE Accepts(Ensured, Head(sender[r].q)) /\ Head(sender[r].q).type # "start"
    BY <1>3, AcceptKeeps
<1> QED
    BY <1>1, <1>2, <1>3

\* One step of the way to the browsers.
LEMMA StreamStepKeeps ==
    ASSUME IInv, StreamStep
    PROVE  IInv'
<1>1. UNCHANGED <<task, run>> /\ HubNext
    BY DEF StreamStep
<1>2. ASSUME NEW r \in Runs, SenderFails(r) \/ Publish(r)
      PROVE  IInv'
    BY <1>1, <1>2, SenderFailsKeeps, PublishKeeps
<1>3. ASSUME NEW r \in Runs, NEW c \in Conns, Deliver(r, c) \/ DeliverAgain(r, c)
      PROVE  IInv'
    BY <1>1, <1>3, DeliverKeeps, DeliverAgainKeeps
<1>4. ASSUME NEW t \in timers.armed \cup timers.fired, TimerFires(t) \/ CleanUp(t)
      PROVE  IInv'
    BY <1>1, <1>4, TimerFiresKeeps, CleanUpKeeps
<1>5. ASSUME NEW c \in Conns, Subscribe(c) \/ Read(c) \/ Leave(c)
      PROVE  IInv'
    BY <1>1, <1>5, SubscribeKeeps, ReadKeeps, LeaveKeeps
<1> QED
    BY <1>1, <1>2, <1>3, <1>4, <1>5 DEF HubNext

\* The steps that touch neither a run nor the hub.
LEMMA ElsewhereKeeps ==
    ASSUME IInv, FetchStep \/ Abandon \/ Requeue \/ Regenerate \/ UNCHANGED vars
    PROVE  IInv'
<1>1. task \in TaskRows
    BY DEF IInv, TypeOK, TaskRows
<1>2. UNCHANGED <<run, sender, pend, hub, timers, conn>>
    BY DEF FetchStep, Abandon, Requeue, Regenerate, vars, hubVars, SendsNothing, Keep
<1>3. task' \in TaskRows
    <2>1. CASE FetchStep \/ UNCHANGED vars
        BY <1>1, <2>1 DEF FetchStep, vars
    <2>2. CASE Abandon
        BY <1>1, <2>2 DEF Abandon, TaskRows
    <2>3. CASE Requeue
        BY <1>1, <2>3 DEF Requeue, TaskRows
    <2>4. CASE Regenerate
        BY <1>1, <2>4 DEF Regenerate, TaskRows
    <2> QED
        BY <2>1, <2>2, <2>3, <2>4
<1> QED
    BY <1>2, <1>3, OtherKeeps

LEMMA NextStep ==
    ASSUME IInv, [Next]_vars
    PROVE  IInv'
<1>1. ASSUME NEW r \in Runs, RunStep(r)
      PROVE  IInv'
    BY <1>1, EarlyKeeps, StreamKeeps, CallKeeps, LateKeeps DEF RunStep
<1>2. CASE StreamStep
    BY <1>2, StreamStepKeeps
<1>3. CASE PrepareStream
    BY <1>3, PrepareKeeps
<1>4. CASE FetchStep \/ Abandon \/ Requeue \/ Regenerate \/ UNCHANGED vars
    BY <1>4, ElsewhereKeeps
<1> QED
    BY <1>1, <1>2, <1>3, <1>4 DEF Next

\* Nothing has been said yet.
LEMMA InitHolds == Init => IInv
<1> SUFFICES ASSUME Init
             PROVE  IInv
    OBVIOUS
<1>1. /\ task \in [kind : Kinds, status : {"pending"}, armed : {TRUE}, requeue : {FALSE},
                  scheduled : BOOLEAN]
      /\ run = [r \in Runs |-> NewRun]
      /\ sender = [r \in Runs |-> [open |-> FALSE, q |-> <<>>]]
      /\ pend = [r \in Runs |-> NoDelivery] /\ hub = NoEntry
      /\ timers = [armed |-> {}, fired |-> {}]
      /\ conn = [c \in Conns |-> [at |-> "off", ch |-> <<>>, shown |-> <<>>, told |-> "nothing",
                                  by |-> NoRun, knows |-> NoRun, barred |-> {}, lostEnd |-> FALSE]]
    BY DEF Init, InitHub
<1>2. NewRun \in RunState /\ NewRun.at = "unclaimed" /\ NewRun.answers = {}
    BY DEF NewRun, RunState, Stages
<1>3. <<>> \in Texts /\ <<>> \in Seq(Frames)
    BY DEF Texts
<1>4. NoEntry \in Entry /\ NoEntry.active = NoRun /\ NoEntry.barred = {} /\ NoEntry.clients = {}
      /\ NoEntry.awaiting = FALSE /\ NoEntry.snap = <<>>
    BY <1>3 DEF NoEntry, Entry
<1>5. NoDelivery \in Pending /\ NoDelivery.to = {} /\ NoDelivery.retry = {}
    BY NoDeliveryType DEF NoDelivery
<1>6. \A r \in Runs : r # NoRun
    BY HubAssumption DEF Runs, NoRun
<1>7. \A c \in Conns : /\ conn[c] \in Connection /\ conn[c].at = "off" /\ conn[c].ch = <<>>
                       /\ conn[c].told = "nothing" /\ conn[c].knows = NoRun
    BY <1>1, <1>3 DEF Connection
<1>8. TypeOK
    <2>1. task \in [kind : Kinds, status : {"pending", "processing", "completed", "failed"},
                    armed : BOOLEAN, requeue : BOOLEAN, scheduled : BOOLEAN]
        BY <1>1
    <2>2. sender \in [Runs -> Sender] /\ timers \in [armed : SUBSET Timers, fired : SUBSET Timers]
        BY <1>1, <1>3 DEF Sender
    <2>3. conn \in [Conns -> Connection]
        BY <1>1, <1>7
    <2> QED
        BY <1>1, <1>2, <1>4, <1>5, <2>1, <2>2, <2>3 DEF TypeOK, HubTypeOK
<1>9. Attempts
    BY <1>1, <1>2 DEF Attempts
<1>10. Queues
    BY <1>1, <1>2, <1>3 DEF Queues, Queue, InOrder, Unstarted
<1>11. AllTimers = {}
    BY <1>1 DEF AllTimers
<1>12. Heard
    BY <1>1, <1>4, <1>5, <1>6, <1>7, <1>11 DEF Heard
<1>13. EntryKept
    BY <1>1, <1>4, <1>11 DEF EntryKept
<1>14. Deliveries
    BY <1>1, <1>5, <1>7 DEF Deliveries
<1>15. DoneCarriesResult /\ ConnectionIsServed
    BY <1>7 DEF DoneCarriesResult, ConnectionIsServed
<1> QED
    BY <1>8, <1>9, <1>10, <1>12, <1>13, <1>14, <1>15 DEF IInv

LEMMA Invariant == Spec => []IInv
<1> QED
    BY InitHolds, NextStep, PTL DEF Spec

-----------------------------------------------------------------------------

\* Every reachable state has its type.
THEOREM TypeCorrect == Spec => []TypeOK
<1>1. IInv => TypeOK
    BY DEF IInv
<1> QED
    BY <1>1, Invariant, PTL

\* However many models there are and however often each is tried, what a run streams comes
\* from one attempt (client.go:276-336, fallback.go:120-207).
THEOREM AnswerIsOne == Spec => []OneAnswer
<1>1. IInv => OneAnswer
    <2> SUFFICES ASSUME IInv, NEW r \in Runs
                 PROVE  Cardinality(run[r].answers) <= 1
        BY DEF OneAnswer
    <2> DEFINE one == {<<run[r].model, run[r].attempt>>}
    <2>1. run[r].answers \subseteq one
        BY DEF IInv, Attempts
    <2>2. IsFiniteSet(one) /\ Cardinality(one) = 1
        BY FS_Singleton
    <2> HIDE DEF one
    <2>3. IsFiniteSet(run[r].answers) /\ Cardinality(run[r].answers) <= Cardinality(one)
        BY <2>1, <2>2, FS_Subset
    <2> QED
        BY <2>2, <2>3
<1> QED
    BY <1>1, Invariant, PTL

\* Whatever buffers, timers and publishers did to the frames, a browser that knew the run and
\* is told it is done shows what was persisted (hub.go:108-200).
THEOREM DoneShowsResult == Spec => []DoneCarriesResult
<1>1. IInv => DoneCarriesResult
    BY DEF IInv
<1> QED
    BY <1>1, Invariant, PTL

\* An open connection is served, is about to be told the end, or is the one that two
\* publishers met in (hub.go:53-106, 179-200, 234-260).
THEOREM OpenIsServed == Spec => []ConnectionIsServed
<1>1. IInv => ConnectionIsServed
    BY DEF IInv
<1> QED
    BY <1>1, Invariant, PTL

\* Nothing of a run the entry had heard of when it was prepared is shown by it or sent to who
\* subscribed since (hub.go:51-71, 108-133).
THEOREM RetiredIsSilent == Spec => []RetiredStaysSilent
<1>1. IInv => RetiredStaysSilent
    <2> SUFFICES ASSUME IInv
                 PROVE  RetiredStaysSilent
        OBVIOUS
    <2>1. \A i \in 1..Len(hub.snap) : hub.snap[i].run \notin hub.barred
        BY DEF IInv, EntryKept
    <2>2. ASSUME NEW c \in Conns, NEW i \in 1..ClientBuffer, i <= Len(conn[c].ch)
          PROVE  conn[c].ch[i].run \notin conn[c].barred
        <3>1. conn[c].ch \in Seq(Frames)
            BY DEF IInv, TypeOK, HubTypeOK, Connection
        <3>2. i \in 1..Len(conn[c].ch)
            <4> DEFINE n == Len(conn[c].ch)
            <4>1. n \in Nat /\ ClientBuffer \in Nat
                BY <3>1, HubAssumption
            <4> HIDE DEF n
            <4>2. i \in 1..ClientBuffer /\ i <= n
                BY <2>2 DEF n
            <4>3. i \in 1..n
                BY ONLY <4>1, <4>2
            <4> QED
                BY <4>3 DEF n
        <3> QED
            BY <3>2 DEF IInv, Deliveries, Reaches
    <2> QED
        BY <2>1, <2>2 DEF RetiredStaysSilent
<1> QED
    BY <1>1, Invariant, PTL

-----------------------------------------------------------------------------
(* The fetch: pieces of work, and how they are cut *)

\* A piece holds some channels, each once.
ChannelLists == {q \in Seq(STRING) : q # <<>> /\ \A i, j \in 1..Len(q) : q[i] = q[j] => i = j}
Work == [chs : ChannelLists, lo : Nat, hi : Nat]
Outcomes == [channels : SUBSET STRING, lo : Nat, hi : Nat]

Elements(q) == {q[i] : i \in 1..Len(q)}

LEMMA CandidatesType ==
    /\ ChannelSeq \in ChannelLists /\ Len(ChannelSeq) \in Nat /\ Len(ChannelSeq) > 0
    /\ Fetch!Channels = Elements(ChannelSeq)
<1>1. /\ ChannelSeq \in Seq(STRING) /\ ChannelSeq # <<>>
      /\ \A i, j \in 1..Len(ChannelSeq) : ChannelSeq[i] = ChannelSeq[j] => i = j
    BY FetchAssumption DEF Fetch!Setting
<1>2. Fetch!Channels = Elements(ChannelSeq)
    BY DEF Fetch!Channels, Fetch!ChannelsOf, Fetch!Piece, Elements
<1> QED
    BY <1>1, <1>2 DEF ChannelLists

\* A stretch of a list of channels is one.
LEMMA Stretch ==
    ASSUME NEW q \in ChannelLists, NEW m \in Nat, NEW n \in Nat, 1 <= m, m <= n, n <= Len(q)
    PROVE  /\ SubSeq(q, m, n) \in ChannelLists
           /\ Elements(SubSeq(q, m, n)) = {q[i] : i \in m..n}
<1> DEFINE s == SubSeq(q, m, n)
<1>1. q \in Seq(STRING) /\ Len(q) \in Nat
    BY DEF ChannelLists
<1>2. /\ s \in Seq(STRING) /\ Len(s) = n - m + 1
      /\ \A i \in 1..(n - m + 1) : /\ s[i] = q[i + m - 1]
                                   /\ i + m - 1 \in m..n /\ i + m - 1 \in 1..Len(q)
  <2>1. \A i \in 1..(n - m + 1) : i + m - 1 \in m..n /\ i + m - 1 \in 1..Len(q)
      BY <1>1
  <2>2. s \in Seq(STRING) /\ Len(s) = n - m + 1
      BY <1>1, SubSeqProperties
  <2>3. \A i \in 1..(n - m + 1) : s[i] = q[i + m - 1]
      BY <1>1, SubSeqProperties
  <2> QED
      BY <2>1, <2>2, <2>3
<1>3. s # <<>>
    BY <1>2
<1> HIDE DEF s
<1>4. ASSUME NEW i \in 1..Len(s), NEW j \in 1..Len(s), s[i] = s[j] PROVE i = j
  <2>1. /\ i + m - 1 \in 1..Len(q) /\ j + m - 1 \in 1..Len(q)
        /\ q[i + m - 1] = q[j + m - 1]
      BY <1>1, <1>2, <1>4
  <2>2. i + m - 1 = j + m - 1
      BY <2>1 DEF ChannelLists
  <2> QED
      BY <2>2
<1>5. Elements(s) = {q[i] : i \in m..n}
  <2>1. ASSUME NEW i \in 1..Len(s) PROVE \E k \in m..n : s[i] = q[k]
    <3>1. i + m - 1 \in m..n /\ s[i] = q[i + m - 1]
        BY <1>2
    <3> QED
        BY <3>1
  <2>2. ASSUME NEW k \in m..n PROVE \E i \in 1..Len(s) : s[i] = q[k]
    <3>1. k - m + 1 \in 1..(n - m + 1) /\ (k - m + 1) + m - 1 = k
        OBVIOUS
    <3> QED
        BY <3>1, <1>2
  <2>3. Elements(s) = {s[i] : i \in 1..Len(s)}
      BY DEF Elements
  <2>4. Elements(s) \subseteq {q[i] : i \in m..n}
      BY <2>1, <2>3
  <2>5. {q[i] : i \in m..n} \subseteq Elements(s)
      BY <2>2, <2>3
  <2> QED
      BY <2>4, <2>5
<1> QED
    BY <1>2, <1>3, <1>4, <1>5 DEF s, ChannelLists

LEMMA Product ==
    ASSUME NEW a \in Nat, NEW b \in Nat, NEW k \in Nat
    PROVE  a * k \in Nat /\ (a <= b => a * k <= b * k)
OBVIOUS

LEMMA Quotient ==
    ASSUME NEW a \in Nat, NEW k \in Nat \ {0}
    PROVE  a \div k \in Nat /\ (a \div k) * k <= a /\ a < (a \div k) * k + k
OBVIOUS

\* Batches of one size: where each begins and ends, and that they leave no place out.
LEMMA Cutting ==
    ASSUME NEW n \in Nat \ {0}, NEW k \in Nat \ {0}
    PROVE  /\ (n + k - 1) \div k \in Nat
           /\ \A b \in 1..((n + k - 1) \div k) :
                 /\ (b - 1) * k \in Nat /\ b * k \in Nat /\ b * k = (b - 1) * k + k
                 /\ (b - 1) * k + 1 <= n
           /\ \A i \in 1..n : \E b \in 1..((n + k - 1) \div k) :
                 (b - 1) * k + 1 <= i /\ i <= b * k
<1> DEFINE m == (n + k - 1) \div k
<1>1. n + k - 1 \in Nat
    OBVIOUS
<1>2. m \in Nat /\ m * k <= n + k - 1 /\ n + k - 1 < m * k + k
    BY <1>1, Quotient
<1> HIDE DEF m
<1>3. ASSUME NEW b \in 1..m
      PROVE  /\ (b - 1) * k \in Nat /\ b * k \in Nat /\ b * k = (b - 1) * k + k
             /\ (b - 1) * k + 1 <= n
  <2>1. b \in Nat /\ b - 1 \in Nat /\ b <= m
      BY <1>2
  <2>2. (b - 1) * k \in Nat /\ b * k \in Nat /\ b * k <= m * k
      BY <1>2, <2>1, Product
  <2>3. b * k = (b - 1) * k + k
      BY <2>1
  <2> QED
      BY <1>2, <2>2, <2>3
<1>4. ASSUME NEW i \in 1..n
      PROVE  \E b \in 1..m : (b - 1) * k + 1 <= i /\ i <= b * k
  <2> DEFINE b == (i - 1) \div k
  <2>1. b \in Nat /\ b * k <= i - 1 /\ i - 1 < b * k + k
      BY Quotient
  <2> HIDE DEF b
  <2>2. (b + 1) * k = b * k + k /\ b * k \in Nat
      BY <2>1, Product
  <2>3. b + 1 <= m
    <3>1. SUFFICES ASSUME m <= b PROVE FALSE
        BY <1>2, <2>1
    <3>2. m * k <= b * k /\ m * k \in Nat
        BY <1>2, <2>1, <3>1, Product
    <3> QED
        BY <1>2, <2>1, <2>2, <3>2
  <2>4. b + 1 \in 1..m /\ (b + 1) - 1 = b
      BY <1>2, <2>1, <2>3
  <2>5. ((b + 1) - 1) * k + 1 <= i /\ i <= (b + 1) * k
      BY <2>1, <2>2, <2>4
  <2> QED
      BY <2>4, <2>5
<1> QED
    BY <1>2, <1>3, <1>4 DEF m

\* No place is in two batches.
LEMMA Apart ==
    ASSUME NEW k \in Nat \ {0}, NEW a \in Nat \ {0}, NEW b \in Nat \ {0}, NEW i \in Nat,
           (a - 1) * k + 1 <= i, i <= a * k, (b - 1) * k + 1 <= i, i <= b * k
    PROVE  a = b
<1>1. ASSUME NEW x \in Nat \ {0}, NEW y \in Nat \ {0}, x < y,
             (y - 1) * k + 1 <= i, i <= x * k
      PROVE  FALSE
  <2>1. x * k <= (y - 1) * k /\ x * k \in Nat /\ (y - 1) * k \in Nat
      BY <1>1, Product
  <2> QED
      BY <1>1, <2>1
<1> QED
    BY <1>1

\* The batches share out the candidates.
LEMMA ChunksOf ==
    ASSUME NEW k \in Nat \ {0}
    PROVE  LET q == Fetch!chunkChannelIDs(k)
           IN  /\ q \in Seq(ChannelLists) /\ Len(q) \in Nat /\ DOMAIN q = 1..Len(q)
               /\ \A b \in 1..Len(q) : Elements(q[b]) \subseteq Elements(ChannelSeq)
               /\ \A c \in Elements(ChannelSeq) : \E b \in 1..Len(q) : c \in Elements(q[b])
               /\ \A a, b \in 1..Len(q) : \A c :
                     c \in Elements(q[a]) /\ c \in Elements(q[b]) => a = b
<1> DEFINE n == Len(ChannelSeq)
           m == (n + k - 1) \div k
           q == Fetch!chunkChannelIDs(k)
           From(b) == (b - 1) * k + 1
           To(b) == IF b * k < n THEN b * k ELSE n
<1>1. n \in Nat \ {0} /\ ChannelSeq \in ChannelLists
    BY CandidatesType
<1>2. q = [b \in 1..m |-> SubSeq(ChannelSeq, From(b), To(b))]
    BY DEF Fetch!chunkChannelIDs, Fetch!Least
<1>3. /\ m \in Nat
      /\ \A b \in 1..m : /\ (b - 1) * k \in Nat /\ b * k \in Nat /\ b * k = (b - 1) * k + k
                         /\ (b - 1) * k + 1 <= n
      /\ \A i \in 1..n : \E b \in 1..m : (b - 1) * k + 1 <= i /\ i <= b * k
    BY <1>1, Cutting
<1> HIDE DEF n, m, q
<1>4. ASSUME NEW b \in 1..m
      PROVE  /\ From(b) \in Nat /\ To(b) \in Nat /\ 1 <= From(b) /\ From(b) <= To(b) /\ To(b) <= n
             /\ To(b) <= b * k
    BY <1>1, <1>3
<1> HIDE DEF From, To
<1>5. ASSUME NEW b \in 1..m
      PROVE  q[b] \in ChannelLists /\ Elements(q[b]) = {ChannelSeq[i] : i \in From(b)..To(b)}
    BY <1>1, <1>2, <1>4, Stretch DEF n
<1>6. q \in Seq(ChannelLists) /\ Len(q) = m /\ DOMAIN q = 1..m
    BY <1>2, <1>3, <1>5
<1>7. ASSUME NEW b \in 1..m PROVE Elements(q[b]) \subseteq Elements(ChannelSeq)
  <2>1. \A i \in From(b)..To(b) : i \in 1..n
      BY <1>1, <1>4
  <2>2. Elements(ChannelSeq) = {ChannelSeq[i] : i \in 1..n}
      BY DEF Elements, n
  <2>3. Elements(q[b]) = {ChannelSeq[i] : i \in From(b)..To(b)}
      BY <1>5
  <2> QED
      BY <2>1, <2>2, <2>3
<1>8. ASSUME NEW c \in Elements(ChannelSeq) PROVE \E b \in 1..m : c \in Elements(q[b])
  <2>1. PICK i \in 1..n : c = ChannelSeq[i]
      BY <1>8 DEF Elements, n
  <2>2. PICK b \in 1..m : (b - 1) * k + 1 <= i /\ i <= b * k
      BY <1>3
  <2>3. i \in From(b)..To(b)
      BY <1>1, <1>3, <2>2 DEF From, To
  <2> QED
      BY <1>5, <2>1, <2>3
<1>9. ASSUME NEW a \in 1..m, NEW b \in 1..m, NEW c,
             c \in Elements(q[a]), c \in Elements(q[b])
      PROVE  a = b
  <2>1. PICK i \in From(a)..To(a) : c = ChannelSeq[i]
      BY <1>5, <1>9
  <2>2. PICK j \in From(b)..To(b) : c = ChannelSeq[j]
      BY <1>5, <1>9
  <2>3. i \in 1..n /\ j \in 1..n
      BY <1>1, <1>4
  <2>4. i = j
      BY <1>1, <2>1, <2>2, <2>3 DEF ChannelLists, n
  <2>5. /\ (a - 1) * k + 1 <= i /\ i <= a * k /\ (b - 1) * k + 1 <= i /\ i <= b * k
        /\ a \in Nat \ {0} /\ b \in Nat \ {0} /\ i \in Nat
    <3>1. From(a) <= i /\ i <= To(a) /\ From(b) <= i /\ i <= To(b)
        BY <1>4, <2>3, <2>4
    <3>2. From(a) = (a - 1) * k + 1 /\ From(b) = (b - 1) * k + 1
        BY DEF From
    <3>3. /\ (a - 1) * k \in Nat /\ a * k \in Nat /\ (b - 1) * k \in Nat /\ b * k \in Nat
          /\ To(a) \in Nat /\ To(b) \in Nat /\ To(a) <= a * k /\ To(b) <= b * k
        BY <1>3, <1>4
    <3>4. a \in Nat \ {0} /\ b \in Nat \ {0} /\ i \in Nat
        BY <1>1, <1>3, <2>3
    <3> QED
        BY <3>1, <3>2, <3>3, <3>4
  <2> QED
      BY <2>5, Apart
<1> QED
    BY <1>3, <1>6, <1>7, <1>8, <1>9 DEF q

Contains(p, c, s) == c \in Elements(p.chs) /\ s \in p.lo .. p.hi

LEMMA Half ==
    ASSUME NEW n \in Nat, n > 1
    PROVE  n \div 2 \in Nat /\ 1 <= n \div 2 /\ n \div 2 < n
OBVIOUS

LEMMA Middle ==
    ASSUME NEW lo \in Nat, NEW hi \in Nat, lo < hi
    PROVE  /\ lo + (hi - lo) \div 2 \in Nat
           /\ \A s \in Nat :
                 /\ s \in lo .. hi <=> \/ s \in lo .. (lo + (hi - lo) \div 2)
                                      \/ s \in (lo + (hi - lo) \div 2 + 1) .. hi
                 /\ ~(/\ s \in lo .. (lo + (hi - lo) \div 2)
                      /\ s \in (lo + (hi - lo) \div 2 + 1) .. hi)
<1> DEFINE h == (hi - lo) \div 2
<1>1. hi - lo \in Nat /\ hi - lo > 0
    OBVIOUS
<1>2. h \in Nat /\ h < hi - lo
    BY <1>1
<1> HIDE DEF h
<1> QED
    BY <1>2 DEF h

\* Halving shares out what a piece holds.
LEMMA HalvesShare ==
    ASSUME NEW p \in Work, ~(Len(p.chs) = 1 /\ p.hi - p.lo <= MinWindow)
    PROVE  \E x, y \in Work :
              /\ Fetch!Split(p) = <<x, y>>
              /\ Elements(x.chs) \subseteq Elements(p.chs) /\ Elements(y.chs) \subseteq Elements(p.chs)
              /\ \A c : \A s \in Nat : /\ Contains(p, c, s) <=> Contains(x, c, s) \/ Contains(y, c, s)
                                       /\ ~(Contains(x, c, s) /\ Contains(y, c, s))
<1>1. /\ p.chs \in ChannelLists /\ p.lo \in Nat /\ p.hi \in Nat /\ p.chs \in Seq(STRING)
      /\ Len(p.chs) \in Nat /\ Len(p.chs) > 0
    BY DEF Work, ChannelLists
<1>2. MinWindow \in Nat
    BY FetchAssumption DEF Fetch!Setting
<1>3. CASE Len(p.chs) > 1
  <2> DEFINE n == Len(p.chs)
             h == n \div 2
             x == Fetch!Piece(SubSeq(p.chs, 1, h), p.lo, p.hi)
             y == Fetch!Piece(SubSeq(p.chs, h + 1, n), p.lo, p.hi)
  <2>1. Fetch!Split(p) = <<x, y>>
      BY <1>3 DEF Fetch!Split, Fetch!HalfChannels
  <2>2. h \in Nat /\ 1 <= h /\ h < n /\ n \in Nat
      BY <1>1, <1>3, Half
  <2> HIDE DEF h, n
  <2>3. /\ SubSeq(p.chs, 1, h) \in ChannelLists
        /\ Elements(SubSeq(p.chs, 1, h)) = {p.chs[i] : i \in 1..h}
        /\ SubSeq(p.chs, h + 1, n) \in ChannelLists
        /\ Elements(SubSeq(p.chs, h + 1, n)) = {p.chs[i] : i \in (h + 1)..n}
    <3>1. /\ 1 <= h /\ h <= Len(p.chs) /\ 1 <= h + 1 /\ h + 1 <= n /\ n <= Len(p.chs)
          /\ h + 1 \in Nat /\ 1 \in Nat /\ 1 <= 1
        BY <2>2 DEF n
    <3>2. /\ SubSeq(p.chs, 1, h) \in ChannelLists
          /\ Elements(SubSeq(p.chs, 1, h)) = {p.chs[i] : i \in 1..h}
        BY <1>1, <2>2, <3>1, Stretch, Zenon
    <3>3. /\ SubSeq(p.chs, h + 1, n) \in ChannelLists
          /\ Elements(SubSeq(p.chs, h + 1, n)) = {p.chs[i] : i \in (h + 1)..n}
        BY <1>1, <2>2, <3>1, Stretch
    <3> QED
        BY <3>2, <3>3
  <2>4. /\ x \in Work /\ y \in Work
        /\ x.chs = SubSeq(p.chs, 1, h) /\ y.chs = SubSeq(p.chs, h + 1, n)
        /\ x.lo = p.lo /\ x.hi = p.hi /\ y.lo = p.lo /\ y.hi = p.hi
      BY <1>1, <2>3 DEF Work, Fetch!Piece
  <2> HIDE DEF x, y
  <2>5. Elements(p.chs) = {p.chs[i] : i \in 1..n}
      BY DEF Elements, n
  <2>6. /\ \A i \in 1..h : i \in 1..n
        /\ \A i \in (h + 1)..n : i \in 1..n
        /\ \A i \in 1..n : i \in 1..h \/ i \in (h + 1)..n
        /\ \A i \in 1..h, j \in (h + 1)..n : i # j
      BY <2>2
  <2>7. Elements(x.chs) \subseteq Elements(p.chs) /\ Elements(y.chs) \subseteq Elements(p.chs)
      BY <2>3, <2>4, <2>5, <2>6
  <2>8. \A c \in Elements(p.chs) : c \in Elements(x.chs) \/ c \in Elements(y.chs)
      BY <2>3, <2>4, <2>5, <2>6
  <2>9. ASSUME NEW c \in Elements(x.chs), c \in Elements(y.chs) PROVE FALSE
    <3>1. PICK i \in 1..h : c = p.chs[i]
        BY <2>3, <2>4
    <3>2. PICK j \in (h + 1)..n : c = p.chs[j]
        BY <2>3, <2>4, <2>9
    <3>3. i \in 1..n /\ j \in 1..n /\ i # j
        BY <2>6
    <3> QED
        BY <1>1, <3>1, <3>2, <3>3 DEF ChannelLists, n
  <2>10. \A c : \A s \in Nat : /\ Contains(p, c, s) <=> Contains(x, c, s) \/ Contains(y, c, s)
                               /\ ~(Contains(x, c, s) /\ Contains(y, c, s))
      BY <2>4, <2>7, <2>8, <2>9 DEF Contains
  <2> QED
      BY <2>1, <2>4, <2>7, <2>10
<1>4. CASE Len(p.chs) = 1
  <2> DEFINE mid == p.lo + (p.hi - p.lo) \div 2
             x == Fetch!Piece(p.chs, p.lo, mid)
             y == Fetch!Piece(p.chs, mid + 1, p.hi)
  <2>1. Fetch!Split(p) = <<x, y>>
      BY <1>4 DEF Fetch!Split, Fetch!WindowHalves
  <2>2. p.lo < p.hi
      BY <1>1, <1>2, <1>4
  <2>3. /\ mid \in Nat
        /\ \A s \in Nat : /\ s \in p.lo .. p.hi <=> s \in p.lo .. mid \/ s \in (mid + 1) .. p.hi
                          /\ ~(s \in p.lo .. mid /\ s \in (mid + 1) .. p.hi)
      BY <1>1, <2>2, Middle
  <2> HIDE DEF mid
  <2>4. /\ x \in Work /\ y \in Work /\ x.chs = p.chs /\ y.chs = p.chs
        /\ x.lo = p.lo /\ x.hi = mid /\ y.lo = mid + 1 /\ y.hi = p.hi
      BY <1>1, <2>3 DEF Work, Fetch!Piece
  <2> HIDE DEF x, y
  <2>6. \A c : \A s \in Nat : /\ Contains(p, c, s) <=> Contains(x, c, s) \/ Contains(y, c, s)
                              /\ ~(Contains(x, c, s) /\ Contains(y, c, s))
      BY <2>3, <2>4 DEF Contains
  <2> QED
      BY <2>1, <2>4, <2>6
<1>5. Len(p.chs) > 1 \/ Len(p.chs) = 1
  <2>1. \A n \in Nat : n > 0 => n > 1 \/ n = 1
      OBVIOUS
  <2> QED
      BY <1>1, <2>1, Zenon
<1> QED
    BY <1>3, <1>4, <1>5, Zenon

\* The places of a stack whose piece holds a second of a channel.
Places(q, c, s) == {i \in 1..Len(q) : Contains(q[i], c, s)}

LEMMA TakePiece ==
    ASSUME NEW q \in Seq(Work), q # <<>>, NEW c, NEW s
    PROVE  /\ Tail(q) \in Seq(Work) /\ Head(q) \in Work /\ Head(q) = q[1] /\ 1 \in 1..Len(q)
           /\ \A i \in 1..Len(Tail(q)) : i + 1 \in 1..Len(q) /\ Tail(q)[i] = q[i + 1]
           /\ Places(q, c, s) = {} => Places(Tail(q), c, s) = {} /\ ~Contains(Head(q), c, s)
           /\ \A i : Places(q, c, s) = {i} =>
                 \/ Contains(Head(q), c, s) /\ Places(Tail(q), c, s) = {}
                 \/ ~Contains(Head(q), c, s) /\ \E j : Places(Tail(q), c, s) = {j}
<1> DEFINE t == Tail(q)
<1>1. /\ t \in Seq(Work) /\ Head(q) = q[1] /\ Len(q) \in Nat /\ Len(q) > 0
      /\ Len(t) = Len(q) - 1 /\ \A i \in 1..(Len(q) - 1) : t[i] = q[i + 1]
    OBVIOUS
<1> HIDE DEF t
<1>2. /\ 1 \in 1..Len(q) /\ q[1] \in Work
      /\ \A i \in 1..Len(t) : i + 1 \in 1..Len(q) /\ t[i] = q[i + 1]
      /\ \A i \in 1..Len(q) : i = 1 \/ (i - 1 \in 1..Len(t) /\ t[i - 1] = q[i])
    BY <1>1
<1>3. /\ 1 \in Places(q, c, s) <=> Contains(q[1], c, s)
      /\ \A i \in Places(t, c, s) : i \in Int /\ i + 1 \in Places(q, c, s) /\ i + 1 # 1
      /\ \A i \in Places(q, c, s) : i = 1 \/ (i - 1 \in Places(t, c, s) /\ i \in Int)
    BY <1>1, <1>2 DEF Places
<1>4. Places(q, c, s) = {} => Places(t, c, s) = {} /\ ~Contains(q[1], c, s)
    BY <1>3
<1>5. ASSUME NEW i, Places(q, c, s) = {i}
      PROVE  \/ Contains(q[1], c, s) /\ Places(t, c, s) = {}
             \/ ~Contains(q[1], c, s) /\ \E j : Places(t, c, s) = {j}
  <2>1. CASE i = 1
      BY <1>3, <1>5, <2>1
  <2>2. CASE i # 1
    <3>1. ~Contains(q[1], c, s) /\ i \in Int /\ i - 1 \in Places(t, c, s)
        BY <1>3, <1>5, <2>2
    <3>2. ASSUME NEW j \in Places(t, c, s) PROVE j = i - 1
      <4>1. j \in Int /\ j + 1 = i
          BY <1>3, <1>5
      <4> QED
          BY <4>1
    <3>3. Places(t, c, s) = {i - 1}
        BY <3>1, <3>2
    <3> QED
        BY <3>1, <3>3
  <2> QED
      BY <2>1, <2>2
<1> QED
    BY <1>1, <1>2, <1>4, <1>5 DEF t

\* A stack whose first piece is replaced by its halves.
LEMMA CutPiece ==
    ASSUME NEW q \in Seq(Work), q # <<>>, NEW x \in Work, NEW y \in Work, NEW c, NEW s,
           Contains(Head(q), c, s) <=> Contains(x, c, s) \/ Contains(y, c, s),
           ~(Contains(x, c, s) /\ Contains(y, c, s))
    PROVE  /\ <<x, y>> \o Tail(q) \in Seq(Work)
           /\ \A i \in 1..Len(<<x, y>> \o Tail(q)) :
                 \/ (<<x, y>> \o Tail(q))[i] \in {x, y}
                 \/ \E j \in 1..Len(q) : (<<x, y>> \o Tail(q))[i] = q[j]
           /\ Places(q, c, s) = {} => Places(<<x, y>> \o Tail(q), c, s) = {}
           /\ \A i : Places(q, c, s) = {i} => \E j : Places(<<x, y>> \o Tail(q), c, s) = {j}
<1> DEFINE t == Tail(q)
           w == <<x, y>> \o t
<1>1. /\ t \in Seq(Work) /\ Len(t) \in Nat
      /\ \A i \in 1..Len(t) : i + 1 \in 1..Len(q) /\ t[i] = q[i + 1]
      /\ Places(q, c, s) = {} => Places(t, c, s) = {} /\ ~Contains(Head(q), c, s)
      /\ \A i : Places(q, c, s) = {i} =>
            \/ Contains(Head(q), c, s) /\ Places(t, c, s) = {}
            \/ ~Contains(Head(q), c, s) /\ \E j : Places(t, c, s) = {j}
  <2>1. t \in Seq(Work) => Len(t) \in Nat
      OBVIOUS
  <2> HIDE DEF t
  <2> QED
      BY <2>1, TakePiece DEF t
<1> HIDE DEF t
<1>2. /\ w \in Seq(Work) /\ Len(w) = Len(t) + 2
      /\ w[1] = x /\ w[2] = y /\ \A i \in 1..Len(t) : w[i + 2] = t[i]
  <2>1. <<x, y>> \in Seq(Work) /\ Len(<<x, y>>) = 2 /\ <<x, y>>[1] = x /\ <<x, y>>[2] = y
      OBVIOUS
  <2>2. /\ w \in Seq(Work) /\ Len(w) = 2 + Len(t)
        /\ \A i \in 1 .. 2 + Len(t) : w[i] = IF i <= 2 THEN <<x, y>>[i] ELSE t[i - 2]
      BY <1>1, <2>1, ConcatProperties
  <2> HIDE DEF w
  <2>3. w[1] = x /\ w[2] = y
      BY <1>1, <2>1, <2>2
  <2>4. ASSUME NEW i \in 1..Len(t) PROVE w[i + 2] = t[i]
    <3>1. i + 2 \in 1 .. 2 + Len(t) /\ ~(i + 2 <= 2) /\ (i + 2) - 2 = i
        BY <1>1
    <3> QED
        BY <2>2, <3>1
  <2> QED
      BY <2>2, <2>3, <2>4, <1>1
<1> HIDE DEF w
<1>3. /\ 1 \in 1..Len(w) /\ 2 \in 1..Len(w) /\ \A i \in 1..Len(t) : i + 2 \in 1..Len(w)
      /\ \A i \in 1..Len(w) : i = 1 \/ i = 2 \/ (i - 2 \in 1..Len(t) /\ w[i] = t[i - 2])
  <2>1. ASSUME NEW i \in 1..Len(w), i # 1, i # 2 PROVE i - 2 \in 1..Len(t) /\ w[i] = t[i - 2]
    <3>1. i - 2 \in 1..Len(t) /\ (i - 2) + 2 = i
        BY <1>1, <1>2, <2>1
    <3> QED
        BY <1>2, <3>1
  <2>2. 1 \in 1..Len(w) /\ 2 \in 1..Len(w) /\ \A i \in 1..Len(t) : i + 2 \in 1..Len(w)
      BY <1>1, <1>2
  <2> QED
      BY <2>1, <2>2
<1>4. /\ 1 \in Places(w, c, s) <=> Contains(x, c, s)
      /\ 2 \in Places(w, c, s) <=> Contains(y, c, s)
      /\ \A i \in Places(t, c, s) : i \in Int /\ i + 2 \in Places(w, c, s) /\ i + 2 # 1 /\ i + 2 # 2
      /\ \A i \in Places(w, c, s) : i = 1 \/ i = 2 \/ (i - 2 \in Places(t, c, s) /\ i \in Int)
    BY <1>2, <1>3 DEF Places
<1>5. Places(q, c, s) = {} => Places(w, c, s) = {}
    BY <1>1, <1>4
<1>6. ASSUME NEW i, Places(q, c, s) = {i} PROVE \E j : Places(w, c, s) = {j}
  <2>1. CASE Contains(Head(q), c, s) /\ Places(t, c, s) = {}
    <3>1. CASE Contains(x, c, s)
      <4>1. Places(w, c, s) = {1}
          BY <1>4, <2>1, <3>1
      <4> QED
          BY <4>1
    <3>2. CASE Contains(y, c, s)
      <4>1. Places(w, c, s) = {2}
          BY <1>4, <2>1, <3>2
      <4> QED
          BY <4>1
    <3> QED
        BY <2>1, <3>1, <3>2
  <2>2. CASE ~Contains(Head(q), c, s) /\ \E j : Places(t, c, s) = {j}
    <3>1. PICK j : Places(t, c, s) = {j}
        BY <2>2
    <3>2. j \in Int /\ j + 2 \in Places(w, c, s)
        BY <1>4, <3>1
    <3>3. ASSUME NEW k \in Places(w, c, s) PROVE k = j + 2
      <4>1. k \in Int /\ k - 2 = j
          BY <1>4, <2>2, <3>1
      <4> QED
          BY <3>2, <4>1
    <3>4. Places(w, c, s) = {j + 2}
        BY <3>2, <3>3
    <3> QED
        BY <3>4
  <2> QED
      BY <1>1, <1>6, <2>1, <2>2
<1>7. ASSUME NEW i \in 1..Len(w) PROVE w[i] \in {x, y} \/ \E j \in 1..Len(q) : w[i] = q[j]
  <2>1. i = 1 \/ i = 2 \/ (i - 2 \in 1..Len(t) /\ w[i] = t[i - 2])
      BY <1>3
  <2>2. ASSUME i - 2 \in 1..Len(t), w[i] = t[i - 2] PROVE \E j \in 1..Len(q) : w[i] = q[j]
      BY <1>1, <2>2
  <2> QED
      BY <1>2, <2>1, <2>2
<1> QED
    BY <1>2, <1>5, <1>6, <1>7 DEF w, t

\* The pieces after the first, and with the first one cut in two.
Rest(q) == Tail(q)
Onto(x, y, q) == <<x, y>> \o Rest(q)

LEMMA TakesPiece ==
    ASSUME NEW q \in Seq(Work), q # <<>>, NEW c, NEW s
    PROVE  /\ Rest(q) \in Seq(Work) /\ Head(q) \in Work
           /\ \A i \in 1..Len(Rest(q)) : \E j \in 1..Len(q) : Rest(q)[i] = q[j]
           /\ \E j \in 1..Len(q) : Head(q) = q[j]
           /\ Places(q, c, s) = {} => Places(Rest(q), c, s) = {} /\ ~Contains(Head(q), c, s)
           /\ \A i : Places(q, c, s) = {i} =>
                 \/ Contains(Head(q), c, s) /\ Places(Rest(q), c, s) = {}
                 \/ ~Contains(Head(q), c, s) /\ \E j : Places(Rest(q), c, s) = {j}
<1>1. /\ Tail(q) \in Seq(Work) /\ Head(q) \in Work /\ Head(q) = q[1] /\ 1 \in 1..Len(q)
      /\ \A i \in 1..Len(Tail(q)) : i + 1 \in 1..Len(q) /\ Tail(q)[i] = q[i + 1]
    BY TakePiece
<1>2. \A i \in 1..Len(Tail(q)) : \E j \in 1..Len(q) : Tail(q)[i] = q[j]
    BY <1>1
<1>3. /\ Places(q, c, s) = {} => Places(Tail(q), c, s) = {} /\ ~Contains(Head(q), c, s)
      /\ \A i : Places(q, c, s) = {i} =>
            \/ Contains(Head(q), c, s) /\ Places(Tail(q), c, s) = {}
            \/ ~Contains(Head(q), c, s) /\ \E j : Places(Tail(q), c, s) = {j}
    BY TakePiece, Zenon
<1> QED
    BY <1>1, <1>2, <1>3, Zenon DEF Rest

FromPieces(q2, q, x, y) ==
    \A i \in 1..Len(q2) : q2[i] \in {x, y} \/ \E j \in 1..Len(q) : q2[i] = q[j]
KeepsPlaces(q2, q, c, s) ==
    /\ Places(q, c, s) = {} => Places(q2, c, s) = {}
    /\ \A i : Places(q, c, s) = {i} => \E j : Places(q2, c, s) = {j}

LEMMA CutsPiece ==
    ASSUME NEW q \in Seq(Work), q # <<>>, NEW x \in Work, NEW y \in Work, NEW c, NEW s,
           Contains(Head(q), c, s) <=> Contains(x, c, s) \/ Contains(y, c, s),
           ~(Contains(x, c, s) /\ Contains(y, c, s))
    PROVE  /\ Onto(x, y, q) \in Seq(Work)
           /\ FromPieces(Onto(x, y, q), q, x, y)
           /\ KeepsPlaces(Onto(x, y, q), q, c, s)
BY CutPiece, Zenon DEF Onto, Rest, FromPieces, KeepsPlaces

-----------------------------------------------------------------------------
(* What a fetch keeps *)

Fetches == [at : {"scheduling", "waiting", "returned"}, backend : {"batch", "mysql"},
            next : Nat \ {0}, fatal : BOOLEAN, dead : BOOLEAN, result : {"none", "ok", "error"},
            live : SUBSET Work, lost : SUBSET Outcomes, cut : SUBSET Outcomes, all : SUBSET Outcomes]
Goroutines == [at : {"new", "queued", "working", "done"},
               call : {"none", "submit", "poll", "download", "download partial", "read"},
               out : SUBSET Outcomes, todo : Seq(Work)]

Batches == Fetch!BatchesOf(f.backend)
Mine(b) == Elements(Batches[b])
Given(b) == <<Fetch!Piece(Batches[b], 0, LastSecond)>>
Polls(row) == row.at = "working" /\ row.call = "poll" /\ row.todo # <<>>

\* A goroutine has all of its batch before it starts, nothing when it is over, and
\* never anything of another's.
Stack(b, row) ==
    /\ \/ row.at \in {"new", "queued"}
       \/ row.call = "read" /\ row.at = "working" /\ row.todo # <<>>
       =>
          row.out = {} /\ row.todo = Given(b)
    /\ row.at = "done" => row.out = {} /\ row.todo = <<>>
    /\ \A i \in 1..Len(row.todo) : Elements(row.todo[i].chs) \subseteq Mine(b)
    /\ \A o \in row.out : o.channels \subseteq Mine(b)

\* A second of a channel is held by one piece, or one outcome covers it.
Covering(row, known, c, s) == {o \in row.out \cup known : Fetch!Covers(o, c, s)}
Once(row, known, c, s) ==
    \/ (\E i : Places(row.todo, c, s) = {i}) /\ Covering(row, known, c, s) = {}
    \/ Places(row.todo, c, s) = {} /\ \E o : Covering(row, known, c, s) = {o}

Known == f.all \cup f.lost \cup f.cut

FetchType == f \in Fetches /\ g \in [1..Len(Batches) -> Goroutines]
Phases ==
    /\ \A b \in DOMAIN g : g[b].at = "new" <=> b >= f.next
    /\ f.at # "scheduling" => f.fatal \/ f.next > Len(g)
    /\ f.fatal => f.dead
    /\ f.result = "ok" => f.at = "returned" /\ ~f.dead
    /\ f.at = "returned" => \A b \in DOMAIN g : g[b].at \in {"new", "done"}
Submitted == \A p \in f.live : \E b \in DOMAIN g : Polls(g[b]) /\ p = Head(g[b].todo)
Shared ==
    ~f.dead => \A b \in DOMAIN g : \A c \in Mine(b), s \in 0..LastSecond : Once(g[b], Known, c, s)

FetchInv ==
    /\ FetchType /\ Phases /\ Submitted /\ Shared
    /\ \A b \in DOMAIN g : Stack(b, g[b])

LEMMA BatchLists ==
    ASSUME NEW backend \in {"batch", "mysql"}
    PROVE  LET q == Fetch!BatchesOf(backend)
           IN  /\ q \in Seq(ChannelLists) /\ Len(q) \in Nat /\ DOMAIN q = 1..Len(q)
               /\ \A b \in 1..Len(q) : q[b] \in ChannelLists
               /\ \A c \in Fetch!Channels : \E b \in 1..Len(q) : c \in Elements(q[b])
               /\ \A a, b \in 1..Len(q) : \A c :
                     c \in Elements(q[a]) /\ c \in Elements(q[b]) => a = b
<1>1. BatchSize \in Nat \ {0} /\ 1 \in Nat \ {0}
    BY FetchAssumption DEF Fetch!Setting
<1>2. PICK k \in Nat \ {0} : Fetch!BatchesOf(backend) = Fetch!chunkChannelIDs(k)
    BY <1>1 DEF Fetch!BatchesOf
<1> DEFINE q == Fetch!chunkChannelIDs(k)
<1>3. /\ q \in Seq(ChannelLists) /\ Len(q) \in Nat /\ DOMAIN q = 1..Len(q)
      /\ \A c \in Elements(ChannelSeq) : \E b \in 1..Len(q) : c \in Elements(q[b])
      /\ \A a, b \in 1..Len(q) : \A c : c \in Elements(q[a]) /\ c \in Elements(q[b]) => a = b
    BY ChunksOf
<1>4. \A b \in 1..Len(q) : q[b] \in ChannelLists
  <2> HIDE DEF q
  <2> QED
      BY <1>3
<1> QED
    BY <1>2, <1>3, <1>4, CandidatesType, Zenon

LEMMA BatchFacts ==
    ASSUME FetchType
    PROVE  /\ DOMAIN g = 1..Len(Batches) /\ Len(g) = Len(Batches) /\ Len(g) \in Nat
           /\ \A b \in DOMAIN g : /\ g[b] \in Goroutines /\ b \in Nat /\ b <= Len(g)
                                  /\ Batches[b] \in ChannelLists
           /\ \A c \in Fetch!Channels : \E b \in DOMAIN g : c \in Mine(b)
           /\ \A a, b \in DOMAIN g : \A c : c \in Mine(a) /\ c \in Mine(b) => a = b
<1>1. f.backend \in {"batch", "mysql"}
    BY DEF FetchType, Fetches
<1>2. /\ Len(Batches) \in Nat
      /\ \A b \in 1..Len(Batches) : Batches[b] \in ChannelLists
      /\ \A c \in Fetch!Channels : \E b \in 1..Len(Batches) : c \in Mine(b)
      /\ \A a, b \in 1..Len(Batches) : \A c : c \in Mine(a) /\ c \in Mine(b) => a = b
    BY <1>1, BatchLists DEF Batches, Mine
<1>3. g \in [1..Len(Batches) -> Goroutines]
    BY DEF FetchType
<1>4. DOMAIN g = 1..Len(Batches) /\ \A b \in DOMAIN g : g[b] \in Goroutines
    BY <1>3
<1>5. Len(g) = Len(Batches)
    BY <1>2, <1>3
<1> QED
    BY <1>2, <1>4, <1>5

\* What another goroutine leaves behind covers nothing of this one's.
LEMMA OnceKept ==
    ASSUME FetchType, NEW a \in DOMAIN g, NEW b \in DOMAIN g, a # b, NEW new,
           \A o \in new : o.channels \subseteq Mine(b),
           NEW c \in Mine(a), NEW s, Once(g[a], Known, c, s)
    PROVE  Once(g[a], Known \cup new, c, s)
<1>1. \A o \in new : ~Fetch!Covers(o, c, s)
    BY BatchFacts DEF Fetch!Covers
<1>2. Covering(g[a], Known \cup new, c, s) = Covering(g[a], Known, c, s)
    BY <1>1 DEF Covering
<1> QED
    BY <1>2 DEF Once

\* A step of one goroutine, which leaves new outcomes behind.
StepOf(b, row, new) ==
    /\ row \in Goroutines /\ g' = [g EXCEPT ![b] = row]
    /\ g[b].at \in {"queued", "working"} /\ row.at \in {"queued", "working", "done"}
    /\ Stack(b, row)
    /\ f' \in Fetches /\ f'.backend = f.backend /\ f'.next = f.next /\ f'.at = f.at
    /\ f'.result = f.result /\ (f'.fatal => f'.dead) /\ (f.dead => f'.dead)
    /\ f.fatal => f'.fatal
    /\ \/ f'.live \subseteq f.live /\ (Polls(g[b]) => Head(g[b].todo) \notin f'.live)
       \/ Polls(row) /\ ~Polls(g[b]) /\ f'.live = f.live \cup {Head(row.todo)}
    /\ Known' = Known \cup new /\ \A o \in new : o.channels \subseteq Mine(b)
    /\ ~f'.dead => \A c \in Mine(b), s \in 0..LastSecond : Once(row, Known \cup new, c, s)

LEMMA Worked ==
    ASSUME FetchInv, NEW b \in DOMAIN g, NEW row, NEW new, StepOf(b, row, new)
    PROVE  FetchInv'
<1> USE DEF FetchInv, StepOf
<1>1. Batches' = Batches /\ DOMAIN g' = DOMAIN g /\ g'[b] = row
      /\ \A a \in DOMAIN g : a # b => g'[a] = g[a]
    BY DEF Batches
<1>2. \A a : Mine(a)' = Mine(a) /\ Given(a)' = Given(a)
    BY <1>1 DEF Mine, Given
<1>3. FetchType'
    BY <1>1 DEF FetchType
<1>4. Len(g') = Len(g) /\ (\A a \in DOMAIN g : a \in Nat)
  <2>1. Len(Batches) \in Nat
      BY BatchFacts
  <2>2. g \in [1..Len(Batches) -> Goroutines] /\ g' \in [1..Len(Batches) -> Goroutines]
      BY <1>1, <1>3 DEF FetchType
  <2> QED
      BY <2>1, <2>2
<1>5. f.at # "returned"
    BY DEF Phases
<1>6. Phases'
    BY <1>1, <1>4, <1>5 DEF Phases
<1>7. Submitted'
  <2>1. CASE f'.live \subseteq f.live /\ (Polls(g[b]) => Head(g[b].todo) \notin f'.live)
    <3> SUFFICES ASSUME NEW p \in f'.live
                 PROVE  \E a \in DOMAIN g' : Polls(g'[a]) /\ p = Head(g'[a].todo)
        BY DEF Submitted, Polls
    <3>1. PICK a \in DOMAIN g : Polls(g[a]) /\ p = Head(g[a].todo)
        BY <2>1 DEF Submitted
    <3>2. a # b
        BY <2>1, <3>1
    <3> QED
        BY <1>1, <3>1, <3>2
  <2>2. CASE Polls(row) /\ ~Polls(g[b]) /\ f'.live = f.live \cup {Head(row.todo)}
    <3> SUFFICES ASSUME NEW p \in f'.live
                 PROVE  \E a \in DOMAIN g' : Polls(g'[a]) /\ p = Head(g'[a].todo)
        BY DEF Submitted, Polls
    <3>1. CASE p = Head(row.todo)
        BY <1>1, <2>2, <3>1
    <3>2. CASE p \in f.live
      <4>1. PICK a \in DOMAIN g : Polls(g[a]) /\ p = Head(g[a].todo)
          BY <3>2 DEF Submitted
      <4>2. a # b
          BY <2>2, <4>1
      <4> QED
          BY <1>1, <4>1, <4>2
    <3> QED
        BY <2>2, <3>1, <3>2
  <2> QED
      BY <2>1, <2>2
<1>8. Shared'
  <2> SUFFICES ASSUME ~f'.dead, NEW a \in DOMAIN g, NEW c \in Mine(a), NEW s \in 0..LastSecond
               PROVE  Once(g'[a], Known', c, s)
      BY <1>1, <1>2 DEF Shared, Once, Covering, Places, Contains, Elements, Fetch!Covers
  <2>1. CASE a = b
      BY <1>1, <2>1
  <2>2. CASE a # b
    <3>1. Once(g[a], Known, c, s)
        BY DEF Shared
    <3> QED
        BY <1>1, <2>2, <3>1, OnceKept
  <2> QED
      BY <2>1, <2>2
<1>9. \A a \in DOMAIN g' : Stack(a, g[a])'
  <2> SUFFICES ASSUME NEW a \in DOMAIN g PROVE Stack(a, g[a])'
      BY <1>1
  <2>1. Stack(a, g'[a])
      BY <1>1
  <2>2. Mine(a)' = Mine(a) /\ Given(a)' = Given(a)
      BY <1>2
  <2> QED
      BY <2>1, <2>2 DEF Stack
<1> QED
    BY <1>3, <1>6, <1>7, <1>8, <1>9 DEF FetchInv

-----------------------------------------------------------------------------
(* A piece done with, lost or cut *)

\* What an outcome of a whole piece covers, or of some of its channels.
LEMMA OutcomeFacts ==
    ASSUME NEW p \in Work, NEW channels \in SUBSET Elements(p.chs)
    PROVE  /\ Fetch!Outcome(channels, p) \in Outcomes
           /\ Fetch!Outcome(channels, p).channels = channels
           /\ Fetch!ChannelsOf(p) = Elements(p.chs)
           /\ \A c, s : Fetch!Covers(Fetch!Outcome(channels, p), c, s)
                           <=> c \in channels /\ Contains(p, c, s)
<1>1. p.lo \in Nat /\ p.hi \in Nat /\ p.chs \in Seq(STRING)
    BY DEF Work, ChannelLists
<1>2. Elements(p.chs) \subseteq STRING
    BY <1>1 DEF Elements
<1> QED
    BY <1>1, <1>2 DEF Fetch!Outcome, Outcomes, Fetch!ChannelsOf, Fetch!Covers, Contains, Elements

\* What became of a piece: each of its seconds is covered by one outcome, no other is.
OneCovers(fresh, c, s) == \E o : {x \in fresh : Fetch!Covers(x, c, s)} = {o}
SharesOut(p, fresh) ==
    \A c, s :
        /\ Contains(p, c, s) => OneCovers(fresh, c, s)
        /\ ~Contains(p, c, s) => \A x \in fresh : ~Fetch!Covers(x, c, s)

LEMMA SharesWhole ==
    ASSUME NEW p \in Work
    PROVE  SharesOut(p, {Fetch!Outcome(Elements(p.chs), p)})
<1> DEFINE o == Fetch!Outcome(Elements(p.chs), p)
<1>1. \A c, s : Fetch!Covers(o, c, s) <=> Contains(p, c, s)
    BY OutcomeFacts DEF Contains
<1> HIDE DEF o
<1> QED
    BY <1>1 DEF SharesOut, OneCovers, o

\* The outcome of some channels, if there are any.
LEMMA SomeFacts ==
    ASSUME NEW p \in Work, NEW channels \in SUBSET Elements(p.chs)
    PROVE  /\ Fetch!Some(channels, p) \in SUBSET Outcomes
           /\ \A o \in Fetch!Some(channels, p) : o.channels = channels
           /\ \A c, s : c \in channels /\ Contains(p, c, s) =>
                \E o : {x \in Fetch!Some(channels, p) : Fetch!Covers(x, c, s)} = {o}
           /\ \A c, s : ~(c \in channels /\ Contains(p, c, s)) =>
                \A x \in Fetch!Some(channels, p) : ~Fetch!Covers(x, c, s)
<1> DEFINE o == Fetch!Outcome(channels, p)
<1>1. /\ o \in Outcomes /\ o.channels = channels
      /\ \A c, s : Fetch!Covers(o, c, s) <=> c \in channels /\ Contains(p, c, s)
    BY OutcomeFacts
<1>2. Fetch!Some(channels, p) = IF channels = {} THEN {} ELSE {o}
    BY DEF Fetch!Some
<1> HIDE DEF o
<1>3. CASE channels = {}
    BY <1>2, <1>3
<1>4. CASE channels # {}
  <2>1. Fetch!Some(channels, p) = {o}
      BY <1>2, <1>4
  <2>2. \A c, s : c \in channels /\ Contains(p, c, s) =>
            {x \in {o} : Fetch!Covers(x, c, s)} = {o}
      BY <1>1
  <2> QED
      BY <1>1, <2>1, <2>2
<1> QED
    BY <1>3, <1>4

\* Channels read, given up and capped share a piece out.
LEMMA SharesThree ==
    ASSUME NEW p \in Work, NEW read \in SUBSET Elements(p.chs), NEW gone \in SUBSET Elements(p.chs),
           NEW capped \in SUBSET Elements(p.chs),
           Elements(p.chs) = read \cup gone \cup capped,
           read \cap gone = {}, read \cap capped = {}, gone \cap capped = {}
    PROVE  SharesOut(p, Fetch!Some(read, p) \cup Fetch!Some(gone, p) \cup Fetch!Some(capped, p))
<1> DEFINE R == Fetch!Some(read, p)
           G == Fetch!Some(gone, p)
           C == Fetch!Some(capped, p)
<1>1. /\ \A c, s : c \in read /\ Contains(p, c, s) =>
            \E o : {x \in R : Fetch!Covers(x, c, s)} = {o}
      /\ \A c, s : ~(c \in read /\ Contains(p, c, s)) => \A x \in R : ~Fetch!Covers(x, c, s)
    BY SomeFacts
<1>2. /\ \A c, s : c \in gone /\ Contains(p, c, s) =>
            \E o : {x \in G : Fetch!Covers(x, c, s)} = {o}
      /\ \A c, s : ~(c \in gone /\ Contains(p, c, s)) => \A x \in G : ~Fetch!Covers(x, c, s)
    BY SomeFacts
<1>3. /\ \A c, s : c \in capped /\ Contains(p, c, s) =>
            \E o : {x \in C : Fetch!Covers(x, c, s)} = {o}
      /\ \A c, s : ~(c \in capped /\ Contains(p, c, s)) => \A x \in C : ~Fetch!Covers(x, c, s)
    BY SomeFacts
<1>4. \A c, s : Contains(p, c, s) => c \in Elements(p.chs)
    BY DEF Contains
<1> HIDE DEF R, G, C
<1>5. ASSUME NEW c, NEW s, Contains(p, c, s)
      PROVE  OneCovers(R \cup G \cup C, c, s)
  <2>1. CASE c \in read
    <3>1. PICK o : {x \in R : Fetch!Covers(x, c, s)} = {o}
        BY <1>1, <1>5, <2>1
    <3>2. {x \in R \cup G \cup C : Fetch!Covers(x, c, s)} = {o}
        BY <1>2, <1>3, <2>1, <3>1
    <3> QED
        BY <3>2 DEF OneCovers
  <2>2. CASE c \in gone
    <3>1. PICK o : {x \in G : Fetch!Covers(x, c, s)} = {o}
        BY <1>2, <1>5, <2>2
    <3>2. {x \in R \cup G \cup C : Fetch!Covers(x, c, s)} = {o}
        BY <1>1, <1>3, <2>2, <3>1
    <3> QED
        BY <3>2 DEF OneCovers
  <2>3. CASE c \in capped
    <3>1. PICK o : {x \in C : Fetch!Covers(x, c, s)} = {o}
        BY <1>3, <1>5, <2>3
    <3>2. {x \in R \cup G \cup C : Fetch!Covers(x, c, s)} = {o}
        BY <1>1, <1>2, <2>3, <3>1
    <3> QED
        BY <3>2 DEF OneCovers
  <2> QED
      BY <1>4, <1>5, <2>1, <2>2, <2>3
<1>6. ASSUME NEW c, NEW s, ~Contains(p, c, s), NEW x \in R \cup G \cup C
      PROVE  ~Fetch!Covers(x, c, s)
    BY <1>1, <1>2, <1>3, <1>6
<1>7. SharesOut(p, R \cup G \cup C)
    BY <1>5, <1>6 DEF SharesOut
<1> QED
    BY <1>7 DEF R, G, C

\* A piece that is done with is accounted for by what became of it.
LEMMA OnceDone ==
    ASSUME NEW row \in Goroutines, row.todo # <<>>, NEW known, NEW row2 \in Goroutines, NEW known2,
           row2.todo = Rest(row.todo), NEW fresh, SharesOut(Head(row.todo), fresh),
           row2.out \cup known2 = row.out \cup known \cup fresh,
           NEW c, NEW s, Once(row, known, c, s)
    PROVE  Once(row2, known2, c, s)
<1> DEFINE p == Head(row.todo)
<1>1. row.todo \in Seq(Work) /\ p \in Work
    BY TakesPiece DEF Goroutines
<1>2. /\ Contains(p, c, s) => \E o : {x \in fresh : Fetch!Covers(x, c, s)} = {o}
      /\ ~Contains(p, c, s) => \A x \in fresh : ~Fetch!Covers(x, c, s)
    BY DEF SharesOut, OneCovers
<1>4. /\ Places(row.todo, c, s) = {} => Places(row2.todo, c, s) = {} /\ ~Contains(p, c, s)
      /\ \A i : Places(row.todo, c, s) = {i} =>
            \/ Contains(p, c, s) /\ Places(row2.todo, c, s) = {}
            \/ ~Contains(p, c, s) /\ \E j : Places(row2.todo, c, s) = {j}
  <2>1. /\ Places(row.todo, c, s) = {} => Places(Rest(row.todo), c, s) = {} /\ ~Contains(p, c, s)
        /\ \A i : Places(row.todo, c, s) = {i} =>
              \/ Contains(p, c, s) /\ Places(Rest(row.todo), c, s) = {}
              \/ ~Contains(p, c, s) /\ \E j : Places(Rest(row.todo), c, s) = {j}
      BY <1>1, TakesPiece, Zenon
  <2> QED
      BY <2>1, Zenon
<1> HIDE DEF p
<1>6. ASSUME ~Contains(p, c, s) PROVE Covering(row2, known2, c, s) = Covering(row, known, c, s)
    BY <1>2, <1>6 DEF Covering
<1>7. ASSUME Contains(p, c, s), Covering(row, known, c, s) = {}
      PROVE  \E o : Covering(row2, known2, c, s) = {o}
  <2>1. PICK o : {x \in fresh : Fetch!Covers(x, c, s)} = {o}
      BY <1>2, <1>7
  <2>2. Covering(row2, known2, c, s) = {o}
      BY <1>7, <2>1 DEF Covering
  <2> QED
      BY <2>2
<1> QED
    BY <1>4, <1>6, <1>7 DEF Once

\* The pieces that are left of a stack are its batch's still.
LEMMA TailStack ==
    ASSUME FetchInv, NEW b \in DOMAIN g, g[b].todo # <<>>
    PROVE  /\ g[b].todo \in Seq(Work) /\ Head(g[b].todo) \in Work
           /\ Rest(g[b].todo) \in Seq(Work)
           /\ Elements(Head(g[b].todo).chs) \subseteq Mine(b)
           /\ \A i \in 1..Len(Rest(g[b].todo)) : Elements(Rest(g[b].todo)[i].chs) \subseteq Mine(b)
<1>1. g[b] \in Goroutines /\ Stack(b, g[b])
    BY BatchFacts DEF FetchInv
<1>2. g[b].todo \in Seq(Work)
    BY <1>1 DEF Goroutines
<1>3. /\ Rest(g[b].todo) \in Seq(Work) /\ Head(g[b].todo) \in Work
      /\ \E j \in 1..Len(g[b].todo) : Head(g[b].todo) = g[b].todo[j]
      /\ \A i \in 1..Len(Rest(g[b].todo)) :
            \E j \in 1..Len(g[b].todo) : Rest(g[b].todo)[i] = g[b].todo[j]
    BY <1>2, TakesPiece
<1> QED
    BY <1>1, <1>2, <1>3 DEF Stack

\* The row of a goroutine that goes on with other pieces.
Went(b, todo, out) == [g[b] EXCEPT !.todo = todo, !.call = "submit", !.out = out]

GoesOn(b, row, todo, out) ==
    /\ row \in Goroutines
    /\ Fetch!Continue(b, todo, out) = [g EXCEPT ![b] = row]
    /\ row.at = g[b].at /\ row.call = "submit" /\ row.out = out /\ row.todo = todo

LEMMA ContinueRow ==
    ASSUME FetchType, NEW b \in DOMAIN g, NEW todo \in Seq(Work), NEW out \in SUBSET Outcomes
    PROVE  GoesOn(b, Went(b, todo, out), todo, out)
<1>1. ASSUME NEW row \in Goroutines
      PROVE  LET went == [row EXCEPT !.todo = todo, !.call = "submit", !.out = out]
             IN  /\ went \in Goroutines /\ went.at = row.at /\ went.call = "submit"
                 /\ went.out = out /\ went.todo = todo
  <2>1. PICK x \in Goroutines : x = [row EXCEPT !.todo = todo]
      BY DEF Goroutines
  <2>2. PICK y \in Goroutines : y = [x EXCEPT !.call = "submit"]
      BY DEF Goroutines
  <2>3. PICK z \in Goroutines : z = [y EXCEPT !.out = out]
      BY DEF Goroutines
  <2>4. z = [row EXCEPT !.todo = todo, !.call = "submit", !.out = out]
      BY <2>1, <2>2, <2>3, Zenon
  <2>5. x.at = row.at /\ x.todo = todo
      BY <2>1 DEF Goroutines
  <2>6. y.at = x.at /\ y.todo = x.todo /\ y.call = "submit"
      BY <2>2 DEF Goroutines
  <2>7. z.at = y.at /\ z.todo = y.todo /\ z.call = y.call /\ z.out = out
      BY <2>3 DEF Goroutines
  <2> QED
      BY <2>4, <2>5, <2>6, <2>7
<1>2. g[b] \in Goroutines
    BY BatchFacts
<1>3. Fetch!Continue(b, todo, out) = [g EXCEPT ![b] = Went(b, todo, out)]
    BY Zenon DEF Fetch!Continue, Went
<1> QED
    BY <1>1, <1>2, <1>3, Zenon DEF Went, GoesOn

LEMMA TailRow ==
    ASSUME FetchInv, NEW b \in DOMAIN g, g[b].todo # <<>>
    PROVE  GoesOn(b, Went(b, Rest(g[b].todo), g[b].out), Rest(g[b].todo), g[b].out)
<1>1. FetchType /\ Rest(g[b].todo) \in Seq(Work)
    BY TailStack DEF FetchInv
<1>2. g[b].out \in SUBSET Outcomes
    BY <1>1, BatchFacts DEF Goroutines
<1> QED
    BY <1>1, <1>2, ContinueRow

\* A piece is done with: read, given up, or read in part.
DoneWith(b, row, fresh, new) ==
    /\ g[b].at = "working" /\ g[b].todo # <<>>
    /\ SharesOut(Head(g[b].todo), fresh)
    /\ row \in Goroutines /\ g' = [g EXCEPT ![b] = row] /\ row.at = g[b].at
    /\ row.call = "submit" /\ row.todo = Rest(g[b].todo)
    /\ \A o \in row.out : o \in g[b].out \/ o.channels \subseteq Mine(b)
    /\ f' \in Fetches /\ f'.backend = f.backend /\ f'.next = f.next /\ f'.at = f.at
    /\ f'.result = f.result /\ f'.fatal = f.fatal /\ f'.dead = f.dead
    /\ f'.live \subseteq f.live /\ (Polls(g[b]) => Head(g[b].todo) \notin f'.live)
    /\ Known' = Known \cup new /\ \A o \in new : o.channels \subseteq Mine(b)
    /\ row.out \cup (Known \cup new) = g[b].out \cup Known \cup fresh

LEMMA PieceDone ==
    ASSUME FetchInv, NEW b \in DOMAIN g, NEW row, NEW fresh, NEW new,
           DoneWith(b, row, fresh, new)
    PROVE  FetchInv'
<1> USE DEF DoneWith
<1>1. /\ Head(g[b].todo) \in Work /\ Rest(g[b].todo) \in Seq(Work)
      /\ Elements(Head(g[b].todo).chs) \subseteq Mine(b)
      /\ \A i \in 1..Len(Rest(g[b].todo)) : Elements(Rest(g[b].todo)[i].chs) \subseteq Mine(b)
    BY TailStack
<1>3. Stack(b, row)
  <2>1. \A o \in g[b].out : o.channels \subseteq Mine(b)
      BY DEF FetchInv, Stack
  <2> QED
      BY <1>1, <2>1 DEF Stack
<1>4. ASSUME ~f'.dead, NEW c \in Mine(b), NEW s \in 0..LastSecond
      PROVE  Once(row, Known \cup new, c, s)
  <2>1. Once(g[b], Known, c, s) /\ g[b] \in Goroutines
      BY <1>4, BatchFacts DEF FetchInv, Shared
  <2> QED
      BY <2>1, OnceDone, ZenonT(30)
<1>5. f.fatal => f.dead
    BY DEF FetchInv, Phases
<1>6. StepOf(b, row, new)
    BY <1>3, <1>4, <1>5 DEF StepOf
<1> QED
    BY <1>6, Worked

\* A piece is given up: its window is lost for all its channels.
LEMMA PieceLost ==
    ASSUME FetchInv, NEW b \in DOMAIN g, g[b].at = "working", g[b].todo # <<>>,
           g' = Fetch!Continue(b, Rest(g[b].todo), g[b].out),
           NEW live \in SUBSET f.live, Polls(g[b]) => Head(g[b].todo) \notin live,
           f' = [f EXCEPT !.lost = f.lost \cup {Fetch!Whole(Head(g[b].todo))}, !.live = live]
    PROVE  FetchInv'
<1> DEFINE p == Head(g[b].todo)
           kept == Elements(p.chs)
           o == Fetch!Outcome(kept, p)
<1>1. f \in Fetches /\ g[b] \in Goroutines /\ p \in Work /\ kept \subseteq Mine(b)
    BY TailStack, BatchFacts DEF FetchInv, FetchType
<1>2. g[b].out \in SUBSET Outcomes /\ f.live \in SUBSET Work /\ f.lost \in SUBSET Outcomes
    BY <1>1 DEF Goroutines, Fetches
<1>3. o \in Outcomes /\ o.channels = kept /\ Fetch!Whole(p) = o
    BY <1>1, OutcomeFacts DEF Fetch!Whole
<1>4. PICK row \in Goroutines :
         /\ Fetch!Continue(b, Rest(g[b].todo), g[b].out) = [g EXCEPT ![b] = row]
         /\ row.at = g[b].at /\ row.call = "submit" /\ row.out = g[b].out
         /\ row.todo = Rest(g[b].todo)
  <2>1. PICK row : GoesOn(b, row, Rest(g[b].todo), g[b].out)
      BY TailRow
  <2> QED
      BY <2>1, Zenon DEF GoesOn
<1>6. /\ f' \in Fetches /\ f'.lost = f.lost \cup {o} /\ f'.cut = f.cut /\ f'.live = live
      /\ f'.all = f.all
      /\ f'.at = f.at /\ f'.backend = f.backend /\ f'.next = f.next /\ f'.fatal = f.fatal
      /\ f'.dead = f.dead /\ f'.result = f.result
  <2>1. live \in SUBSET Work /\ f.lost \cup {o} \in SUBSET Outcomes
      BY <1>2, <1>3
  <2>2. f' = [f EXCEPT !.lost = f.lost \cup {o}, !.live = live]
      BY <1>3
  <2> HIDE DEF o
  <2>3. PICK x \in Fetches, l \in SUBSET Work, w \in SUBSET Outcomes :
           x = f /\ l = live /\ w = f.lost \cup {o}
      BY <1>1, <2>1
  <2>4. PICK y : y = [x EXCEPT !.lost = w, !.live = l]
      OBVIOUS
  <2>5. /\ y \in Fetches /\ y.lost = w /\ y.cut = x.cut /\ y.live = l /\ y.all = x.all
        /\ y.at = x.at /\ y.backend = x.backend /\ y.next = x.next /\ y.fatal = x.fatal
        /\ y.dead = x.dead /\ y.result = x.result
      BY <2>4 DEF Fetches
  <2>6. f' = y
      BY <2>2, <2>3, <2>4, Zenon
  <2> QED
      BY <2>3, <2>5, <2>6, Zenon
<1> HIDE DEF kept, o
<1>10. SharesOut(p, {o})
    BY <1>1, SharesWhole DEF kept, o
<1>7. PICK new : new = {o}
    OBVIOUS
<1>8. /\ Known' = Known \cup new
      /\ row.out \cup (Known \cup new) = g[b].out \cup Known \cup {o}
    BY <1>4, <1>6, <1>7 DEF Known
<1>9. /\ \A x \in row.out : x \in g[b].out \/ x.channels \subseteq Mine(b)
      /\ \A x \in new : x.channels \subseteq Mine(b)
    BY <1>1, <1>3, <1>4, <1>7
<1>11. g' = [g EXCEPT ![b] = row]
    BY <1>4
<1>12. f'.live \subseteq f.live /\ (Polls(g[b]) => Head(g[b].todo) \notin f'.live)
    BY <1>6
<1>13. DoneWith(b, row, {o}, new)
    BY <1>4, <1>6, <1>8, <1>9, <1>10, <1>11, <1>12 DEF DoneWith
<1> QED
    BY <1>13, PieceDone

LEMMA AtPolls ==
    ASSUME NEW b, NEW call
    PROVE  /\ Fetch!At(b, call) => g[b].at = "working" /\ g[b].call = call /\ g[b].todo # <<>>
           /\ Fetch!At(b, "poll") <=> Polls(g[b])
           /\ Fetch!At(b, call) /\ call # "poll" => ~Polls(g[b])
BY DEF Fetch!At, Polls

LEMMA IsolatedKeeps ==
    ASSUME FetchInv, NEW b \in DOMAIN g, Fetch!Isolated(b)
    PROVE  FetchInv'
<1> DEFINE p == Head(g[b].todo)
           live == IF Fetch!At(b, "poll") THEN f.live \ {p} ELSE f.live
<1>1. g[b].at = "working" /\ g[b].todo # <<>>
    BY AtPolls DEF Fetch!Isolated
<1>2. g' = Fetch!Continue(b, Rest(g[b].todo), g[b].out)
    BY DEF Fetch!Isolated, Rest
<1>3. f' = [f EXCEPT !.lost = f.lost \cup {Fetch!Whole(p)}, !.live = live]
    BY Zenon DEF Fetch!Isolated, Fetch!Now, Fetch!DeleteTask
<1>4. live \in SUBSET f.live /\ (Polls(g[b]) => p \notin live)
    BY AtPolls
<1> HIDE DEF live
<1> QED
    BY <1>1, <1>2, <1>3, <1>4, PieceLost, Zenon

LEMMA TooLargeKeeps ==
    ASSUME FetchInv, NEW b \in DOMAIN g, Fetch!TooLarge(b)
    PROVE  FetchInv'
<1> DEFINE p == Head(g[b].todo)
<1>1. g[b].at = "working" /\ g[b].todo # <<>> /\ ~Polls(g[b])
    BY AtPolls DEF Fetch!TooLarge
<1>2. f \in Fetches /\ g[b] \in Goroutines /\ p \in Work /\ Stack(b, g[b])
    BY <1>1, TailStack, BatchFacts DEF FetchInv, FetchType
<1>3. CASE Len(p.chs) = 1 /\ p.hi - p.lo <= MinWindow
  <2>1. /\ g' = Fetch!Continue(b, Rest(g[b].todo), g[b].out)
        /\ f' = [f EXCEPT !.lost = f.lost \cup {Fetch!Whole(p)}]
      BY <1>3 DEF Fetch!TooLarge, Fetch!Now, Rest
  <2>2. PICK x \in Fetches, w \in SUBSET Outcomes : x = f /\ w = f.lost \cup {Fetch!Whole(p)}
    <3>1. p.chs \in ChannelLists /\ Elements(p.chs) \in SUBSET Elements(p.chs)
        BY <1>2 DEF Work
    <3>2. Fetch!Whole(p) \in Outcomes
        BY <1>2, <3>1, OutcomeFacts DEF Fetch!Whole
    <3> QED
        BY <1>2, <3>2 DEF Fetches
  <2>3. [x EXCEPT !.lost = w] = [x EXCEPT !.lost = w, !.live = x.live]
      BY DEF Fetches
  <2>4. f' = [f EXCEPT !.lost = f.lost \cup {Fetch!Whole(p)}, !.live = f.live]
      BY <2>1, <2>2, <2>3, Zenon
  <2> QED
      BY <1>1, <2>1, <2>4, PieceLost, Zenon
<1>4. CASE ~(Len(p.chs) = 1 /\ p.hi - p.lo <= MinWindow)
  <2>1. /\ g' = Fetch!Continue(b, Fetch!Split(p) \o Tail(g[b].todo), g[b].out)
        /\ f' = f
      BY <1>4, Zenon DEF Fetch!TooLarge, Fetch!Now
  <2>2. PICK x \in Work, y \in Work :
           /\ Fetch!Split(p) = <<x, y>>
           /\ Elements(x.chs) \subseteq Elements(p.chs) /\ Elements(y.chs) \subseteq Elements(p.chs)
           /\ \A c : \A s \in Nat : /\ Contains(p, c, s) <=> Contains(x, c, s) \/ Contains(y, c, s)
                                    /\ ~(Contains(x, c, s) /\ Contains(y, c, s))
      BY <1>2, <1>4, HalvesShare
  <2> DEFINE todo == Onto(x, y, g[b].todo)
  <2>3. g[b].todo \in Seq(Work) /\ g[b].out \in SUBSET Outcomes
      BY <1>2 DEF Goroutines
  <2>4. todo \in Seq(Work)
    <3>1. Rest(g[b].todo) \in Seq(Work)
        BY <1>1, TailStack
    <3>2. <<x, y>> \in Seq(Work)
        OBVIOUS
    <3> QED
        BY <3>1, <3>2, ConcatProperties DEF Onto
  <2>5. ASSUME NEW c \in Mine(b), NEW s \in 0..LastSecond
        PROVE  FromPieces(todo, g[b].todo, x, y) /\ KeepsPlaces(todo, g[b].todo, c, s)
    <3>1. s \in Nat
        BY FetchAssumption DEF Fetch!Setting
    <3>2. /\ Contains(p, c, s) <=> Contains(x, c, s) \/ Contains(y, c, s)
          /\ ~(Contains(x, c, s) /\ Contains(y, c, s))
        BY <2>2, <3>1
    <3> QED
        BY <1>1, <2>3, <3>2, CutsPiece
  <2> HIDE DEF todo
  <2>6. PICK row \in Goroutines : row = Went(b, todo, g[b].out)
      BY <2>3, <2>4, ContinueRow DEF FetchInv, GoesOn
  <2>7. /\ g' = [g EXCEPT ![b] = row] /\ row.at = g[b].at /\ row.call = "submit"
        /\ row.out = g[b].out /\ row.todo = todo
    <3>1. g' = Fetch!Continue(b, todo, g[b].out)
        BY <2>1, <2>2, Zenon DEF todo, Onto, Rest
    <3>2. FetchType
        BY DEF FetchInv
    <3> QED
        BY <2>3, <2>4, <2>6, <3>1, <3>2, ContinueRow DEF GoesOn
  <2>8. Stack(b, row)
    <3>1. \A j \in 1..Len(g[b].todo) : Elements(g[b].todo[j].chs) \subseteq Mine(b)
        BY <1>2 DEF Stack
    <3>2. Elements(p.chs) \subseteq Mine(b)
        BY <1>1, TailStack
    <3>3. ASSUME NEW i \in 1..Len(todo) PROVE Elements(todo[i].chs) \subseteq Mine(b)
      <4>1. todo[i] \in {x, y} \/ \E j \in 1..Len(g[b].todo) : todo[i] = g[b].todo[j]
        <5>1. PICK c : c \in Mine(b)
          <6>1. p.chs \in Seq(STRING) /\ p.chs # <<>>
              BY <1>2 DEF Work, ChannelLists
          <6>2. 1 \in 1..Len(p.chs)
              BY <6>1
          <6> QED
              BY <3>2, <6>2 DEF Elements
        <5>2. 0 \in 0..LastSecond
            BY FetchAssumption DEF Fetch!Setting
        <5> QED
            BY <2>5, <5>1, <5>2 DEF FromPieces
      <4> QED
          BY <2>2, <3>1, <3>2, <4>1
    <3> QED
        BY <1>1, <1>2, <2>7, <3>3 DEF Stack
  <2>12. PICK new : new = {}
      OBVIOUS
  <2>9. ASSUME ~f'.dead, NEW c \in Mine(b), NEW s \in 0..LastSecond
        PROVE  Once(row, Known \cup new, c, s)
    <3>1. Once(g[b], Known, c, s)
        BY <2>1, <2>9 DEF FetchInv, Shared
    <3>2. Covering(row, Known \cup new, c, s) = Covering(g[b], Known, c, s)
        BY <2>7, <2>12 DEF Covering
    <3> QED
        BY <2>5, <2>7, <3>1, <3>2 DEF Once, KeepsPlaces
  <2>10. /\ f' \in Fetches /\ f'.backend = f.backend /\ f'.next = f.next /\ f'.at = f.at
         /\ f'.result = f.result /\ (f'.fatal => f'.dead) /\ f'.live \subseteq f.live
         /\ Known' = Known \cup new /\ f'.dead = f.dead /\ f'.fatal = f.fatal
      BY <1>2, <2>1, <2>12 DEF FetchInv, Phases, Known
  <2>11. row.at \in {"queued", "working", "done"} /\ g[b].at \in {"queued", "working"}
      BY <1>1, <2>7
  <2>13. StepOf(b, row, new)
      BY <1>1, <2>7, <2>8, <2>9, <2>10, <2>11, <2>12 DEF StepOf
  <2> QED
      BY <2>13, Worked
<1> QED
    BY <1>3, <1>4

-----------------------------------------------------------------------------
(* The other steps of a goroutine *)

Calling(x, y, at, call) ==
    /\ y = [x EXCEPT !.at = at, !.call = call]
    /\ y.at = at /\ y.call = call /\ y.out = x.out /\ y.todo = x.todo

LEMMA RowFields ==
    ASSUME NEW x \in Goroutines, NEW at \in {"new", "queued", "working", "done"},
           NEW call \in {"none", "submit", "poll", "download", "download partial", "read"}
    PROVE  \E y \in Goroutines : Calling(x, y, at, call)
<1>1. PICK z \in Goroutines : z = [x EXCEPT !.at = at]
    BY DEF Goroutines
<1>2. PICK y \in Goroutines : y = [z EXCEPT !.call = call]
    BY DEF Goroutines
<1>3. y = [x EXCEPT !.at = at, !.call = call]
    BY <1>1, <1>2, Zenon
<1>4. y.at = at /\ y.call = call /\ y.out = x.out /\ y.todo = x.todo
    BY <1>1, <1>2 DEF Goroutines
<1> QED
    BY <1>3, <1>4 DEF Calling

\* A goroutine that only makes another call.
LEMMA SameWork ==
    ASSUME FetchInv, NEW b \in DOMAIN g, NEW row, row.todo = g[b].todo, row.out = g[b].out,
           g[b].at \in {"queued", "working"}, row.at = "working",
           row.call = "read" => g[b].at = "queued"
    PROVE  /\ Stack(b, row)
           /\ \A new : new = {} /\ ~f.dead =>
                 \A c \in Mine(b), s \in 0..LastSecond : Once(row, Known \cup new, c, s)
<1>1. Stack(b, g[b])
    BY DEF FetchInv
<1>2. Stack(b, row)
  <2>1. row.call = "read" /\ row.todo # <<>> => row.out = {} /\ row.todo = Given(b)
      BY <1>1 DEF Stack
  <2>2. \A i \in 1..Len(g[b].todo) : Elements(g[b].todo[i].chs) \subseteq Mine(b)
      BY <1>1 DEF Stack
  <2>3. \A o \in g[b].out : o.channels \subseteq Mine(b)
      BY <1>1 DEF Stack
  <2> QED
      BY <2>1, <2>2, <2>3 DEF Stack
<1>3. ASSUME NEW new, new = {}, ~f.dead, NEW c \in Mine(b), NEW s \in 0..LastSecond
      PROVE  Once(row, Known \cup new, c, s)
  <2>1. Once(g[b], Known, c, s)
      BY <1>3 DEF FetchInv, Shared
  <2>2. Covering(row, Known \cup new, c, s) = Covering(g[b], Known, c, s)
      BY <1>3 DEF Covering
  <2> QED
      BY <2>1, <2>2 DEF Once
<1> QED
    BY <1>2, <1>3

CallOf(b, call) == [g[b] EXCEPT !.at = "working", !.call = call]

LEMMA CallRow ==
    ASSUME FetchInv, NEW b \in DOMAIN g,
           NEW call \in {"submit", "poll", "download", "download partial", "read"}
    PROVE  /\ CallOf(b, call) \in Goroutines /\ CallOf(b, call).at = "working"
           /\ CallOf(b, call).call = call
           /\ CallOf(b, call).out = g[b].out /\ CallOf(b, call).todo = g[b].todo
           /\ g[b].at = "working" => CallOf(b, call) = [g[b] EXCEPT !.call = call]
<1>1. PICK x \in Goroutines : x = g[b]
    BY BatchFacts DEF FetchInv
<1>2. PICK y \in Goroutines : Calling(x, y, "working", call)
  <2>1. PICK any \in {"none", "submit", "poll", "download", "download partial", "read"} :
           any = call
      OBVIOUS
  <2>2. PICK at \in {"new", "queued", "working", "done"} : at = "working"
      OBVIOUS
  <2>3. \E y \in Goroutines : Calling(x, y, at, any)
      BY RowFields
  <2> QED
      BY <2>1, <2>2, <2>3, Zenon
<1>4. x.at = "working" => y = [x EXCEPT !.call = call]
    BY <1>2 DEF Goroutines, Calling
<1>5. y = CallOf(b, call)
    BY <1>1, <1>2, Zenon DEF CallOf, Calling
<1> QED
    BY <1>1, <1>2, <1>4, <1>5, Zenon DEF Calling

LEMMA SubmitKeeps ==
    ASSUME FetchInv, NEW b \in DOMAIN g, Fetch!Submit(b)
    PROVE  FetchInv'
<1> DEFINE p == Head(g[b].todo)
<1>1. g[b].at = "working" /\ g[b].todo # <<>> /\ ~Polls(g[b])
    BY AtPolls DEF Fetch!Submit
<1>2. f \in Fetches /\ p \in Work
    BY <1>1, TailStack DEF FetchInv, FetchType
<1>3. PICK row, new : row = CallOf(b, "poll") /\ new = {}
    OBVIOUS
<1>4. /\ row \in Goroutines /\ row.at = "working" /\ row.call = "poll"
      /\ row.out = g[b].out /\ row.todo = g[b].todo /\ row = [g[b] EXCEPT !.call = "poll"]
    BY <1>1, <1>3, CallRow
<1>5. g' = [g EXCEPT ![b] = row]
    BY <1>4, Zenon DEF Fetch!Submit
<1>6. f' = [f EXCEPT !.live = f.live \cup {p}]
    BY Zenon DEF Fetch!Submit, Fetch!Now
<1>7. f.live \cup {p} \in SUBSET Work
    BY <1>2 DEF Fetches
<1> HIDE DEF p
<1>8. /\ f' \in Fetches /\ f'.lost = f.lost /\ f'.cut = f.cut /\ f'.live = f.live \cup {p} /\ f'.all = f.all
      /\ f'.at = f.at /\ f'.backend = f.backend /\ f'.next = f.next /\ f'.fatal = f.fatal
      /\ f'.dead = f.dead /\ f'.result = f.result
  <2>1. PICK x \in Fetches, live \in SUBSET Work : x = f /\ live = f.live \cup {p}
      BY <1>2, <1>7
  <2>2. PICK y : y = [x EXCEPT !.live = live]
      BY Zenon
  <2>3. /\ y \in Fetches /\ y.lost = x.lost /\ y.cut = x.cut /\ y.live = live /\ y.all = x.all
        /\ y.at = x.at /\ y.backend = x.backend /\ y.next = x.next /\ y.fatal = x.fatal
        /\ y.dead = x.dead /\ y.result = x.result
      BY <2>2 DEF Fetches
  <2> QED
      BY <1>6, <2>1, <2>2, <2>3, Zenon
<1>9. /\ Stack(b, row)
      /\ ~f.dead => \A c \in Mine(b), s \in 0..LastSecond : Once(row, Known \cup new, c, s)
    BY <1>1, <1>3, <1>4, SameWork
<1>10. Polls(row) /\ f'.live = f.live \cup {Head(row.todo)}
    BY <1>1, <1>4, <1>8 DEF Polls, p
<1>11. f.fatal => f.dead
    BY DEF FetchInv, Phases
<1>12. Known' = Known \cup new /\ \A o \in new : o.channels \subseteq Mine(b)
    BY <1>3, <1>8 DEF Known
<1>13. StepOf(b, row, new)
    BY <1>1, <1>4, <1>5, <1>8, <1>9, <1>10, <1>11, <1>12 DEF StepOf
<1> QED
    BY <1>13, Worked

LEMMA CompletedKeeps ==
    ASSUME FetchInv, NEW b \in DOMAIN g, NEW results \in Fetch!Results,
           Fetch!Completed(b, results)
    PROVE  FetchInv'
<1> DEFINE p == Head(g[b].todo)
<1>1. g[b].at = "working" /\ g[b].todo # <<>>
    BY AtPolls DEF Fetch!Completed
<1>2. f \in Fetches
    BY DEF FetchInv, FetchType
<1>3. PICK row, new : row = CallOf(b, results) /\ new = {}
    OBVIOUS
<1>. PICK call \in {"submit", "poll", "download", "download partial", "read"} :
        call = results /\ call # "read"
    BY DEF Fetch!Results
<1>4. /\ row \in Goroutines /\ row.at = "working" /\ row.call = results /\ results # "read"
      /\ row.out = g[b].out /\ row.todo = g[b].todo /\ row = [g[b] EXCEPT !.call = results]
    BY <1>1, <1>3, CallRow
<1>5. g' = [g EXCEPT ![b] = row]
    BY <1>4, Zenon DEF Fetch!Completed
<1>6. f' = [f EXCEPT !.live = f.live \ {p}]
    BY Zenon DEF Fetch!Completed, Fetch!Now
<1>7. f.live \ {p} \in SUBSET Work
    BY <1>2 DEF Fetches
<1> HIDE DEF p
<1>8. /\ f' \in Fetches /\ f'.lost = f.lost /\ f'.cut = f.cut /\ f'.live = f.live \ {p} /\ f'.all = f.all
      /\ f'.at = f.at /\ f'.backend = f.backend /\ f'.next = f.next /\ f'.fatal = f.fatal
      /\ f'.dead = f.dead /\ f'.result = f.result
  <2>1. PICK x \in Fetches, live \in SUBSET Work : x = f /\ live = f.live \ {p}
      BY <1>2, <1>7
  <2>2. PICK y : y = [x EXCEPT !.live = live]
      BY Zenon
  <2>3. /\ y \in Fetches /\ y.lost = x.lost /\ y.cut = x.cut /\ y.live = live /\ y.all = x.all
        /\ y.at = x.at /\ y.backend = x.backend /\ y.next = x.next /\ y.fatal = x.fatal
        /\ y.dead = x.dead /\ y.result = x.result
      BY <2>2 DEF Fetches
  <2> QED
      BY <1>6, <2>1, <2>2, <2>3, Zenon
<1>9. /\ Stack(b, row)
      /\ ~f.dead => \A c \in Mine(b), s \in 0..LastSecond : Once(row, Known \cup new, c, s)
    BY <1>1, <1>3, <1>4, SameWork
<1>10. f'.live \subseteq f.live /\ Head(g[b].todo) \notin f'.live
    BY <1>8 DEF p
<1>11. f.fatal => f.dead
    BY DEF FetchInv, Phases
<1>12. Known' = Known \cup new /\ \A o \in new : o.channels \subseteq Mine(b)
    BY <1>3, <1>8 DEF Known
<1>13. StepOf(b, row, new)
    BY <1>1, <1>4, <1>5, <1>8, <1>9, <1>10, <1>11, <1>12 DEF StepOf
<1> QED
    BY <1>13, Worked

LEMMA AcquireKeeps ==
    ASSUME FetchInv, NEW b \in DOMAIN g, Fetch!Acquire(b)
    PROVE  FetchInv'
<1>1. PICK call \in {"submit", "read"} : call = IF f.backend = "mysql" THEN "read" ELSE "submit"
    OBVIOUS
<1>2. g[b].at = "queued" /\ f' = f /\ f \in Fetches
    BY DEF Fetch!Acquire, FetchInv, FetchType
<1>3. PICK row, new : row = CallOf(b, call) /\ new = {}
    OBVIOUS
<1>4. /\ row \in Goroutines /\ row.at = "working" /\ row.call = call
      /\ row.out = g[b].out /\ row.todo = g[b].todo
    BY <1>1, <1>3, CallRow
<1>5. g' = [g EXCEPT ![b] = row]
    BY <1>1, <1>3, Zenon DEF Fetch!Acquire, CallOf
<1>6. /\ Stack(b, row)
      /\ ~f.dead => \A c \in Mine(b), s \in 0..LastSecond : Once(row, Known \cup new, c, s)
    BY <1>2, <1>3, <1>4, SameWork
<1>7. ~Polls(g[b])
    BY <1>2 DEF Polls
<1>8. f.fatal => f.dead
    BY DEF FetchInv, Phases
<1>9. Known' = Known \cup new /\ \A o \in new : o.channels \subseteq Mine(b)
    BY <1>2, <1>3 DEF Known
<1>10. StepOf(b, row, new)
    BY <1>2, <1>4, <1>5, <1>6, <1>7, <1>8, <1>9 DEF StepOf
<1> QED
    BY <1>10, Worked

\* A goroutine that is over, with what it leaves.
Over(b) == [g[b] EXCEPT !.at = "done", !.todo = <<>>, !.out = {}]

LEMMA OverRow ==
    ASSUME FetchInv, NEW b \in DOMAIN g
    PROVE  /\ Over(b) \in Goroutines /\ Over(b).at = "done" /\ Over(b).todo = <<>>
           /\ Over(b).out = {} /\ Over(b).call = g[b].call
           /\ g[b].out = {} => Over(b) = [g[b] EXCEPT !.at = "done", !.todo = <<>>]
           /\ g[b].todo = <<>> => Over(b) = [g[b] EXCEPT !.at = "done", !.out = {}]
           /\ Stack(b, Over(b)) /\ ~Polls(Over(b))
<1>1. PICK x \in Goroutines : x = g[b]
    BY BatchFacts DEF FetchInv
<1>2. <<>> \in Seq(Work) /\ {} \in SUBSET Outcomes
    OBVIOUS
<1>3. PICK u \in Goroutines : u = [x EXCEPT !.at = "done"]
    BY DEF Goroutines
<1>4. PICK v \in Goroutines : v = [u EXCEPT !.todo = <<>>]
    BY <1>2 DEF Goroutines
<1>5. PICK w \in Goroutines : w = [v EXCEPT !.out = {}]
    BY DEF Goroutines
<1>6. /\ w.at = "done" /\ w.todo = <<>> /\ w.out = {} /\ w.call = x.call
      /\ x.out = {} => w = v
  <2>1. u.at = "done" /\ u.out = x.out /\ u.call = x.call
      BY <1>3 DEF Goroutines
  <2>2. v.at = u.at /\ v.todo = <<>> /\ v.out = u.out /\ v.call = u.call
      BY <1>4 DEF Goroutines
  <2>3. w.at = v.at /\ w.todo = v.todo /\ w.out = {} /\ w.call = v.call
      BY <1>5 DEF Goroutines
  <2>4. [v EXCEPT !.out = v.out] = v
      BY DEF Goroutines
  <2>5. v.out = {} => w = v
      BY <1>5, <2>4, Zenon
  <2> QED
      BY <2>1, <2>2, <2>3, <2>5
<1>7. x.todo = <<>> => v = u
    BY <1>3, <1>4 DEF Goroutines
<1>8. w = Over(b)
    BY <1>1, <1>3, <1>4, <1>5, Zenon DEF Over
<1>9. /\ g[b].out = {} => w = [g[b] EXCEPT !.at = "done", !.todo = <<>>]
      /\ g[b].todo = <<>> => w = [g[b] EXCEPT !.at = "done", !.out = {}]
    BY <1>1, <1>3, <1>4, <1>5, <1>6, <1>7, Zenon
<1>10. Stack(b, w) /\ ~Polls(w)
  <2>1. 1..Len(w.todo) = {}
      BY <1>6
  <2> QED
      BY <1>6, <2>1 DEF Stack, Polls
<1> QED
    BY <1>1, <1>6, <1>8, <1>9, <1>10, Zenon

LEMMA LeaveQueueKeeps ==
    ASSUME FetchInv, NEW b \in DOMAIN g, Fetch!LeaveQueue(b)
    PROVE  FetchInv'
<1>1. g[b].at = "queued" /\ f.dead /\ f' = f /\ f \in Fetches
    BY DEF Fetch!LeaveQueue, FetchInv, FetchType
<1>2. PICK row, new : row = Over(b) /\ new = {}
    OBVIOUS
<1>3. g[b].out = {}
    BY <1>1 DEF FetchInv, Stack
<1>4. /\ row \in Goroutines /\ row.at = "done" /\ Stack(b, row)
      /\ row = [g[b] EXCEPT !.at = "done", !.todo = <<>>]
    BY <1>2, <1>3, OverRow, Zenon
<1>5. g' = [g EXCEPT ![b] = row]
    BY <1>4, Zenon DEF Fetch!LeaveQueue
<1>6. ~Polls(g[b])
    BY <1>1 DEF Polls
<1>7. Known' = Known \cup new /\ \A o \in new : o.channels \subseteq Mine(b)
    BY <1>1, <1>2 DEF Known
<1>8. StepOf(b, row, new)
    BY <1>1, <1>4, <1>5, <1>6, <1>7 DEF StepOf
<1> QED
    BY <1>8, Worked

LEMMA FatalKeeps ==
    ASSUME FetchInv, NEW b \in DOMAIN g, Fetch!Fatal(b)
    PROVE  FetchInv'
<1> DEFINE p == Head(g[b].todo)
<1>1. g[b].at = "working" /\ g[b].todo # <<>>
    BY AtPolls DEF Fetch!Fatal
<1>2. f \in Fetches
    BY DEF FetchInv, FetchType
<1>3. PICK row, new, live :
         row = Over(b) /\ new = {} /\ live = IF Fetch!At(b, "poll") THEN f.live \ {p} ELSE f.live
    OBVIOUS
<1>4. row \in Goroutines /\ row.at = "done" /\ Stack(b, row)
    BY <1>3, OverRow, Zenon
<1>5. g' = [g EXCEPT ![b] = row]
    BY <1>3, Zenon DEF Fetch!Fatal, Over
<1>6. f' = [f EXCEPT !.fatal = TRUE, !.dead = TRUE, !.live = live]
    BY <1>3, Zenon DEF Fetch!Fatal, Fetch!Now, Fetch!DeleteTask
<1>7. live \in SUBSET Work /\ live \subseteq f.live /\ (Polls(g[b]) => p \notin live)
    BY <1>2, <1>3, AtPolls DEF Fetches
<1> HIDE DEF p
<1>8. /\ f' \in Fetches /\ f'.lost = f.lost /\ f'.cut = f.cut /\ f'.live = live /\ f'.all = f.all
      /\ f'.at = f.at /\ f'.backend = f.backend /\ f'.next = f.next /\ f'.fatal
      /\ f'.dead /\ f'.result = f.result
  <2>1. PICK x, y : x = f /\ y = [x EXCEPT !.fatal = TRUE, !.dead = TRUE, !.live = live]
      BY Zenon
  <2>2. /\ y \in Fetches /\ y.lost = x.lost /\ y.cut = x.cut /\ y.live = live /\ y.all = x.all
        /\ y.at = x.at /\ y.backend = x.backend /\ y.next = x.next /\ y.fatal
        /\ y.dead /\ y.result = x.result
      BY <1>2, <1>7, <2>1 DEF Fetches
  <2> QED
      BY <1>6, <2>1, <2>2, Zenon
<1>9. f'.live \subseteq f.live /\ (Polls(g[b]) => Head(g[b].todo) \notin f'.live)
    BY <1>7, <1>8 DEF p
<1>10. Known' = Known \cup new /\ \A o \in new : o.channels \subseteq Mine(b)
    BY <1>3, <1>8 DEF Known
<1>11. StepOf(b, row, new)
    BY <1>1, <1>4, <1>5, <1>8, <1>9, <1>10 DEF StepOf
<1> QED
    BY <1>11, Worked

\* What a goroutine read becomes known when it is over.
LEMMA FinishedKeeps ==
    ASSUME FetchInv, NEW b \in DOMAIN g, Fetch!Finished(b)
    PROVE  FetchInv'
<1>1. g[b].at = "working" /\ g[b].todo = <<>> /\ ~Polls(g[b])
    BY DEF Fetch!Finished, Polls
<1>2. f \in Fetches /\ g[b] \in Goroutines /\ Stack(b, g[b])
    BY BatchFacts DEF FetchInv, FetchType
<1>3. PICK row, new : row = Over(b) /\ new = g[b].out
    OBVIOUS
<1>4. /\ row \in Goroutines /\ row.at = "done" /\ row.out = {} /\ row.todo = <<>> /\ Stack(b, row)
      /\ row = [g[b] EXCEPT !.at = "done", !.out = {}]
    BY <1>1, <1>3, OverRow, Zenon
<1>5. g' = [g EXCEPT ![b] = row]
    BY <1>4, Zenon DEF Fetch!Finished
<1>6. f' = [f EXCEPT !.all = f.all \cup new]
    BY <1>3, Zenon DEF Fetch!Finished
<1>7. f.all \cup new \in SUBSET Outcomes /\ \A o \in new : o.channels \subseteq Mine(b)
    BY <1>2, <1>3 DEF Fetches, Goroutines, Stack
<1>8. /\ f' \in Fetches /\ f'.lost = f.lost /\ f'.cut = f.cut /\ f'.live = f.live /\ f'.all = f.all \cup new
      /\ f'.at = f.at /\ f'.backend = f.backend /\ f'.next = f.next /\ f'.fatal = f.fatal
      /\ f'.dead = f.dead /\ f'.result = f.result
  <2>1. PICK x, w, y :
           x = f /\ w = f.all \cup new /\ y = [x EXCEPT !.all = w]
      BY <1>2, <1>7
  <2>2. /\ y \in Fetches /\ y.lost = x.lost /\ y.cut = x.cut /\ y.live = x.live /\ y.all = w
        /\ y.at = x.at /\ y.backend = x.backend /\ y.next = x.next /\ y.fatal = x.fatal
        /\ y.dead = x.dead /\ y.result = x.result
      BY <1>2, <1>7, <2>1 DEF Fetches
  <2> QED
      BY <1>6, <2>1, <2>2, Zenon
<1>9. ASSUME ~f'.dead, NEW c \in Mine(b), NEW s \in 0..LastSecond
      PROVE  Once(row, Known \cup new, c, s)
  <2>1. Once(g[b], Known, c, s)
      BY <1>8, <1>9 DEF FetchInv, Shared
  <2>2. Covering(row, Known \cup new, c, s) = Covering(g[b], Known, c, s)
      BY <1>3, <1>4 DEF Covering
  <2>3. row.todo = g[b].todo
      BY <1>1, <1>4
  <2> QED
      BY <2>1, <2>2, <2>3 DEF Once
<1>10. f.fatal => f.dead
    BY DEF FetchInv, Phases
<1>11. Known' = Known \cup new
    BY <1>8 DEF Known
<1>12. StepOf(b, row, new)
    BY <1>1, <1>4, <1>5, <1>7, <1>8, <1>9, <1>10, <1>11 DEF StepOf
<1> QED
    BY <1>12, Worked

\* A goroutine of the database backend has its whole channel in hand, and ends with one call.
LEMMA ReadRow ==
    ASSUME FetchInv, NEW b \in DOMAIN g, g[b].at = "working", g[b].call = "read",
           g[b].todo # <<>>, NEW o \in Outcomes, g' = Fetch!Continue(b, <<>>, {o})
    PROVE  /\ g[b].out = {} /\ Rest(g[b].todo) = <<>>
           /\ \E row \in Goroutines :
                 /\ g' = [g EXCEPT ![b] = row] /\ row.at = g[b].at
                 /\ row.call = "submit" /\ row.todo = Rest(g[b].todo) /\ row.out = {o}
<1>1. Stack(b, g[b])
    BY DEF FetchInv
<1>2. g[b].out = {} /\ g[b].todo = Given(b)
    BY <1>1 DEF Stack
<1>3. Rest(g[b].todo) = <<>>
    BY <1>2 DEF Given, Rest
<1>4. PICK out \in SUBSET Outcomes : out = {o}
    OBVIOUS
<1>5. PICK todo \in Seq(Work) : todo = <<>>
  <2>1. <<>> \in Seq(Work)
      OBVIOUS
  <2> QED
      BY <2>1, Zenon
<1>6. PICK row : GoesOn(b, row, todo, out)
    BY ContinueRow DEF FetchInv
<1>7. g' = Fetch!Continue(b, todo, out)
    BY <1>4, <1>5
<1>8. /\ row \in Goroutines /\ g' = [g EXCEPT ![b] = row] /\ row.at = g[b].at
      /\ row.call = "submit" /\ row.todo = Rest(g[b].todo) /\ row.out = {o}
    BY <1>3, <1>4, <1>5, <1>6, <1>7, Zenon DEF GoesOn
<1> QED
    BY <1>2, <1>3, <1>8

\* A capped read leaves the older part of the window out.
LEMMA SharesCapped ==
    ASSUME NEW p \in Work, NEW last \in p.lo .. p.hi
    PROVE  LET new == Fetch!Whole(Fetch!Newest(p, last))
               old == Fetch!Whole(Fetch!Older(p, last))
           IN  /\ new \in Outcomes /\ new.channels = Elements(p.chs)
               /\ old \in Outcomes /\ old.channels = Elements(p.chs)
               /\ SharesOut(p, {new, old})
<1>1. p.lo \in Nat /\ p.hi \in Nat /\ last \in Nat /\ p.lo <= last /\ last <= p.hi
      /\ p.chs \in ChannelLists
    BY DEF Work
<1>2. PICK n \in Work, m \in Work : n = Fetch!Newest(p, last) /\ m = Fetch!Older(p, last)
  <2>1. Fetch!Newest(p, last) = [chs |-> p.chs, lo |-> last + 1, hi |-> p.hi]
      BY DEF Fetch!Newest, Fetch!Piece
  <2>2. Fetch!Older(p, last) = [chs |-> p.chs, lo |-> p.lo, hi |-> last]
      BY DEF Fetch!Older, Fetch!Piece
  <2>3. last + 1 \in Nat
      BY <1>1
  <2> QED
      BY <1>1, <2>1, <2>2, <2>3 DEF Work
<1>3. /\ n.chs = p.chs /\ n.lo = last + 1 /\ n.hi = p.hi
      /\ m.chs = p.chs /\ m.lo = p.lo /\ m.hi = last
    BY <1>2 DEF Fetch!Newest, Fetch!Older, Fetch!Piece
<1>4. \A q \in Work : /\ Fetch!Whole(q) \in Outcomes /\ Fetch!Whole(q).channels = Elements(q.chs)
                      /\ \A c, s : Fetch!Covers(Fetch!Whole(q), c, s) <=> Contains(q, c, s)
  <2> TAKE q \in Work
  <2>1. PICK all \in SUBSET Elements(q.chs) : all = Elements(q.chs)
      OBVIOUS
  <2>2. /\ Fetch!Outcome(all, q) \in Outcomes /\ Fetch!Outcome(all, q).channels = all
        /\ Fetch!ChannelsOf(q) = Elements(q.chs)
        /\ \A c, s : Fetch!Covers(Fetch!Outcome(all, q), c, s) <=> c \in all /\ Contains(q, c, s)
      BY OutcomeFacts
  <2>3. Fetch!Whole(q) = Fetch!Outcome(all, q)
      BY <2>1, <2>2 DEF Fetch!Whole
  <2> QED
      BY <2>1, <2>2, <2>3 DEF Contains
<1>5. \A c, s : /\ Contains(p, c, s) <=> Contains(n, c, s) \/ Contains(m, c, s)
                /\ ~(Contains(n, c, s) /\ Contains(m, c, s))
    BY <1>1, <1>3 DEF Contains
<1>6. PICK x, y : x = Fetch!Whole(n) /\ y = Fetch!Whole(m)
    OBVIOUS
<1>7. \A c, s : /\ Fetch!Covers(x, c, s) <=> Contains(n, c, s)
                /\ Fetch!Covers(y, c, s) <=> Contains(m, c, s)
    BY <1>4, <1>6
<1>8. ASSUME NEW c, NEW s, Contains(p, c, s)
      PROVE  OneCovers({x, y}, c, s)
  <2>1. CASE Contains(n, c, s)
    <3>1. {z \in {x, y} : Fetch!Covers(z, c, s)} = {x}
        BY <1>5, <1>7, <2>1
    <3> QED
        BY <3>1 DEF OneCovers
  <2>2. CASE Contains(m, c, s)
    <3>1. {z \in {x, y} : Fetch!Covers(z, c, s)} = {y}
        BY <1>5, <1>7, <2>2
    <3> QED
        BY <3>1 DEF OneCovers
  <2> QED
      BY <1>5, <1>8, <2>1, <2>2
<1>9. SharesOut(p, {x, y})
  <2>1. \A c, s : ~Contains(p, c, s) => \A z \in {x, y} : ~Fetch!Covers(z, c, s)
      BY <1>5, <1>7
  <2> QED
      BY <1>8, <2>1 DEF SharesOut
<1> QED
    BY <1>2, <1>3, <1>4, <1>6, <1>9

\* A channel of the database is read in one call, whole or up to the cap.
LEMMA ReadChannelKeeps ==
    ASSUME FetchInv, NEW b \in DOMAIN g, Fetch!ReadChannel(b)
    PROVE  FetchInv'
<1> DEFINE p == Head(g[b].todo)
<1>1. g[b].at = "working" /\ g[b].call = "read" /\ g[b].todo # <<>> /\ ~Polls(g[b])
    BY AtPolls DEF Fetch!ReadChannel
<1>2. f \in Fetches /\ p \in Work /\ Elements(p.chs) \subseteq Mine(b)
    BY <1>1, TailStack DEF FetchInv, FetchType
<1> HIDE DEF p
<1>3. CASE g' = Fetch!Continue(b, <<>>, {Fetch!Whole(p)}) /\ UNCHANGED f
  <2>1. PICK o \in Outcomes :
            o = Fetch!Whole(p) /\ o.channels = Elements(p.chs) /\ SharesOut(p, {o})
    <3>1. PICK w \in Work : w = p
        BY <1>2
    <3>2. PICK all \in SUBSET Elements(w.chs) : all = Elements(w.chs)
        OBVIOUS
    <3>3. /\ Fetch!Outcome(all, w) \in Outcomes /\ Fetch!Outcome(all, w).channels = all
          /\ Fetch!ChannelsOf(w) = Elements(w.chs)
        BY OutcomeFacts
    <3>4. SharesOut(w, {Fetch!Outcome(all, w)})
        BY <3>2, SharesWhole
    <3> QED
        BY <3>1, <3>2, <3>3, <3>4 DEF Fetch!Whole
  <2>2. PICK row \in Goroutines :
            /\ g' = [g EXCEPT ![b] = row] /\ row.at = g[b].at
            /\ row.call = "submit" /\ row.todo = Rest(g[b].todo) /\ row.out = {o}
      BY <1>1, <1>3, <2>1, ReadRow
  <2>3. g[b].out = {}
      BY <1>1, <1>3, <2>1, ReadRow
  <2>4. PICK new : new = {}
      OBVIOUS
  <2>5. /\ Known' = Known \cup new /\ \A x \in new : x.channels \subseteq Mine(b)
        /\ row.out \cup (Known \cup new) = g[b].out \cup Known \cup {o}
      BY <1>3, <2>2, <2>3, <2>4 DEF Known
  <2>6. DoneWith(b, row, {o}, new)
      BY <1>1, <1>2, <1>3, <2>1, <2>2, <2>5 DEF DoneWith, p
  <2> QED
      BY <2>6, PieceDone
<1>4. ASSUME NEW last \in p.lo .. p.hi,
             g' = Fetch!Continue(b, <<>>, {Fetch!Whole(Fetch!Newest(p, last))}),
             f' = [f EXCEPT !.cut = f.cut \cup {Fetch!Whole(Fetch!Older(p, last))}]
      PROVE  FetchInv'
  <2>1. PICK n \in Outcomes, m \in Outcomes :
            /\ n = Fetch!Whole(Fetch!Newest(p, last)) /\ m = Fetch!Whole(Fetch!Older(p, last))
            /\ n.channels = Elements(p.chs) /\ m.channels = Elements(p.chs)
            /\ SharesOut(p, {n, m})
    <3>1. PICK w \in Work : w = p
        BY <1>2
    <3>2. last \in w.lo .. w.hi
        BY <3>1
    <3> QED
        BY <3>1, <3>2, SharesCapped
  <2>2. PICK row \in Goroutines :
            /\ g' = [g EXCEPT ![b] = row] /\ row.at = g[b].at
            /\ row.call = "submit" /\ row.todo = Rest(g[b].todo) /\ row.out = {n}
      BY <1>1, <1>4, <2>1, ReadRow
  <2>3. g[b].out = {}
      BY <1>1, <1>4, <2>1, ReadRow
  <2>4. /\ f' \in Fetches /\ f'.lost = f.lost /\ f'.cut = f.cut \cup {m} /\ f'.live = f.live
        /\ f'.all = f.all /\ f'.at = f.at /\ f'.backend = f.backend /\ f'.next = f.next
        /\ f'.fatal = f.fatal /\ f'.dead = f.dead /\ f'.result = f.result
      BY <1>2, <1>4, <2>1 DEF Fetches
  <2>5. PICK new : new = {m}
      OBVIOUS
  <2>6. /\ Known' = Known \cup new /\ \A x \in new : x.channels \subseteq Mine(b)
        /\ row.out \cup (Known \cup new) = g[b].out \cup Known \cup {n, m}
        /\ \A x \in row.out : x \in g[b].out \/ x.channels \subseteq Mine(b)
      BY <1>2, <2>1, <2>2, <2>3, <2>4, <2>5 DEF Known
  <2>7. DoneWith(b, row, {n, m}, new)
      BY <1>1, <2>1, <2>2, <2>4, <2>6 DEF DoneWith, p
  <2> QED
      BY <2>7, PieceDone
<1> QED
    BY <1>3, <1>4 DEF Fetch!ReadChannel, Fetch!Now, p

\* A piece is read, without the channels whose parts could not be downloaded or were capped.
LEMMA DownloadKeeps ==
    ASSUME FetchInv, NEW b \in DOMAIN g, NEW skipped, NEW capped, Fetch!Download(b, skipped, capped)
    PROVE  FetchInv'
<1> DEFINE p == Head(g[b].todo)
<1>1. g[b].at = "working" /\ g[b].todo # <<>> /\ ~Polls(g[b])
  <2>1. PICK call \in {"download", "download partial"} : Fetch!At(b, call)
      BY DEF Fetch!Download
  <2> QED
      BY <2>1, AtPolls
<1>2. f \in Fetches /\ p \in Work /\ Elements(p.chs) \subseteq Mine(b)
    BY <1>1, TailStack DEF FetchInv, FetchType
<1>3. Fetch!ChannelsOf(p) = Elements(p.chs)
    BY DEF Fetch!ChannelsOf, Elements
<1> HIDE DEF p
<1>4. PICK read, gone, R, G, C :
         /\ read = (Elements(p.chs) \ skipped) \ capped /\ gone = Elements(p.chs) \cap skipped
         /\ R = Fetch!Some(read, p) /\ G = Fetch!Some(gone, p) /\ C = Fetch!Some(capped, p)
    BY Zenon
<1>5. capped \subseteq Elements(p.chs) \ skipped
    BY <1>3 DEF Fetch!Download, Fetch!Now, p
<1>6. /\ g' = Fetch!Continue(b, Tail(g[b].todo), g[b].out \cup R)
      /\ f' = [f EXCEPT !.lost = f.lost \cup G, !.cut = f.cut \cup C]
    BY <1>3, <1>4, Zenon DEF Fetch!Download, Fetch!Now, p
<1>7. /\ R \in SUBSET Outcomes /\ G \in SUBSET Outcomes /\ C \in SUBSET Outcomes
      /\ \A o \in R \cup G \cup C : o.channels \subseteq Elements(p.chs)
      /\ SharesOut(p, R \cup G \cup C)
  <2>1. PICK w \in Work : w = p
      BY <1>2
  <2>2. PICK rd \in SUBSET Elements(w.chs), gn \in SUBSET Elements(w.chs),
             cp \in SUBSET Elements(w.chs) : rd = read /\ gn = gone /\ cp = capped
      BY <1>4, <1>5, <2>1
  <2>3. /\ Elements(w.chs) = rd \cup gn \cup cp
        /\ rd \cap gn = {} /\ rd \cap cp = {} /\ gn \cap cp = {}
      BY <1>4, <1>5, <2>1, <2>2
  <2>4. SharesOut(w, Fetch!Some(rd, w) \cup Fetch!Some(gn, w) \cup Fetch!Some(cp, w))
      BY <2>3, SharesThree
  <2>5. \A channels \in SUBSET Elements(w.chs) :
            /\ Fetch!Some(channels, w) \in SUBSET Outcomes
            /\ \A o \in Fetch!Some(channels, w) : o.channels = channels
      BY SomeFacts
  <2> QED
      BY <1>4, <2>1, <2>2, <2>4, <2>5
<1>8. g[b] \in Goroutines /\ Rest(g[b].todo) \in Seq(Work)
    BY <1>1, TailStack, BatchFacts DEF FetchInv
<1>9. PICK out \in SUBSET Outcomes, todo \in Seq(Work) :
          out = g[b].out \cup R /\ todo = Rest(g[b].todo)
    BY <1>7, <1>8 DEF Goroutines
<1>10. PICK row : GoesOn(b, row, todo, out)
    BY ContinueRow DEF FetchInv
<1>11. g' = Fetch!Continue(b, todo, out)
    BY <1>6, <1>9, Zenon DEF Rest
<1>12. /\ row \in Goroutines /\ g' = [g EXCEPT ![b] = row] /\ row.at = g[b].at
       /\ row.call = "submit" /\ row.todo = Rest(g[b].todo) /\ row.out = g[b].out \cup R
    BY <1>9, <1>10, <1>11, Zenon DEF GoesOn
<1>13. PICK lost \in SUBSET Outcomes, cut \in SUBSET Outcomes :
          lost = f.lost \cup G /\ cut = f.cut \cup C
    BY <1>2, <1>7 DEF Fetches
<1>14. /\ f' \in Fetches /\ f'.lost = lost /\ f'.cut = cut /\ f'.live = f.live /\ f'.all = f.all
       /\ f'.at = f.at /\ f'.backend = f.backend /\ f'.next = f.next /\ f'.fatal = f.fatal
       /\ f'.dead = f.dead /\ f'.result = f.result
  <2>1. PICK x \in Fetches : x = [f EXCEPT !.lost = lost]
      BY <1>2 DEF Fetches
  <2>2. PICK y \in Fetches : y = [x EXCEPT !.cut = cut]
      BY DEF Fetches
  <2>3. f' = y
      BY <1>6, <1>13, <2>1, <2>2, Zenon
  <2>4. /\ x.lost = lost /\ x.cut = f.cut /\ x.live = f.live /\ x.all = f.all
        /\ x.at = f.at /\ x.backend = f.backend /\ x.next = f.next /\ x.fatal = f.fatal
        /\ x.dead = f.dead /\ x.result = f.result
      BY <1>2, <2>1 DEF Fetches
  <2>5. /\ y.lost = x.lost /\ y.cut = cut /\ y.live = x.live /\ y.all = x.all
        /\ y.at = x.at /\ y.backend = x.backend /\ y.next = x.next /\ y.fatal = x.fatal
        /\ y.dead = x.dead /\ y.result = x.result
      BY <2>2 DEF Fetches
  <2> QED
      BY <2>3, <2>4, <2>5, Zenon
<1>15. PICK new, fresh : new = G \cup C /\ fresh = R \cup G \cup C
    OBVIOUS
<1>16. /\ \A x \in row.out : x \in g[b].out \/ x.channels \subseteq Mine(b)
       /\ \A x \in new : x.channels \subseteq Mine(b)
    BY <1>2, <1>7, <1>12, <1>15
<1>17. Known' = Known \cup new
    BY <1>13, <1>14, <1>15 DEF Known
<1>18. row.out \cup (Known \cup new) = g[b].out \cup Known \cup fresh
    BY <1>12, <1>15
<1>19. f'.live \subseteq f.live /\ (Polls(g[b]) => Head(g[b].todo) \notin f'.live)
    BY <1>1, <1>14
<1>20. SharesOut(Head(g[b].todo), fresh)
    BY <1>7, <1>15 DEF p
<1>21. DoneWith(b, row, fresh, new)
    BY <1>1, <1>12, <1>14, <1>16, <1>17, <1>18, <1>19, <1>20 DEF DoneWith
<1> QED
    BY <1>21, PieceDone

-----------------------------------------------------------------------------
(* The loop, the caller, and what every fetch keeps *)

\* A step of the loop that starts the goroutines, or of the caller.
LEMMA LoopKeeps ==
    ASSUME FetchInv, UNCHANGED g, f' \in Fetches, f'.backend = f.backend,
           f'.live = f.live, f'.lost = f.lost, f'.cut = f.cut, f'.all = f.all, f.dead => f'.dead, Phases'
    PROVE  FetchInv'
<1>1. Batches' = Batches /\ Known' = Known
    BY DEF Batches, Known
<1>2. FetchType'
    BY <1>1 DEF FetchInv, FetchType
<1>3. Submitted'
    BY DEF FetchInv, Submitted, Polls
<1>4. \A a : Mine(a)' = Mine(a) /\ Given(a)' = Given(a)
    BY <1>1 DEF Mine, Given
<1>5. \A a \in DOMAIN g : Stack(a, g[a])'
  <2> SUFFICES ASSUME NEW a \in DOMAIN g PROVE Stack(a, g[a])'
      OBVIOUS
  <2>1. Stack(a, g[a])
      BY DEF FetchInv
  <2>2. Mine(a)' = Mine(a) /\ Given(a)' = Given(a)
      BY <1>4
  <2> QED
      BY <2>1, <2>2 DEF Stack
<1>6. Shared'
  <2>1. \A a, c, s : Once(g[a], Known, c, s)' <=> Once(g[a], Known, c, s)
      BY <1>1 DEF Once, Covering, Places, Contains, Elements, Fetch!Covers
  <2> SUFFICES ASSUME ~f'.dead, NEW a \in DOMAIN g, NEW c \in Mine(a), NEW s \in 0..LastSecond
               PROVE  Once(g[a], Known, c, s)
      BY <1>4, <2>1 DEF Shared
  <2> QED
      BY DEF FetchInv, Shared
<1> QED
    BY <1>2, <1>3, <1>5, <1>6 DEF FetchInv

LEMMA StopKeeps ==
    ASSUME FetchInv, Fetch!StopScheduling
    PROVE  FetchInv'
<1>1. f \in Fetches /\ f' = [f EXCEPT !.at = "waiting"] /\ UNCHANGED g
    BY DEF FetchInv, FetchType, Fetch!StopScheduling
<1>2. /\ f' \in Fetches /\ f'.lost = f.lost /\ f'.cut = f.cut /\ f'.live = f.live /\ f'.all = f.all
      /\ f'.at = "waiting" /\ f'.backend = f.backend /\ f'.next = f.next /\ f'.fatal = f.fatal
      /\ f'.dead = f.dead /\ f'.result = f.result
    BY <1>1 DEF Fetches
<1>3. Phases'
    BY <1>1, <1>2 DEF FetchInv, Phases, Fetch!StopScheduling
<1> QED
    BY <1>1, <1>2, <1>3, LoopKeeps

LEMMA ExpireKeeps ==
    ASSUME FetchInv, Fetch!Expire
    PROVE  FetchInv'
<1>1. f \in Fetches /\ f' = [f EXCEPT !.dead = TRUE] /\ UNCHANGED g
    BY DEF FetchInv, FetchType, Fetch!Expire
<1>2. /\ f' \in Fetches /\ f'.lost = f.lost /\ f'.cut = f.cut /\ f'.live = f.live /\ f'.all = f.all
      /\ f'.at = f.at /\ f'.backend = f.backend /\ f'.next = f.next /\ f'.fatal = f.fatal
      /\ f'.dead /\ f'.result = f.result
    BY <1>1 DEF Fetches
<1>3. Phases'
    BY <1>1, <1>2 DEF FetchInv, Phases, Fetch!Expire, Fetch!Running
<1> QED
    BY <1>1, <1>2, <1>3, LoopKeeps

LEMMA ReturnKeeps ==
    ASSUME FetchInv, Fetch!Return
    PROVE  FetchInv'
<1>1. PICK result \in {"ok", "error"} : result = Fetch!ResultOf(f.fatal, f.dead)
    BY DEF Fetch!ResultOf
<1>2. f \in Fetches /\ f' = [f EXCEPT !.at = "returned", !.result = result] /\ UNCHANGED g
    BY <1>1, Zenon DEF FetchInv, FetchType, Fetch!Return
<1>3. /\ f' \in Fetches /\ f'.lost = f.lost /\ f'.cut = f.cut /\ f'.live = f.live /\ f'.all = f.all
      /\ f'.at = "returned" /\ f'.backend = f.backend /\ f'.next = f.next /\ f'.fatal = f.fatal
      /\ f'.dead = f.dead /\ f'.result = result
    BY <1>2 DEF Fetches
<1>4. result = "ok" => ~f.dead
    BY <1>1 DEF Fetch!ResultOf
<1>5. Phases'
    BY <1>2, <1>3, <1>4 DEF FetchInv, Phases, Fetch!Return
<1> QED
    BY <1>2, <1>3, <1>5, LoopKeeps

LEMMA ScheduleKeeps ==
    ASSUME FetchInv, Fetch!Schedule
    PROVE  FetchInv'
<1>1. f \in Fetches /\ f' = [f EXCEPT !.next = f.next + 1] /\ f.next \in Nat \ {0}
    BY DEF FetchInv, FetchType, Fetch!Schedule, Fetches
<1>2. /\ f' \in Fetches /\ f'.lost = f.lost /\ f'.cut = f.cut /\ f'.live = f.live /\ f'.all = f.all
      /\ f'.at = f.at /\ f'.backend = f.backend /\ f'.next = f.next + 1 /\ f'.fatal = f.fatal
      /\ f'.dead = f.dead /\ f'.result = f.result
    BY <1>1 DEF Fetches
<1>3. PICK n : n = f.next /\ n \in DOMAIN g
    BY <1>1, BatchFacts DEF Fetch!Schedule, FetchInv
<1>4. g[n] \in Goroutines /\ g[n].at = "new" /\ Stack(n, g[n])
    BY <1>1, <1>3, BatchFacts DEF FetchInv, Phases
<1>5. PICK row \in Goroutines : /\ row = [g[n] EXCEPT !.at = "queued"] /\ row.at = "queued"
                                /\ row.todo = g[n].todo /\ row.out = g[n].out
  <2>1. PICK x \in Goroutines : x = g[n]
      BY <1>4
  <2>2. PICK y \in Goroutines : y = [x EXCEPT !.at = "queued"]
      BY DEF Goroutines
  <2>3. y.at = "queued" /\ y.todo = x.todo /\ y.out = x.out
      BY <2>2 DEF Goroutines
  <2> QED
      BY <2>1, <2>2, <2>3, Zenon
<1>6. g' = [g EXCEPT ![n] = row]
    BY <1>3, <1>5, Zenon DEF Fetch!Schedule
<1>7. Batches' = Batches /\ Known' = Known /\ DOMAIN g' = DOMAIN g /\ g'[n] = row
      /\ \A a \in DOMAIN g : a # n => g'[a] = g[a]
    BY <1>2, <1>3, <1>6 DEF Batches, Known
<1>8. FetchType'
    BY <1>2, <1>3, <1>5, <1>6, <1>7 DEF FetchInv, FetchType
<1>9. Len(g') = Len(g) /\ (\A a \in DOMAIN g : a \in Nat)
  <2>1. Len(Batches) \in Nat
      BY BatchFacts DEF FetchInv
  <2>2. g \in [1..Len(Batches) -> Goroutines] /\ g' \in [1..Len(Batches) -> Goroutines]
      BY <1>7, <1>8 DEF FetchInv, FetchType
  <2> QED
      BY <2>1, <2>2
<1>10. Phases'
  <2>1. \A a \in DOMAIN g' : g'[a].at = "new" <=> a >= f'.next
    <3> SUFFICES ASSUME NEW a \in DOMAIN g
                 PROVE  g'[a].at = "new" <=> a >= f.next + 1
        BY <1>2, <1>7
    <3>1. a \in Nat
        BY <1>9
    <3>2. CASE a = n
      <4>1. ~(a >= f.next + 1)
          BY <1>1, <1>3, <3>2
      <4>2. g'[a].at = "queued"
          BY <1>5, <1>7, <3>2
      <4> QED
          BY <4>1, <4>2
    <3>3. CASE a # n
        BY <1>1, <1>3, <1>7, <3>1, <3>3 DEF FetchInv, Phases
    <3> QED
        BY <3>2, <3>3
  <2> QED
      BY <1>2, <2>1 DEF FetchInv, Phases, Fetch!Schedule
<1>11. Submitted'
  <2> SUFFICES ASSUME NEW p \in f.live
               PROVE  \E a \in DOMAIN g' : Polls(g'[a]) /\ p = Head(g'[a].todo)
      BY <1>2 DEF Submitted, Polls
  <2>1. PICK a \in DOMAIN g : Polls(g[a]) /\ p = Head(g[a].todo)
      BY DEF FetchInv, Submitted
  <2>2. a # n
      BY <1>4, <2>1 DEF Polls
  <2> QED
      BY <1>7, <2>1, <2>2
<1>12. \A a : Mine(a)' = Mine(a) /\ Given(a)' = Given(a)
    BY <1>7 DEF Mine, Given
<1>13. Stack(n, row)
  <2>1. row.out = {} /\ row.todo = Given(n)
      BY <1>4, <1>5 DEF Stack
  <2>2. \A i \in 1..Len(g[n].todo) : Elements(g[n].todo[i].chs) \subseteq Mine(n)
      BY <1>4 DEF Stack
  <2> QED
      BY <1>5, <2>1, <2>2 DEF Stack
<1>14. \A a \in DOMAIN g' : Stack(a, g[a])'
  <2> SUFFICES ASSUME NEW a \in DOMAIN g PROVE Stack(a, g[a])'
      BY <1>7
  <2>1. Stack(a, g'[a])
      BY <1>7, <1>13 DEF FetchInv
  <2>2. Mine(a)' = Mine(a) /\ Given(a)' = Given(a)
      BY <1>12
  <2> QED
      BY <2>1, <2>2 DEF Stack
<1>15. Shared'
  <2>4. \A a, c, s : Once(g[a], Known, c, s)' <=> Once(g'[a], Known', c, s)
      BY DEF Once, Covering, Places, Contains, Elements, Fetch!Covers
  <2> SUFFICES ASSUME ~f'.dead, NEW a \in DOMAIN g, NEW c \in Mine(a), NEW s \in 0..LastSecond
               PROVE  Once(g'[a], Known', c, s)
      BY <1>7, <1>12, <2>4 DEF Shared
  <2>1. Once(g[a], Known, c, s)
      BY <1>2 DEF FetchInv, Shared
  <2>2. g'[a].todo = g[a].todo /\ g'[a].out = g[a].out
      BY <1>5, <1>7
  <2>3. Covering(g'[a], Known', c, s) = Covering(g[a], Known, c, s)
      BY <1>7, <2>2 DEF Covering
  <2> QED
      BY <2>1, <2>2, <2>3 DEF Once
<1> QED
    BY <1>8, <1>10, <1>11, <1>14, <1>15 DEF FetchInv

LEMMA FetchKeeps ==
    ASSUME FetchInv, Fetch!Next
    PROVE  FetchInv'
BY StopKeeps, ExpireKeeps, ReturnKeeps, ScheduleKeeps, SubmitKeeps, CompletedKeeps, AcquireKeeps,
   LeaveQueueKeeps, FatalKeeps, FinishedKeeps, ReadChannelKeeps, DownloadKeeps, IsolatedKeeps,
   TooLargeKeeps DEF Fetch!Next

\* A fetch starts with every batch whole on its goroutine's stack.
LEMMA GivenType ==
    ASSUME NEW backend \in {"batch", "mysql"}, NEW b \in 1..Len(Fetch!BatchesOf(backend)),
           NEW p, p = Fetch!Piece(Fetch!BatchesOf(backend)[b], 0, LastSecond)
    PROVE  /\ p \in Work /\ <<p>> \in Seq(Work) /\ Len(<<p>>) = 1 /\ <<p>>[1] = p
           /\ p.chs = Fetch!BatchesOf(backend)[b]
           /\ \A c \in Elements(p.chs), s \in 0..LastSecond : Places(<<p>>, c, s) = {1}
<1>1. LastSecond \in Nat
    BY FetchAssumption DEF Fetch!Setting
<1>2. Fetch!BatchesOf(backend)[b] \in ChannelLists
    BY BatchLists
<1>3. p \in Work /\ p.chs = Fetch!BatchesOf(backend)[b] /\ p.lo = 0 /\ p.hi = LastSecond
    BY <1>1, <1>2 DEF Fetch!Piece, Work
<1>4. <<p>> \in Seq(Work) /\ Len(<<p>>) = 1 /\ <<p>>[1] = p
    BY <1>3
<1>5. ASSUME NEW c \in Elements(p.chs), NEW s \in 0..LastSecond
      PROVE  Places(<<p>>, c, s) = {1}
  <2>1. Contains(p, c, s)
      BY <1>3 DEF Contains
  <2> QED
      BY <1>4, <2>1 DEF Places
<1> QED
    BY <1>3, <1>4, <1>5

LEMMA Begins ==
    ASSUME NEW backend \in {"batch", "mysql"},
           f' = Fetch!NewFetch(backend), g' = Fetch!NewGoroutines(backend)
    PROVE  FetchInv'
<1> DEFINE n == Len(Fetch!BatchesOf(backend))
           P(b) == Fetch!Piece(Fetch!BatchesOf(backend)[b], 0, LastSecond)
<1>1. /\ f'.at = "scheduling" /\ f'.backend = backend /\ f'.next = 1 /\ ~f'.fatal /\ ~f'.dead
      /\ f'.result = "none" /\ f'.live = {} /\ f'.lost = {} /\ f'.cut = {} /\ f'.all = {} /\ f' \in Fetches
    BY DEF Fetch!NewFetch, Fetches
<1>2. g' = [b \in 1..n |-> [at |-> "new", call |-> "none", out |-> {}, todo |-> <<P(b)>>]]
    BY Zenon DEF Fetch!NewGoroutines
<1>3. n \in Nat
    BY BatchLists
<1>4. \A b \in 1..n : /\ <<P(b)>> \in Seq(Work) /\ Len(<<P(b)>>) = 1 /\ <<P(b)>>[1] = P(b)
                      /\ P(b).chs = Fetch!BatchesOf(backend)[b]
                      /\ \A c \in Elements(P(b).chs), s \in 0..LastSecond :
                            Places(<<P(b)>>, c, s) = {1}
    BY GivenType
<1>5. PICK todo : todo = [b \in 1..n |-> <<P(b)>>]
    OBVIOUS
<1>6. \A b \in 1..n : todo[b] = <<P(b)>>
    BY <1>5, Zenon
<1>7. \A b \in 1..n :
         /\ todo[b] \in Seq(Work) /\ Len(todo[b]) = 1
         /\ todo[b][1].chs = Fetch!BatchesOf(backend)[b]
         /\ \A c \in Elements(todo[b][1].chs), s \in 0..LastSecond : Places(todo[b], c, s) = {1}
  <2> SUFFICES ASSUME NEW b \in 1..n
               PROVE  /\ todo[b] \in Seq(Work) /\ Len(todo[b]) = 1
                      /\ todo[b][1].chs = Fetch!BatchesOf(backend)[b]
                      /\ \A c \in Elements(todo[b][1].chs), s \in 0..LastSecond :
                            Places(todo[b], c, s) = {1}
      BY Zenon
  <2>1. PICK p : p = P(b)
      BY Zenon
  <2>2. /\ <<p>> \in Seq(Work) /\ Len(<<p>>) = 1 /\ <<p>>[1] = p
        /\ p.chs = Fetch!BatchesOf(backend)[b]
        /\ \A c \in Elements(p.chs), s \in 0..LastSecond : Places(<<p>>, c, s) = {1}
      BY <2>1, <1>4, Zenon
  <2>3. todo[b] = <<p>>
      BY <2>1, <1>6, Zenon
  <2>4. todo[b][1] = p
      BY <2>2, <2>3, Zenon
  <2> QED
      BY <2>2, <2>3, <2>4, Zenon
<1>8. g' = [b \in 1..n |-> [at |-> "new", call |-> "none", out |-> {}, todo |-> todo[b]]]
    BY <1>2, <1>6, Zenon
<1>9. Batches' = Fetch!BatchesOf(backend)
    BY <1>1, Zenon DEF Batches
<1>10. \A b : Mine(b)' = Elements(Fetch!BatchesOf(backend)[b]) /\ Given(b)' = <<P(b)>>
  <2>1. \A b : Given(b)' = <<Fetch!Piece(Batches'[b], 0, LastSecond)>>
      BY DEF Given
  <2>2. \A b : Mine(b)' = Elements(Batches'[b])
      BY DEF Mine, Elements
  <2> QED
      BY <1>9, <2>1, <2>2, Zenon
<1> HIDE DEF n, P
<1>11. /\ DOMAIN g' = 1..n
       /\ \A b \in 1..n : /\ g'[b] \in Goroutines /\ g'[b].at = "new" /\ g'[b].call = "none"
                          /\ g'[b].out = {} /\ g'[b].todo = todo[b]
    BY <1>7, <1>8 DEF Goroutines
<1>12. FetchType'
    BY <1>1, <1>8, <1>9, <1>11 DEF FetchType, n
<1>13. \A b \in 1..n : b \in Nat /\ b >= 1
    BY <1>3
<1>14. Phases'
    BY <1>1, <1>11, <1>13 DEF Phases
<1>15. Submitted'
    BY <1>1 DEF Submitted
<1>16. ASSUME NEW b \in 1..n
       PROVE  Stack(b, g[b])'
  <2>1. g'[b].todo = <<P(b)>> /\ Given(b)' = <<P(b)>>
      BY <1>6, <1>10, <1>11
  <2>2. \A i \in 1..Len(todo[b]) : Elements(todo[b][i].chs) \subseteq Mine(b)'
      BY <1>7, <1>10
  <2>3. \A i \in 1..Len(g'[b].todo) : Elements(g'[b].todo[i].chs) \subseteq Mine(b)'
      BY <1>11, <2>2
  <2>4. g'[b].out = {} /\ g'[b].at = "new"
      BY <1>11
  <2> QED
      BY <2>1, <2>3, <2>4 DEF Stack, Elements
<1>17. Shared'
  <2>1. \A a, c, s : Once(g[a], Known, c, s)' <=> Once(g'[a], Known', c, s)
      BY DEF Once, Covering, Places, Contains, Elements, Fetch!Covers
  <2> SUFFICES ASSUME NEW b \in 1..n, NEW c \in Mine(b)', NEW s \in 0..LastSecond
               PROVE  Once(g'[b], Known', c, s)
      BY <1>11, <2>1 DEF Shared
  <2>2. Places(g'[b].todo, c, s) = {1}
      BY <1>7, <1>10, <1>11
  <2>3. Covering(g'[b], Known', c, s) = {}
      BY <1>1, <1>11 DEF Covering, Known
  <2> QED
      BY <2>2, <2>3 DEF Once
<1> QED
    BY <1>11, <1>12, <1>14, <1>15, <1>16, <1>17 DEF FetchInv

\* No fetch, or one that keeps to this.
NoneYet == f.at = "none" /\ f.result = "none"
Fetching == NoneYet \/ FetchInv

LEMMA FetchingStep == Fetching /\ [Next]_vars => Fetching'
<1> SUFFICES ASSUME Fetching, [Next]_vars
             PROVE  Fetching'
    OBVIOUS
<1>1. CASE UNCHANGED <<f, g>>
  <2>1. CASE NoneYet
      BY <1>1, <2>1 DEF Fetching, NoneYet
  <2>2. CASE FetchInv
    <3>1. Phases'
        BY <1>1, <2>2 DEF FetchInv, Phases
    <3>2. f' \in Fetches
        BY <1>1, <2>2 DEF FetchInv, FetchType
    <3> QED
        BY <1>1, <2>2, <3>1, <3>2, LoopKeeps DEF Fetching
  <2> QED
      BY <2>1, <2>2 DEF Fetching
<1>2. CASE FetchStep
  <2>1. FetchInv /\ Fetch!Next
      BY <1>2 DEF FetchStep, Fetching, NoneYet
  <2> QED
      BY <2>1, FetchKeeps DEF Fetching
<1>3. ASSUME NEW r \in Runs, Discover(r)
      PROVE  Fetching'
    BY <1>3, Begins DEF Discover, Fetching
<1>4. ASSUME NEW r \in Runs, TakeMessages(r)
      PROVE  Fetching'
    BY <1>4 DEF TakeMessages, FetchOver, Fetching, NoneYet
<1>5. \/ UNCHANGED <<f, g>> \/ FetchStep
      \/ \E r \in Runs : Discover(r) \/ TakeMessages(r)
  <2>1. ASSUME NEW r \in Runs, RunStep(r)
        PROVE  KeepFetch \/ Discover(r) \/ TakeMessages(r)
      BY <2>1, Zenon DEF RunStep, Claim, SourcesRefused, LoadFails, NothingToSay, OneChunk,
         MapChunks, StreamDelta, StreamEnds, AttemptFails, SendResult, CompleteTask, PipelineFails
  <2>2. Abandon \/ Requeue \/ Regenerate \/ PrepareStream => KeepFetch
      BY Zenon DEF Abandon, Requeue, Regenerate, PrepareStream
  <2>3. StreamStep \/ UNCHANGED vars => KeepFetch
      BY DEF StreamStep, vars, KeepFetch
  <2>4. KeepFetch => UNCHANGED <<f, g>>
      BY DEF KeepFetch
  <2> QED
      BY <2>1, <2>2, <2>3, <2>4 DEF Next
<1> QED
    BY <1>1, <1>2, <1>3, <1>4, <1>5

LEMMA FetchingInvariant == Spec => []Fetching
<1>1. Init => Fetching
    BY DEF Init, NoFetch, Fetching, NoneYet
<1> QED
    BY <1>1, FetchingStep, PTL DEF Spec

\* Halving batches and windows neither skips nor repeats a second: a fetch that reports
\* success has read every one once, or given it up with a piece of its own, or left it out
\* of a capped read (octo_search_fetch.go:114-200, 253-300; fetch.go:573-658).
THEOREM SecondsReadOnce == Spec => []EachSecondOnce
<1>1. Fetching => EachSecondOnce
  <2> SUFFICES ASSUME Fetching, f.at = "returned", f.result = "ok"
               PROVE  \A c \in Fetch!Channels, s \in 0..LastSecond :
                         Cardinality({p \in f.all \cup f.lost \cup f.cut : Fetch!Covers(p, c, s)}) = 1
      BY Zenon DEF EachSecondOnce, Fetch!EachSecondOnce, Cardinality, Fetch!Cardinality
  <2> TAKE c \in Fetch!Channels, s \in 0..LastSecond
  <2>1. FetchInv /\ FetchType
      BY DEF Fetching, NoneYet, FetchInv
  <2>2. PICK b \in DOMAIN g : c \in Mine(b)
      BY <2>1, BatchFacts
  <2>3. ~f.dead /\ g[b].at \in {"new", "done"} /\ (g[b].at = "new" <=> b >= f.next)
        /\ f.next > Len(g)
      BY <2>1 DEF FetchInv, Phases
  <2>4. g[b].at = "done"
    <3>1. b \in Nat /\ b <= Len(g) /\ Len(g) \in Nat /\ f.next \in Nat
        BY <2>1, BatchFacts DEF FetchType, Fetches
    <3> QED
        BY <2>3, <3>1
  <2>5. g[b].todo = <<>> /\ g[b].out = {}
      BY <2>1, <2>4 DEF FetchInv, Stack
  <2>6. Once(g[b], Known, c, s)
      BY <2>1, <2>2, <2>3 DEF FetchInv, Shared
  <2>7. Places(g[b].todo, c, s) = {}
      BY <2>5 DEF Places
  <2>8. PICK o : Covering(g[b], Known, c, s) = {o}
      BY <2>6, <2>7 DEF Once
  <2>9. {p \in f.all \cup f.lost \cup f.cut : Fetch!Covers(p, c, s)} = {o}
      BY <2>5, <2>8 DEF Covering, Known
  <2> QED
      BY <2>9, FS_Singleton
<1> QED
    BY <1>1, FetchingInvariant, PTL

\* However a fetch ends, it has no task of its own at the search service: each ended or was
\* asked to be deleted (octo_search_fetch.go:347-374).
THEOREM NoTaskIsLeft == Spec => []NoTaskLeft
<1>1. Fetching => NoTaskLeft
  <2> SUFFICES ASSUME Fetching, f.at = "returned", NEW p \in f.live
               PROVE  FALSE
      BY DEF NoTaskLeft, Fetch!NoTaskLeft
  <2>1. FetchInv
      BY DEF Fetching, NoneYet
  <2>2. PICK b \in DOMAIN g : Polls(g[b])
      BY <2>1 DEF FetchInv, Submitted
  <2> QED
      BY <2>1, <2>2 DEF FetchInv, Phases, Polls
<1> QED
    BY <1>1, FetchingInvariant, PTL
=============================================================================
