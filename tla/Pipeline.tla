------------------------------- MODULE Pipeline -------------------------------
(* The runs of one member's summary, from the claim of the work to the frame   *)
(* that tells the browser it is done: the evidence is fetched (Gather) or      *)
(* loaded, cut into chunks, sent through Map and Reduce with retries and       *)
(* fallback models, and the text the models stream travels to the browsers     *)
(* through StreamHub while the result is persisted                             *)
(* (internal/worker/personal_processor.go, internal/llmclient/client.go,       *)
(* internal/llmfallback/fallback.go, internal/service/llm.go).                 *)
(*                                                                             *)
(* The task has a single member. What the database decides about it is in      *)
(* SummaryTask; here it is only as much as decides which runs there are.       *)
EXTENDS StreamHub

CONSTANTS
    Kinds,        \* what the sources may be: "chat", "document", "mixed"
    ModelCount,   \* the primary model, number 1, and its fallbacks
    MaxAttempts,  \* attempts per model
    Parts,        \* pieces of a streamed answer
    ChannelSeq, LastSecond, BatchSize, MinWindow, Concurrency   \* see Gather

ASSUME PipelineAssumption ==
    /\ Kinds \subseteq {"chat", "document", "mixed"}
    /\ {ModelCount, MaxAttempts, Parts} \subseteq Nat \ {0}

VARIABLES
    task,  \* kind of its sources, status, whether the member's worker_status is
           \* Pending, a requeue whose hub entry is not prepared yet, and whether
           \* trigger_type is scheduled, which it stays for good
    run,   \* per run: where it is, and the call in hand
    f, g   \* the fetch in progress, see Gather

vars == <<task, run, f, g, hubVars>>

Fetch == INSTANCE Gather

ASSUME FetchAssumption == Fetch!Setting

NoFetch == f = [at |-> "none", result |-> "none"] /\ g = <<>>
FetchOver == f' = [at |-> "none", result |-> "none"] /\ g' = <<>>

\* answers is history: the attempts that sent text to the browser.
NewRun == [at |-> "unclaimed", model |-> 1, attempt |-> 1, parts |-> 0,
           answers |-> {}]

Init ==
    /\ task \in [kind : Kinds, status : {"pending"}, armed : {TRUE}, requeue : {FALSE},
                 scheduled : BOOLEAN]
    /\ run = [r \in Runs |-> NewRun]
    /\ NoFetch
    /\ InitHub

Moves(r, at) == run' = [run EXCEPT ![r].at = at]

\* The call's attempt count and text end with the call.
Returns(here, at) == [here EXCEPT !.at = at, !.model = 1, !.attempt = 1, !.parts = 0,
                                  !.answers = {}]

Sends(r, ev) == sender' = [sender EXCEPT ![r] = Send(@, ev)]
SendsNothing == UNCHANGED sender
Keep == UNCHANGED <<pend, hub, timers, conn>>
KeepFetch == UNCHANGED <<f, g>>

-----------------------------------------------------------------------------
(* Claim and evidence. *)

Claimed == {r \in Runs : run[r].at # "unclaimed"}

Claim(r) ==
    /\ Claimed = 1..(r - 1)
    /\ task.armed /\ task.status \in {"pending", "processing"}
    /\ f.at = "none"   \* one fetch at a time is a bound of the model
    /\ task' = [task EXCEPT !.status = "processing", !.armed = FALSE]
    /\ Moves(r, IF task.kind = "document" THEN "reading" ELSE "discovering")
    /\ KeepFetch /\ SendsNothing /\ Keep

\* None of the chosen sources can be read, by the member or by every participant.
SourcesRefused(r) ==
    /\ run[r].at = "discovering" /\ Moves(r, "failing")
    /\ UNCHANGED task /\ KeepFetch /\ SendsNothing /\ Keep

\* ResolveAndFetchMessagesForPersonal up to Layer 4.
Discover(r) ==
    /\ run[r].at = "discovering" /\ Moves(r, "fetching")
    /\ \E backend \in {"batch", "mysql"} :
          f' = Fetch!NewFetch(backend) /\ g' = Fetch!NewGoroutines(backend)
    /\ UNCHANGED task /\ SendsNothing /\ Keep

FetchStep ==
    /\ f.at \notin {"none", "returned"}
    /\ Fetch!Next
    /\ UNCHANGED <<task, run, hubVars>>

\* The fetch returned.
TakeMessages(r) ==
    /\ run[r].at = "fetching" /\ f.at = "returned"
    /\ Moves(r, IF f.result = "error" THEN "failing" ELSE "reading")
    /\ FetchOver
    /\ UNCHANGED task /\ SendsNothing /\ Keep

\* loadDocumentEvidence: a snapshot is missing.
LoadFails(r) ==
    /\ run[r].at = "reading" /\ task.kind # "chat"
    /\ Moves(r, "failing")
    /\ UNCHANGED task /\ KeepFetch /\ SendsNothing /\ Keep

\* Nothing is left to summarise, and the evidence is not mixed: a fixed text is
\* the result and no stream is opened.
NothingToSay(r) ==
    /\ run[r].at = "reading" /\ task.kind # "mixed"
    /\ Moves(r, "answered")
    /\ UNCHANGED task /\ KeepFetch /\ SendsNothing /\ Keep

-----------------------------------------------------------------------------
(* Map and Reduce. *)

\* The generate_summary stage opens the stream; newSummaryStreamSender sends the
\* start frame at once.
OpensStream(r, at) ==
    /\ Moves(r, at)
    /\ sender' = [sender EXCEPT ![r] = Opens(@, r)]

OneChunk(r) ==
    /\ run[r].at = "reading"
    /\ OpensStream(r, "streaming")
    /\ UNCHANGED task /\ KeepFetch /\ Keep

\* What a chunk's Map call may come to: a summary, the failure marker (every
\* model failed), an error, or an error that loses coverage for good.
ChunkResults == {"ok", "marker", "failed", "fatal"}

\* Two chunks are mapped by a goroutine each; nothing is streamed. Any fatal
\* chunk fails the run, a mixed task needs every chunk, the others one.
Enough(results) ==
    /\ "fatal" \notin results
    /\ "ok" \in results
    /\ task.kind = "mixed" => results = {"ok"}

MapChunks(r) ==
    /\ run[r].at = "reading"
    /\ \E first, second \in ChunkResults :
        IF ~Enough({first, second}) THEN Moves(r, "failing") /\ SendsNothing
        ELSE OpensStream(r, IF {first, second} = {"ok"} THEN "streaming" ELSE "answered")
    /\ UNCHANGED task /\ KeepFetch /\ Keep

Piece(r, part) == [run |-> r, part |-> part]
Final(r) == <<Piece(r, 0)>>   \* the text as normalised

StreamDelta(r) ==
    /\ run[r].at = "streaming" /\ run[r].parts < Parts
    /\ run' = [run EXCEPT ![r].parts = @ + 1,
                          ![r].answers = @ \cup {<<run[r].model, run[r].attempt>>}]
    /\ Sends(r, Frame("delta", r, <<Piece(r, run[r].parts + 1)>>))
    /\ UNCHANGED task /\ KeepFetch /\ Keep

StreamEnds(r) ==
    /\ run[r].at = "streaming" /\ run[r].parts > 0
    /\ run' = [run EXCEPT ![r] = Returns(@, "answered")]
    /\ UNCHANGED task /\ KeepFetch /\ SendsNothing /\ Keep

\* streamFailureOutcome, and the same rule after validation: what was streamed
\* cannot be taken back, so nothing is tried again.
OutcomeIgnoringText(outcome, parts) == outcome   \* mutant
StreamOutcome(outcome, parts) == IF parts > 0 THEN "terminal" ELSE outcome

\* runModel: another attempt of the same model.
TriesAgain(here, outcome) ==
    IF outcome = "retry" /\ here.attempt < MaxAttempts
    THEN {[here EXCEPT !.attempt = @ + 1, !.parts = 0]} ELSE {}

\* Run: the next model, after the last attempt or instead of one that would
\* leave it no time (budgetStarvedErr).
FallsBack(here, outcome) ==
    IF outcome # "terminal" /\ here.model < ModelCount
    THEN {[here EXCEPT !.model = @ + 1, !.attempt = 1, !.parts = 0]} ELSE {}

AttemptFails(r) ==
    LET here == run[r]
        After(outcome) == TriesAgain(here, outcome) \cup FallsBack(here, outcome)
    IN  /\ here.at = "streaming"
        /\ \E outcome \in {"retry", "next model", "terminal"} :
            LET next == After(StreamOutcome(outcome, here.parts))
            IN  \E there \in IF next = {} THEN {Returns(here, "failing")} ELSE next :
                    run' = [run EXCEPT ![r] = there]
        /\ UNCHANGED task /\ KeepFetch /\ SendsNothing /\ Keep

-----------------------------------------------------------------------------
(* The end of a run. *)

\* The last frame of a run; the deferred Close follows.
Ends(r, s) == Moves(r, "over") /\ sender' = [sender EXCEPT ![r] = Close(s)]
GivesUp(r) == Ends(r, Send(sender[r], Frame("error", r, <<>>)))

\* A run past its persist step: with its own text, or having kept an earlier one.
Persisted == {"completing", "keeping"}

\* The normalised text replaces what was streamed; a run whose task is no longer
\* processing gives up, the others persist the text, which may fail too. In a round
\* of a schedule a run whose text is a placeholder persists nothing and keeps the
\* text of an earlier round, after it sent the placeholder.
SendResult(r) ==
    LET s == Send(sender[r], Frame("snapshot", r, Final(r)))
    IN  /\ run[r].at = "answered"
        /\ \/ /\ task.status = "processing"
              /\ \E at \in {p \in Persisted : p = "keeping" => task.scheduled} : Moves(r, at)
              /\ task' = [task EXCEPT !.armed = FALSE]
              /\ sender' = [sender EXCEPT ![r] = s]
           \/ Ends(r, Send(s, Frame("error", r, <<>>))) /\ UNCHANGED task
        /\ KeepFetch /\ Keep

\* saveLatestResultAndCompleteTask, or completeTaskWithoutNewResult when the text of
\* an earlier round is kept; either may also fail. The done frame follows.
CompleteTask(r) ==
    /\ run[r].at \in Persisted
    /\ \/ /\ task.status = "processing"
          /\ task' = [task EXCEPT !.status = "completed"]
          /\ Ends(r, Send(sender[r], Frame("done", r, <<>>)))
       \/ GivesUp(r) /\ UNCHANGED task
    /\ KeepFetch /\ Keep

\* finishStreamError, then markPersonalFailed: the work is armed again, or the
\* retries are used up and the task fails.
PipelineFails(r) ==
    /\ run[r].at = "failing"
    /\ GivesUp(r)
    /\ \/ task' = [task EXCEPT !.armed = TRUE]
       \/ task' = [task EXCEPT !.armed = FALSE,
                               !.status = IF @ = "processing" THEN "failed" ELSE @]
    /\ KeepFetch /\ Keep

-----------------------------------------------------------------------------
(* What users and sweeps do to the task meanwhile. *)

\* Cancel, or the sweep of an expired lease: a live run is not told.
Abandon ==
    /\ task.status = "processing"
    /\ task' = [task EXCEPT !.status = "failed"]
    /\ UNCHANGED run /\ KeepFetch /\ SendsNothing /\ Keep

\* claimAndRequeueScheduledTask: a due schedule starts the next round from the
\* worker process, which cannot reach the hub.
Requeue ==
    /\ task.status \in {"completed", "failed"}
    /\ task' = [task EXCEPT !.status = "pending", !.armed = TRUE, !.scheduled = TRUE]
    /\ UNCHANGED run /\ KeepFetch /\ SendsNothing /\ Keep

\* Regenerate commits, and prepares the hub entry afterwards; a worker may claim
\* the new run in between.
Regenerate ==
    /\ task.status \in {"completed", "failed"} /\ ~task.requeue
    /\ task' = [task EXCEPT !.status = "pending", !.armed = TRUE, !.requeue = TRUE]
    /\ UNCHANGED run /\ KeepFetch /\ SendsNothing /\ Keep

PrepareStream ==
    /\ task.requeue
    /\ task' = [task EXCEPT !.requeue = FALSE]
    /\ PrepareHub
    /\ UNCHANGED <<run, sender, pend, conn>> /\ KeepFetch

RunStep(r) ==
    \/ Claim(r) \/ SourcesRefused(r) \/ Discover(r) \/ TakeMessages(r) \/ LoadFails(r) \/ NothingToSay(r)
    \/ OneChunk(r) \/ MapChunks(r) \/ StreamDelta(r) \/ StreamEnds(r) \/ AttemptFails(r)
    \/ SendResult(r) \/ CompleteTask(r) \/ PipelineFails(r)

StreamStep == HubNext /\ UNCHANGED <<task, run, f, g>>

Next ==
    \/ \E r \in Runs : RunStep(r)
    \/ FetchStep \/ StreamStep
    \/ Abandon \/ Requeue \/ Regenerate \/ PrepareStream

Spec == Init /\ [][Next]_vars

-----------------------------------------------------------------------------
(* Properties. *)

\* A fetch that reports success accounts for every second of every channel exactly
\* once: read, given up with a piece that failed on its own account, or cut by a
\* cap, which the code passes over in silence (octo_search_fetch.go:114-200, 253-300;
\* fetch.go:573-658).
EachSecondOnce == f.at = "returned" => Fetch!EachSecondOnce
\* However a fetch ends, it leaves no task of its own at the search service
\* (octo_search_fetch.go:347-374).
NoTaskLeft == f.at = "returned" => Fetch!NoTaskLeft

\* All the text a run streams comes from one attempt of one model: retries and
\* fallbacks never append a second answer to what a browser already shows
\* (client.go:276-336, fallback.go:120-207, llm.go:248-256).
OneAnswer == \A r \in Runs : Cardinality(run[r].answers) <= 1

\* A browser that was subscribed when a run started and is told it is done shows
\* exactly the text the run ended with, which it persisted unless it kept the text
\* of an earlier round instead, whatever frames were dropped, retried or
\* overtaken on the way (personal_processor.go:424-437, 479-520; hub.go:108-200).
DoneCarriesResult ==
    \A c \in Conns : (conn[c].told = "done" /\ conn[c].by = conn[c].knows) =>
        conn[c].shown = Final(conn[c].by)

\* Nobody waits on a stream that will never speak again: an open connection is
\* registered at the entry frames are published to, or its terminal frame is on
\* its way; the one known exception is a terminal frame lost to a second
\* publisher (hub.go:53-106, 179-200, 234-260).
EndsComing(c) ==
    \/ \E i \in 1..Len(conn[c].ch) : Terminal(conn[c].ch[i])
    \/ \E r \in Runs : c \in pend[r].to \cup pend[r].retry /\ Terminal(pend[r].ev)
ConnectionIsServed ==
    \A c \in Conns : conn[c].at = "open" =>
        (hub.on /\ c \in hub.clients) \/ EndsComing(c) \/ conn[c].lostEnd

\* An entry prepared for a new run, and the connections opened since, get nothing
\* of the runs the entry had heard of, however late their frames arrive
\* (hub.go:51-71, 108-133).
RetiredStaysSilent ==
    /\ \A i \in 1..Len(hub.snap) : hub.snap[i].run \notin hub.barred
    /\ \A c \in Conns, i \in 1..ClientBuffer :
        i <= Len(conn[c].ch) => conn[c].ch[i].run \notin conn[c].barred

-----------------------------------------------------------------------------
(* What makes them inductive. *)

Stages == {"unclaimed", "discovering", "fetching", "reading", "streaming", "answered",
           "completing", "keeping", "failing", "over"}
RunState == [at : Stages, model : Nat, attempt : Nat, parts : Nat, answers : SUBSET (Nat \X Nat)]

TypeOK ==
    /\ task \in [kind : Kinds, status : {"pending", "processing", "completed", "failed"},
                 armed : BOOLEAN, requeue : BOOLEAN,
                 scheduled : BOOLEAN]
    /\ run \in [Runs -> RunState]
    /\ HubTypeOK

\* What a call has streamed is of the attempt in hand.
Attempts ==
    \A r \in Runs :
        /\ run[r].answers \subseteq {<<run[r].model, run[r].attempt>>}
        /\ run[r].parts = 0 => run[r].answers = {}

\* The start frame is still to come to the hub; no frame of the run came before it.
Unstarted == {"unclaimed", "discovering", "fetching", "reading"}
StartWaits(r) ==
    run[r].at \in Unstarted \/ \E i \in 1..Len(sender[r].q) : sender[r].q[i].type = "start"

\* The frames of a run on their way to the hub: the start first, a done frame last and right
\* after the text that is persisted.
Result(r) == Frame("snapshot", r, Final(r))
InOrder(r, q) ==
    \A i \in 1..Len(q) :
        /\ q[i].run = r
        /\ \A k \in 1..Len(q[i].text) : q[i].text[k].run = r
        /\ q[i].type = "start" => i = 1
        /\ q[i].type = "snapshot" => q[i] = Result(r)
        /\ q[i].type = "done" => i = Len(q) /\ (i > 1 => q[i - 1] = Result(r))
Holds(r) == hub.active = r => hub.snap = Final(r)
Queue(r, at, s) ==
    /\ InOrder(r, s.q)
    /\ at \in Unstarted => s.q = <<>> /\ ~s.open
    /\ at = "over" => ~s.open
    /\ at # "over" => \A i \in 1..Len(s.q) : s.q[i].type # "done"
    /\ at \in Persisted /\ s.open =>
          IF s.q = <<>> THEN Holds(r) ELSE s.q[Len(s.q)] = Result(r)
    /\ s.q # <<>> /\ s.q[1].type = "done" => Holds(r)
Queues == \A r \in Runs : Queue(r, run[r].at, sender[r])

\* Who was heard of has started.
AllTimers == timers.armed \cup timers.fired
Heard ==
    \A r \in Runs : StartWaits(r) =>
        /\ r \notin hub.barred /\ hub.active # r
        /\ \A t \in AllTimers : t.run # r
        /\ pend[r].to = {} /\ pend[r].retry = {}
        /\ \A c \in Conns : /\ conn[c].knows # r
                            /\ \A i \in 1..Len(conn[c].ch) : conn[c].ch[i].run # r

\* The entry: what it shows and whom it serves.
EntryKept ==
    /\ ~hub.on => hub = NoEntry /\ AllTimers = {}
    /\ hub.awaiting => hub.active = NoRun
    /\ hub.active \notin hub.barred
    /\ hub.barred # {} => hub.awaiting \/ hub.active # NoRun
    /\ \A i \in 1..Len(hub.snap) : hub.snap[i].run \notin hub.barred
    /\ \A t \in AllTimers : t.kind = "ttl" /\ t.run = hub.active => hub.done
    /\ \A c \in hub.clients :
          /\ conn[c].at = "open" /\ conn[c].barred \subseteq hub.barred
          /\ ~hub.awaiting => conn[c].knows = hub.active
          /\ hub.done => EndsComing(c) \/ conn[c].lostEnd

\* A frame on its way to a browser: not of a run it is barred from; a done frame of the run
\* it knows carries what was persisted.
Reaches(ev, c) ==
    /\ ev.run \notin conn[c].barred
    /\ ev.type = "done" /\ conn[c].knows = ev.run => ev.text = Final(ev.run)
Deliveries ==
    /\ \A r \in Runs :
          /\ pend[r].to \cup pend[r].retry # {} => pend[r].ev.run = r
          /\ pend[r].retry # {} => Terminal(pend[r].ev)
          /\ \A c \in pend[r].to \cup pend[r].retry :
                conn[c].at # "off" /\ Reaches(pend[r].ev, c)
    /\ \A c \in Conns :
          /\ \A i \in 1..Len(conn[c].ch) : conn[c].ch[i].run \in Runs /\ Reaches(conn[c].ch[i], c)
          /\ conn[c].at = "off" => conn[c].ch = <<>>
          /\ conn[c].at \in {"off", "open"} => conn[c].told = "nothing"

IInv ==
    /\ TypeOK
    /\ Attempts /\ Queues /\ Heard /\ EntryKept /\ Deliveries
    /\ DoneCarriesResult /\ ConnectionIsServed
=============================================================================
