-------------------------------- MODULE Gather --------------------------------
(* One fetch of the messages a summary reads: the candidate channels are cut   *)
(* into batches, each batch is a task of the search service that is submitted, *)
(* polled and downloaded by a goroutine of its own, a batch or a window that   *)
(* is too large is halved, a failure is either isolated to its piece or aborts *)
(* the fetch (internal/pipeline/octo_search_fetch.go, fetch.go).               *)
(*                                                                             *)
(* A piece of work is a sequence of channels and a window of seconds. Message  *)
(* rows are left out: what is told apart is which (channel, second) was read.  *)
EXTENDS Naturals, Sequences, FiniteSets

CONSTANTS
    ChannelSeq,   \* the normalised candidates, in order and without repetition
    LastSecond,   \* the window is 0 .. LastSecond
    BatchSize,    \* octoSearchBatchSize
    MinWindow,    \* octoSearchMinWindowSec
    Concurrency   \* fetchConcurrency

Setting ==
    /\ ChannelSeq \in Seq(STRING) /\ ChannelSeq # <<>>
    /\ \A i, j \in 1..Len(ChannelSeq) : ChannelSeq[i] = ChannelSeq[j] => i = j
    /\ LastSecond \in Nat /\ MinWindow \in Nat
    /\ BatchSize \in Nat \ {0} /\ Concurrency \in Nat \ {0}

VARIABLES
    f,    \* the fetch: backend, scheduling loop, abort flag, context, result
    g     \* its goroutines; todo is their stack of pieces, out what they read

gatherVars == <<f, g>>

ChannelsOf(piece) == {piece.chs[i] : i \in 1..Len(piece.chs)}
Piece(chs, lo, hi) == [chs |-> chs, lo |-> lo, hi |-> hi]
Channels == ChannelsOf(Piece(ChannelSeq, 0, 0))

\* What became of the window of a piece for some of its channels: read, given up,
\* or cut by a cap, which may have read some of its messages.
Outcome(channels, piece) == [channels |-> channels, lo |-> piece.lo, hi |-> piece.hi]
Whole(piece) == Outcome(ChannelsOf(piece), piece)
Some(channels, piece) == IF channels = {} THEN {} ELSE {Outcome(channels, piece)}

Least(a, b) == IF a < b THEN a ELSE b

\* chunkChannelIDs; the database backend has one goroutine per channel.
chunkChannelIDs(size) ==
    [b \in 1..((Len(ChannelSeq) + size - 1) \div size) |->
        SubSeq(ChannelSeq, (b - 1) * size + 1, Least(b * size, Len(ChannelSeq)))]

BatchesOf(backend) ==
    IF backend = "mysql" THEN chunkChannelIDs(1) ELSE chunkChannelIDs(BatchSize)

\* History: live, the submitted tasks that neither ended nor were deleted; lost,
\* the pieces given up on their own; cut, what a cap left out of a read that
\* passed for a success. The code logs the last two and keeps neither.
NewFetch(backend) ==
    [at |-> "scheduling", backend |-> backend, next |-> 1, fatal |-> FALSE,
     dead |-> FALSE, result |-> "none", live |-> {}, lost |-> {}, cut |-> {}, all |-> {}]

NewGoroutines(backend) ==
    [b \in 1..Len(BatchesOf(backend)) |->
        [at |-> "new", call |-> "none", out |-> {},
         todo |-> <<Piece(BatchesOf(backend)[b], 0, LastSecond)>>]]

Init ==
    \E backend \in {"batch", "mysql"} : f = NewFetch(backend) /\ g = NewGoroutines(backend)

Running == f.at \in {"scheduling", "waiting"}
Working == {b \in DOMAIN g : g[b].at = "working"}

-----------------------------------------------------------------------------
(* The scheduling loop and the goroutines' places. *)

Schedule ==
    /\ f.at = "scheduling" /\ f.next <= Len(g) /\ ~f.fatal
    /\ f' = [f EXCEPT !.next = @ + 1]
    /\ g' = [g EXCEPT ![f.next].at = "queued"]

StopScheduling ==
    /\ f.at = "scheduling" /\ (f.next > Len(g) \/ f.fatal)
    /\ f' = [f EXCEPT !.at = "waiting"]
    /\ UNCHANGED g

Acquire(b) ==
    /\ g[b].at = "queued" /\ Cardinality(Working) < Concurrency
    /\ g' = [g EXCEPT ![b].at = "working",
                      ![b].call = IF f.backend = "mysql" THEN "read" ELSE "submit"]
    /\ UNCHANGED f

\* The context ends while the goroutine waits for a place: it leaves silently.
LeaveQueue(b) ==
    /\ g[b].at = "queued" /\ f.dead
    /\ g' = [g EXCEPT ![b].at = "done", ![b].todo = <<>>]
    /\ UNCHANGED f

\* The total budget runs out, or the caller's context ends.
Expire ==
    /\ Running /\ ~f.dead
    /\ f' = [f EXCEPT !.dead = TRUE]
    /\ UNCHANGED g

-----------------------------------------------------------------------------
(* One piece: submit, poll, download. *)

At(b, call) == g[b].at = "working" /\ g[b].call = call /\ g[b].todo # <<>>
Now(b) == Head(g[b].todo)
Continue(b, todo, out) == [g EXCEPT ![b].todo = todo, ![b].call = "submit", ![b].out = out]

Submit(b) ==
    /\ At(b, "submit")
    /\ g' = [g EXCEPT ![b].call = "poll"]
    /\ f' = [f EXCEPT !.live = @ \cup {Now(b)}]

\* splitBatch, then runWithTimeWindowSplit for a single channel.
HalfChannels(chs) == Len(chs) \div 2
HalvesMeeting(p) ==   \* mutant: both halves hold the second in the middle
    LET mid == p.lo + (p.hi - p.lo) \div 2
    IN  <<Piece(p.chs, p.lo, mid), Piece(p.chs, mid, p.hi)>>
WindowHalves(p) ==
    LET mid == p.lo + (p.hi - p.lo) \div 2
    IN  <<Piece(p.chs, p.lo, mid), Piece(p.chs, mid + 1, p.hi)>>
Split(p) ==
    IF Len(p.chs) > 1
    THEN <<Piece(SubSeq(p.chs, 1, HalfChannels(p.chs)), p.lo, p.hi),
           Piece(SubSeq(p.chs, HalfChannels(p.chs) + 1, Len(p.chs)), p.lo, p.hi)>>
    ELSE WindowHalves(p)

\* ErrSingleTaskTooLarge: halved, or skipped at the smallest window.
TooLarge(b) ==
    LET p == Now(b)
    IN  /\ At(b, "submit")
        /\ IF Len(p.chs) = 1 /\ p.hi - p.lo <= MinWindow
           THEN /\ g' = Continue(b, Tail(g[b].todo), g[b].out)
                /\ f' = [f EXCEPT !.lost = @ \cup {Whole(p)}]
           ELSE /\ g' = Continue(b, Split(p) \o Tail(g[b].todo), g[b].out)
                /\ UNCHANGED f

\* The task ended at the service with results: all of them, or with its status
\* "partial" those up to a cap. The second is only logged.
Results == {"download", "download partial"}
Completed(b, results) ==
    /\ At(b, "poll")
    /\ g' = [g EXCEPT ![b].call = results]
    /\ f' = [f EXCEPT !.live = @ \ {Now(b)}]

\* bestEffortDelete, on every way out of the polling loop but a terminal status.
KeepTask(live, p) == live   \* mutant: an abandoned poll leaves its task
DeleteTask(live, p) == live \ {p}

\* An isolated failure gives up this piece only: a call's error that is not
\* fatal, a failed or cancelled task, an answer that does not fit the request.
Isolated(b) ==
    /\ At(b, "submit") \/ At(b, "poll") \/ At(b, "read") \/ \E results \in Results : At(b, results)
    /\ g' = Continue(b, Tail(g[b].todo), g[b].out)
    /\ f' = [f EXCEPT !.lost = @ \cup {Whole(Now(b))},
                      !.live = IF At(b, "poll") THEN DeleteTask(@, Now(b)) ELSE @]

\* isFatalBatchErr: the whole fetch is aborted and its context cancelled.
Fatal(b) ==
    /\ At(b, "submit") \/ At(b, "poll")
    /\ g' = [g EXCEPT ![b].at = "done", ![b].todo = <<>>, ![b].out = {}]
    /\ f' = [f EXCEPT !.fatal = TRUE, !.dead = TRUE,
                      !.live = IF At(b, "poll") THEN DeleteTask(@, Now(b)) ELSE @]

\* Parts whose download keeps failing are skipped, unless all of them are; of a
\* partial result some channels are capped.
Download(b, skipped, capped) ==
    LET p == Now(b)
        kept == ChannelsOf(p) \ skipped
    IN  /\ \/ At(b, "download") /\ capped = {}
           \/ At(b, "download partial")
        /\ kept # {} /\ capped \subseteq kept
        /\ g' = Continue(b, Tail(g[b].todo), g[b].out \cup Some(kept \ capped, p))
        /\ f' = [f EXCEPT !.lost = @ \cup Some(ChannelsOf(p) \cap skipped, p),
                          !.cut = @ \cup Some(capped, p)]

\* FetchMessagesFromChannel, for the database backend: at most effectiveMax rows,
\* the newest. The second in which the cap falls counts as cut, with all before
\* it; the report that says so (FetchCoverage.Truncated) is dropped.
Newest(p, last) == Piece(p.chs, last + 1, p.hi)
Older(p, last) == Piece(p.chs, p.lo, last)
ReadChannel(b) ==
    LET p == Now(b)
    IN  /\ At(b, "read")
        /\ \/ g' = Continue(b, <<>>, {Whole(p)}) /\ UNCHANGED f
           \/ \E last \in p.lo..p.hi :
                /\ g' = Continue(b, <<>>, {Whole(Newest(p, last))})
                /\ f' = [f EXCEPT !.cut = @ \cup {Whole(Older(p, last))}]

Finished(b) ==
    /\ g[b].at = "working" /\ g[b].todo = <<>>
    /\ g' = [g EXCEPT ![b].at = "done", ![b].out = {}]
    /\ f' = [f EXCEPT !.all = @ \cup g[b].out]

\* The result of fetchViaBatch and fetchViaMySQL once every goroutine is over.
ResultOf(fatal, dead) == IF fatal \/ dead THEN "error" ELSE "ok"

Return ==
    /\ f.at = "waiting" /\ \A b \in DOMAIN g : g[b].at \in {"new", "done"}
    /\ f' = [f EXCEPT !.at = "returned", !.result = ResultOf(f.fatal, f.dead)]
    /\ UNCHANGED g

Next ==
    \/ Schedule \/ StopScheduling \/ Expire \/ Return
    \/ \E b \in DOMAIN g :
        \/ Acquire(b) \/ LeaveQueue(b) \/ Submit(b) \/ TooLarge(b)
        \/ \E results \in Results : Completed(b, results)
        \/ Isolated(b) \/ Fatal(b) \/ ReadChannel(b) \/ Finished(b)
        \/ \E skipped, capped \in SUBSET Channels : Download(b, skipped, capped)

-----------------------------------------------------------------------------
Covers(outcome, c, s) == c \in outcome.channels /\ s \in outcome.lo .. outcome.hi

\* A fetch that reports success accounts for every second of every channel exactly
\* once: it was read, or given up with a piece that failed on its own account, or
\* a cap cut it. Halving neither skips nor repeats a second, and nothing cut short
\* by an abort or by the end of the context passes for a result
\* (octo_search_fetch.go:114-200, 253-300; fetch.go:573-658).
EachSecondOnce ==
    f.result = "ok" =>
        \A c \in Channels, s \in 0..LastSecond :
            Cardinality({o \in f.all \cup f.lost \cup f.cut : Covers(o, c, s)}) = 1

\* A fetch leaves no task of its own running at the search service: each one it
\* submitted has ended or was asked to be deleted (octo_search_fetch.go:347-374).
NoTaskLeft == f.at = "returned" => f.live = {}
=============================================================================
