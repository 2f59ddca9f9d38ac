------------------------------- MODULE StreamHub -------------------------------
(* The way of a streamed summary to the browsers: the worker's sender with its *)
(* bounded buffer, the ingest handler, the in-memory hub entry of one (task,   *)
(* scope, user) key, and the SSE connections that subscribe to it              *)
(* (internal/worker/summary_stream_client.go, internal/streaming/hub.go,       *)
(* internal/api/handler/stream.go).                                            *)
(*                                                                             *)
(* A text is a sequence of pieces; every piece names the run that wrote it.    *)
(* Heartbeats and stage frames change nothing and are left out.                *)
EXTENDS Naturals, Sequences, FiniteSets

CONSTANTS
    RunCount,      \* how many runs the key has, numbered as they are claimed
    Conns,         \* browser connections; one that ends is not used again
    SendBuffer,    \* capacity of the sender's channel
    ClientBuffer   \* defaultClientBuffer

ASSUME HubAssumption ==
    /\ RunCount \in Nat
    /\ {SendBuffer, ClientBuffer} \subseteq Nat \ {0}

Runs == 1..RunCount

VARIABLES
    sender,   \* per run: whether it takes frames, and those on their way to the hub
    pend,     \* per run: the frame its ingest handler is delivering
    hub,      \* the hub entry; `on` is FALSE when the key has none
    timers,   \* its cleanup timer, and callbacks that fired and wait for h.mu
    conn      \* per connection: its channel; what it was told in the end, with
              \* which text and by which run

hubVars == <<sender, pend, hub, timers, conn>>

NoRun == 0
Frame(type, r, text) == [type |-> type, run |-> r, text |-> text]
Terminal(ev) == ev.type \in {"done", "error"}

\* What the variables hold.
Texts == Seq([run : Runs, part : Nat])
Frames == [type : {"start", "delta", "snapshot", "done", "error"}, run : Runs \cup {NoRun},
           text : Texts]
Sender == [open : BOOLEAN, q : Seq(Frames)]
Pending == [to : SUBSET Conns, retry : SUBSET Conns, ev : Frames]
Entry == [on : BOOLEAN, active : Runs \cup {NoRun}, retired : Runs \cup {NoRun},
          awaiting : BOOLEAN, snap : Texts, done : BOOLEAN, clients : SUBSET Conns,
          barred : SUBSET Runs]
Timers == [kind : {"idle", "ttl"}, run : Runs \cup {NoRun}, fresh : BOOLEAN]
Connection == [at : {"off", "open", "ended", "left"}, ch : Seq(Frames), shown : Texts,
               told : {"nothing", "already done", "done", "error"},
               by : Runs \cup {NoRun}, knows : Runs \cup {NoRun}, barred : SUBSET Runs,
               lostEnd : BOOLEAN]

HubTypeOK ==
    /\ sender \in [Runs -> Sender]
    /\ pend \in [Runs -> Pending]
    /\ hub \in Entry
    /\ timers \in [armed : SUBSET Timers, fired : SUBSET Timers]
    /\ conn \in [Conns -> Connection]

NoDelivery == [to |-> {}, retry |-> {}, ev |-> Frame("start", NoRun, <<>>)]
NoEntry == [on |-> FALSE, active |-> NoRun, retired |-> NoRun, awaiting |-> FALSE,
            snap |-> <<>>, done |-> FALSE, clients |-> {}, barred |-> {}]

\* History: knows, the last run whose start was published while the connection
\* was subscribed, or was the entry's run when it subscribed; barred, the runs the entry had heard of when it was prepared, and
\* for a connection when it subscribed; lostEnd, two publishers met in its
\* channel and a terminal frame was dropped.
InitHub ==
    /\ sender = [r \in Runs |-> [open |-> FALSE, q |-> <<>>]]
    /\ pend = [r \in Runs |-> NoDelivery]
    /\ hub = NoEntry
    /\ timers = [armed |-> {}, fired |-> {}]
    /\ conn = [c \in Conns |-> [at |-> "off", ch |-> <<>>, shown |-> <<>>, told |-> "nothing",
                                by |-> NoRun, knows |-> NoRun, barred |-> {}, lostEnd |-> FALSE]]

-----------------------------------------------------------------------------
(* The worker's sender. *)

\* newSummaryStreamSender: the start frame is the first of the stream.
Opens(s, r) == [open |-> TRUE, q |-> <<Frame("start", r, <<>>)>>]

\* Send: a full buffer degrades the stream for good, so nothing sent after a
\* lost frame is sent at all. A sender that was never opened sends nothing.
DropOne(s, ev) ==   \* mutant: a full buffer loses only this frame
    IF s.open /\ Len(s.q) < SendBuffer THEN [s EXCEPT !.q = Append(@, ev)] ELSE s
Send(s, ev) ==
    IF s.open /\ Len(s.q) < SendBuffer THEN [s EXCEPT !.q = Append(@, ev)]
    ELSE [s EXCEPT !.open = FALSE]

Close(s) == [s EXCEPT !.open = FALSE]

\* The connection to the API breaks: what did not arrive yet is lost.
SenderFails(r) ==
    /\ sender[r].open \/ sender[r].q # <<>>
    /\ sender' = [sender EXCEPT ![r] = [open |-> FALSE, q |-> <<>>]]
    /\ UNCHANGED <<pend, hub, timers, conn>>

-----------------------------------------------------------------------------
(* The hub entry. *)

Ensured == IF hub.on THEN hub ELSE [NoEntry EXCEPT !.on = TRUE]

Timer(kind, e) == [kind |-> kind, run |-> e.active, fresh |-> TRUE]

\* A callback that waits for h.mu finds another entry than the one it was armed
\* for, and returns: it is forgotten with the entry.
Outlive(fired) == fired   \* mutant: the prepared entry keeps its identity
Forget(fired) == {}

\* Prepare: a fresh entry that keeps the subscribers and remembers the run that
\* must not come back.
PrepareHub ==
    LET e == Ensured
        fresh == [NoEntry EXCEPT
                     !.on = TRUE, !.clients = e.clients, !.awaiting = TRUE,
                     !.retired = IF e.active = NoRun THEN e.retired ELSE e.active,
                     !.barred = (e.barred \cup {e.active}) \ {NoRun}]
    IN  /\ hub' = fresh
        /\ timers' = [armed |-> {Timer("idle", fresh)}, fired |-> Forget(timers.fired)]

\* Whether Publish lets the frame pass.
AcceptsAlways(e, ev) ==   \* mutant: an entry awaiting a start takes any frame
    IF ev.type = "start" THEN ev.run # e.retired
    ELSE e.active = NoRun \/ ev.run = e.active
Accepts(e, ev) ==
    IF ev.type = "start" THEN ev.run # e.retired
    ELSE ~e.awaiting /\ (e.active = NoRun \/ ev.run = e.active)

\* The entry after an accepted frame.
Applied(e, ev) ==
    CASE ev.type = "start" -> [e EXCEPT !.active = ev.run, !.snap = <<>>, !.done = FALSE,
                                        !.awaiting = FALSE]
      [] ev.type = "delta" -> [e EXCEPT !.snap = @ \o ev.text]
      [] ev.type = "snapshot" -> [e EXCEPT !.snap = ev.text]
      [] OTHER -> [e EXCEPT !.done = TRUE]

\* A terminal frame carries the snapshot; what the frames before it carry is
\* replaced by it in the browser and not followed further.
Carried(e, ev) == [ev EXCEPT !.text = IF Terminal(ev) THEN e.snap ELSE <<>>]

\* The delivery of a frame to the entry's subscribers, until all were served.
Delivery(ev, to, retry) ==
    IF to = {} /\ retry = {} THEN NoDelivery ELSE [ev |-> ev, to |-> to, retry |-> retry]

Stale(fired) == {[t EXCEPT !.fresh = FALSE] : t \in fired}

\* Publish, up to the release of h.mu.
Publish(r) ==
    /\ sender[r].q # <<>> /\ pend[r].to = {} /\ pend[r].retry = {}
    /\ sender' = [sender EXCEPT ![r].q = Tail(@)]
    /\ LET ev == Head(sender[r].q)
           e == Applied(Ensured, ev)
           kind == IF Terminal(ev) THEN "ttl" ELSE "idle"
       IN  IF ~Accepts(Ensured, ev)
           THEN hub' = Ensured /\ UNCHANGED <<pend, timers, conn>>
           ELSE /\ hub' = e
                /\ timers' = [armed |-> IF e.done /\ ~Terminal(ev) THEN timers.armed
                                        ELSE {Timer(kind, e)},
                              fired |-> Stale(timers.fired)]
                /\ pend' = [pend EXCEPT ![r] = Delivery(Carried(e, ev), e.clients, {})]
                /\ conn' = [c \in Conns |-> IF c \in e.clients /\ ev.type = "start"
                                           THEN [conn[c] EXCEPT !.knows = r] ELSE conn[c]]

\* deliver: a terminal frame that finds the channel full takes the place of the
\* oldest frame. The lock is not held, another publisher may come in between.
Full(c) == Len(conn[c].ch) >= ClientBuffer

Deliver(r, c) ==
    LET ev == pend[r].ev
        full == Full(c) /\ Terminal(ev)
    IN  /\ c \in pend[r].to
        /\ pend' = [pend EXCEPT ![r] = Delivery(ev, @.to \ {c}, IF full THEN @.retry \cup {c} ELSE @.retry)]
        /\ conn' = [conn EXCEPT ![c].ch = IF ~Full(c) THEN Append(@, ev) ELSE IF full THEN Tail(@) ELSE @]
        /\ UNCHANGED <<sender, hub, timers>>

DeliverAgain(r, c) ==
    /\ c \in pend[r].retry
    /\ pend' = [pend EXCEPT ![r] = Delivery(@.ev, @.to, @.retry \ {c})]
    /\ conn' = IF Full(c) THEN [conn EXCEPT ![c].lostEnd = TRUE]
               ELSE [conn EXCEPT ![c].ch = Append(@, pend[r].ev)]
    /\ UNCHANGED <<sender, hub, timers>>

\* A cleanup callback starts and waits for h.mu. A frame takes less than the
\* idle time to arrive.
TimerFires(t) ==
    /\ t \in timers.armed
    /\ t.kind = "idle" =>
        \A r \in Runs : sender[r].q = <<>> /\ pend[r].to = {} /\ pend[r].retry = {}
    /\ timers' = [armed |-> {}, fired |-> timers.fired \cup {t}]
    /\ UNCHANGED <<sender, pend, hub, conn>>

\* deleteKeyIfIdle and deleteKeyIfState.
SameRun(t) == t.kind = "ttl" => t.run = hub.active

CleanUp(t) ==
    LET waiting == timers.fired \ {t}
        kept == t.kind = "idle" /\ ~hub.done /\ (hub.clients # {} \/ ~t.fresh)
    IN  /\ t \in timers.fired
        /\ CASE kept -> /\ timers' = [armed |-> {Timer("idle", hub)}, fired |-> waiting]
                        /\ UNCHANGED hub
             [] ~kept /\ SameRun(t) -> /\ timers' = [armed |-> {}, fired |-> {}]
                                       /\ hub' = NoEntry
             [] OTHER -> timers' = [timers EXCEPT !.fired = waiting] /\ UNCHANGED hub
        /\ UNCHANGED <<sender, pend, conn>>

-----------------------------------------------------------------------------
(* The connections. *)

\* StreamSummary: a done stream ends the connection at once.
Subscribe(c) ==
    LET e == Ensured
    IN  /\ conn[c].at = "off"
        /\ hub' = IF e.done THEN e ELSE [e EXCEPT !.clients = @ \cup {c}]
        /\ timers' = IF e.done THEN timers ELSE [timers EXCEPT !.armed = {}]
        /\ conn' = [conn EXCEPT ![c] =
                      [@ EXCEPT !.at = IF e.done THEN "ended" ELSE "open",
                                !.told = IF e.done THEN "already done" ELSE "nothing",
                                !.shown = IF e.done THEN e.snap ELSE <<>>,
                                !.barred = e.barred,
                                !.knows = e.active]]
        /\ UNCHANGED <<sender, pend>>

\* The deferred cancel of a connection that ends.
Cancelled(c) ==
    LET e == [hub EXCEPT !.clients = @ \ {c}]
    IN  /\ hub' = IF hub.on THEN e ELSE hub
        /\ timers' = IF hub.on /\ e.clients = {} /\ ~e.done
                     THEN [timers EXCEPT !.armed = {Timer("idle", e)}] ELSE timers

\* A frame is written to the browser; a terminal one carries the whole text.
Read(c) ==
    LET ev == Head(conn[c].ch)
    IN  /\ conn[c].at = "open" /\ conn[c].ch # <<>>
        /\ IF Terminal(ev)
           THEN /\ conn' = [conn EXCEPT ![c] =
                      [@ EXCEPT !.at = "ended", !.ch = <<>>, !.told = ev.type,
                                !.shown = ev.text, !.by = ev.run]]
                /\ Cancelled(c)
           ELSE /\ conn' = [conn EXCEPT ![c].ch = Tail(@)]
                /\ UNCHANGED <<hub, timers>>
        /\ UNCHANGED <<sender, pend>>

\* The browser goes away.
Leave(c) ==
    /\ conn[c].at = "open"
    /\ conn' = [conn EXCEPT ![c].at = "left", ![c].ch = <<>>]
    /\ Cancelled(c)
    /\ UNCHANGED <<sender, pend>>

HubNext ==
    \/ \E r \in Runs :
        \/ SenderFails(r) \/ Publish(r)
        \/ \E c \in Conns : Deliver(r, c) \/ DeliverAgain(r, c)
    \/ \E t \in timers.armed \cup timers.fired : TimerFires(t) \/ CleanUp(t)
    \/ \E c \in Conns : Subscribe(c) \/ Read(c) \/ Leave(c)
=============================================================================
