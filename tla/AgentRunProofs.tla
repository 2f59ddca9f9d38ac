---------------------------- MODULE AgentRunProofs ----------------------------
(* Proofs about AgentRun, for any channels, budgets and faults: what an answer *)
(* rests on, how a run is judged, and that a planner the coverage gate sent    *)
(* back has the steps to obey.                                                 *)
EXTENDS AgentRun, TLAPS

USE AgentAssumption DEF IsFetch, IsMap, IsMerge

-----------------------------------------------------------------------------
(* Types *)

LEMMA CallType ==
    ASSUME NEW tool \in Tools, NEW on \in Handle, NEW k \in {1, 2}
    PROVE  Call(tool, on, k) \in ToolCall /\ Key(Call(tool, on, k)) \in Target
BY DEF Call, Key, ToolCall, Target

LEMMA CallableType ==
    ASSUME TypeOK
    PROVE  \A c \in Callable : c \in ToolCall /\ c.at = "sent" /\ c.k = 1
                               /\ (IsMerge(c) => c.seen = r.gen)
<1> DEFINE m == [Call("merge_summaries", {}, 1) EXCEPT !.seen = r.gen]
<1>1. \A h \in Handle : \A t \in Tools :
        /\ Call(t, h, 1) \in ToolCall /\ Call(t, h, 1).at = "sent" /\ Call(t, h, 1).k = 1
        /\ Call(t, h, 1).tool = t
    BY DEF Call, ToolCall
<1>2. m \in ToolCall /\ m.at = "sent" /\ m.k = 1 /\ m.seen = r.gen
    BY DEF Call, ToolCall, TypeOK, AgentRunner, Handle, Tools
<1>3. {} \in Handle /\ (\A c \in Channels : {c} \in Handle) /\ r.known \subseteq Handle
      /\ {"fetch_channel", "fetch_summary_scope", "summarize_chunk"} \subseteq Tools
    BY DEF Handle, TypeOK, AgentRunner, Tools
<1>4. \A c \in Callable :
        \/ c = m
        \/ \E h \in Handle : \E t \in {"fetch_channel", "fetch_summary_scope", "summarize_chunk"} :
             c = Call(t, h, 1)
    <2>1. Refetchable(r.fetched) \subseteq Channels /\ Refetchable(Succeeded) \subseteq Channels
        BY DEF Refetchable
    <2> QED
        BY <1>3, <2>1 DEF Callable
<1> HIDE DEF m
<1> QED
    BY <1>1, <1>2, <1>3, <1>4

\* A turn is made of calls just sent, and its merges have seen what is there now.
LEMMA TurnType ==
    ASSUME TypeOK, NEW B \in Turns
    PROVE  /\ B \subseteq ToolCall /\ B # {}
           /\ \A c \in B : c.at = "sent" /\ (IsMerge(c) => c.seen = r.gen)
<1>1. CASE B \in SUBSET Callable /\ B # {}
    BY <1>1, CallableType
<1>2. ASSUME NEW m \in Callable, IsMap(m), B = {m, [m EXCEPT !.k = 2]}
      PROVE  /\ B \subseteq ToolCall /\ B # {}
             /\ \A c \in B : c.at = "sent" /\ (IsMerge(c) => c.seen = r.gen)
    <2>1. m \in ToolCall /\ m.at = "sent" /\ (IsMerge(m) => m.seen = r.gen)
        BY CallableType
    <2> DEFINE n == [m EXCEPT !.k = 2]
    <2>2. n \in ToolCall /\ n.at = "sent" /\ n.tool = m.tool
        BY <2>1 DEF ToolCall
    <2>3. B = {m, n}
        BY <1>2
    <2> HIDE DEF n
    <2> QED
        BY <1>2, <2>1, <2>2, <2>3
<1> QED
    BY <1>1, <1>2 DEF Turns



\* A call that ends leaves everything of the runner but its batch and its outcomes.
LEMMA FinishFields ==
    ASSUME r \in AgentRunner, NEW c \in r.batch, NEW res \in {"ok", "soft", "fatal", "back"},
           NEW x, x = Finish(r, c, res)
    PROVE  /\ x \in AgentRunner
           /\ x.batch = r.batch \ {c}
           /\ x.outs = r.outs \cup {[key |-> Key(c), k |-> c.k, res |-> res]}
           /\ x.step = r.step /\ x.phase = r.phase /\ x.later = r.later /\ x.known = r.known
           /\ x.fetched = r.fetched /\ x.gen = r.gen /\ x.reduced = r.reduced
           /\ x.failures = r.failures /\ x.fatal = r.fatal /\ x.draft = r.draft
           /\ x.nudges = r.nudges /\ x.outcome = r.outcome /\ x.nameless = r.nameless
<1>1. c \in ToolCall /\ r.outs \subseteq ToolOutcome /\ r.batch \subseteq ToolCall
    BY DEF AgentRunner
<1>2. Key(c) \in Target
    BY <1>1 DEF Key, ToolCall, Target
<1>3. [key |-> Key(c), k |-> c.k, res |-> res] \in ToolOutcome
    BY <1>1, <1>2 DEF ToolCall, ToolOutcome
<1> QED
    BY <1>1, <1>3 DEF Finish, AgentRunner


-----------------------------------------------------------------------------
(* What each action does to the runner and to the history, field by field *)

\* What no call changes.
Steady ==
    /\ r' \in AgentRunner
    /\ r'.step = r.step /\ r'.phase = r.phase /\ r'.later = r.later /\ r'.fatal = r.fatal
    /\ r'.draft = r.draft /\ r'.nudges = r.nudges /\ r'.outcome = r.outcome

Outcome(c, res) == [key |-> Key(c), k |-> c.k, res |-> res]

\* Call c ends with res, and leaves this behind.
Ended(c, res, known, fetched, gen, reduced, failures) ==
    /\ Steady
    /\ r'.batch = r.batch \ {c} /\ r'.outs = r.outs \cup {Outcome(c, res)}
    /\ r'.known = known /\ r'.fetched = fetched /\ r'.gen = gen /\ r'.reduced = reduced
    /\ r'.failures = failures

\* Call c gets as far as `at`.
Advanced(c, at) ==
    /\ Steady
    /\ r'.batch = (r.batch \ {c}) \cup {[c EXCEPT !.at = at]} /\ r'.outs = r.outs
    /\ r'.known = r.known /\ r'.fetched = r.fetched /\ r'.gen = r.gen
    /\ r'.reduced = r.reduced /\ r'.failures = r.failures

LEMMA BatchCall ==
    ASSUME TypeOK, NEW c \in r.batch
    PROVE  c \in ToolCall /\ c.on \in Handle /\ c.on \subseteq Channels /\ c.seen \in Nat
BY DEF TypeOK, AgentRunner, ToolCall, Handle

LEMMA EndsPlain ==
    ASSUME TypeOK, NEW c \in r.batch, NEW res \in {"ok", "soft", "fatal", "back"}, r' = Finish(r, c, res)
    PROVE  Ended(c, res, r.known, r.fetched, r.gen, r.reduced, r.failures)
BY FinishFields DEF TypeOK, Ended, Steady, Outcome

\* The runner after a call that changes one of the other fields, or two.
LEMMA EndsWith ==
    ASSUME TypeOK, NEW c \in r.batch, NEW res \in {"ok", "soft", "fatal", "back"},
           NEW x, x = Finish(r, c, res)
    PROVE  /\ \A K \in SUBSET Handle : r' = [x EXCEPT !.known = K] =>
                Ended(c, res, K, r.fetched, r.gen, r.reduced, r.failures)
           /\ \A K \in SUBSET Handle, f \in Handle : r' = [x EXCEPT !.fetched = f, !.known = K] =>
                Ended(c, res, K, f, r.gen, r.reduced, r.failures)
           /\ \A f \in Handle : r' = [x EXCEPT !.fetched = f] =>
                Ended(c, res, r.known, f, r.gen, r.reduced, r.failures)
           /\ \A n \in Nat, F \in SUBSET FailedMap :
                r' = [x EXCEPT !.gen = n, !.failures = F] =>
                Ended(c, res, r.known, r.fetched, n, r.reduced, F)
           /\ \A n \in Nat : r' = [x EXCEPT !.reduced = n] =>
                Ended(c, res, r.known, r.fetched, r.gen, n, r.failures)
<1>1. /\ x \in AgentRunner
      /\ x.batch = r.batch \ {c} /\ x.outs = r.outs \cup {Outcome(c, res)}
      /\ x.step = r.step /\ x.phase = r.phase /\ x.later = r.later /\ x.known = r.known
      /\ x.fetched = r.fetched /\ x.gen = r.gen /\ x.reduced = r.reduced
      /\ x.failures = r.failures /\ x.fatal = r.fatal /\ x.draft = r.draft
      /\ x.nudges = r.nudges /\ x.outcome = r.outcome /\ x.nameless = r.nameless
    BY FinishFields DEF TypeOK, Outcome
<1>2. ASSUME NEW K \in SUBSET Handle, r' = [x EXCEPT !.known = K]
      PROVE  Ended(c, res, K, r.fetched, r.gen, r.reduced, r.failures)
    BY <1>1, <1>2 DEF AgentRunner, Ended, Steady
<1>3. ASSUME NEW K \in SUBSET Handle, NEW f \in Handle, r' = [x EXCEPT !.fetched = f, !.known = K]
      PROVE  Ended(c, res, K, f, r.gen, r.reduced, r.failures)
    BY <1>1, <1>3 DEF AgentRunner, Ended, Steady
<1>4. ASSUME NEW f \in Handle, r' = [x EXCEPT !.fetched = f]
      PROVE  Ended(c, res, r.known, f, r.gen, r.reduced, r.failures)
    BY <1>1, <1>4 DEF AgentRunner, Ended, Steady
<1>5. ASSUME NEW n \in Nat, NEW F \in SUBSET FailedMap,
             r' = [x EXCEPT !.gen = n, !.failures = F]
      PROVE  Ended(c, res, r.known, r.fetched, n, r.reduced, F)
    BY <1>1, <1>5 DEF AgentRunner, Ended, Steady
<1>6. ASSUME NEW n \in Nat, r' = [x EXCEPT !.reduced = n]
      PROVE  Ended(c, res, r.known, r.fetched, r.gen, n, r.failures)
    BY <1>1, <1>6 DEF AgentRunner, Ended, Steady
<1> QED
    BY <1>2, <1>3, <1>4, <1>5, <1>6

LEMMA FetchEnds ==
    ASSUME TypeOK, NEW c \in r.batch, FetchChannel(c) \/ FetchUnrecorded(c)
    PROVE  Ended(c, "ok", r.known \cup {c.on}, r.fetched, r.gen, r.reduced, r.failures)
<1> DEFINE x == Finish(r, c, "ok")
<1>1. r' = [x EXCEPT !.known = x.known \cup {c.on}]
    BY DEF FetchChannel, FetchUnrecorded
<1>2. x.known = r.known
    BY FinishFields DEF TypeOK
<1>3. r.known \cup {c.on} \in SUBSET Handle
    BY BatchCall DEF TypeOK, AgentRunner
<1> HIDE DEF x
<1>4. r' = [x EXCEPT !.known = r.known \cup {c.on}] /\ x = Finish(r, c, "ok")
    BY <1>1, <1>2 DEF x
<1> QED
    BY <1>3, <1>4, EndsWith

LEMMA PlainEnds ==
    ASSUME TypeOK, NEW c \in r.batch, NEW res \in {"soft", "fatal"},
           \/ FetchChannelFails(c, res, TRUE) \/ FetchChannelFails(c, res, FALSE)
           \/ (MergeRefused(c) \/ MergeFails(c)) /\ res = "fatal"
    PROVE  Ended(c, res, r.known, r.fetched, r.gen, r.reduced, r.failures)
BY EndsPlain DEF FetchChannelFails, MergeRefused, MergeFails

LEMMA ScopeEnds ==
    ASSUME TypeOK, NEW c \in r.batch, NEW ok \in SUBSET Channels, NEW unrecorded \in SUBSET Channels,
           NEW res \in {"soft", "fatal"}, FetchSummaryScope(c, ok, unrecorded, res)
    PROVE  \E known \in SUBSET Handle : \E how \in {"ok", "soft", "fatal", "back"} :
             Ended(c, how, known, r.fetched \cup ok, r.gen, r.reduced, r.failures)
<1> DEFINE all == r.fetched \cup ok
           how == IF all = {} THEN res ELSE "ok"
           x == Finish(r, c, how)
           known == IF all = {} THEN x.known ELSE x.known \cup {all}
<1>1. r' = [x EXCEPT !.fetched = all, !.known = known]
    BY DEF FetchSummaryScope
<1>2. how \in {"ok", "soft", "fatal", "back"} /\ all \in Handle
    BY DEF TypeOK, AgentRunner, Handle
<1> HIDE DEF how, all
<1>3. x.known = r.known
    BY <1>2, FinishFields DEF TypeOK
<1>4. known \in SUBSET Handle
    BY <1>2, <1>3 DEF TypeOK, AgentRunner
<1>5. x = Finish(r, c, how)
    OBVIOUS
<1> HIDE DEF x, known
<1>6. Ended(c, how, known, all, r.gen, r.reduced, r.failures)
    BY <1>1, <1>2, <1>4, <1>5, EndsWith
<1> QED
    BY <1>2, <1>4, <1>6 DEF all

LEMMA SentBackEnds ==
    ASSUME TypeOK, NEW c \in r.batch, MapSentBack(c)
    PROVE  Ended(c, "back", r.known, r.fetched \ MissingChannels(Expected, Attempted),
                 r.gen, r.reduced, r.failures)
<1> DEFINE x == Finish(r, c, "back")
<1>1. r' = [x EXCEPT !.fetched = x.fetched \ MissingChannels(Expected, Attempted)]
    BY DEF MapSentBack
<1>2. x.fetched = r.fetched
    BY FinishFields DEF TypeOK
<1>3. r.fetched \ MissingChannels(Expected, Attempted) \in Handle
    BY DEF TypeOK, AgentRunner, Handle
<1> HIDE DEF x
<1>4. r' = [x EXCEPT !.fetched = r.fetched \ MissingChannels(Expected, Attempted)]
      /\ x = Finish(r, c, "back")
    BY <1>1, <1>2 DEF x
<1> QED
    BY <1>3, <1>4, EndsWith

LEMMA FailureType ==
    ASSUME TypeOK, NEW c \in r.batch
    PROVE  /\ FailureOf(c, TRUE) \in FailedMap /\ FailureOf(c, FALSE) \in FailedMap
           /\ MarkMapFailed(r.failures, c) \in SUBSET FailedMap
           /\ MarkMapSucceeded(r.failures, c) \in SUBSET FailedMap
<1>1. r.failures \subseteq FailedMap /\ r.nameless + 1 \in Nat
    BY DEF TypeOK, AgentRunner
<1>2. FailureOf(c, TRUE) \in FailedMap /\ FailureOf(c, FALSE) \in FailedMap
    BY <1>1, BatchCall DEF FailureOf, FailedMap
<1>3. MarkMapFailed(r.failures, c) \in SUBSET FailedMap
    BY <1>1, <1>2 DEF MarkMapFailed
<1>4. MarkMapSucceeded(r.failures, c) \in SUBSET FailedMap
    BY <1>1 DEF MarkMapSucceeded
<1> QED
    BY <1>2, <1>3, <1>4

\* What a success clears is an earlier failure: of its target, or nameless.
LEMMA Clears ==
    ASSUME TypeOK, NEW c \in r.batch
    PROVE  /\ MarkMapSucceeded(r.failures, c) \subseteq r.failures
           /\ \A f \in r.failures : f.now \/ (f.on # c.on /\ f.on # {})
                                    => f \in MarkMapSucceeded(r.failures, c)
<1> DEFINE x == FailureOf(c, FALSE)
           N == {f \in r.failures : f.on = {} /\ ~f.now}
           y == CHOOSE f \in N : TRUE
<1>1. x.on = c.on /\ x.now = FALSE
    BY DEF FailureOf
<1>2. N # {} => y \in N
    OBVIOUS
<1>3. N # {} => y.on = {} /\ ~y.now
    BY <1>2
<1>4. MarkMapSucceeded(r.failures, c) =
        IF x \in r.failures THEN r.failures \ {x} ELSE IF N = {} THEN r.failures
        ELSE r.failures \ {y}
    BY DEF MarkMapSucceeded
<1> HIDE DEF x, N, y
<1> QED
    BY <1>1, <1>3, <1>4

LEMMA MapFailedEnds ==
    ASSUME TypeOK, NEW c \in r.batch, NEW res \in {"soft", "fatal"}, r' = MapFailed(c, res)
    PROVE  Ended(c, res, r.known, r.fetched, r.gen, r.reduced, MarkMapFailed(r.failures, c))
<1> DEFINE x == Finish(r, c, res)
           n == IF c.on = {} THEN r.nameless + 1 ELSE r.nameless
           F == MarkMapFailed(r.failures, c)
<1>1. r' = [x EXCEPT !.failures = MarkMapFailed(x.failures, c),
                     !.nameless = IF c.on = {} THEN x.nameless + 1 ELSE x.nameless]
    BY DEF MapFailed
<1>2. x.failures = r.failures /\ x.nameless = r.nameless
    BY FinishFields DEF TypeOK
<1>3. n \in Nat /\ F \in SUBSET FailedMap /\ res \in {"ok", "soft", "fatal", "back"}
    <2>1. r.nameless \in Nat
        BY DEF TypeOK, AgentRunner
    <2>2. F \in SUBSET FailedMap
        BY FailureType
    <2> QED
        BY <2>1, <2>2
<1> HIDE DEF x
<1>4. r' = [x EXCEPT !.failures = F, !.nameless = n] /\ x = Finish(r, c, res)
    BY <1>1, <1>2 DEF x
<1> HIDE DEF n, F
<1>5. Ended(c, res, r.known, r.fetched, r.gen, r.reduced, F)
    <2>1. /\ x \in AgentRunner
          /\ x.batch = r.batch \ {c} /\ x.outs = r.outs \cup {Outcome(c, res)}
          /\ x.step = r.step /\ x.phase = r.phase /\ x.later = r.later /\ x.known = r.known
          /\ x.fetched = r.fetched /\ x.gen = r.gen /\ x.reduced = r.reduced
          /\ x.fatal = r.fatal /\ x.draft = r.draft
          /\ x.nudges = r.nudges /\ x.outcome = r.outcome
        BY <1>3, <1>4, FinishFields DEF TypeOK, Outcome
    <2>2. PICK y \in AgentRunner : y = [x EXCEPT !.failures = F]
        BY <1>3, <2>1 DEF AgentRunner
    <2>3. r' = [y EXCEPT !.nameless = n]
        BY <1>4, <2>2, Zenon
    <2>4. /\ y.batch = x.batch /\ y.outs = x.outs /\ y.step = x.step /\ y.phase = x.phase
          /\ y.later = x.later /\ y.known = x.known /\ y.fetched = x.fetched /\ y.gen = x.gen
          /\ y.reduced = x.reduced /\ y.failures = F /\ y.fatal = x.fatal
          /\ y.draft = x.draft /\ y.nudges = x.nudges /\ y.outcome = x.outcome
        BY <2>1, <2>2 DEF AgentRunner
    <2>5. /\ r' \in AgentRunner /\ r'.batch = y.batch /\ r'.outs = y.outs /\ r'.step = y.step
          /\ r'.phase = y.phase /\ r'.later = y.later /\ r'.known = y.known
          /\ r'.fetched = y.fetched /\ r'.gen = y.gen /\ r'.reduced = y.reduced
          /\ r'.failures = y.failures /\ r'.fatal = y.fatal
          /\ r'.draft = y.draft /\ r'.nudges = y.nudges /\ r'.outcome = y.outcome
        BY <1>3, <2>2, <2>3 DEF AgentRunner
    <2> QED
        BY <2>1, <2>4, <2>5 DEF Ended, Steady
<1> QED
    BY <1>5 DEF F

LEMMA MapDoneEnds ==
    ASSUME TypeOK, NEW c \in r.batch, r' = MapDone(c)
    PROVE  Ended(c, "ok", r.known, r.fetched, r.gen + 1, r.reduced,
                 MarkMapSucceeded(r.failures, c))
<1> DEFINE x == Finish(r, c, "ok")
<1>1. r' = [x EXCEPT !.gen = x.gen + 1, !.failures = MarkMapSucceeded(x.failures, c)]
    BY DEF MapDone
<1>2. x.failures = r.failures /\ x.gen = r.gen
    BY FinishFields DEF TypeOK
<1>3. r.gen + 1 \in Nat
    BY DEF TypeOK, AgentRunner
<1> HIDE DEF x
<1>4. r' = [x EXCEPT !.gen = r.gen + 1, !.failures = MarkMapSucceeded(r.failures, c)]
      /\ x = Finish(r, c, "ok")
    BY <1>1, <1>2 DEF x
<1> QED
    BY <1>3, <1>4, FailureType, EndsWith

LEMMA MergeSucceedsEnds ==
    ASSUME TypeOK, NEW c \in r.batch, MergeSucceeds(c)
    PROVE  Ended(c, "ok", r.known, r.fetched, r.gen,
                 IF c.seen = r.gen THEN c.seen ELSE r.reduced, r.failures)
<1> DEFINE x == Finish(r, c, "ok")
           n == IF c.seen = r.gen THEN c.seen ELSE r.reduced
<1>1. r' = [x EXCEPT !.reduced = MarkReduced(x.reduced, c.seen, r.gen)]
    BY DEF MergeSucceeds
<1>2. x.reduced = r.reduced
    BY FinishFields DEF TypeOK
<1>3. n \in Nat
    BY BatchCall DEF TypeOK, AgentRunner
<1> HIDE DEF x
<1>4. r' = [x EXCEPT !.reduced = n] /\ x = Finish(r, c, "ok")
    BY <1>1, <1>2 DEF x, MarkReduced
<1> HIDE DEF n
<1>5. Ended(c, "ok", r.known, r.fetched, r.gen, n, r.failures)
    BY <1>3, <1>4, EndsWith
<1> QED
    BY <1>5 DEF n

LEMMA CallAdvances ==
    ASSUME TypeOK, NEW c \in r.batch, NEW at \in {"frozen", "loose", "resolved"},
           r' = [r EXCEPT !.batch = (r.batch \ {c}) \cup {[c EXCEPT !.at = at]}]
    PROVE  /\ Advanced(c, at)
           /\ [c EXCEPT !.at = at].tool = c.tool /\ [c EXCEPT !.at = at].on = c.on
           /\ [c EXCEPT !.at = at].at = at /\ [c EXCEPT !.at = at].seen = c.seen
<1> DEFINE d == [c EXCEPT !.at = at]
           B == (r.batch \ {c}) \cup {d}
<1>1. d \in ToolCall /\ d.tool = c.tool /\ d.on = c.on /\ d.at = at /\ d.seen = c.seen
    BY BatchCall DEF ToolCall
<1>2. B \in SUBSET ToolCall /\ r \in AgentRunner /\ r' = [r EXCEPT !.batch = B]
    BY <1>1 DEF TypeOK, AgentRunner
<1>3. B = (r.batch \ {c}) \cup {d}
    OBVIOUS
<1> HIDE DEF B
<1>4. /\ Steady
      /\ r'.batch = B /\ r'.outs = r.outs
      /\ r'.known = r.known /\ r'.fetched = r.fetched /\ r'.gen = r.gen
      /\ r'.reduced = r.reduced /\ r'.failures = r.failures
    BY <1>2 DEF AgentRunner, Steady
<1> QED
    BY <1>1, <1>3, <1>4 DEF Advanced

\* A turn is over: the runner plans again, with nothing left of the turn, or has no step left.
TurnOver(x) ==
    /\ r' \in AgentRunner
    /\ r'.batch = x.batch /\ r'.later = x.later /\ r'.known = x.known /\ r'.fetched = x.fetched
    /\ r'.gen = x.gen /\ r'.reduced = x.reduced /\ r'.fatal = x.fatal /\ r'.draft = x.draft
    /\ \/ /\ x.step = MaxSteps /\ r'.phase = "ended" /\ r'.outcome = "error"
          /\ r'.step = x.step /\ r'.outs = x.outs /\ r'.failures = x.failures
       \/ /\ x.step # MaxSteps /\ r'.phase = "plan" /\ r'.outcome = x.outcome
          /\ r'.step = x.step + 1 /\ r'.outs = {}
          /\ r'.failures = {[f EXCEPT !.now = FALSE] : f \in x.failures}

LEMMA NextStepFields ==
    ASSUME NEW x \in AgentRunner, r' = NextStep(x)
    PROVE  TurnOver(x)
<1>1. CASE x.step = MaxSteps
    <2>1. r' = [x EXCEPT !.outcome = "error", !.phase = "ended"]
        BY <1>1 DEF NextStep
    <2> QED
        BY <1>1, <2>1 DEF AgentRunner, TurnOver
<1>2. CASE x.step # MaxSteps
    <2> DEFINE F == {[f EXCEPT !.now = FALSE] : f \in x.failures}
    <2>1. F \in SUBSET FailedMap
        <3>1. x.failures \subseteq FailedMap
            BY DEF AgentRunner
        <3> QED
            BY <3>1 DEF FailedMap
    <2>2. x.step + 1 \in Nat
        BY DEF AgentRunner
    <2> HIDE DEF F
    <2>3. r' = [x EXCEPT !.step = x.step + 1, !.phase = "plan", !.outs = {}, !.failures = F]
        BY <1>2 DEF NextStep, F
    <2>4. /\ r' \in AgentRunner
          /\ r'.batch = x.batch /\ r'.later = x.later /\ r'.known = x.known
          /\ r'.fetched = x.fetched /\ r'.gen = x.gen /\ r'.reduced = x.reduced
          /\ r'.fatal = x.fatal /\ r'.draft = x.draft
          /\ r'.phase = "plan" /\ r'.outcome = x.outcome /\ r'.step = x.step + 1
          /\ r'.outs = {} /\ r'.failures = F
        BY <2>1, <2>2, <2>3 DEF AgentRunner
    <2> QED
        BY <1>2, <2>4 DEF TurnOver, F
<1> QED
    BY <1>1, <1>2

\* What the loop leaves alone between its turns.
Kept ==
    /\ r' \in AgentRunner
    /\ r'.step = r.step /\ r'.outs = r.outs /\ r'.known = r.known /\ r'.fetched = r.fetched
    /\ r'.gen = r.gen /\ r'.reduced = r.reduced /\ r'.failures = r.failures /\ r'.fatal = r.fatal

LEMMA BreakFields ==
    ASSUME TypeOK, NEW cause \in {"answered", "error"}, Break(cause)
    PROVE  /\ Kept /\ r'.batch = r.batch /\ r'.later = r.later
           /\ r'.phase = "ended" /\ r'.outcome = cause
BY DEF TypeOK, AgentRunner, Break, Kept

LEMMA DraftFields ==
    ASSUME TypeOK, PrepareDraft \/ RemindToSubmit
    PROVE  /\ Kept /\ r'.batch = r.batch /\ r'.later = r.later
           /\ r'.phase = r.phase /\ r'.outcome = r.outcome
<1>1. r \in AgentRunner
    BY DEF TypeOK
<1>2. CASE PrepareDraft
    BY <1>1, <1>2 DEF AgentRunner, PrepareDraft, Kept
<1>3. CASE RemindToSubmit
    BY <1>1, <1>3 DEF AgentRunner, RemindToSubmit, Kept
<1> QED
    BY <1>2, <1>3

\* A planned turn: a phase of fetches before the rest, when there is a Map; all of it at once
\* otherwise.
LEMMA PlanFields ==
    ASSUME TypeOK, NEW B \in Turns, Plan(B)
    PROVE  /\ Kept /\ r'.phase = "tools" /\ r'.outcome = r.outcome
           /\ r'.batch # {} /\ r'.batch \cup r'.later = B
           /\ \/ r'.batch = B /\ r'.later = {} /\ FetchPhase(B) = {}
              \/ r'.batch = FetchPhase(B) /\ r'.later = B \ FetchPhase(B)
<1> DEFINE first == FetchPhase(B)
           now == IF first = {} THEN B ELSE first
           then == IF first = {} THEN {} ELSE B \ first
<1>1. B \subseteq ToolCall /\ B # {}
    BY TurnType
<1>2. first \subseteq B
    BY DEF FetchPhase
<1> HIDE DEF first
<1>3. now \in SUBSET ToolCall /\ then \in SUBSET ToolCall /\ now # {} /\ now \cup then = B
    BY <1>1, <1>2
<1>4. r' = [r EXCEPT !.phase = "tools", !.batch = now, !.later = then] /\ r \in AgentRunner
    BY DEF Plan, TypeOK, first
<1> HIDE DEF now, then
<1>5. Kept /\ r'.phase = "tools" /\ r'.outcome = r.outcome /\ r'.batch = now /\ r'.later = then
    BY <1>3, <1>4 DEF AgentRunner, Kept
<1> QED
    BY <1>3, <1>5 DEF now, then, first

LEMMA NextPhaseFields ==
    ASSUME TypeOK, NextPhase
    PROVE  /\ Kept /\ r'.phase = r.phase /\ r'.outcome = r.outcome
           /\ r'.batch = r.later /\ r'.later = {}
BY DEF TypeOK, AgentRunner, NextPhase, Kept

-----------------------------------------------------------------------------

\* A fault or a disobedient step changes nothing else that is remembered.
Remembers ==
    /\ ghost' \in History /\ ~ghost'.obeys
    /\ ghost'.merged = ghost.merged /\ ghost'.doubtful = ghost.doubtful
    /\ ghost'.owed = ghost.owed

\* Nothing failed that the row should know of, and nothing was lost.
SameBooks ==
    /\ ghost'.broken = ghost.broken /\ ghost'.dropped = ghost.dropped
    /\ ghost'.lost = ghost.lost

\* The history g is the present one, but for what a fault or disobedience changes.
Like(g) ==
    /\ g \in History /\ g.merged = ghost.merged /\ g.doubtful = ghost.doubtful
    /\ g.owed = ghost.owed /\ g.gated = ghost.gated
    /\ g.broken = ghost.broken /\ g.dropped = ghost.dropped /\ g.lost = ghost.lost

LEMMA DisobeyedFields ==
    ASSUME TypeOK, NEW d, d = Disobeyed
    PROVE  Like(d) /\ ~d.obeys
BY DEF TypeOK, Disobeyed, History, Like

LEMMA FaultedFields ==
    ASSUME TypeOK, NEW d, d = Faulted
    PROVE  Like(d) /\ ~d.obeys
<1> DEFINE e == Disobeyed
<1>1. Like(e) /\ ~e.obeys
    BY DisobeyedFields
<1>2. d = [e EXCEPT !.faults = e.faults + 1]
    BY DEF Faulted
<1> HIDE DEF e
<1> QED
    BY <1>1, <1>2 DEF Like, History

LEMMA HistoryFields ==
    ASSUME TypeOK, ghost' = Faulted \/ ghost' = Disobeyed
    PROVE  Remembers /\ SameBooks /\ ghost'.gated = ghost.gated
<1>1. Like(ghost') /\ ~ghost'.obeys
    BY DisobeyedFields, FaultedFields
<1> QED
    BY <1>1 DEF Like, Remembers, SameBooks

LEMMA NewTurnFields ==
    ASSUME TypeOK, ghost' = [Disobeyed EXCEPT !.gated = FALSE]
    PROVE  Remembers /\ SameBooks /\ ~ghost'.gated
<1> DEFINE d == Disobeyed
<1>1. Like(d) /\ ~d.obeys
    BY DisobeyedFields
<1>2. ghost' = [d EXCEPT !.gated = FALSE]
    OBVIOUS
<1> HIDE DEF d
<1> QED
    BY <1>1, <1>2 DEF Remembers, SameBooks, Like, History

\* A planned turn: a planner that still obeys plans what it was told.
LEMMA PlanHistory ==
    ASSUME TypeOK, NEW B \in Turns, Plan(B)
    PROVE  /\ ghost' \in History /\ ~ghost'.gated /\ ghost'.merged = ghost.merged
           /\ ghost'.doubtful = ghost.doubtful /\ ghost'.owed = ghost.owed /\ SameBooks
           /\ ghost'.obeys => B = Dutiful /\ ghost.obeys /\ ghost'.mapped = ghost.mapped
<1> DEFINE d == Disobeyed
<1>1. Like(d) /\ ~d.obeys
    BY DisobeyedFields
<1>2. ghost \in History
    BY DEF TypeOK
<1>3. \/ B = Dutiful /\ ghost' = [ghost EXCEPT !.gated = FALSE]
      \/ ghost' = [d EXCEPT !.gated = FALSE]
    BY DEF Plan
<1> HIDE DEF d
<1> QED
    BY <1>1, <1>2, <1>3 DEF Like, SameBooks, History

LEMMA SentBackHistory ==
    ASSUME TypeOK, NEW c \in r.batch, MapSentBack(c)
    PROVE  /\ ghost' \in History /\ ghost'.gated /\ ghost'.merged = ghost.merged
           /\ ghost'.doubtful = ghost.doubtful /\ ghost'.owed = ghost.owed /\ SameBooks
           /\ ghost'.obeys = (ghost.obeys \/ r.failures = {}) /\ ghost'.mapped = ghost.mapped
<1>1. ghost \in History /\ ghost.obeys \in BOOLEAN
    BY DEF TypeOK, History
<1> DEFINE o == ghost.obeys \/ r.failures = {}
<1>2. o \in BOOLEAN /\ ghost' = [ghost EXCEPT !.gated = TRUE, !.obeys = o]
    BY DEF MapSentBack
<1> HIDE DEF o
<1>3. /\ ghost' \in History /\ ghost'.gated /\ ghost'.merged = ghost.merged
      /\ ghost'.doubtful = ghost.doubtful /\ ghost'.owed = ghost.owed
      /\ ghost'.obeys = o /\ ghost'.mapped = ghost.mapped /\ SameBooks
    BY <1>1, <1>2 DEF History, SameBooks
<1> QED
    BY <1>3 DEF o

\* A Map has ended well: what it covered is remembered of a planner that obeys.
MapRemembered(c) ==
    /\ ghost' \in History /\ ghost'.gated = ghost.gated /\ ghost'.merged = ghost.merged
    /\ ghost'.doubtful = ghost.doubtful /\ ghost'.owed = ghost.owed
    /\ ghost'.obeys => ghost.obeys /\ ghost'.mapped = ghost.mapped \cup {c.on}

LEMMA MappedFields ==
    ASSUME TypeOK, NEW c \in r.batch, NEW g, g = Mapped(ghost, c)
    PROVE  /\ Like(g) /\ g.obeys = ghost.obeys
           /\ ghost.obeys => g.mapped = ghost.mapped \cup {c.on}
<1> DEFINE m == IF ghost.obeys THEN ghost.mapped \cup {c.on} ELSE ghost.mapped
<1>1. ghost \in History /\ m \in SUBSET Handle
    BY BatchCall DEF TypeOK, History
<1>2. g = [ghost EXCEPT !.mapped = m]
    BY DEF Mapped
<1> HIDE DEF m
<1>3. Like(g) /\ g.obeys = ghost.obeys /\ g.mapped = m
    BY <1>1, <1>2 DEF History, Like
<1> QED
    BY <1>3 DEF m

\* What a Map left out is remembered, and that its count was lost.
DropBooks(c, counted) ==
    /\ ghost'.broken = ghost.broken /\ ghost'.dropped = (ghost.dropped \/ Drops(c))
    /\ ghost'.lost = IF LosesCount(c, counted) THEN ghost.lost \cup {"dropped"} ELSE ghost.lost

LEMMA CountLostFields ==
    ASSUME TypeOK, NEW c \in r.batch, NEW counted \in BOOLEAN, LosesCount(c, counted),
           ghost' = CountLost
    PROVE  Remembers /\ ghost'.gated = ghost.gated /\ DropBooks(c, counted)
<1> DEFINE g == Faulted
           l == g.lost \cup {"dropped"}
<1>1. Like(g) /\ ~g.obeys
    BY FaultedFields
<1>2. ghost' = [g EXCEPT !.dropped = TRUE, !.lost = l]
    BY DEF CountLost
<1> HIDE DEF g
<1>3. l \in SUBSET {"status", "fetch", "dropped", "spec"} /\ l = ghost.lost \cup {"dropped"}
    BY <1>1 DEF Like, History
<1> HIDE DEF l
<1>4. Drops(c) = TRUE
    BY DEF LosesCount, Drops
<1> QED
    BY <1>1, <1>2, <1>3, <1>4 DEF Like, History, Remembers, DropBooks

LEMMA DropFields ==
    ASSUME TypeOK, NEW c \in r.batch, NEW counted \in BOOLEAN, ~LosesCount(c, counted),
           NEW g, Like(g), ghost' = [g EXCEPT !.dropped = g.dropped \/ Drops(c)]
    PROVE  /\ Like([ghost' EXCEPT !.dropped = ghost.dropped]) /\ ghost' \in History
           /\ ghost'.gated = ghost.gated /\ ghost'.merged = ghost.merged
           /\ ghost'.doubtful = ghost.doubtful /\ ghost'.owed = ghost.owed
           /\ ghost'.obeys = g.obeys /\ ghost'.mapped = g.mapped /\ DropBooks(c, counted)
<1> DEFINE b == g.dropped \/ Drops(c)
<1>1. b \in BOOLEAN /\ b = (ghost.dropped \/ Drops(c)) /\ ghost' = [g EXCEPT !.dropped = b]
    BY DEF Like, History, Drops
<1> HIDE DEF b
<1>2. g \in History
    BY DEF Like
<1> QED
    BY <1>1, <1>2 DEF Like, History, DropBooks

LEMMA MappedHistory ==
    ASSUME TypeOK, NEW c \in r.batch, NEW counted \in BOOLEAN, MapSucceeds(c, counted)
    PROVE  MapRemembered(c) /\ DropBooks(c, counted)
<1>1. CASE LosesCount(c, counted)
    <2>1. ghost' = CountLost
        BY <1>1 DEF MapSucceeds
    <2> QED
        BY <1>1, <2>1, CountLostFields DEF MapRemembered, Remembers
<1>2. CASE ~LosesCount(c, counted)
    <2> DEFINE g == Mapped(ghost, c)
    <2>1. ghost' = [g EXCEPT !.dropped = g.dropped \/ Drops(c)]
        BY <1>2 DEF MapSucceeds
    <2>2. /\ Like(g) /\ g.obeys = ghost.obeys
          /\ ghost.obeys => g.mapped = ghost.mapped \cup {c.on}
        BY MappedFields
    <2> HIDE DEF g
    <2> QED
        BY <1>2, <2>1, <2>2, DropFields DEF MapRemembered
<1> QED
    BY <1>1, <1>2

LEMMA StoreFullHistory ==
    ASSUME TypeOK, NEW c \in r.batch, NEW counted \in BOOLEAN, MapFindsStoreFull(c, counted)
    PROVE  Remembers /\ ghost'.gated = ghost.gated /\ DropBooks(c, counted)
<1>1. CASE LosesCount(c, counted)
    <2>1. ghost' = CountLost
        BY <1>1 DEF MapFindsStoreFull
    <2> QED
        BY <1>1, <2>1, CountLostFields
<1>2. CASE ~LosesCount(c, counted)
    <2> DEFINE g == Disobeyed
    <2>1. ghost' = [g EXCEPT !.dropped = g.dropped \/ Drops(c)]
        BY <1>2 DEF MapFindsStoreFull
    <2>2. Like(g) /\ ~g.obeys
        BY DisobeyedFields
    <2> HIDE DEF g
    <2> QED
        BY <1>2, <2>1, <2>2, DropFields DEF Remembers
<1> QED
    BY <1>1, <1>2

\* What a fetch says of the channels it was to read.
FetchBooks(ok, failed, unrecorded) ==
    /\ ghost' \in History /\ ghost'.gated = ghost.gated /\ ghost'.merged = ghost.merged
    /\ ghost'.doubtful = ghost.doubtful /\ ghost'.owed = ghost.owed
    /\ ghost'.obeys => ghost.obeys /\ ghost'.mapped = ghost.mapped
    /\ ghost'.broken = (ghost.broken \ ok) \cup failed /\ ghost'.dropped = ghost.dropped
    /\ ghost'.lost = IF unrecorded THEN ghost.lost \cup {"fetch"} ELSE ghost.lost

LEMMA FetchHistory ==
    ASSUME TypeOK, NEW ok \in SUBSET Channels, NEW failed \in SUBSET Channels,
           NEW unrecorded \in BOOLEAN, NEW g, g = ghost \/ g = Faulted,
           ghost' = FetchFailed([g EXCEPT !.broken = g.broken \ ok], failed, unrecorded)
    PROVE  FetchBooks(ok, failed, unrecorded)
<1> DEFINE b == (ghost.broken \ ok) \cup failed
           l == IF unrecorded THEN ghost.lost \cup {"fetch"} ELSE ghost.lost
           h == [g EXCEPT !.broken = g.broken \ ok]
<1>1. Like(g) /\ (g.obeys => ghost.obeys /\ g.mapped = ghost.mapped)
    <2>1. Like(ghost)
        BY DEF TypeOK, Like
    <2> QED
        BY <2>1, FaultedFields
<1>2. b \in Handle /\ l \in SUBSET {"status", "fetch", "dropped", "spec"}
    BY DEF TypeOK, History, Handle
<1>3. g \in History /\ g.broken = ghost.broken /\ g.lost = ghost.lost
    BY <1>1 DEF Like
<1>4. h.broken = ghost.broken \ ok /\ h.lost = ghost.lost
    BY <1>3 DEF History
<1>5. ghost' = [h EXCEPT !.broken = b, !.lost = l]
    BY <1>4 DEF FetchFailed
<1>6. ghost' = [g EXCEPT !.broken = b, !.lost = l]
    BY <1>3, <1>5 DEF History
<1> HIDE DEF h
<1>7. ghost' \in History /\ ghost'.broken = b /\ ghost'.lost = l
    <2> HIDE DEF b, l
    <2> QED
        BY <1>2, <1>3, <1>6 DEF History
<1>8. /\ ghost'.gated = g.gated /\ ghost'.merged = g.merged /\ ghost'.doubtful = g.doubtful
      /\ ghost'.owed = g.owed /\ ghost'.obeys = g.obeys /\ ghost'.mapped = g.mapped
      /\ ghost'.dropped = g.dropped
    <2> HIDE DEF b, l
    <2> QED
        BY <1>2, <1>3, <1>6 DEF History
<1> QED
    BY <1>1, <1>7, <1>8 DEF FetchBooks, Like

LEMMA MergedHistory ==
    ASSUME TypeOK, NEW c \in r.batch, MergeSucceeds(c)
    PROVE  /\ ghost' \in History /\ ghost'.gated = ghost.gated /\ ghost'.merged = c.seen
           /\ ghost'.doubtful = ghost.doubtful /\ ghost'.owed = ghost.owed
           /\ ghost'.obeys = ghost.obeys /\ ghost'.mapped = ghost.mapped /\ SameBooks
<1>1. ghost \in History /\ c.seen \in Nat /\ ghost' = [ghost EXCEPT !.merged = c.seen]
    BY BatchCall DEF TypeOK, MergeSucceeds
<1> QED
    BY <1>1 DEF History, SameBooks

-----------------------------------------------------------------------------
(* What the actions do to the rows *)

\* No call changes the run's status or verdict, or counts as fetched what is not stored.
CallRows ==
    /\ db' \in Rows /\ db'.status = db.status /\ db'.verdict = db.verdict
    /\ Succeeded \subseteq db.evidence => Succeeded' \subseteq db'.evidence

LEMMA FetchRows ==
    ASSUME TypeOK, NEW e \in SUBSET Channels, NEW ok \in SUBSET e, NEW failed \in SUBSET Channels,
           \/ db' = [db EXCEPT !.evidence = db.evidence \cup e,
                               !.cov = RecordChannelFetch(db.cov, ok, failed)]
           \/ db' = [db EXCEPT !.evidence = db.evidence \cup e] /\ failed = {} /\ ok = {}
           \/ db' = [db EXCEPT !.cov = RecordChannelFetch(db.cov, ok, failed)] /\ e = {}
    PROVE  /\ CallRows /\ db'.dropped = db.dropped
           /\ Failed' = (Failed \ ok) \cup (failed \ ok)
<1> DEFINE cov == RecordChannelFetch(db.cov, ok, failed)
           ev == db.evidence \cup e
<1>1. /\ cov \in [Channels -> {"none", "ok", "failed"}]
      /\ \A c \in Channels : cov[c] = IF c \in ok THEN "ok" ELSE
                                       IF c \in failed THEN "failed" ELSE db.cov[c]
    BY DEF TypeOK, Rows, RecordChannelFetch
<1>2. ev \in Handle /\ db \in Rows /\ (e = {} => ev = db.evidence) /\ db.evidence \subseteq ev /\ ok \subseteq ev
    BY DEF TypeOK, Rows, Handle
<1>3. ok = {} /\ failed = {} => \A c \in Channels : cov[c] = db.cov[c]
    BY <1>1
<1>4. \/ db' = [db EXCEPT !.evidence = ev, !.cov = cov]
      \/ db' = [db EXCEPT !.evidence = ev] /\ failed = {} /\ ok = {}
      \/ db' = [db EXCEPT !.cov = cov] /\ e = {}
    OBVIOUS
<1> HIDE DEF cov, ev
<1>5. /\ db' \in Rows /\ db'.status = db.status /\ db'.verdict = db.verdict
      /\ db'.dropped = db.dropped /\ db'.evidence = ev
      /\ \A c \in Channels : db'.cov[c] = cov[c]
    BY <1>1, <1>2, <1>3, <1>4, ZenonT(30) DEF Rows
<1>6. Failed' = (Failed \ ok) \cup (failed \ ok)
    BY <1>1, <1>5 DEF Failed
<1>7. Succeeded' \subseteq Succeeded \cup ok
    BY <1>1, <1>5 DEF Succeeded
<1> QED
    BY <1>2, <1>5, <1>6, <1>7 DEF CallRows

\* A fetch that tells its row of every failure, or is remembered for not doing so.
LEMMA FetchDiscloses ==
    ASSUME NEW ok, NEW failed, NEW unrecorded \in BOOLEAN, FetchBooks(ok, failed, unrecorded),
           NEW told \in SUBSET ok, NEW toldFailed, db'.dropped = db.dropped,
           Failed' = (Failed \ told) \cup (toldFailed \ told),
           ~unrecorded => toldFailed = failed, failed \cap ok = {}
    PROVE  /\ Disclosed => Disclosed'
           /\ ("status" \in ghost'.lost) = ("status" \in ghost.lost)
<1>1. /\ ghost.lost \subseteq ghost'.lost /\ ghost'.lost \subseteq ghost.lost \cup {"fetch"}
      /\ unrecorded => "fetch" \in ghost'.lost
      /\ ghost'.broken = (ghost.broken \ ok) \cup failed /\ ghost'.dropped = ghost.dropped
    BY DEF FetchBooks
<1>2. ASSUME Disclosed, "fetch" \notin ghost'.lost PROVE ghost'.broken \subseteq Failed'
    BY <1>1, <1>2 DEF Disclosed
<1>3. ("dropped" \in ghost'.lost) = ("dropped" \in ghost.lost)
    BY <1>1
<1> QED
    BY <1>1, <1>2, <1>3 DEF Disclosed

\* The rows and the history after a fetch of either kind.
FetchKeepsBooks ==
    /\ CallRows /\ (Disclosed => Disclosed')
    /\ ("status" \in ghost'.lost) = ("status" \in ghost.lost)
    /\ \E ok, failed, unrecorded : FetchBooks(ok, failed, unrecorded)

LEMMA FetchChannelRows ==
    ASSUME TypeOK, NEW c \in r.batch, FetchChannel(c) \/ FetchUnrecorded(c)
    PROVE  FetchKeepsBooks
<1> DEFINE e == c.on
           told == IF FetchChannel(c) THEN e ELSE {}
<1>1. e \in SUBSET Channels /\ told \in SUBSET e /\ {} \in SUBSET Channels
    BY BatchCall
<1>2. CallRows /\ db'.dropped = db.dropped /\ Failed' = (Failed \ told) \cup ({} \ told)
    <2>1. \/ db' = [db EXCEPT !.evidence = db.evidence \cup e,
                              !.cov = RecordChannelFetch(db.cov, told, {})]
          \/ db' = [db EXCEPT !.evidence = db.evidence \cup e] /\ told = {}
        BY DEF FetchChannel, FetchUnrecorded
    <2> HIDE DEF e, told
    <2> QED
        BY <1>1, <2>1, FetchRows
<1>3. FetchBooks(e, {}, FALSE)
    <2> DEFINE g == IF ghost' = [ghost EXCEPT !.broken = ghost.broken \ e] THEN ghost ELSE Faulted
               h == [g EXCEPT !.broken = g.broken \ e]
    <2>1. Like(g)
        BY FaultedFields DEF TypeOK, Like
    <2>2. (g = ghost \/ g = Faulted) /\ ghost' = h
        BY FaultedFields DEF FetchChannel, FetchUnrecorded, Like
    <2> HIDE DEF g
    <2>3. h \in History /\ h.broken \cup {} = h.broken
        BY <1>1, <2>1 DEF Like, History, Handle
    <2>4. h = FetchFailed(h, {}, FALSE)
        <3> HIDE DEF h
        <3> QED
            BY <2>3 DEF FetchFailed, History
    <2> HIDE DEF e
    <2> QED
        BY <1>1, <2>2, <2>4, FetchHistory
<1>4. {} \cap e = {} /\ FALSE \in BOOLEAN
    OBVIOUS
<1> HIDE DEF e, told
<1>5. /\ Disclosed => Disclosed'
      /\ ("status" \in ghost'.lost) = ("status" \in ghost.lost)
    BY <1>1, <1>2, <1>3, <1>4, FetchDiscloses
<1> QED
    BY <1>2, <1>3, <1>5 DEF FetchKeepsBooks

LEMMA FetchChannelFailsRows ==
    ASSUME TypeOK, NEW c \in r.batch, NEW res \in {"soft", "fatal"}, NEW recorded \in BOOLEAN,
           FetchChannelFails(c, res, recorded)
    PROVE  FetchKeepsBooks
<1> DEFINE e == c.on
           told == IF recorded THEN e ELSE {}
<1>1. e \in SUBSET Channels /\ told \in SUBSET Channels /\ {} \in SUBSET Channels
    BY BatchCall
<1>2. /\ db' = [db EXCEPT !.cov = RecordChannelFetch(db.cov, {}, told)]
      /\ ghost' = FetchFailed(Faulted, e, ~recorded)
    BY DEF FetchChannelFails
<1>3. CallRows /\ db'.dropped = db.dropped /\ Failed' = (Failed \ {}) \cup (told \ {})
    <2> HIDE DEF told
    <2> QED
        BY <1>1, <1>2, FetchRows
<1>4. FetchBooks({}, e, ~recorded)
    <2> DEFINE g == Faulted
    <2>1. g \in History
        BY FaultedFields DEF Like
    <2>2. g = [g EXCEPT !.broken = g.broken \ {}]
        <3> HIDE DEF g
        <3> QED
            BY <2>1 DEF History
    <2>3. g = Faulted
        OBVIOUS
    <2>4. ghost' = FetchFailed([g EXCEPT !.broken = g.broken \ {}], e, ~recorded)
        BY <1>2, <2>2
    <2> HIDE DEF g, e
    <2> QED
        BY <1>1, <2>3, <2>4, FetchHistory
<1>5. (~(~recorded) => told = e) /\ e \cap {} = {} /\ {} \in SUBSET {} /\ (~recorded) \in BOOLEAN
    OBVIOUS
<1> HIDE DEF e, told
<1>6. /\ Disclosed => Disclosed'
      /\ ("status" \in ghost'.lost) = ("status" \in ghost.lost)
    BY <1>3, <1>4, <1>5, FetchDiscloses
<1> QED
    BY <1>3, <1>4, <1>6 DEF FetchKeepsBooks

LEMMA ScopeRows ==
    ASSUME TypeOK, NEW c \in r.batch, NEW ok \in SUBSET Channels, NEW unrecorded \in SUBSET Channels,
           NEW res \in {"soft", "fatal"}, FetchSummaryScope(c, ok, unrecorded, res)
    PROVE  FetchKeepsBooks
<1> DEFINE failed == (Channels \ r.fetched) \ ok
           told == ok \ unrecorded
           toldFailed == failed \ unrecorded
           unsaid == ~(unrecorded \subseteq ok)
           g == IF (ok # Channels \ r.fetched) \/ (unrecorded # {}) THEN Faulted ELSE ghost
<1>1. /\ failed \in SUBSET Channels /\ toldFailed \in SUBSET Channels /\ told \in SUBSET ok
      /\ unsaid \in BOOLEAN /\ failed \cap ok = {} /\ (~unsaid => toldFailed = failed)
      /\ g = ghost \/ g = Faulted
    OBVIOUS
<1>2. /\ db' = [db EXCEPT !.evidence = db.evidence \cup ok,
                          !.cov = RecordChannelFetch(db.cov, told, toldFailed)]
      /\ ghost' = FetchFailed([g EXCEPT !.broken = g.broken \ ok], failed, unsaid)
    BY DEF FetchSummaryScope
<1> HIDE DEF failed, told, toldFailed, unsaid, g
<1>3. CallRows /\ db'.dropped = db.dropped /\ Failed' = (Failed \ told) \cup (toldFailed \ told)
    BY <1>1, <1>2, FetchRows
<1>4. FetchBooks(ok, failed, unsaid)
    BY <1>1, <1>2, FetchHistory
<1> QED
    BY <1>1, <1>3, <1>4, FetchDiscloses DEF FetchKeepsBooks

\* All of a call that tells the row nothing new.
SameRecord == CallRows /\ Failed' = Failed /\ db'.dropped = db.dropped

LEMMA SameRows ==
    ASSUME TypeOK, db' = db
    PROVE  SameRecord
BY DEF TypeOK, CallRows, SameRecord, Failed, Succeeded

LEMMA ManifestRows ==
    ASSUME TypeOK, NEW m \in SUBSET Handle, db' = [db EXCEPT !.manifest = m]
    PROVE  SameRecord
BY DEF TypeOK, Rows, CallRows, SameRecord, Failed, Succeeded

LEMMA FrozenType ==
    ASSUME TypeOK
    PROVE  Freeze(db.manifest, Pool) \in SUBSET Handle
BY DEF TypeOK, Rows, Freeze, Pool

LEMMA DropRows ==
    ASSUME TypeOK, NEW c \in r.batch, NEW counted \in BOOLEAN, RecordDropped(c, counted)
    PROVE  /\ CallRows /\ Failed' = Failed
           /\ db'.dropped = (db.dropped \/ (Drops(c) /\ counted))
<1> DEFINE d == db.dropped \/ (Drops(c) /\ counted)
<1>1. db' = [db EXCEPT !.dropped = d] /\ d \in BOOLEAN
    BY DEF RecordDropped
<1> HIDE DEF d
<1>2. CallRows /\ Failed' = Failed /\ db'.dropped = d
    BY <1>1 DEF TypeOK, Rows, CallRows, Failed, Succeeded
<1> QED
    BY <1>2 DEF d

\* What a Map left out is in the row, or remembered as lost.
LEMMA DropDiscloses ==
    ASSUME NEW c, NEW counted \in BOOLEAN, DropBooks(c, counted), Failed' = Failed,
           db'.dropped = (db.dropped \/ (Drops(c) /\ counted))
    PROVE  /\ Disclosed => Disclosed'
           /\ ("status" \in ghost'.lost) = ("status" \in ghost.lost)
<1>1. Drops(c) \in BOOLEAN
    BY DEF Drops
<1>2. CASE LosesCount(c, counted)
    BY <1>1, <1>2 DEF DropBooks, LosesCount, Disclosed
<1>3. CASE ~LosesCount(c, counted)
    BY <1>1, <1>3 DEF DropBooks, LosesCount, Disclosed
<1> QED
    BY <1>2, <1>3

LEMMA SameDiscloses ==
    ASSUME SameRecord, ghost' = ghost \/ SameBooks
    PROVE  /\ Disclosed => Disclosed'
           /\ ("status" \in ghost'.lost) = ("status" \in ghost.lost)
BY DEF SameRecord, SameBooks, Disclosed

-----------------------------------------------------------------------------
(* The coverage gate *)

LEMMA GateType ==
    ASSUME TypeOK
    PROVE  /\ DecideBlock \in GateRun
           /\ [gate EXCEPT !.satisfied = TRUE, !.block = FALSE] \in GateRun
           /\ [gate EXCEPT !.decided = FALSE] \in GateRun
<1>1. gate \in GateRun /\ Signature \in SUBSET Handle
    BY DEF TypeOK, Signature, Attempted, Handle
<1>2. DecideBlock \in GateRun
    <2> DEFINE block == gate.rounds < MaxRounds /\ MaxSteps - r.step >= Reserve
               n == IF block THEN gate.rounds + 1 ELSE gate.rounds
    <2>1. block \in BOOLEAN /\ n \in Nat
        BY <1>1 DEF GateRun
    <2>2. \/ DecideBlock = gate
          \/ DecideBlock = [gate EXCEPT !.decided = TRUE, !.block = FALSE]
          \/ DecideBlock = [gate EXCEPT !.sig = Signature, !.decided = TRUE, !.block = block,
                                        !.rounds = n]
        BY DEF DecideBlock
    <2> HIDE DEF block, n
    <2> QED
        BY <1>1, <2>1, <2>2 DEF GateRun
<1> QED
    BY <1>1, <1>2 DEF GateRun

\* A decision that blocks leaves the steps to fetch, Map, Reduce and answer.
LEMMA Decision ==
    ASSUME TypeOK
    PROVE  /\ DecideBlock.decided
           /\ gate.decided => DecideBlock = gate
           /\ ~gate.decided /\ DecideBlock.block => r.step + 4 <= MaxSteps
<1>1. gate \in GateRun /\ r.step \in Nat /\ MaxSteps \in Nat /\ MaxRounds \in Nat
    BY DEF TypeOK, AgentRunner
<1>2. CASE gate.decided
    BY <1>1, <1>2 DEF DecideBlock, GateRun
<1>3. CASE ~gate.decided /\ gate.sig = Signature
    BY <1>1, <1>3 DEF DecideBlock, GateRun
<1>4. CASE ~gate.decided /\ gate.sig # Signature
    <2> DEFINE block == gate.rounds < MaxRounds /\ MaxSteps - r.step >= Reserve
               n == IF block THEN gate.rounds + 1 ELSE gate.rounds
    <2>1. block => r.step + 4 <= MaxSteps
        BY <1>1 DEF Reserve, ReservedSteps, GateRun
    <2>2. DecideBlock = [gate EXCEPT !.sig = Signature, !.decided = TRUE, !.block = block,
                                     !.rounds = n]
        BY <1>4 DEF DecideBlock
    <2> HIDE DEF block, n
    <2> QED
        BY <1>1, <1>4, <2>1, <2>2 DEF GateRun
<1> QED
    BY <1>2, <1>3, <1>4

\* A Map that is not sent back takes no decision to block.
GatePassed == gate' \in GateRun /\ (gate'.decided /\ gate'.block => gate' = gate)

LEMMA GatePasses ==
    ASSUME TypeOK, Admitted \/ FailsOpen \/ gate' = gate
    PROVE  GatePassed
<1> DEFINE s == [gate EXCEPT !.satisfied = TRUE, !.block = FALSE]
<1>1. gate \in GateRun
    BY DEF TypeOK
<1>2. s \in GateRun /\ ~s.block
    BY <1>1 DEF GateRun
<1>3. \/ gate' = s \/ gate' = gate
      \/ ~Blocks(DecideBlock) /\ gate' = DecideBlock
    BY DEF Admitted, FailsOpen
<1> HIDE DEF s
<1> QED
    BY <1>1, <1>2, <1>3, GateType, Decision DEF Blocks, GatePassed

LEMMA MapsMember ==
    ASSUME NEW x, NEW h
    PROVE  /\ h \in Maps(x) <=> \E p \in r.outs : p.res = x /\ p.key.tool = "summarize_chunk" /\ p.key.on = h
           /\ h \in Maps(x)' <=> \E p \in r'.outs : p.res = x /\ p.key.tool = "summarize_chunk" /\ p.key.on = h
BY DEF Maps, Outcomes

\* The Map outcomes of the turn after one more outcome, and with the same ones.
LEMMA MapsAfter ==
    ASSUME NEW c, NEW res, r'.outs = r.outs \cup {Outcome(c, res)}
    PROVE  \A x : /\ IsMap(c) /\ x = res => Maps(x)' = Maps(x) \cup {c.on}
                  /\ ~(IsMap(c) /\ x = res) => Maps(x)' = Maps(x)
<1> DEFINE o == Outcome(c, res)
<1>1. o.res = res /\ o.key.tool = c.tool /\ o.key.on = c.on /\ r'.outs = r.outs \cup {o}
    BY DEF Outcome, Key
<1> HIDE DEF o
<1> SUFFICES ASSUME NEW x
             PROVE  /\ IsMap(c) /\ x = res => Maps(x)' = Maps(x) \cup {c.on}
                    /\ ~(IsMap(c) /\ x = res) => Maps(x)' = Maps(x)
    OBVIOUS
<1>2. ASSUME NEW h, h \in Maps(x) PROVE h \in Maps(x)'
    BY <1>1, <1>2, MapsMember
<1>3. ASSUME NEW h, h \in Maps(x)' PROVE h \in Maps(x) \/ (IsMap(c) /\ x = res /\ h = c.on)
    BY <1>1, <1>3, MapsMember
<1>4. ASSUME IsMap(c), x = res PROVE c.on \in Maps(x)'
    BY <1>1, <1>4, MapsMember
<1> QED
    BY <1>2, <1>3, <1>4

LEMMA MapsSame ==
    ASSUME r'.outs = r.outs
    PROVE  \A x : Maps(x)' = Maps(x)
BY DEF Maps, Outcomes

LEMMA NoMaps ==
    /\ r.outs = {} => \A x : Maps(x) = {}
    /\ r'.outs = {} => \A x : Maps(x)' = {}
BY DEF Maps, Outcomes

-----------------------------------------------------------------------------
(* The calls of a turn *)

\* What every call does: it ends or gets further, and changes no more than this of the rest.
CallStep(c) ==
    /\ live' = live /\ Steady /\ CallRows
    /\ gate' \in GateRun /\ ghost' \in History /\ ghost'.owed = ghost.owed
    /\ Disclosed => Disclosed'
    /\ ("status" \in ghost'.lost) = ("status" \in ghost.lost)
    /\ \/ r'.batch = r.batch \ {c}
       \/ \E d : /\ d.tool = c.tool /\ d.on = c.on /\ d.seen = c.seen
                 /\ r'.batch = (r.batch \ {c}) \cup {d}

\* What is remembered of a call that maps and merges nothing.
Recalls ==
    /\ ghost'.gated = ghost.gated /\ ghost'.merged = ghost.merged
    /\ ghost'.doubtful = ghost.doubtful
    /\ ghost'.obeys => ghost.obeys /\ ghost'.mapped = ghost.mapped

LEMMA RecallsFault ==
    ASSUME TypeOK, ghost' = ghost \/ ghost' = Faulted \/ ghost' = Disobeyed
    PROVE  /\ Recalls /\ ghost' \in History /\ ghost'.owed = ghost.owed
           /\ ghost' = ghost \/ SameBooks
BY HistoryFields DEF TypeOK, Recalls, Remembers

\* A fetch, whichever way it ends.
FetchStep(c) ==
    /\ IsFetch(c) /\ CallStep(c) /\ gate' = gate /\ Recalls
    /\ \E how, known, fetched : Ended(c, how, known, fetched, r.gen, r.reduced, r.failures)

LEMMA FetchSteps ==
    ASSUME TypeOK, NEW c \in r.batch, NEW res \in {"soft", "fatal"}, NEW recorded \in BOOLEAN,
           NEW ok \in SUBSET Channels, NEW unrecorded \in SUBSET Channels,
           FetchChannel(c) \/ FetchUnrecorded(c) \/ FetchChannelFails(c, res, recorded)
             \/ FetchSummaryScope(c, ok, unrecorded, res)
    PROVE  FetchStep(c)
<1>1. /\ IsFetch(c) /\ live' = live /\ gate' = gate /\ gate \in GateRun
    BY DEF FetchChannel, FetchUnrecorded, FetchChannelFails, FetchSummaryScope, TypeOK
<1>2. FetchKeepsBooks
    BY FetchChannelRows, FetchChannelFailsRows, ScopeRows
<1>3. \E how, known, fetched : Ended(c, how, known, fetched, r.gen, r.reduced, r.failures)
    BY FetchEnds, PlainEnds, ScopeEnds
<1>4. Recalls /\ ghost' \in History /\ ghost'.owed = ghost.owed
    BY <1>2 DEF FetchKeepsBooks, FetchBooks, Recalls
<1> QED
    BY <1>1, <1>2, <1>3, <1>4 DEF FetchStep, CallStep, Ended, FetchKeepsBooks

\* A call that ends, with its row and its books in agreement.
LEMMA CallEnds ==
    ASSUME TypeOK, NEW c \in r.batch, NEW res, NEW known, NEW fetched, NEW gen, NEW reduced, NEW F,
           Ended(c, res, known, fetched, gen, reduced, F), live' = live, gate' \in GateRun,
           ghost' \in History, ghost'.owed = ghost.owed,
           CallRows, Disclosed => Disclosed',
           ("status" \in ghost'.lost) = ("status" \in ghost.lost)
    PROVE  CallStep(c)
BY DEF CallStep, Ended

LEMMA SentBackStep ==
    ASSUME TypeOK, NEW c \in r.batch, MapSentBack(c)
    PROVE  CallStep(c)
<1>1. live' = live /\ db' = db /\ gate' = DecideBlock
    BY DEF MapSentBack
<1>2. SameRecord /\ gate' \in GateRun
    BY <1>1, SameRows, GateType
<1>3. ghost' \in History /\ ghost'.owed = ghost.owed /\ SameBooks
    BY SentBackHistory
<1>4. (Disclosed => Disclosed') /\ ("status" \in ghost'.lost) = ("status" \in ghost.lost)
    BY <1>2, <1>3, SameDiscloses
<1> QED
    BY <1>1, <1>2, <1>3, <1>4, SentBackEnds, CallEnds DEF SameRecord

\* A Map that fails: its failure is recorded, and nobody obeys any more.
MapFailure(c, res) ==
    /\ CallStep(c) /\ IsMap(c) /\ res \in {"soft", "fatal"} /\ GatePassed
    /\ Ended(c, res, r.known, r.fetched, r.gen, r.reduced, MarkMapFailed(r.failures, c))
    /\ Remembers /\ ghost'.gated = ghost.gated

LEMMA MapFailures ==
    ASSUME TypeOK, NEW c \in r.batch, NEW res \in {"soft", "fatal"}, NEW counted \in BOOLEAN,
           \/ MapMalformed(c) \/ MapWithoutMessages(c, res) \/ MapFails(c, res)
           \/ MapFindsStoreFull(c, counted)
    PROVE  \E how : MapFailure(c, how)
<1>1. CASE MapMalformed(c) \/ MapWithoutMessages(c, res) \/ MapFails(c, res)
    <2> DEFINE how == IF MapMalformed(c) THEN "soft" ELSE res
    <2>1. /\ how \in {"soft", "fatal"} /\ IsMap(c) /\ r' = MapFailed(c, how)
          /\ live' = live /\ db' = db /\ (ghost' = Faulted \/ ghost' = Disobeyed)
          /\ Admitted \/ FailsOpen \/ gate' = gate
        BY <1>1 DEF MapMalformed, MapWithoutMessages, MapFails
    <2> HIDE DEF how
    <2>2. Ended(c, how, r.known, r.fetched, r.gen, r.reduced, MarkMapFailed(r.failures, c))
        BY <2>1, MapFailedEnds
    <2>3. GatePassed /\ Remembers /\ SameBooks /\ ghost'.gated = ghost.gated
        BY <2>1, GatePasses, HistoryFields
    <2>4. SameRecord
        BY <2>1, SameRows
    <2>5. (Disclosed => Disclosed') /\ ("status" \in ghost'.lost) = ("status" \in ghost.lost)
        BY <2>3, <2>4, SameDiscloses
    <2>6. CallStep(c)
        BY <2>1, <2>2, <2>3, <2>4, <2>5, CallEnds DEF SameRecord, GatePassed, Remembers
    <2> QED
        BY <2>1, <2>2, <2>3, <2>6 DEF MapFailure
<1>2. CASE MapFindsStoreFull(c, counted)
    <2>1. /\ IsMap(c) /\ gate' = gate /\ r' = MapFailed(c, "fatal") /\ live' = live
          /\ RecordDropped(c, counted)
        BY <1>2 DEF MapFindsStoreFull
    <2>2. Ended(c, "fatal", r.known, r.fetched, r.gen, r.reduced, MarkMapFailed(r.failures, c))
        BY <2>1, MapFailedEnds
    <2>3. GatePassed /\ Remembers /\ DropBooks(c, counted) /\ ghost'.gated = ghost.gated
        BY <1>2, <2>1, GatePasses, StoreFullHistory
    <2>4. /\ CallRows /\ Failed' = Failed
          /\ db'.dropped = (db.dropped \/ (Drops(c) /\ counted))
        BY <2>1, DropRows
    <2>5. (Disclosed => Disclosed') /\ ("status" \in ghost'.lost) = ("status" \in ghost.lost)
        BY <2>3, <2>4, DropDiscloses
    <2>6. CallStep(c)
        BY <2>1, <2>2, <2>3, <2>4, <2>5, CallEnds DEF GatePassed, Remembers
    <2> QED
        BY <2>1, <2>2, <2>3, <2>6 DEF MapFailure
<1> QED
    BY <1>1, <1>2

\* A Map that ends well, with text or with nothing to summarise.
MapSuccess(c) ==
    /\ CallStep(c) /\ IsMap(c) /\ GatePassed /\ MapRemembered(c)
    /\ Ended(c, "ok", r.known, r.fetched, r.gen + 1, r.reduced, MarkMapSucceeded(r.failures, c))

LEMMA MapSuccesses ==
    ASSUME TypeOK, NEW c \in r.batch, NEW counted \in BOOLEAN,
           MapSucceeds(c, counted) \/ MapOfNothing(c)
    PROVE  MapSuccess(c)
<1>1. IsMap(c) /\ r' = MapDone(c) /\ live' = live
    BY DEF MapSucceeds, MapOfNothing
<1>2. Ended(c, "ok", r.known, r.fetched, r.gen + 1, r.reduced, MarkMapSucceeded(r.failures, c))
    BY <1>1, MapDoneEnds
<1>3. GatePassed
    BY GatePasses DEF MapSucceeds, MapOfNothing
<1>4. CASE MapSucceeds(c, counted)
    <2>1. MapRemembered(c) /\ DropBooks(c, counted)
        BY <1>4, MappedHistory
    <2>2. /\ CallRows /\ Failed' = Failed
          /\ db'.dropped = (db.dropped \/ (Drops(c) /\ counted))
        BY <1>4, DropRows DEF MapSucceeds
    <2>3. (Disclosed => Disclosed') /\ ("status" \in ghost'.lost) = ("status" \in ghost.lost)
        BY <2>1, <2>2, DropDiscloses
    <2>4. CallStep(c)
        BY <1>1, <1>2, <1>3, <2>1, <2>2, <2>3, CallEnds DEF GatePassed, MapRemembered
    <2> QED
        BY <1>1, <1>2, <1>3, <2>1, <2>4 DEF MapSuccess
<1>5. CASE MapOfNothing(c)
    <2>1. db' = db /\ (ghost' = Mapped(ghost, c) \/ ghost' = Faulted)
        BY <1>5 DEF MapOfNothing
    <2>2. MapRemembered(c) /\ SameBooks
        <3>1. CASE ghost' = Faulted
            BY <3>1, HistoryFields DEF MapRemembered, Remembers
        <3>2. CASE ghost' = Mapped(ghost, c)
            BY <3>2, MappedFields DEF Like, MapRemembered, SameBooks
        <3> QED
            BY <2>1, <3>1, <3>2
    <2>3. SameRecord
        BY <2>1, SameRows
    <2>4. (Disclosed => Disclosed') /\ ("status" \in ghost'.lost) = ("status" \in ghost.lost)
        BY <2>2, <2>3, SameDiscloses
    <2>5. CallStep(c)
        BY <1>1, <1>2, <1>3, <2>2, <2>3, <2>4, CallEnds DEF GatePassed, MapRemembered, SameRecord
    <2> QED
        BY <1>1, <1>2, <1>3, <2>2, <2>5 DEF MapSuccess
<1> QED
    BY <1>4, <1>5

\* A call that gets further ends nothing and fetches nothing.
AdvanceStep(c) ==
    /\ CallStep(c) /\ ~IsFetch(c) /\ GatePassed /\ Recalls
    /\ r'.outs = r.outs /\ r'.known = r.known /\ r'.fetched = r.fetched /\ r'.gen = r.gen
    /\ r'.reduced = r.reduced /\ r'.failures = r.failures
    /\ \E d : /\ d.tool = c.tool /\ d.on = c.on /\ d.seen = c.seen
              /\ r'.batch = (r.batch \ {c}) \cup {d}

LEMMA Advances ==
    ASSUME TypeOK, NEW c \in r.batch, NEW manifest \in SUBSET Handle,
           MapFreezes(c) \/ MapFallsBack(c, manifest) \/ MergeResolves(c)
    PROVE  AdvanceStep(c)
<1> DEFINE at == IF MergeResolves(c) THEN "resolved" ELSE IF MapFreezes(c) THEN "frozen" ELSE "loose"
           d == [c EXCEPT !.at = at]
<1>1. /\ r' = [r EXCEPT !.batch = (r.batch \ {c}) \cup {d}] /\ live' = live /\ ~IsFetch(c)
      /\ Admitted \/ FailsOpen \/ gate' = gate
      /\ ghost' = ghost \/ ghost' = Faulted
    <2>1. CASE MergeResolves(c)
        BY <2>1 DEF MergeResolves
    <2>2. CASE ~MergeResolves(c) /\ MapFreezes(c)
        BY <2>2 DEF MapFreezes, Passes
    <2>3. CASE ~MergeResolves(c) /\ ~MapFreezes(c) /\ MapFallsBack(c, manifest)
        BY <2>3 DEF MapFallsBack
    <2> QED
        BY <2>1, <2>2, <2>3
<1>2. at \in {"frozen", "loose", "resolved"}
    OBVIOUS
<1> HIDE DEF at
<1>3. Advanced(c, at) /\ d.tool = c.tool /\ d.on = c.on /\ d.seen = c.seen
    BY <1>1, <1>2, CallAdvances
<1>4. Steady /\ r'.batch = (r.batch \ {c}) \cup {d}
    BY <1>3 DEF Advanced
<1> HIDE DEF d
<1>5. GatePassed /\ Recalls /\ ghost' \in History /\ ghost'.owed = ghost.owed
      /\ (ghost' = ghost \/ SameBooks)
    BY <1>1, GatePasses, RecallsFault
<1>6. SameRecord
    <2>1. \/ db' = db \/ db' = [db EXCEPT !.manifest = Freeze(db.manifest, Pool)]
          \/ db' = [db EXCEPT !.manifest = manifest]
        BY DEF MapFreezes, MapFallsBack, MergeResolves
    <2> QED
        BY <2>1, SameRows, ManifestRows, FrozenType
<1>7. (Disclosed => Disclosed') /\ ("status" \in ghost'.lost) = ("status" \in ghost.lost)
    BY <1>5, <1>6, SameDiscloses
<1>8. CallStep(c)
    BY <1>1, <1>3, <1>4, <1>5, <1>6, <1>7 DEF CallStep, SameRecord, GatePassed
<1> QED
    BY <1>1, <1>3, <1>4, <1>5, <1>8 DEF AdvanceStep, Advanced

LEMMA MergeStopStep ==
    ASSUME TypeOK, NEW c \in r.batch, MergeRefused(c) \/ MergeFails(c)
    PROVE  CallStep(c)
<1>1. /\ live' = live /\ gate' = gate /\ gate \in GateRun /\ db' = db
      /\ ghost' = ghost \/ ghost' = Faulted
    BY DEF MergeRefused, MergeFails, TypeOK
<1>2. ghost' \in History /\ ghost'.owed = ghost.owed /\ (ghost' = ghost \/ SameBooks)
    BY <1>1, RecallsFault
<1>3. Ended(c, "fatal", r.known, r.fetched, r.gen, r.reduced, r.failures)
    BY PlainEnds
<1>4. SameRecord
    BY <1>1, SameRows
<1>5. (Disclosed => Disclosed') /\ ("status" \in ghost'.lost) = ("status" \in ghost.lost)
    BY <1>2, <1>4, SameDiscloses
<1> QED
    BY <1>1, <1>2, <1>3, <1>4, <1>5, CallEnds DEF SameRecord

LEMMA MergeSucceedsStep ==
    ASSUME TypeOK, NEW c \in r.batch, MergeSucceeds(c)
    PROVE  CallStep(c)
<1>1. live' = live /\ gate' = gate /\ gate \in GateRun /\ db' = db
    BY DEF MergeSucceeds, TypeOK
<1>2. ghost' \in History /\ ghost'.owed = ghost.owed /\ SameBooks
    BY MergedHistory
<1>3. SameRecord
    BY <1>1, SameRows
<1>4. (Disclosed => Disclosed') /\ ("status" \in ghost'.lost) = ("status" \in ghost.lost)
    BY <1>2, <1>3, SameDiscloses
<1> QED
    BY <1>1, <1>2, <1>3, <1>4, MergeSucceedsEnds, CallEnds DEF SameRecord

-----------------------------------------------------------------------------
(* Each kind of call keeps the invariant *)

\* No call disturbs the order of a turn, the fatal failures owed, or the evidence; and in a
\* turn that was sent back there is no fetch to come.
LEMMA CallKeeps ==
    ASSUME IInv, NEW c \in r.batch, CallStep(c)
    PROVE  /\ TypeOK' /\ Phases' /\ FatalKept' /\ EvidenceKept'
           /\ r.phase = "tools" /\ r.outcome = "none"
           /\ r'.phase = "tools" /\ r'.outcome = "none" /\ r'.later = r.later /\ r'.step = r.step
<1>1. r.phase = "tools" /\ r.outcome = "none" /\ db.verdict = "none"
    BY DEF IInv, Phases, Calls, TypeOK, AgentRunner
<1>2. TypeOK'
    BY DEF IInv, TypeOK, CallStep, Steady, CallRows
<1>3. Phases'
    <2>1. \A d \in r'.batch : \E b \in r.batch : b.tool = d.tool
        BY DEF CallStep
    <2>2. r'.phase = "tools" /\ r'.outcome = "none" /\ db'.verdict = "none" /\ r'.later = r.later
        BY <1>1 DEF CallStep, Steady, CallRows
    <2> QED
        BY <1>1, <2>1, <2>2 DEF IInv, Phases
<1>4. FatalKept'
    BY <1>1 DEF IInv, FatalKept, CallStep, Steady, CallRows
<1>5. EvidenceKept'
    BY <1>1 DEF IInv, EvidenceKept, CompleteHasEvidence, CallStep, CallRows
<1> QED
    BY <1>1, <1>2, <1>3, <1>4, <1>5 DEF CallStep, Steady

\* What is remembered of a gated turn stays true while its calls end.
LEMMA GateStays ==
    ASSUME IInv, NEW c \in r.batch, CallStep(c), ghost'.gated = ghost.gated
    PROVE  GateKept'
<1>1. r.phase = "tools" /\ r'.later = r.later
    BY CallKeeps
<1>2. \A d \in r'.batch : \E b \in r.batch : b.tool = d.tool
    BY DEF CallStep
<1> QED
    BY <1>1, <1>2 DEF IInv, GateKept

LEMMA BlockStays ==
    ASSUME IInv, NEW c \in r.batch, CallStep(c), GatePassed
    PROVE  MayBlock'
<1>1. r.phase = "tools" /\ r'.step = r.step
    BY CallKeeps
<1> QED
    BY <1>1 DEF IInv, Obedience, MayBlock, GatePassed

LEMMA SameGatePasses ==
    ASSUME TypeOK, gate' = gate
    PROVE  GatePassed
BY DEF TypeOK, GatePassed

\* A call that ends without a Map, a merge or a failed Map to show for it.
QuietEnd(c, res) ==
    /\ CallStep(c) /\ r'.batch = r.batch \ {c} /\ r'.outs = r.outs \cup {Outcome(c, res)}
    /\ ~IsMap(c) /\ gate' = gate
    /\ r'.gen = r.gen /\ r'.reduced = r.reduced /\ r'.failures = r.failures
    /\ Recalls

LEMMA QuietKeeps ==
    ASSUME IInv, NEW c \in r.batch, NEW res, QuietEnd(c, res)
    PROVE  MergesAgree' /\ GateKept' /\ DoubtsKept' /\ MayBlock'
<1> USE DEF QuietEnd
<1>1. /\ r'.later = r.later /\ r'.outcome = "none"
      /\ ghost'.gated = ghost.gated /\ ghost'.merged = ghost.merged
      /\ ghost'.doubtful = ghost.doubtful
    BY CallKeeps DEF Recalls
<1>2. \A x : Maps(x)' = Maps(x)
    BY MapsAfter
<1>3. MergesAgree'
    BY <1>1 DEF IInv, MergesAgree, Calls
<1>4. GateKept' /\ MayBlock'
    BY <1>1, GateStays, BlockStays, SameGatePasses DEF IInv
<1>5. DoubtsKept'
    BY <1>1, <1>2 DEF IInv, DoubtsKept
<1> QED
    BY <1>3, <1>4, <1>5

LEMMA FetchKeeps ==
    ASSUME IInv, NEW c \in r.batch, FetchStep(c)
    PROVE  IInv'
<1>1. PICK how, known, fetched : Ended(c, how, known, fetched, r.gen, r.reduced, r.failures)
    BY DEF FetchStep
<1>2. /\ ~ghost.gated /\ r.phase = "tools" /\ r'.phase = "tools" /\ r'.outcome = "none"
      /\ r'.step = r.step
    BY CallKeeps DEF FetchStep, IInv, GateKept
<1>3. QuietEnd(c, how)
    BY <1>1 DEF FetchStep, QuietEnd, Ended
<1>4. Obedience'
    <2>1. MayBlock'
        BY <1>3, QuietKeeps
    <2>2. ASSUME ghost'.obeys PROVE ghost.obeys /\ Fetching /\ ~ghost'.gated
        BY <1>2, <2>2 DEF FetchStep, Recalls, IInv, Obedience, Mapping, Merging, Calls
    <2>3. r'.failures = r.failures
        BY <1>3 DEF QuietEnd
    <2> QED
        BY <1>2, <2>1, <2>2, <2>3 DEF IInv, Obedience, Fetching
<1> QED
    BY <1>3, <1>4, QuietKeeps, CallKeeps DEF FetchStep, IInv

LEMMA SentBackKeeps ==
    ASSUME IInv, NEW c \in r.batch, MapSentBack(c)
    PROVE  IInv'
<1>1. /\ CallStep(c) /\ db' = db /\ gate' = DecideBlock /\ IsMap(c)
      /\ DecideBlock.decided /\ DecideBlock.block
    BY SentBackStep DEF IInv, MapSentBack, Blocks
<1>2. /\ r'.batch = r.batch \ {c} /\ r'.outs = r.outs \cup {Outcome(c, "back")}
      /\ r'.gen = r.gen /\ r'.reduced = r.reduced /\ r'.failures = r.failures
    BY SentBackEnds DEF IInv, Ended
<1>3. /\ r.phase = "tools" /\ r'.phase = "tools" /\ r'.later = r.later /\ r'.outcome = "none"
      /\ ghost'.gated /\ ghost'.merged = ghost.merged
      /\ ghost'.doubtful = ghost.doubtful /\ r'.step = r.step
      /\ ghost'.obeys => ghost.obeys \/ r.failures = {}
    BY <1>1, CallKeeps, SentBackHistory DEF IInv
<1>4. Maps("ok")' = Maps("ok") /\ Maps("soft")' = Maps("soft") /\ Maps("fatal")' = Maps("fatal")
    BY <1>2, MapsAfter
<1>5. MergesAgree'
    BY <1>2, <1>3 DEF IInv, MergesAgree, Calls
<1>6. GateKept'
    <2>1. r.later = {} /\ \A d \in r.batch : ~IsFetch(d)
        BY <1>1 DEF IInv, Phases
    <2> QED
        BY <1>2, <1>3, <2>1 DEF GateKept
<1>7. DoubtsKept'
    BY <1>2, <1>3, <1>4 DEF IInv, DoubtsKept
<1>8. Obedience'
    <2>1. r.step + 4 <= MaxSteps
        BY <1>1, <1>3, Decision DEF IInv, Obedience, MayBlock
    <2>2. ghost'.obeys => r.failures = {}
        BY <1>3 DEF IInv, Obedience
    <2> QED
        BY <1>2, <1>3, <2>1, <2>2 DEF Obedience, MayBlock
<1> QED
    BY <1>1, <1>5, <1>6, <1>7, <1>8, CallKeeps DEF IInv

LEMMA MapFailureKeeps ==
    ASSUME IInv, NEW c \in r.batch, NEW res, MapFailure(c, res)
    PROVE  IInv'
<1>1. CallStep(c) /\ IsMap(c) /\ res \in {"soft", "fatal"} /\ GatePassed
    BY DEF MapFailure
<1>2. /\ r'.batch = r.batch \ {c} /\ r'.outs = r.outs \cup {Outcome(c, res)}
      /\ r'.gen = r.gen /\ r'.reduced = r.reduced
      /\ r'.failures = MarkMapFailed(r.failures, c)
    BY DEF MapFailure, Ended
<1>3. /\ ghost'.gated = ghost.gated /\ ghost'.merged = ghost.merged /\ ~ghost'.obeys
      /\ ghost'.doubtful = ghost.doubtful
    BY DEF MapFailure, Remembers
<1>4. r'.later = r.later /\ r'.outcome = "none"
    BY <1>1, CallKeeps
<1>5. GateKept' /\ MayBlock'
    BY <1>1, <1>3, GateStays, BlockStays
<1>6. MergesAgree'
    BY <1>2, <1>3, <1>4 DEF IInv, MergesAgree, Calls
<1>7. DoubtsKept'
    <2> DEFINE g == FailureOf(c, TRUE)
    <2>1. g.on = c.on /\ (c.on # {} => g.call = 0 /\ g = [on |-> c.on, call |-> 0, now |-> TRUE])
        BY DEF FailureOf
    <2>2. /\ g \in r'.failures
          /\ \A f \in r.failures : f.now \/ f.on # c.on => f \in r'.failures
          /\ \A f \in r'.failures : f \in r.failures \/ f = g
        <3>1. r'.failures = (r.failures \ {FailureOf(c, FALSE)}) \cup {g}
            BY <1>2 DEF MarkMapFailed
        <3>2. FailureOf(c, FALSE).on = c.on /\ FailureOf(c, FALSE).now = FALSE
            BY DEF FailureOf
        <3> HIDE DEF g
        <3> QED
            BY <3>1, <3>2
    <2> HIDE DEF g
    <2>3. \A f \in r.failures : \E k \in r'.failures : k.on = f.on
        BY <2>1, <2>2
    <2>4. \A h : [on |-> h, call |-> 0, now |-> TRUE] \in r.failures
                 => [on |-> h, call |-> 0, now |-> TRUE] \in r'.failures
        BY <2>2
    <2>5. \A h \in (Maps("soft")' \cup Maps("fatal")') \ {{}} :
            \/ h \in (Maps("soft") \cup Maps("fatal")) \ {{}}
            \/ h = c.on /\ c.on # {}
        BY <1>2, MapsAfter
    <2>6. \A h \in (Maps("soft")' \cup Maps("fatal")') \ {{}} :
            [on |-> h, call |-> 0, now |-> TRUE] \in r'.failures
        <3> SUFFICES ASSUME NEW h \in (Maps("soft")' \cup Maps("fatal")') \ {{}}
                     PROVE  [on |-> h, call |-> 0, now |-> TRUE] \in r'.failures
            OBVIOUS
        <3>1. CASE h \in (Maps("soft") \cup Maps("fatal")) \ {{}}
            BY <2>4, <3>1 DEF IInv, DoubtsKept
        <3>2. CASE h = c.on /\ c.on # {}
            BY <2>1, <2>2, <3>2
        <3> QED
            BY <2>5, <3>1, <3>2
    <2>7. \A f \in r'.failures : f.on # {} => f.call = 0
        BY <2>1, <2>2 DEF IInv, DoubtsKept
    <2>8. Maps("ok") \subseteq Maps("ok")'
        BY <1>2, MapsAfter
    <2> QED
        BY <1>3, <1>4, <2>3, <2>6, <2>7, <2>8 DEF IInv, DoubtsKept
<1>8. Obedience'
    BY <1>3, <1>5 DEF Obedience
<1> QED
    BY <1>1, <1>5, <1>6, <1>7, <1>8, CallKeeps DEF IInv

\* A call that gets further keeps an obedient planner where it was.
LEMMA AdvanceKeeps ==
    ASSUME IInv, NEW c \in r.batch, AdvanceStep(c)
    PROVE  IInv'
<1>1. PICK d : /\ d.tool = c.tool /\ d.on = c.on /\ d.seen = c.seen
               /\ r'.batch = (r.batch \ {c}) \cup {d}
    BY DEF AdvanceStep
<1>2. /\ CallStep(c) /\ GatePassed /\ Recalls
      /\ r'.outs = r.outs /\ r'.known = r.known /\ r'.fetched = r.fetched /\ r'.gen = r.gen
      /\ r'.reduced = r.reduced /\ r'.failures = r.failures
    BY DEF AdvanceStep
<1>3. /\ r.phase = "tools" /\ r'.phase = "tools" /\ r'.later = r.later /\ r'.outcome = "none"
      /\ r'.step = r.step /\ live' = live
    BY <1>2, CallKeeps DEF CallStep
<1>4. /\ ghost'.gated = ghost.gated /\ ghost'.merged = ghost.merged
      /\ ghost'.doubtful = ghost.doubtful
      /\ ghost'.obeys => ghost.obeys /\ ghost'.mapped = ghost.mapped
    BY <1>2 DEF Recalls
<1>5. /\ \A e \in Calls' : \E b \in Calls : b.tool = e.tool /\ b.on = e.on /\ b.seen = e.seen
      /\ \A b \in Calls : \E e \in Calls' : b.tool = e.tool /\ b.on = e.on /\ b.seen = e.seen
    BY <1>1, <1>3 DEF Calls
<1>6. MergesAgree'
    BY <1>2, <1>4, <1>5 DEF IInv, MergesAgree
<1>7. GateKept' /\ MayBlock'
    BY <1>2, <1>4, GateStays, BlockStays
<1>8. DoubtsKept'
    BY <1>2, <1>3, <1>4, MapsSame DEF IInv, DoubtsKept
<1>9. Obedience'
    <2>1. ASSUME ghost'.obeys
          PROVE  /\ Todo' = Todo /\ NeedsReduce' = NeedsReduce
        BY <1>2, <1>3, <1>4, <2>1 DEF Todo, Latest, NeedsReduce
    <2>2. ASSUME ghost'.obeys, Mapping PROVE Mapping'
        BY <1>3, <1>5, <2>1, <2>2 DEF Mapping
    <2>3. ASSUME ghost'.obeys, Merging PROVE Merging'
        BY <1>2, <1>3, <1>5, <2>1, <2>3 DEF Merging
    <2> QED
        BY <1>2, <1>3, <1>4, <1>7, <2>2, <2>3 DEF IInv, Obedience, Fetching
<1> QED
    BY <1>2, <1>6, <1>7, <1>8, <1>9, CallKeeps DEF IInv

LEMMA MapSuccessKeeps ==
    ASSUME IInv, NEW c \in r.batch, MapSuccess(c)
    PROVE  IInv'
<1>1. CallStep(c) /\ IsMap(c) /\ GatePassed
    BY DEF MapSuccess
<1>2. /\ r'.batch = r.batch \ {c} /\ r'.outs = r.outs \cup {Outcome(c, "ok")}
      /\ r'.known = r.known /\ r'.fetched = r.fetched
      /\ r'.gen = r.gen + 1 /\ r'.reduced = r.reduced
      /\ r'.failures = MarkMapSucceeded(r.failures, c)
    BY DEF MapSuccess, Ended
<1>3. /\ ghost'.gated = ghost.gated /\ ghost'.merged = ghost.merged
      /\ ghost'.doubtful = ghost.doubtful
      /\ ghost'.obeys => ghost.obeys /\ ghost'.mapped = ghost.mapped \cup {c.on}
    BY DEF MapSuccess, MapRemembered
<1>4. /\ r.phase = "tools" /\ r'.phase = "tools" /\ r'.later = r.later /\ r'.outcome = "none"
      /\ r'.step = r.step /\ live' = live
    BY <1>1, CallKeeps DEF CallStep
<1>5. GateKept' /\ MayBlock'
    BY <1>1, <1>3, GateStays, BlockStays
<1>6. /\ r'.failures \subseteq r.failures
      /\ \A f \in r.failures : f.now \/ (f.on # c.on /\ f.on # {}) => f \in r'.failures
    BY <1>2, Clears DEF IInv
<1>7. MergesAgree'
    <2>1. r.gen \in Nat /\ r.reduced \in Nat /\ \A d \in Calls : d.seen \in Nat
        BY DEF IInv, TypeOK, AgentRunner, Calls, ToolCall
    <2>2. Calls' \subseteq Calls
        BY <1>2, <1>4 DEF Calls
    <2> QED
        BY <1>2, <1>3, <2>1, <2>2 DEF IInv, MergesAgree
<1>8. DoubtsKept'
    <2>1. /\ Maps("ok")' = Maps("ok") \cup {c.on} /\ Maps("soft")' = Maps("soft")
          /\ Maps("fatal")' = Maps("fatal")
        BY <1>1, <1>2, MapsAfter
    <2>2. \A h : [on |-> h, call |-> 0, now |-> TRUE] \in r.failures
                 => [on |-> h, call |-> 0, now |-> TRUE] \in r'.failures
        BY <1>6
    <2>3. \A h \in ghost.doubtful :
            h # {} /\ ((\E f \in r'.failures : f.on = h) \/ h \in Maps("ok")')
        BY <1>6, <2>1 DEF IInv, DoubtsKept
    <2> QED
        BY <1>3, <1>4, <1>6, <2>1, <2>2, <2>3 DEF IInv, DoubtsKept
<1>9. Obedience'
    <2> SUFFICES ASSUME ghost'.obeys, ~ghost.gated
                 PROVE  r'.failures = {} /\ (Fetching' \/ Mapping' \/ Merging')
        BY <1>3, <1>4, <1>5, <1>6 DEF IInv, Obedience
    <2>1. ghost.obeys /\ r'.failures = {}
        BY <1>3, <1>6 DEF IInv, Obedience
    <2>2. Fetching \/ Mapping \/ Merging
        BY <1>4, <2>1 DEF IInv, Obedience
    <2>3. ~Merging
        BY <1>1 DEF Merging, Calls
    <2>4. ASSUME Mapping PROVE Mapping'
        <3>1. Todo' = Todo \ {c.on}
            BY <1>2, <1>3, <1>4 DEF Todo, Latest
        <3>2. Calls' \subseteq Calls /\ Calls \subseteq Calls' \cup {c}
            BY <1>2, <1>4 DEF Calls
        <3> QED
            BY <1>4, <2>4, <3>1, <3>2 DEF Mapping
    <2> QED
        BY <1>4, <2>1, <2>2, <2>3, <2>4 DEF Fetching
<1> QED
    BY <1>1, <1>5, <1>7, <1>8, <1>9, CallKeeps DEF IInv

LEMMA MergeStopsKeeps ==
    ASSUME IInv, NEW c \in r.batch, MergeRefused(c) \/ MergeFails(c)
    PROVE  IInv'
<1>1. /\ CallStep(c) /\ IsMerge(c) /\ gate' = gate
      /\ (ghost' = ghost /\ ~Resolvable(c)) \/ ghost' = Faulted
    BY MergeStopStep DEF IInv, MergeRefused, MergeFails
<1>2. Ended(c, "fatal", r.known, r.fetched, r.gen, r.reduced, r.failures)
    BY PlainEnds DEF IInv
<1>3. QuietEnd(c, "fatal")
    BY <1>1, <1>2, RecallsFault DEF QuietEnd, Ended, IInv
<1>4. MergesAgree' /\ GateKept' /\ DoubtsKept' /\ MayBlock'
    BY <1>3, QuietKeeps
<1>5. Obedience'
    <2>1. /\ r.phase = "tools" /\ r'.phase = "tools" /\ r'.outcome = "none"
          /\ r'.step = r.step /\ live' = live /\ r'.later = r.later
        BY <1>1, CallKeeps DEF CallStep
    <2>2. CASE ghost' = ghost /\ ~Resolvable(c)
        <3>1. Todo' = Todo
            BY <1>2, <2>1, <2>2 DEF Todo, Latest, Ended
        <3>2. Mapping => Mapping'
            BY <1>1, <1>2, <2>1, <3>1 DEF Mapping, Calls, Ended
        <3>3. ghost.obeys => ~Merging
            BY <2>2 DEF IInv, Obedience, Merging, Calls, Resolvable
        <3> QED
            BY <1>2, <1>4, <2>1, <2>2, <3>2, <3>3 DEF IInv, Obedience, Fetching, Ended
    <2>3. CASE ghost' = Faulted
        BY <1>4, <2>3, HistoryFields DEF Obedience, IInv, Remembers
    <2> QED
        BY <1>1, <2>2, <2>3
<1> QED
    BY <1>1, <1>4, <1>5, CallKeeps DEF IInv

LEMMA MergeSucceedsKeeps ==
    ASSUME IInv, NEW c \in r.batch, MergeSucceeds(c)
    PROVE  IInv'
<1>1. CallStep(c) /\ IsMerge(c) /\ gate' = gate /\ GatePassed
    BY MergeSucceedsStep, SameGatePasses DEF IInv, MergeSucceeds
<1>2. /\ r'.batch = r.batch \ {c} /\ r'.outs = r.outs \cup {Outcome(c, "ok")}
      /\ r'.known = r.known /\ r'.fetched = r.fetched /\ r'.gen = r.gen
      /\ r'.reduced = (IF c.seen = r.gen THEN c.seen ELSE r.reduced)
      /\ r'.failures = r.failures
    BY MergeSucceedsEnds DEF IInv, Ended
<1>3. /\ ghost'.gated = ghost.gated /\ ghost'.merged = c.seen
      /\ ghost'.doubtful = ghost.doubtful /\ ghost'.obeys = ghost.obeys
      /\ ghost'.mapped = ghost.mapped
    BY MergedHistory DEF IInv
<1>4. /\ r.phase = "tools" /\ r'.phase = "tools" /\ r'.later = r.later /\ r'.outcome = "none"
      /\ r'.step = r.step /\ live' = live
    BY <1>1, CallKeeps DEF CallStep
<1>5. \A x : Maps(x)' = Maps(x)
    BY <1>1, <1>2, MapsAfter
<1>6. Calls' \subseteq Calls /\ Calls \subseteq Calls' \cup {c}
    BY <1>2, <1>4 DEF Calls
<1>7. r.gen \in Nat /\ r.reduced \in Nat /\ c.seen \in Nat
    BY BatchCall DEF IInv, TypeOK, AgentRunner
<1>8. MergesAgree'
    <2>1. c \in Calls /\ r.reduced <= c.seen /\ c.seen <= r.gen /\ r.reduced <= r.gen
        BY <1>1 DEF IInv, MergesAgree, Calls
    <2>2. \A d \in Calls' : IsMerge(d) => d.seen = c.seen
        BY <1>1, <1>6, <2>1 DEF IInv, MergesAgree
    <2> QED
        BY <1>2, <1>3, <1>7, <2>1, <2>2 DEF MergesAgree
<1>9. GateKept' /\ MayBlock'
    BY <1>1, <1>3, GateStays, BlockStays
<1>10. DoubtsKept'
    BY <1>2, <1>3, <1>4, <1>5 DEF IInv, DoubtsKept
<1>11. Obedience'
    <2>2. Todo' = Todo
        BY <1>2, <1>3, <1>4 DEF Todo, Latest
    <2>3. Mapping => Mapping'
        BY <1>1, <1>4, <1>6, <2>2 DEF Mapping
    <2>4. Merging => Merging'
        <3>1. ASSUME Merging PROVE c.seen = r.gen
            BY <1>1, <3>1 DEF Merging, Calls
        <3> QED
            BY <1>2, <1>4, <1>6, <1>7, <2>2, <3>1 DEF Merging, NeedsReduce
    <2> QED
        BY <1>2, <1>3, <1>4, <1>9, <2>3, <2>4 DEF IInv, Obedience, Fetching
<1> QED
    BY <1>1, <1>8, <1>9, <1>10, <1>11, CallKeeps DEF IInv

LEMMA RunsCallKeeps ==
    ASSUME IInv, NEW c \in r.batch, RunsCall(c)
    PROVE  IInv'
<1>1. ASSUME NEW res \in {"soft", "fatal"}, NEW recorded \in BOOLEAN,
             NEW ok \in SUBSET Channels, NEW unrecorded \in SUBSET Channels,
             FetchChannel(c) \/ FetchUnrecorded(c) \/ FetchChannelFails(c, res, recorded)
               \/ FetchSummaryScope(c, ok, unrecorded, res)
      PROVE  IInv'
    BY <1>1, FetchSteps, FetchKeeps DEF IInv
<1>2. ASSUME NEW res \in {"soft", "fatal"}, NEW counted \in BOOLEAN,
             \/ MapMalformed(c) \/ MapWithoutMessages(c, res) \/ MapFails(c, res)
             \/ MapFindsStoreFull(c, counted)
      PROVE  IInv'
    BY <1>2, MapFailures, MapFailureKeeps DEF IInv
<1>3. ASSUME NEW counted \in BOOLEAN, MapSucceeds(c, counted) \/ MapOfNothing(c)
      PROVE  IInv'
    BY <1>3, MapSuccesses, MapSuccessKeeps DEF IInv
<1>4. ASSUME NEW manifest \in SUBSET Handle,
             MapFreezes(c) \/ MapFallsBack(c, manifest) \/ MergeResolves(c)
      PROVE  IInv'
    BY <1>4, Advances, AdvanceKeeps DEF IInv
<1>5. {} \in SUBSET Channels /\ {} \in SUBSET Handle /\ "soft" \in {"soft", "fatal"}
      /\ TRUE \in BOOLEAN
    OBVIOUS
<1> QED
    BY <1>1, <1>2, <1>3, <1>4, <1>5, SentBackKeeps, MergeStopsKeeps, MergeSucceedsKeeps
    DEF RunsCall

-----------------------------------------------------------------------------
(* The loop around the calls *)

LEMMA SameEvidence ==
    ASSUME EvidenceKept, db' = db, ghost' = ghost \/ SameBooks
    PROVE  EvidenceKept'
BY DEF EvidenceKept, CompleteHasEvidence, Disclosed, Succeeded, Failed, SameBooks

\* A recorded failure survives the end of its turn, as one of an earlier turn.
LEMMA FailuresSurvive ==
    ASSUME NEW x \in AgentRunner, TurnOver(x)
    PROVE  /\ \A f \in x.failures : \E g \in r'.failures : g.on = f.on
           /\ \A g \in r'.failures : \E f \in x.failures : g.on = f.on /\ g.call = f.call
           /\ x.failures = {} => r'.failures = {}
<1>1. \A f \in x.failures : LET g == [f EXCEPT !.now = FALSE] IN g.on = f.on /\ g.call = f.call
    <2>1. x.failures \subseteq FailedMap
        BY DEF AgentRunner
    <2> QED
        BY <2>1 DEF FailedMap
<1>2. CASE r'.failures = x.failures
    BY <1>2
<1>3. CASE r'.failures = {[f EXCEPT !.now = FALSE] : f \in x.failures}
    BY <1>1, <1>3
<1> QED
    BY <1>2, <1>3 DEF TurnOver

\* A turn with nothing to show for it, or a rejected answer.
LEMMA IdleKeeps ==
    ASSUME IInv, IdleTurn \/ AnswerRejected
    PROVE  IInv'
<1>1. /\ r.phase = "plan" /\ r.outcome = "none" /\ r' = NextStep(r)
      /\ ghost' = [Disobeyed EXCEPT !.gated = FALSE]
      /\ live' = live /\ db' = db /\ gate' = gate
    BY DEF IdleTurn, AnswerRejected, Submits, Planning
<1>2. TurnOver(r) /\ r \in AgentRunner
    BY <1>1, NextStepFields DEF IInv, TypeOK
<1>3. Remembers /\ SameBooks /\ ~ghost'.gated
    BY <1>1, NewTurnFields DEF IInv
<1>4. r.outs = {} /\ Calls = {} /\ ~gate.decided
    BY <1>1 DEF IInv, Phases
<1>5. r'.outs = {} /\ Calls' = {} /\ r'.phase # "tools" /\ r'.outcome \in {"none", "error"}
      /\ (r'.phase = "ended" <=> r'.outcome # "none")
    BY <1>1, <1>2, <1>4 DEF TurnOver, Calls
<1>6. TypeOK'
    BY <1>1, <1>2, <1>3 DEF IInv, TypeOK, TurnOver, Remembers
<1>7. Phases'
    BY <1>1, <1>4, <1>5 DEF IInv, Phases, Calls
<1>8. FatalKept'
    BY <1>1, <1>2, <1>3 DEF IInv, FatalKept, TurnOver, Remembers, SameBooks
<1>9. EvidenceKept'
    BY <1>1, <1>3, SameEvidence DEF IInv
<1>10. MergesAgree'
    BY <1>2, <1>3, <1>5 DEF IInv, MergesAgree, TurnOver, Remembers
<1>11. GateKept'
    BY <1>5 DEF GateKept
<1>12. DoubtsKept'
    <2>1. Maps("ok") = {} /\ Maps("soft")' = {} /\ Maps("fatal")' = {}
        BY <1>4, <1>5, NoMaps
    <2> QED
        BY <1>2, <1>3, <1>5, <2>1, FailuresSurvive DEF IInv, DoubtsKept, Remembers
<1>13. Obedience'
    BY <1>3, <1>5 DEF Obedience, MayBlock, Remembers
<1> QED
    BY <1>6, <1>7, <1>8, <1>9, <1>10, <1>11, <1>12, <1>13 DEF IInv

\* The run ends with no result for the user.
LEMMA BreakKeeps ==
    ASSUME IInv, PlanningFails \/ NonterminalAfterPreparation
    PROVE  IInv'
<1>1. /\ r.phase = "plan" /\ r.outcome = "none" /\ Break("error") /\ ghost' = Disobeyed
      /\ live' = live /\ db' = db /\ gate' = gate
    BY DEF PlanningFails, NonterminalAfterPreparation, Planning
<1>2. /\ Kept /\ r'.batch = r.batch /\ r'.later = r.later
      /\ r'.phase = "ended" /\ r'.outcome = "error"
    BY <1>1, BreakFields DEF IInv
<1>3. Remembers /\ SameBooks /\ ghost'.gated = ghost.gated
    BY <1>1, HistoryFields DEF IInv
<1>4. TypeOK'
    BY <1>1, <1>2, <1>3 DEF IInv, TypeOK, Kept, Remembers
<1>5. Phases'
    BY <1>1, <1>2 DEF IInv, Phases, Calls, Kept
<1>6. FatalKept' /\ MergesAgree'
    BY <1>1, <1>2, <1>3 DEF IInv, FatalKept, MergesAgree, Calls, Kept, Remembers, SameBooks
<1>7. EvidenceKept'
    BY <1>1, <1>3, SameEvidence DEF IInv
<1>8. GateKept'
    BY <1>2 DEF GateKept
<1>9. DoubtsKept'
    BY <1>2, <1>3, MapsSame DEF IInv, DoubtsKept, Kept, Remembers
<1>10. Obedience'
    BY <1>2, <1>3 DEF Obedience, MayBlock, Remembers
<1> QED
    BY <1>4, <1>5, <1>6, <1>7, <1>8, <1>9, <1>10 DEF IInv

LEMMA DraftKeeps ==
    ASSUME IInv, PrepareDraft \/ RemindToSubmit
    PROVE  IInv'
<1>1. /\ r.phase = "plan" /\ r.outcome = "none" /\ ghost' = ghost
      /\ live' = live /\ db' = db /\ gate' = gate
    BY DEF PrepareDraft, RemindToSubmit, Planning
<1>2. /\ Kept /\ r'.batch = r.batch /\ r'.later = r.later
      /\ r'.phase = r.phase /\ r'.outcome = r.outcome
    BY DraftFields DEF IInv
<1>3. TypeOK'
    BY <1>1, <1>2 DEF IInv, TypeOK, Kept
<1>4. Phases'
    BY <1>1, <1>2 DEF IInv, Phases, Calls, Kept
<1>5. FatalKept' /\ MergesAgree'
    BY <1>1, <1>2 DEF IInv, FatalKept, MergesAgree, Calls, Kept
<1>6. EvidenceKept'
    BY <1>1, SameEvidence DEF IInv
<1>7. GateKept'
    BY <1>1, <1>2 DEF GateKept
<1>8. DoubtsKept'
    BY <1>1, <1>2, MapsSame DEF IInv, DoubtsKept, Kept
<1>9. Obedience'
    <2>1. Todo' = Todo /\ NeedsReduce' = NeedsReduce
        BY <1>1, <1>2 DEF Todo, Latest, NeedsReduce, Kept
    <2> QED
        BY <1>1, <1>2, <2>1 DEF IInv, Obedience, MayBlock, Kept
<1> QED
    BY <1>3, <1>4, <1>5, <1>6, <1>7, <1>8, <1>9 DEF IInv

\* An answer: nothing is owed to a Map or a Reduce, and a failed run is not closed.
LEMMA AnswerKeeps ==
    ASSUME IInv, NEW closed \in BOOLEAN, Answer(closed)
    PROVE  IInv'
<1>1. /\ r.phase = "plan" /\ r.outcome = "none" /\ Break("answered")
      /\ ghost' = ghost \/ ghost' = Faulted
      /\ live' = live /\ gate' = gate /\ r.failures = {} /\ ~NeedsReduce
      /\ db' = db \/ db' = [db EXCEPT !.status = FinishRunning(db.status)]
    BY DEF Answer, Submits, Planning, Pending, PendingMapFailures
<1>2. /\ Kept /\ r'.batch = r.batch /\ r'.later = r.later
      /\ r'.phase = "ended" /\ r'.outcome = "answered"
    BY <1>1, BreakFields DEF IInv
<1>3. /\ db' \in Rows /\ db'.cov = db.cov /\ db'.evidence = db.evidence
      /\ db'.verdict = db.verdict /\ db'.dropped = db.dropped
      /\ db'.fetchExpected = db.fetchExpected
      /\ db'.status = "failed" <=> db.status = "failed"
    <2> DEFINE s == FinishRunning(db.status)
    <2>1. db \in Rows
        BY DEF IInv, TypeOK
    <2>2. s \in {"running", "failed", "finished"} /\ (s = "failed" <=> db.status = "failed")
        BY <2>1 DEF FinishRunning, Rows
    <2>3. db' = db \/ db' = [db EXCEPT !.status = s]
        BY <1>1
    <2> HIDE DEF s
    <2> QED
        BY <2>1, <2>2, <2>3 DEF Rows
<1>4. /\ ghost' \in History /\ ghost'.gated = ghost.gated /\ ghost'.merged = ghost.merged
      /\ ghost'.doubtful = ghost.doubtful /\ ghost'.owed = ghost.owed /\ SameBooks
    BY <1>1, HistoryFields DEF IInv, TypeOK, Remembers, SameBooks
<1>5. TypeOK'
    BY <1>1, <1>2, <1>3, <1>4 DEF IInv, TypeOK, Kept
<1>6. Phases'
    BY <1>1, <1>2, <1>3 DEF IInv, Phases, Calls, Kept
<1>7. FatalKept'
    BY <1>1, <1>2, <1>3, <1>4 DEF IInv, FatalKept, Kept, SameBooks
<1>8. MergesAgree'
    BY <1>1, <1>2, <1>4 DEF IInv, MergesAgree, Calls, Kept
<1>9. EvidenceKept'
    BY <1>3, <1>4
    DEF IInv, EvidenceKept, CompleteHasEvidence, Disclosed, Succeeded, Failed, SameBooks
<1>10. GateKept'
    BY <1>2 DEF GateKept
<1>11. DoubtsKept'
    <2>1. r.reduced = r.gen
        BY <1>1 DEF IInv, TypeOK, AgentRunner, MergesAgree, NeedsReduce
    <2>2. r.outs = {}
        BY <1>1 DEF IInv, Phases
    <2> QED
        BY <1>1, <1>2, <1>4, <2>1, <2>2, MapsSame DEF IInv, DoubtsKept, Kept
<1>12. Obedience'
    BY <1>1, <1>2 DEF Obedience, MayBlock, Kept
<1> QED
    BY <1>5, <1>6, <1>7, <1>8, <1>9, <1>10, <1>11, <1>12 DEF IInv

\* The verdict over the row as it stands.
LEMMA SaveKeeps ==
    ASSUME IInv, NEW valid \in BOOLEAN, NEW readable \in BOOLEAN, Save(valid, readable)
    PROVE  IInv'
<1> DEFINE v == Evaluate(valid, IF readable THEN Expected ELSE {})
<1>1. /\ r.outcome = "answered" /\ r' = r /\ live' = live /\ gate' = gate
      /\ db' = [db EXCEPT !.verdict = v] /\ db \in Rows
    BY DEF Save, IInv, TypeOK
<1>2. v \in {"failed", "partial", "complete"}
    BY DEF Evaluate
<1>3. /\ db.status = "failed" => v = "failed"
      /\ v = "complete" =>
            /\ readable /\ db.fetchExpected => (Expected \subseteq Succeeded) \/ ~CoverageMeasured
            /\ db.fetchExpected => CoverageMeasured
            /\ Failed = {} /\ ~db.dropped
    BY DEF Evaluate, Gaps
<1> HIDE DEF v
<1>4. /\ db' \in Rows /\ db'.cov = db.cov /\ db'.evidence = db.evidence
      /\ db'.status = db.status /\ db'.dropped = db.dropped
      /\ db'.fetchExpected = db.fetchExpected /\ db'.verdict = v
    BY <1>1, <1>2 DEF Rows
<1>5. /\ ghost' \in History /\ ghost'.gated = ghost.gated /\ ghost'.merged = ghost.merged
      /\ ghost'.doubtful = ghost.doubtful /\ ghost'.owed = ghost.owed
      /\ ghost'.broken = ghost.broken /\ ghost'.dropped = ghost.dropped
      /\ ghost'.lost = (IF readable THEN ghost.lost ELSE ghost.lost \cup {"spec"})
      /\ ghost'.obeys => ghost' = ghost
    <2>1. CASE readable
        BY <2>1 DEF Save, IInv, TypeOK
    <2>2. CASE ~readable
        <3> DEFINE g == Faulted
                   l == g.lost \cup {"spec"}
        <3>1. ghost' = [g EXCEPT !.lost = l]
            BY <2>2 DEF Save
        <3>2. Like(g) /\ ~g.obeys
            BY FaultedFields DEF IInv
        <3> HIDE DEF g
        <3>3. l \in SUBSET {"status", "fetch", "dropped", "spec"} /\ l = ghost.lost \cup {"spec"}
            BY <3>2 DEF Like, History
        <3> HIDE DEF l
        <3> QED
            BY <2>2, <3>1, <3>2, <3>3 DEF Like, History
    <2> QED
        BY <2>1, <2>2
<1>6. TypeOK'
    BY <1>1, <1>4, <1>5 DEF IInv, TypeOK
<1>7. Phases'
    BY <1>1 DEF IInv, Phases, Calls
<1>8. FatalKept'
    <2>1. ("status" \in ghost'.lost) = ("status" \in ghost.lost)
        BY <1>5
    <2> QED
        BY <1>1, <1>3, <1>4, <1>5, <2>1 DEF IInv, FatalKept
<1>9. EvidenceKept'
    <2>1. Succeeded' = Succeeded /\ Failed' = Failed /\ Succeeded \subseteq db.evidence /\ Disclosed
        BY <1>4 DEF Succeeded, Failed, IInv, EvidenceKept
    <2>2. /\ ("fetch" \in ghost'.lost) = ("fetch" \in ghost.lost)
          /\ ("dropped" \in ghost'.lost) = ("dropped" \in ghost.lost)
          /\ ~readable => "spec" \in ghost'.lost
        BY <1>5
    <2>3. Disclosed'
        BY <1>4, <1>5, <2>1, <2>2 DEF Disclosed
    <2>4. CompleteHasEvidence'
        BY <1>3, <1>4, <1>5, <2>1, <2>2 DEF CompleteHasEvidence, Disclosed
    <2> QED
        BY <1>4, <2>1, <2>3, <2>4 DEF EvidenceKept
<1>10. MergesAgree'
    BY <1>1, <1>5 DEF IInv, MergesAgree, Calls
<1>11. r.phase = "ended"
    BY <1>1 DEF IInv, Phases, TypeOK, AgentRunner
<1>12. GateKept'
    BY <1>1, <1>11 DEF GateKept
<1>13. DoubtsKept'
    BY <1>1, <1>5, MapsSame DEF IInv, DoubtsKept
<1>14. Obedience'
    BY <1>1, <1>5, <1>11 DEF IInv, Obedience, MayBlock
<1> QED
    BY <1>6, <1>7, <1>8, <1>9, <1>10, <1>12, <1>13, <1>14 DEF IInv

\* A planned turn starts with its fetches; an obedient planner starts what it was told.
LEMMA PlanKeeps ==
    ASSUME IInv, NEW B \in Turns, Plan(B)
    PROVE  IInv'
<1>1. /\ r.phase = "plan" /\ r.outcome = "none" /\ live' = live /\ db' = db /\ gate' = gate
      /\ ~gate.decided /\ r.outs = {} /\ db.verdict = "none"
    BY DEF Plan, Planning, IInv, Phases
<1>2. /\ Kept /\ r'.phase = "tools" /\ r'.outcome = r.outcome
      /\ r'.batch # {} /\ Calls' = B
      /\ \/ r'.batch = B /\ r'.later = {} /\ FetchPhase(B) = {}
         \/ r'.batch = FetchPhase(B) /\ r'.later = B \ FetchPhase(B)
    BY PlanFields DEF IInv, Calls
<1>3. /\ ghost' \in History /\ ~ghost'.gated /\ ghost'.merged = ghost.merged
      /\ ghost'.doubtful = ghost.doubtful /\ ghost'.owed = ghost.owed /\ SameBooks
      /\ ghost'.obeys => B = Dutiful /\ ghost.obeys /\ ghost'.mapped = ghost.mapped
    BY PlanHistory DEF IInv
<1>4. /\ B \subseteq ToolCall /\ B # {}
      /\ \A c \in B : c.at = "sent" /\ (IsMerge(c) => c.seen = r.gen)
    BY TurnType DEF IInv
<1>5. TypeOK'
    BY <1>1, <1>2, <1>3 DEF IInv, TypeOK, Kept
<1>6. Phases'
    <2>1. CASE r'.batch = B /\ r'.later = {} /\ FetchPhase(B) = {}
        <3>1. (\E c \in B : IsMap(c)) => \A c \in B : ~IsFetch(c)
            BY <2>1 DEF FetchPhase
        <3> QED
            BY <1>1, <1>2, <2>1, <3>1 DEF Phases
    <2>2. CASE r'.batch = FetchPhase(B) /\ r'.later = B \ FetchPhase(B)
        <3>1. FetchPhase(B) = {c \in B : IsFetch(c)}
            BY <1>2, <2>2 DEF FetchPhase
        <3> QED
            BY <1>1, <1>2, <1>4, <2>2, <3>1 DEF Phases
    <2> QED
        BY <1>2, <2>1, <2>2
<1>7. FatalKept'
    BY <1>1, <1>2, <1>3 DEF IInv, FatalKept, Kept, SameBooks
<1>8. EvidenceKept'
    BY <1>1, <1>3, SameEvidence DEF IInv
<1>9. MergesAgree'
    <2>1. r.reduced \in Nat /\ r.gen \in Nat
        BY DEF IInv, TypeOK, AgentRunner
    <2> QED
        BY <1>2, <1>3, <1>4, <2>1 DEF IInv, MergesAgree, Kept
<1>10. \A x : Maps(x) = {} /\ Maps(x)' = {}
    BY <1>1, <1>2, NoMaps DEF Kept
<1>11. GateKept'
    BY <1>3 DEF GateKept
<1>12. DoubtsKept'
    BY <1>1, <1>2, <1>3, <1>10 DEF IInv, DoubtsKept, Kept
<1>13. Obedience'
    <2>1. MayBlock'
        BY <1>1 DEF MayBlock
    <2>2. ASSUME ghost'.obeys PROVE Fetching' \/ Mapping' \/ Merging'
        <3>1. /\ ghost.obeys /\ B = Dutiful /\ r.step \in Nat /\ MaxSteps \in Nat
              /\ ghost.gated => r.step + 3 <= MaxSteps
              /\ Todo # {} => r.step + 2 <= MaxSteps
              /\ NeedsReduce => r.step + 1 <= MaxSteps
            BY <1>1, <1>3, <2>2 DEF IInv, Obedience, TypeOK, AgentRunner
        <3>2. Todo' = Todo /\ NeedsReduce' = NeedsReduce /\ r'.step = r.step /\ r'.gen = r.gen
            BY <1>1, <1>2, <1>3, <2>2 DEF Todo, Latest, NeedsReduce, Kept
        <3>3. CASE ghost.gated
            BY <3>1, <3>2, <3>3 DEF Fetching
        <3>4. CASE ~ghost.gated /\ Todo # {}
            <4>1. B = {Call("summarize_chunk", h, 1) : h \in Todo}
                BY <3>1, <3>4 DEF Dutiful
            <4>2. \A h \in Todo : LET c == Call("summarize_chunk", h, 1)
                                 IN  c \in B /\ IsMap(c) /\ c.on = h
                BY <4>1 DEF Call
            <4>3. \A c \in B : ~IsFetch(c)
                BY <4>1 DEF Call
            <4> QED
                BY <1>2, <3>1, <3>2, <3>4, <4>2, <4>3 DEF Mapping
        <3>5. CASE ~ghost.gated /\ Todo = {} /\ NeedsReduce
            <4>1. B = {[Call("merge_summaries", {}, 1) EXCEPT !.seen = r.gen]}
                BY <3>1, <3>5 DEF Dutiful
            <4>2. \A c \in B : IsMerge(c) /\ c.seen = r.gen
                BY <4>1 DEF Call
            <4>3. r.gen > 0
                BY <3>5 DEF NeedsReduce, IInv, TypeOK, AgentRunner
            <4> QED
                BY <1>2, <1>4, <3>1, <3>2, <3>5, <4>2, <4>3 DEF Merging
        <3>6. CASE ~ghost.gated /\ Todo = {} /\ ~NeedsReduce
            BY <1>4, <3>1, <3>6 DEF Dutiful
        <3> QED
            BY <3>3, <3>4, <3>5, <3>6
    <2> QED
        BY <1>1, <1>2, <1>3, <2>1, <2>2 DEF IInv, Obedience, Kept
<1> QED
    BY <1>5, <1>6, <1>7, <1>8, <1>9, <1>11, <1>12, <1>13 DEF IInv

\* The fetches of the turn are done: its Maps and merges run.
LEMMA NextPhaseKeeps ==
    ASSUME IInv, NextPhase
    PROVE  IInv'
<1>1. /\ r.phase = "tools" /\ r.batch = {} /\ r.later # {} /\ ghost' = ghost
      /\ live' = live /\ db' = db /\ gate' = gate
    BY DEF NextPhase
<1>2. /\ Kept /\ r'.phase = r.phase /\ r'.outcome = r.outcome
      /\ r'.batch = r.later /\ r'.later = {}
    BY NextPhaseFields DEF IInv
<1>3. Calls' = Calls /\ \A c \in r.later : ~IsFetch(c) /\ c.at = "sent"
    BY <1>1, <1>2 DEF Calls, IInv, Phases
<1>4. TypeOK'
    BY <1>1, <1>2 DEF IInv, TypeOK, Kept
<1>5. Phases'
    BY <1>1, <1>2, <1>3 DEF IInv, Phases
<1>6. FatalKept'
    BY <1>1, <1>2 DEF IInv, FatalKept, Kept
<1>7. EvidenceKept'
    BY <1>1, SameEvidence DEF IInv
<1>8. MergesAgree'
    BY <1>1, <1>2, <1>3 DEF IInv, MergesAgree, Kept
<1>9. GateKept'
    BY <1>1, <1>2 DEF IInv, GateKept
<1>10. DoubtsKept'
    BY <1>1, <1>2, MapsSame DEF IInv, DoubtsKept, Kept
<1>11. Obedience'
    <2>1. /\ Todo' = Todo /\ NeedsReduce' = NeedsReduce
          /\ r'.step = r.step /\ r'.gen = r.gen /\ r'.failures = r.failures
        BY <1>1, <1>2 DEF Todo, Latest, NeedsReduce, Kept
    <2>2. (Mapping => Mapping') /\ (Merging => Merging')
        BY <1>3, <2>1 DEF Mapping, Merging
    <2> QED
        BY <1>1, <1>2, <2>1, <2>2 DEF IInv, Obedience, MayBlock, Fetching
<1> QED
    BY <1>4, <1>5, <1>6, <1>7, <1>8, <1>9, <1>10, <1>11 DEF IInv

LEMMA OutcomeTypes ==
    ASSUME TypeOK
    PROVE  \A x : Outcomes(x) \subseteq Target /\ Maps(x) \subseteq Handle
<1>1. \A x : Outcomes(x) \subseteq Target
    BY DEF TypeOK, AgentRunner, ToolOutcome, Outcomes
<1> QED
    BY <1>1 DEF Maps, Target

\* The failures of the turn are told before its successes: the row stays failed exactly
\* while a fatal failure is left, unless the last status it was owed was not written.
LEMMA StatusSays ==
    ASSUME TypeOK, FatalKept, NEW lost \in SUBSET StatusWrites(r.fatal),
           NEW s, s = StatusAfter(db.status, r.fatal, lost),
           NEW l, l = LostAfter(ghost.lost, r.fatal, lost)
    PROVE  /\ s \in {"running", "failed", "finished"}
           /\ "status" \notin l => (s = "failed" <=> FatalAfter(r.fatal) # {})
           /\ l \ {"status"} = ghost.lost \ {"status"}
<1> DEFINE F == Outcomes("fatal")
           K == Outcomes("ok")
           W == StatusWrites(r.fatal)
           left == FatalAfter(r.fatal)
           new == Latches(r.fatal)
           clear == Recovers(r.fatal)
<1>1. db.status \in {"running", "failed", "finished"}
      /\ ("status" \notin ghost.lost => (db.status = "failed" <=> r.fatal # {}))
    BY DEF TypeOK, Rows, FatalKept
<1>2. left = (r.fatal \cup F) \ K /\ (new <=> ~(F \subseteq r.fatal))
      /\ (clear <=> (r.fatal \cup F) \cap K # {} /\ left = {})
    BY DEF FatalAfter, Latches, Recovers
<1>3. ("failed" \in W <=> new) /\ ("running" \in W <=> clear)
    BY DEF StatusWrites
<1>4. s = IF "running" \in W \ lost THEN "running"
          ELSE IF "failed" \in W \ lost THEN "failed" ELSE db.status
    BY DEF StatusAfter
<1>5. "status" \in l <=> (IF clear THEN "running" \in lost
                         ELSE IF new THEN "failed" \in lost ELSE "status" \in ghost.lost)
    BY DEF LostAfter, StatusLost
<1>6. l \ {"status"} = ghost.lost \ {"status"}
    BY DEF LostAfter
<1> HIDE DEF F, K, W, left, new, clear
<1>7. CASE clear
    <2>1. left = {}
        BY <1>2, <1>7
    <2>2. "status" \notin l => s = "running"
        BY <1>3, <1>4, <1>5, <1>7
    <2> QED
        BY <1>1, <1>4, <1>6, <2>1, <2>2 DEF left
<1>8. CASE ~clear /\ new
    <2>1. left # {}
        BY <1>2, <1>8
    <2>2. "status" \notin l => s = "failed"
        BY <1>3, <1>4, <1>5, <1>8
    <2> QED
        BY <1>1, <1>4, <1>6, <2>1, <2>2 DEF left
<1>9. CASE ~clear /\ ~new
    <2>1. left # {} <=> r.fatal # {}
        BY <1>2, <1>9
    <2>2. s = db.status
        BY <1>3, <1>4, <1>9
    <2>3. "status" \notin l => "status" \notin ghost.lost
        BY <1>5, <1>9
    <2> QED
        BY <1>1, <1>6, <2>1, <2>2, <2>3 DEF left
<1> QED
    BY <1>7, <1>8, <1>9

LEMMA EndTurnFields ==
    ASSUME TypeOK, NEW lost, EndTurn(lost)
    PROVE  \E x \in AgentRunner :
              /\ TurnOver(x) /\ x.batch = {} /\ x.later = {} /\ x.outs = r.outs
              /\ x.known = r.known /\ x.fetched = r.fetched /\ x.gen = r.gen
              /\ x.reduced = r.reduced /\ x.failures = r.failures /\ x.step = r.step
              /\ x.fatal = FatalAfter(r.fatal) /\ x.outcome = r.outcome
<1> DEFINE f == FatalAfter(r.fatal)
           x == [r EXCEPT !.fatal = f]
<1>1. f \in SUBSET Target
    BY OutcomeTypes DEF TypeOK, AgentRunner, FatalAfter
<1>2. r' = NextStep(x) /\ r \in AgentRunner /\ r.batch = {} /\ r.later = {}
    BY DEF EndTurn, TypeOK
<1>3. f = FatalAfter(r.fatal)
    OBVIOUS
<1> HIDE DEF f
<1>4. /\ x \in AgentRunner /\ x.batch = r.batch /\ x.later = r.later /\ x.outs = r.outs
      /\ x.known = r.known /\ x.fetched = r.fetched /\ x.gen = r.gen
      /\ x.reduced = r.reduced /\ x.failures = r.failures /\ x.step = r.step
      /\ x.fatal = f /\ x.outcome = r.outcome
    BY <1>1, <1>2 DEF AgentRunner
<1> HIDE DEF x
<1>5. TurnOver(x)
    BY <1>2, <1>4, NextStepFields
<1> QED
    BY <1>2, <1>3, <1>4, <1>5

\* A turn ends: its fatal failures are judged, its failed Maps are in doubt.
LEMMA EndTurnKeeps ==
    ASSUME IInv, NEW lost, EndTurn(lost)
    PROVE  IInv'
<1> DEFINE failed == Maps("soft") \cup Maps("fatal")
           owed == (ghost.owed \cup Outcomes("fatal")) \ Outcomes("ok")
           doubtful == ((ghost.doubtful \cup failed) \ (Maps("ok") \ failed)) \ {{}}
           status == StatusAfter(db.status, r.fatal, lost)
           l == LostAfter(ghost.lost, r.fatal, lost)
           g == IF lost = {} THEN ghost ELSE Faulted
<1>0. Like(g) /\ (g.obeys => g = ghost)
    BY FaultedFields DEF IInv, TypeOK, Like
<1>1. /\ r.phase = "tools" /\ live' = live /\ gate' = [gate EXCEPT !.decided = FALSE]
      /\ db' = [db EXCEPT !.status = status] /\ lost \subseteq StatusWrites(r.fatal)
    BY DEF EndTurn
<1>a. ghost' = [g EXCEPT !.owed = owed, !.doubtful = doubtful, !.lost = l]
    <2>1. /\ g.owed = ghost.owed /\ g.doubtful = ghost.doubtful /\ g.lost = ghost.lost
        BY <1>0 DEF Like
    <2>2. ghost' = [g EXCEPT !.owed = (g.owed \cup Outcomes("fatal")) \ Outcomes("ok"),
                             !.doubtful = ((g.doubtful \cup failed) \ (Maps("ok") \ failed)) \ {{}},
                             !.lost = LostAfter(g.lost, r.fatal, lost)]
        BY DEF EndTurn
    <2> HIDE DEF g, failed
    <2> QED
        BY <2>1, <2>2
<1>2. PICK x \in AgentRunner :
              /\ TurnOver(x) /\ x.batch = {} /\ x.later = {} /\ x.outs = r.outs
              /\ x.known = r.known /\ x.fetched = r.fetched /\ x.gen = r.gen
              /\ x.reduced = r.reduced /\ x.failures = r.failures /\ x.step = r.step
              /\ x.fatal = FatalAfter(r.fatal) /\ x.outcome = r.outcome
    BY EndTurnFields DEF IInv
<1>3. r.outcome = "none" /\ db.verdict = "none"
    BY <1>1 DEF IInv, Phases, TypeOK, AgentRunner
<1>4. owed \in SUBSET Target /\ doubtful \in SUBSET Handle
    BY OutcomeTypes DEF IInv, TypeOK, History
<1>5. /\ status \in {"running", "failed", "finished"}
      /\ "status" \notin l => (status = "failed" <=> FatalAfter(r.fatal) # {})
      /\ l \ {"status"} = ghost.lost \ {"status"}
    BY <1>1, StatusSays DEF IInv
<1>6. owed = FatalAfter(r.fatal)
    BY DEF IInv, FatalKept, FatalAfter
<1>7. \A h \in doubtful : /\ h # {}
                          /\ (h \in ghost.doubtful /\ h \notin Maps("ok")) \/ h \in failed \ {{}}
    OBVIOUS
<1>8. l \in SUBSET {"status", "fetch", "dropped", "spec"}
    BY <1>5 DEF IInv, TypeOK, History
<1> HIDE DEF owed, doubtful, status, l, g
<1>9. /\ ghost' \in History /\ ghost'.owed = owed /\ ghost'.doubtful = doubtful
      /\ ghost'.lost = l /\ ghost'.broken = ghost.broken /\ ghost'.dropped = ghost.dropped
      /\ ghost'.gated = ghost.gated /\ ghost'.merged = ghost.merged
      /\ ghost'.obeys => ghost.obeys /\ ghost'.mapped = ghost.mapped
    BY <1>0, <1>a, <1>4, <1>8 DEF Like, History
<1>10. /\ db' \in Rows /\ db'.status = status /\ db'.cov = db.cov /\ db'.evidence = db.evidence
       /\ db'.verdict = db.verdict /\ db'.dropped = db.dropped
    BY <1>1, <1>5 DEF IInv, TypeOK, Rows
<1>11. gate' \in GateRun /\ ~gate'.decided
    BY <1>1 DEF IInv, TypeOK, GateRun
<1>12. Calls' = {} /\ r'.phase # "tools"
    BY <1>2 DEF TurnOver, Calls
<1>13. TypeOK'
    BY <1>1, <1>2, <1>9, <1>10, <1>11 DEF IInv, TypeOK, TurnOver
<1>14. Phases'
    BY <1>2, <1>3, <1>10, <1>11, <1>12 DEF Phases, TurnOver, Calls
<1>15. FatalKept'
    BY <1>2, <1>3, <1>5, <1>6, <1>9, <1>10 DEF FatalKept, TurnOver
<1>16. EvidenceKept'
    <2>1. /\ ("fetch" \in l) = ("fetch" \in ghost.lost)
          /\ ("dropped" \in l) = ("dropped" \in ghost.lost)
        BY <1>5
    <2> QED
        BY <1>3, <1>9, <1>10, <2>1
        DEF IInv, EvidenceKept, Disclosed, CompleteHasEvidence, Succeeded, Failed
<1>17. MergesAgree'
    BY <1>2, <1>9, <1>12 DEF IInv, MergesAgree, TurnOver
<1>18. GateKept'
    BY <1>12 DEF GateKept
<1>19. DoubtsKept'
    <2>1. \A h \in doubtful : \E f \in r.failures : f.on = h
        <3> SUFFICES ASSUME NEW h \in doubtful PROVE \E f \in r.failures : f.on = h
            OBVIOUS
        <3>1. CASE h \in failed \ {{}}
            <4>1. [on |-> h, call |-> 0, now |-> TRUE] \in r.failures
                BY <3>1 DEF IInv, DoubtsKept
            <4> QED
                BY <4>1
        <3>2. CASE h \in ghost.doubtful /\ h \notin Maps("ok")
            BY <3>2 DEF IInv, DoubtsKept
        <3> QED
            BY <1>7, <3>1, <3>2
    <2>2. /\ \A h \in doubtful : h # {} /\ \E f \in r'.failures : f.on = h
          /\ \A f \in r'.failures : f.on # {} => f.call = 0
        <3>1. /\ \A f \in r.failures : \E v \in r'.failures : v.on = f.on
              /\ \A v \in r'.failures : \E f \in r.failures : v.on = f.on /\ v.call = f.call
            BY <1>2, FailuresSurvive
        <3>2. \A f \in r.failures : f.on # {} => f.call = 0
            BY DEF IInv, DoubtsKept
        <3> QED
            BY <1>7, <2>1, <3>1, <3>2
    <2>3. /\ r'.phase = "plan" => \A k : Maps(k)' = {}
          /\ r'.phase = "ended" => (\A k : Maps(k)' = Maps(k)) /\ r'.failures = r.failures
        BY <1>2, MapsSame, NoMaps DEF TurnOver
    <2>4. r'.phase \in {"plan", "ended"} /\ r'.outcome # "answered"
        BY <1>2, <1>3 DEF TurnOver
    <2>5. \A h \in (Maps("soft")' \cup Maps("fatal")') \ {{}} :
            [on |-> h, call |-> 0, now |-> TRUE] \in r'.failures
        BY <2>3, <2>4 DEF IInv, DoubtsKept
    <2> QED
        BY <1>9, <2>2, <2>4, <2>5 DEF DoubtsKept
<1>20. Obedience'
    <2>1. MayBlock'
        BY <1>12 DEF MayBlock
    <2>2. ghost'.obeys => Todo' = Todo /\ NeedsReduce' = NeedsReduce
        BY <1>1, <1>2, <1>9 DEF Todo, Latest, NeedsReduce, TurnOver
    <2> SUFFICES ASSUME ghost.obeys
                 PROVE  /\ r'.failures = {} /\ r'.phase = "plan" /\ r'.outcome = "none"
                        /\ r'.step <= MaxSteps
                        /\ ghost.gated => r'.step + 3 <= MaxSteps
                        /\ Todo # {} => r'.step + 2 <= MaxSteps
                        /\ NeedsReduce => r'.step + 1 <= MaxSteps
        BY <1>9, <2>1, <2>2 DEF Obedience
    <2>3. /\ r.failures = {} /\ r.step \in Nat /\ MaxSteps \in Nat
          /\ IF ghost.gated THEN r.step + 4 <= MaxSteps ELSE Fetching \/ Mapping \/ Merging
        BY <1>1 DEF IInv, Obedience, TypeOK, AgentRunner
    <2>4. Calls = {}
        BY DEF EndTurn, Calls
    <2>5. Mapping => r.step + 2 <= MaxSteps /\ Todo = {}
        BY <2>4 DEF Mapping
    <2>6. Merging => r.step + 1 <= MaxSteps /\ Todo = {} /\ ~NeedsReduce
        BY <2>4 DEF Merging
    <2>7. r.step # MaxSteps
        BY <2>3, <2>5, <2>6 DEF Fetching
    <2>8. r'.phase = "plan" /\ r'.outcome = "none" /\ r'.step = r.step + 1
        BY <1>2, <1>3, <2>7 DEF TurnOver
    <2>9. r'.failures = {}
        BY <1>2, <2>3, FailuresSurvive
    <2> QED
        BY <2>3, <2>5, <2>6, <2>8, <2>9 DEF Fetching
<1> QED
    BY <1>13, <1>14, <1>15, <1>16, <1>17, <1>18, <1>19, <1>20 DEF IInv

-----------------------------------------------------------------------------
(* The invariant and what it says *)

LEMMA InitHolds ==
    ASSUME Init
    PROVE  IInv
<1>1. r \in AgentRunner /\ r.phase = "plan" /\ r.outcome = "none" /\ r.batch = {}
      /\ r.later = {} /\ r.outs = {} /\ r.failures = {} /\ r.fatal = {} /\ r.gen = 0
      /\ r.reduced = 0
    BY DEF Init, Fresh, AgentRunner, Handle
<1>2. /\ ghost \in History /\ ghost.owed = {} /\ ghost.doubtful = {} /\ ~ghost.obeys
      /\ ghost.merged = 0 /\ ghost.broken = {} /\ ~ghost.dropped /\ ghost.lost = {}
    BY DEF Init, FreshGhost, History, Handle
<1>3. /\ db \in Rows /\ db.status = "running" /\ db.verdict = "none" /\ ~db.dropped
      /\ \A c \in Channels : db.cov[c] = "none"
    <2> DEFINE cov == [c \in Channels |-> "none"]
    <2>1. cov \in [Channels -> {"none", "ok", "failed"}] /\ \A c \in Channels : cov[c] = "none"
        OBVIOUS
    <2>2. PICK fetch \in BOOLEAN :
            db = [status |-> "running", cov |-> cov, evidence |-> {}, manifest |-> {},
                  dropped |-> FALSE, fetchExpected |-> fetch, verdict |-> "none"]
        BY DEF Init, NewRun
    <2> HIDE DEF cov
    <2>3. {} \in Handle /\ {} \in SUBSET Handle
        BY DEF Handle
    <2>4. db \in Rows
        BY <2>1, <2>2, <2>3 DEF Rows
    <2> QED
        BY <2>1, <2>2, <2>4
<1>4. gate \in GateRun /\ ~gate.decided
    BY DEF Init, GateRun
<1>5. Succeeded = {}
    BY <1>3 DEF Succeeded
<1>6. TypeOK
    BY <1>1, <1>2, <1>3, <1>4 DEF Init, TypeOK
<1>7. Phases /\ FatalKept /\ EvidenceKept /\ MergesAgree
    BY <1>1, <1>2, <1>3, <1>4, <1>5
    DEF Phases, FatalKept, EvidenceKept, Disclosed, CompleteHasEvidence, MergesAgree, Calls
<1>8. GateKept /\ DoubtsKept /\ Obedience
    BY <1>1, <1>2, NoMaps DEF GateKept, DoubtsKept, Obedience, MayBlock
<1> QED
    BY <1>6, <1>7, <1>8 DEF IInv

LEMMA NextHolds ==
    ASSUME IInv, [Next]_vars
    PROVE  IInv'
<1>1. CASE Next
    <2>1. ASSUME NEW c \in r.batch, RunsCall(c) PROVE IInv'
        BY <2>1, RunsCallKeeps
    <2>2. ASSUME NEW B \in Turns, Plan(B) PROVE IInv'
        BY <2>2, PlanKeeps
    <2>3. ASSUME NEW valid \in BOOLEAN, NEW readable \in BOOLEAN, Save(valid, readable)
          PROVE  IInv'
        BY <2>3, SaveKeeps
    <2>4. ASSUME NEW closed \in BOOLEAN, Answer(closed) PROVE IInv'
        BY <2>4, AnswerKeeps
    <2>5. ASSUME NEW lost, EndTurn(lost) PROVE IInv'
        BY <2>5, EndTurnKeeps
    <2> QED
        BY <1>1, <2>1, <2>2, <2>3, <2>4, <2>5, IdleKeeps, BreakKeeps, NextPhaseKeeps, DraftKeeps
        DEF Next, Runner
<1>2. CASE UNCHANGED vars
    <2>1. TypeOK' /\ Phases' /\ FatalKept' /\ EvidenceKept' /\ MergesAgree'
        BY <1>2 DEF IInv, vars, TypeOK, Phases, Calls, FatalKept, EvidenceKept,
                    CompleteHasEvidence, Disclosed, Succeeded, Failed, MergesAgree
    <2>2. GateKept' /\ DoubtsKept'
        BY <1>2, MapsSame DEF IInv, vars, GateKept, DoubtsKept
    <2>3. Obedience'
        BY <1>2 DEF IInv, vars, Obedience, MayBlock, Fetching, Mapping, Merging, Todo, Latest,
                    NeedsReduce, Calls
    <2> QED
        BY <2>1, <2>2, <2>3 DEF IInv
<1> QED
    BY <1>1, <1>2

LEMMA Invariant == Spec => []IInv
<1>1. Init => IInv
    BY InitHolds
<1>2. IInv /\ [Next]_vars => IInv'
    BY NextHolds
<1> QED
    BY <1>1, <1>2, PTL DEF Spec

\* The run row, the evidence, the gate's memory and the runner keep their types, for any
\* channels and any policy.
THEOREM TypeCorrect == Spec => []TypeOK
<1>1. IInv => TypeOK
    BY DEF IInv
<1> QED
    BY <1>1, Invariant, PTL

\* An answer rests on one Reduce over every Map of the request and leaves no Map in doubt,
\* however the calls of the turns interleaved (runner.go:264-318).
THEOREM AnswersAreReduced == Spec => []AnswerIsReduced
<1>1. IInv => AnswerIsReduced
    <2> SUFFICES ASSUME IInv, r.outcome = "answered"
                 PROVE  ghost.merged = r.gen /\ ghost.doubtful = {}
        BY DEF AnswerIsReduced
    <2>1. r.failures = {} /\ r.outs = {} /\ r.reduced = r.gen
        BY DEF IInv, DoubtsKept
    <2>2. Maps("ok") = {}
        BY <2>1, NoMaps
    <2> QED
        BY <2>1, <2>2 DEF IInv, DoubtsKept, MergesAgree
<1> QED
    BY <1>1, Invariant, PTL

\* A fatal failure that nothing made good makes the verdict "failed", and one that was made
\* good does not, in whatever order the calls ended, for any channels, budgets and number of
\* failed writes, as long as the row was given the last status it was owed
\* (agent_chat.go:448-502).
THEOREM FatalsAreJudged == Spec => []FatalIsJudged
<1>1. IInv => FatalIsJudged
    BY DEF IInv, FatalKept, FatalIsJudged
<1> QED
    BY <1>1, Invariant, PTL

\* COMPLETE is only said of a run whose selected channels are all stored as evidence, if it was
\* expected to fetch and its spec was read; and of no run with a channel whose last fetch failed
\* or with messages left out, unless writing that down had failed (gate.go:140-262).
THEOREM CompletesHaveEvidence == Spec => []CompleteHasEvidence
<1>1. IInv => CompleteHasEvidence
    BY DEF IInv, EvidenceKept
<1> QED
    BY <1>1, Invariant, PTL

\* Whatever the step budget and the block budget, the gate sends a planner back only with the
\* steps left to obey it (coverage_gate.go:84-94, 166-212).
THEOREM ObedientAreDelivered == Spec => []ObedientIsDelivered
<1>1. IInv => ObedientIsDelivered
    BY DEF IInv, Obedience, ObedientIsDelivered
<1> QED
    BY <1>1, Invariant, PTL
=============================================================================
