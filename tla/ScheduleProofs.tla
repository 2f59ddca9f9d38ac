---------------------------- MODULE ScheduleProofs ----------------------------
(***************************************************************************)
(* Proofs about Schedule, for any team, any number of schedules, tasks,    *)
(* overlapping scans and requests in flight; and then about Recurrence,    *)
(* for any calendar, cadences, updates and clock.                          *)
(***************************************************************************)
EXTENDS Schedule, Recurrence, FiniteSetTheorems, WellFoundedInduction, TLAPS

USE ConstantsAssumption DEF ConstantsAssumption

\* A scan's clock is not ahead of the schedules', and no schedule's next run is beyond
\* the first instant after now.
Clocks == /\ \A w \in Scanner : scan[w].now <= now
          /\ \A s \in Sched : sched[s].next <= now + 1

\* What has started a round lies behind the schedule's next run.
FiredBehind == \A s \in Sched, n \in Instant : fired[s][n] # 0 => n < sched[s].next

\* Under either policy, the confirmations on a live schedule are those that should count.
Confirmations ==
  \A s \in Sched : sched[s].st = "live" =>
    {u \in User : sched[s].cfg[u] = "yes"} = said[s]

IInv == TypeOK /\ Clocks /\ FiredBehind /\ OncePerInstant /\ NoOrphanSchedule /\ Confirmations

-----------------------------------------------------------------------------
(* Configurations                                                          *)

LEMMA NotASchedule == None \notin Sched
OBVIOUS

LEMMA AskType == ASSUME NEW us PROVE /\ Ask(us) \in [User -> Consent]
                                     /\ AskAgain(us) \in [User -> Consent]
                                     /\ \A u \in User : Ask(us)[u] # "yes" /\ AskAgain(us)[u] # "yes"
BY DEF Ask, AskAgain, Consent

LEMMA NoConfigType == NoConfig \in [User -> Consent]
BY DEF NoConfig, Consent

\* Merging a roster neither makes a confirmation nor keeps one of somebody it drops.
LEMMA MergeType ==
  ASSUME NEW cfg \in [User -> Consent], NEW us
  PROVE  /\ MergeRoster(cfg, us) \in [User -> Consent]
         /\ \A u \in User : /\ MergeRoster(cfg, us)[u] = "yes" => cfg[u] = "yes"
                            /\ cfg[u] = "yes" => MergeRoster(cfg, us)[u] \in {"no", "yes"}
BY DEF MergeRoster, Consent

\* What an update makes of the configuration: under automatic consent nobody is asked to
\* have confirmed, or nothing changes; otherwise confirmations only go away, and all of
\* them when the policy changes.
LEMMA UpdatedConfigType ==
  ASSUME NEW c \in Client, NEW row \in SchedRow, NEW auto \in BOOLEAN, NEW sent,
         NEW scoped \in BOOLEAN
  PROVE  LET cfg == UpdatedConfig(c, row, auto, sent, scoped)
         IN  /\ cfg \in [User -> Consent]
             /\ \A u \in User : cfg[u] = "yes" => row.cfg[u] = "yes"
             /\ ~auto /\ ~row.auto =>
                  \A u \in User : row.cfg[u] = "yes" => cfg[u] \in {"no", "yes"}
<1> DEFINE parts  == IF scoped THEN Roster(req[c].part) ELSE {}
           roster == IF sent # None THEN sent \cup parts ELSE parts
           known  == sent # None \/ parts # {}
           kept   == IF known THEN MergeLocked(c, row, roster)
                     ELSE MergeRoster(row.cfg, Effective(row.cfg))
           cfg    == IF auto THEN IF known THEN Ask(roster) ELSE row.cfg
                     ELSE IF row.auto THEN AskAgain(kept) ELSE kept
<1>1. row.cfg \in [User -> Consent]
  BY DEF SchedRow
<1>2. /\ kept \in [User -> Consent]
      /\ \A u \in User : /\ kept[u] = "yes" => row.cfg[u] = "yes"
                         /\ row.cfg[u] = "yes" => kept[u] \in {"no", "yes"}
  BY <1>1, MergeType, Zenon DEF MergeLocked
<1>3. UpdatedConfig(c, row, auto, sent, scoped) = cfg
  BY Zenon DEF UpdatedConfig
<1> HIDE DEF kept, roster, known
<1>4. CASE auto
  BY <1>1, <1>3, <1>4, AskType, Zenon
<1>5. CASE ~auto /\ row.auto
  BY <1>3, <1>5, AskType, Zenon
<1>6. CASE ~auto /\ ~row.auto
  BY <1>2, <1>3, <1>6, Zenon
<1> QED
  BY <1>4, <1>5, <1>6

-----------------------------------------------------------------------------
(* What a step may leave alone                                             *)

\* Nothing is created, deleted or bound anew.
SameBinding == /\ \A s \in Sched : sched'[s].st = sched[s].st
               /\ \A t \in Task : task'[t].st = task[t].st /\ task'[t].sch = task[t].sch

\* No round starts; a schedule's next run stays, or becomes the next instant.
SameRounds == /\ fired' = fired /\ now' = now
              /\ \A w \in Scanner : scan'[w].now = scan[w].now
              /\ \A s \in Sched : sched'[s].next \in {sched[s].next, now + 1}

\* No schedule becomes live, and who has confirmed stays.
SameConfirmations ==
  \A s \in Sched : sched'[s].st = "live" =>
    sched[s].st = "live" /\ sched'[s].cfg = sched[s].cfg /\ said'[s] = said[s]

LEMMA BindingKept ==
  ASSUME NoOrphanSchedule, SameBinding PROVE NoOrphanSchedule'
<1> SUFFICES ASSUME NEW s \in Sched, sched'[s].st = "live"
             PROVE  \E t \in Task : task'[t].st = "live" /\ task'[t].sch = s
  BY DEF NoOrphanSchedule, Live, Bound
<1>1. PICK t \in Task : task[t].st = "live" /\ task[t].sch = s
  BY NotASchedule DEF SameBinding, NoOrphanSchedule, Live, Bound
<1> QED
  BY <1>1 DEF SameBinding

LEMMA RoundsKept ==
  ASSUME TypeOK, Clocks, FiredBehind, OncePerInstant, SameRounds
  PROVE  Clocks' /\ FiredBehind' /\ OncePerInstant'
<1>1. \A s \in Sched : sched[s].next \in Nat
  BY DEF TypeOK, SchedRow, Instant
<1>2. Clocks'
  BY <1>1 DEF Clocks, SameRounds, TypeOK
<1>3. FiredBehind'
  <2> SUFFICES ASSUME NEW s \in Sched, NEW n \in Instant, fired[s][n] # 0
               PROVE  n < sched'[s].next
    BY DEF FiredBehind, SameRounds
  <2>1. n < sched[s].next /\ sched[s].next <= now + 1 /\ now \in Nat /\ n \in Nat
    BY DEF FiredBehind, Clocks, TypeOK, Instant
  <2>2. sched'[s].next = sched[s].next \/ sched'[s].next = now + 1
    BY DEF SameRounds
  <2> QED
    BY <1>1, <2>1, <2>2
<1>4. OncePerInstant'
  BY DEF OncePerInstant, SameRounds
<1> QED
  BY <1>2, <1>3, <1>4

LEMMA ConfirmationsKept ==
  ASSUME Confirmations, SameConfirmations PROVE Confirmations'
BY DEF Confirmations, SameConfirmations

\* A request in flight that does something is a whole request.
LEMMA InFlight ==
  ASSUME TypeOK, NEW c \in Client, req[c].op # "free"
  PROVE  req[c] \in Request
BY DEF TypeOK, NoRequest

LEMMA DoneType ==
  ASSUME TypeOK, NEW c \in Client, Done(c)
  PROVE  req' \in [Client -> {NoRequest} \cup Request]
BY DEF TypeOK, Done

-----------------------------------------------------------------------------
(* The initial states, and one lemma per action                            *)

LEMMA InitInv == Init => IInv
<1> SUFFICES ASSUME Init PROVE IInv
  OBVIOUS
<1>1. PICK live \in {{u \in Task : u <= t} : t \in Task}, member \in [Task -> SUBSET Member],
           sch \in [Task -> Sched \cup {None}], auto \in BOOLEAN :
        /\ \A t \in Task : IF t \in live THEN live = Task => sch[t] # None
                          ELSE sch[t] = None /\ member[t] = {}
        /\ \A t, v \in Task : t # v /\ sch[t] # None => sch[t] # sch[v]
        /\ task = [t \in Task |->
             IF t \notin live THEN NoTask
             ELSE [st |-> "live", sch |-> sch[t], status |-> "Completed",
                   part |-> [u \in User |-> IF u \in member[t] \cup {Creator}
                                            THEN "Accepted" ELSE "no"]]]
        /\ sched = [s \in Sched |->
             IF \A t \in live : sch[t] # s THEN NoSched
             ELSE [st |-> "live", active |-> TRUE, auto |-> auto, next |-> 1,
                   cfg |-> Ask({Creator} \cup UNION {member[t] : t \in {t \in live : sch[t] = s}})]]
        /\ requests = Cardinality({t \in live : sch[t] # None}) /\ requests <= MaxRequests
  BY Zenon DEF Init
<1>2. live \subseteq Task
  BY DEF Init
<1>3. NoSched \in SchedRow /\ NoSched.next = 0 /\ NoSched.st = "none"
  BY NoConfigType DEF NoSched, SchedRow, Instant
<1>4. \A s \in Sched :
        \/ sched[s] = NoSched
        \/ \E t \in live, us \in SUBSET User :
             /\ sch[t] = s
             /\ sched[s] = [st |-> "live", active |-> TRUE, auto |-> auto, next |-> 1,
                            cfg |-> Ask(us)]
  <2> SUFFICES ASSUME NEW s \in Sched, sched[s] # NoSched
               PROVE  \E t \in live, us \in SUBSET User :
                        /\ sch[t] = s
                        /\ sched[s] = [st |-> "live", active |-> TRUE, auto |-> auto,
                                       next |-> 1, cfg |-> Ask(us)]
    OBVIOUS
  <2> DEFINE us == {Creator} \cup UNION {member[t] : t \in {t \in live : sch[t] = s}}
  <2>1. PICK t \in live : sch[t] = s
    BY <1>1, Zenon
  <2>2. sched[s] = [st |-> "live", active |-> TRUE, auto |-> auto, next |-> 1, cfg |-> Ask(us)]
    BY <1>1, <2>1, Zenon
  <2>3. us \in SUBSET User
    BY <1>1, <1>2 DEF User
  <2> QED
    BY <2>1, <2>2, <2>3, Zenon
<1>5. TypeOK
  <2>1. sched \in [Sched -> SchedRow]
    <3>1. DOMAIN sched = Sched /\ sched = [s \in Sched |-> sched[s]]
      BY <1>1, Zenon
    <3>2. ASSUME NEW s \in Sched PROVE sched[s] \in SchedRow
      <4>1. CASE sched[s] = NoSched
        BY <1>3, <4>1
      <4>2. CASE sched[s] # NoSched
        <5>1. PICK us \in SUBSET User :
                sched[s] = [st |-> "live", active |-> TRUE, auto |-> auto, next |-> 1,
                            cfg |-> Ask(us)]
          BY <1>4, <4>2, Zenon
        <5>2. Ask(us) \in [User -> Consent] /\ 1 \in Instant
          BY AskType DEF Instant
        <5> QED
          BY <5>1, <5>2 DEF SchedRow
      <4> QED
        BY <4>1, <4>2
    <3> QED
      BY <3>1, <3>2, Zenon
  <2>2. task \in [Task -> TaskRow]
    BY <1>1 DEF NoTask, TaskRow, Answer
  <2>3. requests \in 0 .. MaxRequests
    BY <1>1, <1>2, FS_Subset, FS_CardinalityType DEF Init
  <2>4. /\ scan \in [Scanner -> [now : 0 .. MaxNow, todo : SUBSET (Sched \X Instant)]]
        /\ req \in [Client -> {NoRequest} \cup Request]
        /\ fired \in [Sched -> [Instant -> Nat]]
        /\ now \in 0 .. MaxNow
    BY DEF Init
  <2>5. /\ said \in [Sched -> SUBSET User]
        /\ left \in [Task -> SUBSET User]
        /\ overtaken \in [Task -> BOOLEAN]
    BY Zenon DEF Init
  <2> QED
    BY <2>1, <2>2, <2>3, <2>4, <2>5 DEF TypeOK
<1>6. Clocks
  BY <1>3, <1>4 DEF Clocks, Init
<1>7. FiredBehind /\ OncePerInstant
  BY DEF FiredBehind, OncePerInstant, Init
<1>8. NoOrphanSchedule
  <2> SUFFICES ASSUME NEW s \in Sched, sched[s].st = "live"
               PROVE  \E t \in Task : task[t].st = "live" /\ task[t].sch = s
    BY DEF NoOrphanSchedule, Live, Bound
  <2>1. PICK t \in live : sch[t] = s
    BY <1>3, <1>4
  <2> QED
    BY <1>1, <1>2, <2>1
<1>9. Confirmations
  <2> SUFFICES ASSUME NEW s \in Sched, sched[s].st = "live"
               PROVE  {u \in User : sched[s].cfg[u] = "yes"} = {}
    BY DEF Confirmations, Init
  <2>1. PICK us \in SUBSET User :
          sched[s] = [st |-> "live", active |-> TRUE, auto |-> auto, next |-> 1, cfg |-> Ask(us)]
    BY <1>3, <1>4
  <2>2. sched[s].cfg = Ask(us)
    BY <2>1
  <2>3. \A u \in User : sched[s].cfg[u] # "yes"
    BY <2>2, AskType
  <2> QED
    BY <2>3
<1> QED
  BY <1>5, <1>6, <1>7, <1>8, <1>9 DEF IInv

\* A step that leaves the rows alone, time and lists aside.
LEMMA RowsKept ==
  ASSUME IInv, UNCHANGED <<tableVars, history>>,
         now' \in Nat /\ now <= now', \A w \in Scanner : scan'[w].now <= now', TypeOK'
  PROVE  IInv'
<1> USE DEF tableVars, history
<1>1. Clocks'
  BY DEF IInv, TypeOK, SchedRow, Instant, Clocks
<1>2. FiredBehind' /\ OncePerInstant'
  BY DEF IInv, FiredBehind, OncePerInstant
<1>3. NoOrphanSchedule'
  BY BindingKept DEF IInv, SameBinding
<1>4. Confirmations'
  BY DEF IInv, Confirmations
<1> QED
  BY <1>1, <1>2, <1>3, <1>4 DEF IInv

\* Time, the scans' lists, a claim that fails, a request that begins or is refused.
LEMMA ListsInv ==
  ASSUME IInv,
         \/ Tick
         \/ \E w \in Scanner : ScanLists(w)
         \/ \E w \in Scanner, s \in Sched, n \in Instant : ClaimFails(w, s, n)
         \/ \E c \in Client : Refuse(c)
  PROVE  IInv'
<1> USE DEF IInv
<1>1. CASE Tick
  <2>1. TypeOK'
    BY <1>1 DEF Tick, TypeOK, tableVars, history
  <2> QED
    BY <1>1, <2>1, RowsKept DEF Tick, Clocks, TypeOK
<1>2. ASSUME NEW w \in Scanner, ScanLists(w) PROVE IInv'
  <2>1. TypeOK'
    BY <1>2 DEF ScanLists, TypeOK, tableVars, history, SchedRow
  <2> QED
    BY <1>2, <2>1, RowsKept DEF ScanLists, Clocks, TypeOK
<1>3. ASSUME NEW w \in Scanner, NEW s \in Sched, NEW n \in Instant, ClaimFails(w, s, n) PROVE IInv'
  <2>1. TypeOK'
    BY <1>3 DEF ClaimFails, TypeOK, tableVars, history
  <2> QED
    BY <1>3, <2>1, RowsKept DEF ClaimFails, Clocks, TypeOK
<1>4. ASSUME NEW c \in Client, Refuse(c) PROVE IInv'
  <2>1. TypeOK'
    BY <1>4, DoneType DEF Refuse, TypeOK, tableVars, history
  <2> QED
    BY <1>4, <2>1, RowsKept DEF Refuse, Clocks, TypeOK
<1> QED
  BY <1>1, <1>2, <1>3, <1>4

LEMMA BeginInv ==
  ASSUME IInv, NEW c \in Client, NEW op \in RequestKind, NEW t \in Task,
         NEW s \in Sched \cup {None}, NEW u \in User, Begin(c, op, t, s, u)
  PROVE  IInv'
<1> DEFINE new == [op |-> op, t |-> t, s |-> s, u |-> u,
                   peek |-> task[t].sch, part |-> task[t].part,
                   cfg |-> IF s = None THEN NoConfig ELSE sched[s].cfg]
<1>1. new \in Request
  BY NoConfigType DEF IInv, TypeOK, TaskRow, SchedRow, Request
<1>2. req' \in [Client -> {NoRequest} \cup Request]
  <2>1. req' = [req EXCEPT ![c] = new]
    BY Zenon DEF Begin
  <2> HIDE DEF new
  <2> QED
    BY <1>1, <2>1 DEF IInv, TypeOK
<1>3. requests' \in 0 .. MaxRequests
  BY DEF Begin, NewRequest, IInv, TypeOK
<1>4. TypeOK'
  BY <1>2, <1>3 DEF Begin, IInv, TypeOK, tableVars, history
<1> QED
  BY <1>4, RowsKept DEF Begin, IInv, TypeOK, Clocks

LEMMA AdvanceType ==
  ASSUME NEW row \in SchedRow, NEW t \in 0 .. MaxNow
  PROVE  /\ Advance(row, t) \in SchedRow
         /\ Advance(row, t).next = t + 1 /\ Advance(row, t).st = row.st
         /\ Advance(row, t).cfg = row.cfg
<1>1. t + 1 \in Instant
  BY DEF Instant
<1> QED
  BY <1>1 DEF Advance, SchedRow

\* A round that starts is counted once.
LEMMA FireType ==
  ASSUME NEW f \in [Sched -> [Instant -> Nat]], NEW s \in Sched, NEW n \in Instant, f[s][n] = 0
  PROVE  LET g == [f EXCEPT ![s][n] = IF @ = 2 THEN 2 ELSE @ + 1]
         IN  /\ g \in [Sched -> [Instant -> Nat]] /\ g[s][n] = 1
             /\ \A x \in Sched, i \in Instant : g[x][i] = f[x][i] \/ (x = s /\ i = n)
<1> DEFINE g == [f EXCEPT ![s][n] = IF @ = 2 THEN 2 ELSE @ + 1]
           h == [f[s] EXCEPT ![n] = 1]
<1>1. g = [f EXCEPT ![s] = [f[s] EXCEPT ![n] = IF f[s][n] = 2 THEN 2 ELSE f[s][n] + 1]]
  OBVIOUS
<1>2. (IF f[s][n] = 2 THEN 2 ELSE f[s][n] + 1) = 1
  OBVIOUS
<1>3. g = [f EXCEPT ![s] = h]
  BY <1>1, <1>2
<1>4. h \in [Instant -> Nat] /\ h[n] = 1 /\ \A i \in Instant : i # n => h[i] = f[s][i]
  OBVIOUS
<1> HIDE DEF g, h
<1>5. /\ g \in [Sched -> [Instant -> Nat]] /\ g[s] = h
      /\ \A x \in Sched : x # s => g[x] = f[x]
  BY <1>3, <1>4
<1>6. \A x \in Sched, i \in Instant : g[x][i] = f[x][i] \/ (x = s /\ i = n)
  BY <1>4, <1>5
<1>7. g[s][n] = 1
  BY <1>4, <1>5
<1> QED
  BY <1>5, <1>6, <1>7 DEF g

LEMMA PausedType ==
  ASSUME NEW row \in SchedRow
  PROVE  LET paused == [row EXCEPT !.active = FALSE]
         IN  /\ paused \in SchedRow /\ paused.next = row.next
             /\ paused.st = row.st /\ paused.cfg = row.cfg
BY DEF SchedRow

LEMMA RequeueType ==
  ASSUME task \in [Task -> TaskRow], NEW t, NEW row
  PROVE  /\ Requeue(t, row) \in [Task -> TaskRow]
         /\ \A x \in Task : Requeue(t, row)[x].st = task[x].st /\ Requeue(t, row)[x].sch = task[x].sch
BY DEF Requeue, TaskRow, Answer

\* The claim: a round starts only if the row still says what the list said, and the row
\* has moved on when it does.
LEMMA ClaimInv ==
  ASSUME IInv, NEW w \in Scanner, NEW s \in Sched, NEW n \in Instant, ClaimDue(w, s, n)
  PROVE  IInv'
<1> DEFINE row == sched[s]
           moved == Advance(row, scan[w].now)
           paused == [moved EXCEPT !.active = FALSE]
           off    == [row EXCEPT !.active = FALSE]
<1>1. /\ row \in SchedRow /\ scan[w].now \in 0 .. MaxNow /\ scan[w].now <= now /\ now \in 0 .. MaxNow
      /\ n \in Nat /\ task \in [Task -> TaskRow] /\ sched \in [Sched -> SchedRow]
  BY DEF IInv, TypeOK, Clocks, Instant
<1>2. /\ moved \in SchedRow /\ paused \in SchedRow
      /\ moved.next = scan[w].now + 1 /\ paused.next = scan[w].now + 1
      /\ moved.st = row.st /\ paused.st = row.st /\ moved.cfg = row.cfg /\ paused.cfg = row.cfg
  <2>1. /\ moved \in SchedRow /\ moved.next = scan[w].now + 1
        /\ moved.st = row.st /\ moved.cfg = row.cfg
    BY <1>1, AdvanceType, Zenon
  <2> HIDE DEF moved
  <2> QED
    BY <2>1, PausedType, Zenon
<1>0. off \in SchedRow /\ off.next = row.next /\ off.st = row.st /\ off.cfg = row.cfg
  BY <1>1, PausedType, Zenon
<1>3. /\ fired[s][n] \in {0, 1}
      /\ StillDue(s, n, scan[w].now) => fired[s][n] = 0 /\ n <= scan[w].now /\ row.next = n
  <2>1. fired[s][n] \in Nat /\ fired[s][n] <= 1
    BY DEF IInv, TypeOK, OncePerInstant
  <2>2. fired[s][n] # 0 => n < sched[s].next
    BY DEF IInv, FiredBehind
  <2>3. StillDue(s, n, scan[w].now) => sched[s].next = n /\ n <= scan[w].now
    BY DEF StillDue
  <2> QED
    BY <1>1, <2>1, <2>2, <2>3
<1>4. \/ sched' = sched /\ fired' = fired
      \/ /\ StillDue(s, n, scan[w].now)
         /\ sched' = [sched EXCEPT ![s] = moved] \/ sched' = [sched EXCEPT ![s] = paused]
         /\ \/ fired' = fired
            \/ fired' = [fired EXCEPT ![s][n] = IF @ = 2 THEN 2 ELSE @ + 1]
      \/ sched' = [sched EXCEPT ![s] = off] /\ fired' = fired
  BY Zenon DEF ClaimDue, tableVars
<1>5. task' = task \/ task' = Requeue(Latest(s), row)
  BY Zenon DEF ClaimDue, tableVars
<1>6. /\ scan' = [scan EXCEPT ![w].todo = @ \ {<<s, n>>}]
      /\ UNCHANGED <<now, req, requests, said, left, overtaken>>
  BY Zenon DEF ClaimDue
<1>7. /\ scan' \in [Scanner -> [now : 0 .. MaxNow, todo : SUBSET (Sched \X Instant)]]
      /\ \A v \in Scanner : scan'[v].now = scan[v].now
  BY <1>6 DEF IInv, TypeOK
<1>8. /\ task' \in [Task -> TaskRow]
      /\ \A t \in Task : task'[t].st = task[t].st /\ task'[t].sch = task[t].sch
  <2>1. /\ Requeue(Latest(s), row) \in [Task -> TaskRow]
        /\ \A t \in Task : /\ Requeue(Latest(s), row)[t].st = task[t].st
                           /\ Requeue(Latest(s), row)[t].sch = task[t].sch
    BY <1>1, RequeueType
  <2> QED
    BY <1>1, <1>5, <2>1
<1>9. /\ sched' \in [Sched -> SchedRow]
      /\ \A x \in Sched : sched'[x].st = sched[x].st /\ sched'[x].cfg = sched[x].cfg
      /\ \A x \in Sched : x # s => sched'[x] = sched[x]
  <2> HIDE DEF moved, paused, off
  <2> QED
    BY <1>0, <1>1, <1>2, <1>4
<1>10. /\ fired' \in [Sched -> [Instant -> Nat]] /\ OncePerInstant'
       /\ \A x \in Sched, i \in Instant : fired'[x][i] = fired[x][i] \/ (x = s /\ i = n)
       /\ fired' # fired => StillDue(s, n, scan[w].now)
  <2>1. CASE fired' = fired
    BY <2>1 DEF IInv, TypeOK, OncePerInstant
  <2>2. CASE fired' # fired
    <3>1. fired' = [fired EXCEPT ![s][n] = IF @ = 2 THEN 2 ELSE @ + 1]
          /\ StillDue(s, n, scan[w].now)
      BY <1>4, <2>2, Zenon
    <3>2. fired \in [Sched -> [Instant -> Nat]] /\ fired[s][n] = 0
      BY <1>3, <3>1 DEF IInv, TypeOK
    <3>3. /\ fired' \in [Sched -> [Instant -> Nat]] /\ fired'[s][n] = 1
          /\ \A x \in Sched, i \in Instant : fired'[x][i] = fired[x][i] \/ (x = s /\ i = n)
      BY <3>1, <3>2, FireType
    <3>4. \A x \in Sched, i \in Instant : fired[x][i] <= 1
      BY DEF IInv, OncePerInstant
    <3>5. \A x \in Sched, i \in Instant : fired'[x][i] <= 1
      BY <3>3, <3>4
    <3> QED
      BY <3>1, <3>3, <3>5 DEF OncePerInstant
  <2> QED
    BY <2>1, <2>2
<1>11. TypeOK'
  BY <1>6, <1>7, <1>8, <1>9, <1>10 DEF IInv, TypeOK
<1>12. sched'[s].next = sched[s].next \/ sched'[s].next = scan[w].now + 1
  <2> HIDE DEF moved, paused, off
  <2> QED
    BY <1>0, <1>1, <1>2, <1>4
<1>13. Clocks'
  <2>1. \A v \in Scanner : scan[v].now <= now
    BY DEF IInv, Clocks
  <2>2. \A x \in Sched : sched[x].next <= now + 1
    BY DEF IInv, Clocks
  <2>3. \A x \in Sched : sched'[x].next <= now + 1
    BY <1>1, <1>9, <1>12, <2>2
  <2> QED
    BY <1>6, <1>7, <2>1, <2>3 DEF Clocks
<1>14. FiredBehind'
  <2> SUFFICES ASSUME NEW x \in Sched, NEW i \in Instant, fired'[x][i] # 0
               PROVE  i < sched'[x].next
    BY DEF FiredBehind
  <2>1. CASE sched' = sched /\ fired' = fired
    BY <2>1 DEF IInv, FiredBehind
  <2>2. CASE x # s
    BY <2>2, <1>9, <1>10 DEF IInv, FiredBehind
  <2>3. CASE x = s /\ StillDue(s, n, scan[w].now) /\ sched'[s].next = scan[w].now + 1
    <3>1. i = n \/ (i < row.next /\ i \in Nat)
      <4>1. fired[x][i] # 0 => i < sched[x].next
        BY DEF IInv, FiredBehind
      <4> QED
        BY <1>10, <2>3, <4>1 DEF Instant
    <3> QED
      BY <1>1, <1>3, <2>3, <3>1
  <2>4. CASE x = s /\ fired' = fired /\ sched'[s].next = row.next
    BY <2>4 DEF IInv, FiredBehind
  <2> HIDE DEF moved, paused, off
  <2> QED
    BY <1>0, <1>1, <1>2, <1>4, <2>1, <2>2, <2>3, <2>4
<1>15. NoOrphanSchedule'
  BY <1>8, <1>9, BindingKept DEF IInv, SameBinding
<1>16. Confirmations'
  BY <1>6, <1>9 DEF IInv, Confirmations
<1> QED
  BY <1>10, <1>11, <1>13, <1>14, <1>15, <1>16 DEF IInv

LEMMA RunEndsInv ==
  ASSUME IInv, NEW t \in Task, RunEnds(t)
  PROVE  IInv'
<1>1. /\ task' \in [Task -> TaskRow]
      /\ \A x \in Task : task'[x].st = task[x].st /\ task'[x].sch = task[x].sch
  BY SMTT(30) DEF RunEnds, IInv, TypeOK, TaskRow
<1>2. UNCHANGED <<sched, now, scan, req, requests, history>>
  BY Zenon DEF RunEnds
<1>3. TypeOK'
  BY <1>1, <1>2 DEF IInv, TypeOK, history
<1>4. NoOrphanSchedule'
  BY <1>1, <1>2, BindingKept DEF IInv, SameBinding
<1>5. Clocks' /\ FiredBehind' /\ OncePerInstant' /\ Confirmations'
  BY <1>2 DEF IInv, Clocks, FiredBehind, OncePerInstant, Confirmations, history
<1> QED
  BY <1>3, <1>4, <1>5 DEF IInv

LEMMA BindType ==
  ASSUME task \in [Task -> TaskRow], NEW t \in Task, NEW s \in Sched, NEW new,
         new = [task EXCEPT ![t].sch = s]
  PROVE  /\ new \in [Task -> TaskRow]
         /\ \A v \in Task : new[v].st = task[v].st
         /\ \A v \in Task : v # t => new[v].sch = task[v].sch
         /\ new[t].sch = s
<1>1. PICK row : row = [task[t] EXCEPT !.sch = s]
  OBVIOUS
<1>2. row \in TaskRow /\ row.st = task[t].st /\ row.sch = s
  BY <1>1 DEF TaskRow
<1>3. new = [task EXCEPT ![t] = row]
  BY <1>1
<1> QED
  BY <1>2, <1>3

\* The task gets its schedule: one that is new, or the live one it has.
LEMMA CreateInv ==
  ASSUME IInv, NEW c \in Client, CreateSchedule(c)
  PROVE  IInv'
<1> DEFINE t == req[c].t
           parts == Roster(req[c].part)
<1>1. req[c] \in Request /\ t \in Task /\ req[c].peek \in Sched \cup {None}
  <2>1. req[c].op # "free"
    BY DEF CreateSchedule
  <2> QED
    BY <2>1, InFlight DEF IInv, Request
<1>2. PICK s \in Sched, auto \in BOOLEAN :
        /\ IF Live(req[c].peek) THEN s = req[c].peek ELSE sched[s].st = "none"
        /\ sched' = [sched EXCEPT ![s] =
             [st |-> "live", active |-> TRUE, auto |-> auto, next |-> now + 1,
              cfg |-> Ask(IF auto THEN parts ELSE parts \cup {Creator})]]
        /\ task' = [task EXCEPT ![t].sch = s]
        /\ said' = [said EXCEPT ![s] = {}]
        /\ left' = BroughtIn(t, s, {}, parts)
  BY Zenon DEF CreateSchedule
<1>3. TaskCanBind(c) /\ BindingHolds(c, None) /\ Done(c)
      /\ UNCHANGED <<now, scan, requests, fired, overtaken>>
  BY Zenon DEF CreateSchedule
<1>4. PICK us : us = IF auto THEN parts ELSE parts \cup {Creator}
  OBVIOUS
<1> DEFINE row == [st |-> "live", active |-> TRUE, auto |-> auto, next |-> now + 1, cfg |-> Ask(us)]
<1>5. row \in SchedRow /\ row.st = "live" /\ row.next = now + 1 /\ row.cfg = Ask(us)
  <2>1. Ask(us) \in [User -> Consent] /\ now + 1 \in Instant
    BY AskType DEF IInv, TypeOK, Instant
  <2> QED
    BY <2>1 DEF SchedRow
<1>6. sched' = [sched EXCEPT ![s] = row]
  BY <1>2, <1>4
<1> HIDE DEF row
<1>7. /\ sched \in [Sched -> SchedRow] /\ task \in [Task -> TaskRow]
      /\ said \in [Sched -> SUBSET User] /\ left \in [Task -> SUBSET User]
  BY DEF IInv, TypeOK
<1>8. sched' \in [Sched -> SchedRow] /\ sched'[s] = row /\ \A x \in Sched : x # s => sched'[x] = sched[x]
  BY <1>5, <1>6, <1>7
<1>9. /\ task' \in [Task -> TaskRow]
      /\ \A v \in Task : task'[v].st = task[v].st
      /\ \A v \in Task : v # t => task'[v].sch = task[v].sch
      /\ task'[t].sch = s
  <2>1. task' = [task EXCEPT ![t].sch = s]
    BY <1>2
  <2> HIDE DEF t
  <2> QED
    BY <1>1, <1>7, <2>1, BindType
<1>10. said' \in [Sched -> SUBSET User] /\ said'[s] = {} /\ \A x \in Sched : x # s => said'[x] = said[x]
  BY <1>2, <1>7
<1>11. left' \in [Task -> SUBSET User]
  BY <1>2, <1>7 DEF BroughtIn
<1>12. TypeOK'
  BY <1>3, <1>8, <1>9, <1>10, <1>11, DoneType DEF IInv, TypeOK
<1>13. Clocks' /\ FiredBehind' /\ OncePerInstant'
  <2>1. SameRounds
    BY <1>3, <1>5, <1>8 DEF SameRounds
  <2> QED
    BY <2>1, RoundsKept DEF IInv
<1>14. NoOrphanSchedule'
  <2> SUFFICES ASSUME NEW x \in Sched, sched'[x].st = "live"
               PROVE  \E v \in Task : task'[v].st = "live" /\ task'[v].sch = x
    BY DEF NoOrphanSchedule, Live, Bound
  <2>1. task[t].st = "live" /\ task[t].sch = req[c].peek
    BY <1>3 DEF TaskCanBind, TaskLive, BindingHolds, Other
  <2>2. CASE x = s
    BY <1>1, <1>9, <2>1, <2>2
  <2>3. CASE x # s
    <3>1. Live(x)
      BY <1>8, <2>3, NotASchedule DEF Live
    <3>2. PICK v \in Task : task[v].st = "live" /\ task[v].sch = x
      BY <3>1 DEF IInv, NoOrphanSchedule, Bound
    <3>3. v # t
      BY <1>2, <2>1, <2>3, <3>1, <3>2
    <3> QED
      BY <1>9, <3>2, <3>3
  <2> QED
    BY <2>2, <2>3
<1>15. Confirmations'
  <2> SUFFICES ASSUME NEW x \in Sched, sched'[x].st = "live"
               PROVE  {u \in User : sched'[x].cfg[u] = "yes"} = said'[x]
    BY DEF Confirmations
  <2>1. CASE x = s
    BY <1>5, <1>8, <1>10, <2>1, AskType
  <2>2. CASE x # s
    BY <1>8, <1>10, <2>2 DEF IInv, Confirmations
  <2> QED
    BY <2>1, <2>2
<1> QED
  BY <1>12, <1>13, <1>14, <1>15 DEF IInv

\* The update: the task moves, and the schedule it leaves goes when nothing else is
\* bound to it.
LEMMA UpdateInv ==
  ASSUME IInv, NEW c \in Client, UpdateSchedule(c)
  PROVE  IInv'
<1> DEFINE t == req[c].t
           s == req[c].s
           row == sched[s]
           old == Other(s, req[c].peek)
<1>1. PICK auto \in BOOLEAN, sent \in {None} \cup SUBSET Member, scoped \in BOOLEAN :
        /\ IF scoped THEN TaskCanBind(c) /\ BindingHolds(c, s) ELSE Bound(s) # {}
        /\ UpdateRows(c, auto, sent, scoped)
  BY Zenon DEF UpdateSchedule
<1>2. Done(c) /\ UNCHANGED <<now, scan, requests, fired, overtaken>>
  BY Zenon DEF UpdateSchedule
<1>3. /\ req[c] \in Request /\ t \in Task /\ s \in Sched
      /\ sched \in [Sched -> SchedRow] /\ task \in [Task -> TaskRow] /\ row \in SchedRow
      /\ said \in [Sched -> SUBSET User] /\ left \in [Task -> SUBSET User]
      /\ row.st = "live" /\ now \in 0 .. MaxNow
  <2>1. req[c].op # "free"
    BY DEF UpdateSchedule
  <2>2. req[c] \in Request
    BY <2>1, InFlight DEF IInv
  <2>3. s \in Sched /\ row.st = "live"
    BY <2>2 DEF UpdateSchedule, Live, Request
  <2> QED
    BY <2>2, <2>3 DEF IInv, TypeOK, Request
<1> DEFINE bare == scoped /\ Live(old) /\ Bound(old) \subseteq {t}
           cfg  == UpdatedConfig(c, row, auto, sent, scoped)
           keep == {u \in said[s] : cfg[u] = "yes" \/ (~auto /\ ~row.auto /\ cfg[u] # "no")}
<1>4. /\ cfg \in [User -> Consent]
      /\ \A u \in User : cfg[u] = "yes" => row.cfg[u] = "yes"
      /\ ~auto /\ ~row.auto => \A u \in User : row.cfg[u] = "yes" => cfg[u] \in {"no", "yes"}
  <2> HIDE DEF row
  <2> QED
    BY <1>3, UpdatedConfigType
<1>5. PICK n \in {row.next, now + 1} :
        sched' = [x \in Sched |->
          IF x = s THEN [row EXCEPT !.auto = auto, !.cfg = cfg, !.next = n]
          ELSE IF x = old /\ bare THEN [sched[x] EXCEPT !.st = "deleted"]
          ELSE sched[x]]
  BY <1>1, Zenon DEF UpdateRows
<1>6. /\ task' = IF scoped THEN [task EXCEPT ![t].sch = s] ELSE task
      /\ said' = [said EXCEPT ![s] = keep]
  BY <1>1, Zenon DEF UpdateRows
<1>7. left' \in [Task -> SUBSET User]
  BY <1>1, <1>3 DEF UpdateRows, BroughtIn
<1> HIDE DEF cfg
<1>8. /\ sched'[s] \in SchedRow /\ sched'[s].st = "live" /\ sched'[s].cfg = cfg
      /\ sched'[s].next = n
  <2> DEFINE new == [row EXCEPT !.auto = auto, !.cfg = cfg, !.next = n]
  <2>1. n \in Instant
    BY <1>3 DEF SchedRow, Instant
  <2>2. new \in SchedRow /\ new.st = row.st /\ new.cfg = cfg /\ new.next = n
    BY <1>3, <1>4, <2>1 DEF SchedRow
  <2>3. sched'[s] = new
    BY <1>3, <1>5
  <2> QED
    BY <1>3, <2>2, <2>3
<1>9. \A x \in Sched : x # s =>
        \/ sched'[x] = sched[x]
        \/ /\ x = old /\ bare /\ sched'[x] \in SchedRow /\ sched'[x].st = "deleted"
           /\ sched'[x].cfg = sched[x].cfg /\ sched'[x].next = sched[x].next
  <2> SUFFICES ASSUME NEW x \in Sched, x # s, sched'[x] # sched[x]
               PROVE  /\ x = old /\ bare /\ sched'[x] \in SchedRow /\ sched'[x].st = "deleted"
                      /\ sched'[x].cfg = sched[x].cfg /\ sched'[x].next = sched[x].next
    OBVIOUS
  <2>1. x = old /\ bare /\ sched'[x] = [sched[x] EXCEPT !.st = "deleted"]
    BY <1>5, Zenon
  <2> QED
    BY <1>3, <2>1 DEF SchedRow
<1>10. sched' \in [Sched -> SchedRow]
  <2>1. sched' = [x \in Sched |-> sched'[x]]
    BY <1>5, Zenon
  <2>2. \A x \in Sched : sched'[x] \in SchedRow
    BY <1>3, <1>8, <1>9, Zenon
  <2> QED
    BY <2>1, <2>2, Zenon
<1>11. /\ task' \in [Task -> TaskRow]
       /\ \A v \in Task : task'[v].st = task[v].st
       /\ \A v \in Task : v # t => task'[v].sch = task[v].sch
       /\ IF scoped THEN task'[t].sch = s ELSE task' = task
  <2> HIDE DEF t, s
  <2> QED
    BY <1>3, <1>6, BindType, SMTT(30)
<1>12. said' \in [Sched -> SUBSET User] /\ said'[s] = keep /\ \A x \in Sched : x # s => said'[x] = said[x]
  BY <1>3, <1>6
<1>13. TypeOK'
  BY <1>2, <1>7, <1>10, <1>11, <1>12, DoneType DEF IInv, TypeOK
<1>14. Clocks' /\ FiredBehind' /\ OncePerInstant'
  <2>1. SameRounds
    BY <1>2, <1>8, <1>9 DEF SameRounds
  <2> QED
    BY <2>1, RoundsKept DEF IInv
<1>15. NoOrphanSchedule'
  <2> SUFFICES ASSUME NEW x \in Sched, sched'[x].st = "live"
               PROVE  \E v \in Task : task'[v].st = "live" /\ task'[v].sch = x
    BY DEF NoOrphanSchedule, Live, Bound
  <2>1. Live(x)
    BY <1>3, <1>8, <1>9, NotASchedule DEF Live
  <2>2. PICK v \in Task : task[v].st = "live" /\ task[v].sch = x
    BY <2>1 DEF IInv, NoOrphanSchedule, Bound
  <2>3. CASE x = s /\ scoped
    BY <1>1, <1>3, <1>11, <2>3 DEF TaskCanBind, TaskLive
  <2>4. CASE ~scoped
    BY <1>11, <2>2, <2>4
  <2>5. CASE x # s /\ scoped /\ v # t
    BY <1>11, <2>2, <2>5
  <2>6. CASE x # s /\ scoped /\ v = t
    <3>1. old = x
      BY <1>1, <2>2, <2>6, NotASchedule DEF BindingHolds, Other
    <3>2. ~bare
      BY <1>5, <2>6, <3>1
    <3>3. PICK y \in Task : y # t /\ task[y].st = "live" /\ task[y].sch = x
      BY <2>1, <2>6, <3>1, <3>2 DEF Bound
    <3> QED
      BY <1>11, <3>3
  <2> QED
    BY <2>3, <2>4, <2>5, <2>6
<1>16. Confirmations'
  <2> SUFFICES ASSUME NEW x \in Sched, sched'[x].st = "live"
               PROVE  {u \in User : sched'[x].cfg[u] = "yes"} = said'[x]
    BY DEF Confirmations
  <2>1. CASE x = s
    <3>1. {u \in User : row.cfg[u] = "yes"} = said[s]
      BY <1>3 DEF IInv, Confirmations
    <3> QED
      BY <1>4, <1>8, <1>12, <2>1, <3>1
  <2>2. CASE x # s
    BY <1>9, <1>12, <2>2 DEF IInv, Confirmations
  <2> QED
    BY <2>1, <2>2
<1> QED
  BY <1>13, <1>14, <1>15, <1>16 DEF IInv

LEMMA StripType ==
  ASSUME sched \in [Sched -> SchedRow], NEW s \in Sched, NEW u \in User
  PROVE  /\ Strip(s, u) \in [Sched -> SchedRow]
         /\ \A x \in Sched : Strip(s, u)[x].st = sched[x].st /\ Strip(s, u)[x].next = sched[x].next
         /\ \A x \in Sched : x # s => Strip(s, u)[x] = sched[x]
         /\ Strip(s, u)[s].cfg = [sched[s].cfg EXCEPT ![u] = "no"]
<1> DEFINE cfg == [sched[s].cfg EXCEPT ![u] = "no"]
           row == [sched[s] EXCEPT !.cfg = cfg]
<1>1. cfg \in [User -> Consent]
  BY DEF SchedRow, Consent
<1>2. Strip(s, u) = [sched EXCEPT ![s] = row]
  BY DEF Strip
<1> HIDE DEF cfg
<1>3. row \in SchedRow /\ row.st = sched[s].st /\ row.next = sched[s].next /\ row.cfg = cfg
  BY <1>1 DEF SchedRow
<1> HIDE DEF row
<1>4. /\ Strip(s, u) \in [Sched -> SchedRow]
      /\ \A x \in Sched : x # s => Strip(s, u)[x] = sched[x]
      /\ Strip(s, u)[s] = row
  BY <1>2, <1>3
<1> QED
  BY <1>3, <1>4 DEF cfg

LEMMA AskedType ==
  ASSUME NEW row \in SchedRow, NEW cfg \in [User -> Consent], NEW auto \in BOOLEAN
  PROVE  LET new == [row EXCEPT !.cfg = cfg, !.auto = auto]
         IN  new \in SchedRow /\ new.st = row.st /\ new.next = row.next /\ new.cfg = cfg
BY DEF SchedRow

LEMMA DepartType ==
  ASSUME task \in [Task -> TaskRow], NEW u \in User, NEW t, NEW tasks
  PROVE  /\ Departed(t, u, tasks) \in [Task -> TaskRow]
         /\ \A x \in Task : /\ Departed(t, u, tasks)[x].st = task[x].st
                            /\ Departed(t, u, tasks)[x].sch = task[x].sch
<1> DEFINE new == Departed(t, u, tasks)
<1> SUFFICES ASSUME NEW x \in Task
             PROVE  new[x] \in TaskRow /\ new[x].st = task[x].st /\ new[x].sch = task[x].sch
  BY DEF Departed
<1> DEFINE part == [task[x].part EXCEPT ![u] = IF x \in tasks THEN "no" ELSE @]
           status == IF x = t /\ task[x].status = "Completed" THEN "Running" ELSE task[x].status
<1>1. new[x] = [task[x] EXCEPT !.part = part, !.status = status]
  BY DEF Departed
<1>2. task[x] \in TaskRow
  OBVIOUS
<1>3. part \in [User -> Answer] /\ status \in {"Running", "Completed", "Stopped"}
  BY <1>2 DEF TaskRow, Answer
<1> HIDE DEF part, status, new
<1>4. [task[x] EXCEPT !.part = part, !.status = status] \in TaskRow
  BY <1>2, <1>3 DEF TaskRow
<1>5. /\ [task[x] EXCEPT !.part = part, !.status = status].st = task[x].st
      /\ [task[x] EXCEPT !.part = part, !.status = status].sch = task[x].sch
  BY <1>2 DEF TaskRow
<1> QED
  BY <1>1, <1>4, <1>5, Zenon

\* A departure: the row and the configuration are stripped, nothing is unbound.
LEMMA LeaveInv ==
  ASSUME IInv, NEW c \in Client, Leave(c)
  PROVE  IInv'
<1> DEFINE t == req[c].t
           u == req[c].u
           s == req[c].peek
           gone == IF s = None THEN {t} ELSE Bound(s)
<1>1. /\ req[c] \in Request /\ t \in Task /\ u \in User /\ s \in Sched \cup {None}
      /\ sched \in [Sched -> SchedRow] /\ task \in [Task -> TaskRow]
      /\ said \in [Sched -> SUBSET User] /\ left \in [Task -> SUBSET User]
      /\ overtaken \in [Task -> BOOLEAN]
  <2>1. req[c].op # "free"
    BY DEF Leave
  <2> QED
    BY <2>1, InFlight DEF IInv, TypeOK, Request
<1>2. /\ task' = Departed(t, u, gone)
      /\ sched' = IF Live(s) THEN Strip(s, u) ELSE sched
      /\ said' = IF Live(s) THEN [said EXCEPT ![s] = @ \ {u}] ELSE said
      /\ left' = [left EXCEPT ![t] = @ \cup {u}]
  BY Zenon DEF Leave
<1>3. overtaken' = [overtaken EXCEPT ![t] =
           @ \/ task[t].sch # s
             \/ \E d \in Client \ {c} : req[d].op \in {"create", "update", "add"}]
  BY Zenon DEF Leave
<1>4. Done(c) /\ UNCHANGED <<now, scan, requests, fired>>
  BY Zenon DEF Leave
<1> HIDE DEF t, u, s, gone
<1>5. /\ task' \in [Task -> TaskRow]
      /\ \A x \in Task : task'[x].st = task[x].st /\ task'[x].sch = task[x].sch
  BY <1>1, <1>2, DepartType
<1>6. /\ sched' \in [Sched -> SchedRow]
      /\ \A x \in Sched : sched'[x].st = sched[x].st /\ sched'[x].next = sched[x].next
  <2>1. CASE Live(s)
    <3>1. s \in Sched
      BY <1>1, <2>1 DEF Live
    <3>2. sched' = Strip(s, u)
      BY <1>2, <2>1
    <3>3. /\ Strip(s, u) \in [Sched -> SchedRow]
          /\ \A x \in Sched : Strip(s, u)[x].st = sched[x].st /\ Strip(s, u)[x].next = sched[x].next
      BY <1>1, <3>1, StripType
    <3> QED
      BY <3>2, <3>3, Zenon
  <2>2. CASE ~Live(s)
    BY <1>1, <1>2, <2>2
  <2> QED
    BY <2>1, <2>2
<1>7. TypeOK'
  <2>1. left' \in [Task -> SUBSET User] /\ said' \in [Sched -> SUBSET User]
    BY <1>1, <1>2
  <2>2. overtaken' \in [Task -> BOOLEAN]
    BY <1>1, <1>3
  <2> QED
    BY <1>4, <1>5, <1>6, <2>1, <2>2, DoneType DEF IInv, TypeOK
<1>8. Clocks' /\ FiredBehind' /\ OncePerInstant'
  BY <1>4, <1>6, RoundsKept DEF IInv, SameRounds
<1>9. NoOrphanSchedule'
  BY <1>5, <1>6, BindingKept DEF IInv, SameBinding
<1>10. Confirmations'
  <2> SUFFICES ASSUME NEW x \in Sched, sched'[x].st = "live"
               PROVE  {v \in User : sched'[x].cfg[v] = "yes"} = said'[x]
    BY DEF Confirmations
  <2>1. {v \in User : sched[x].cfg[v] = "yes"} = said[x]
    BY <1>6 DEF IInv, Confirmations
  <2>2. CASE Live(s) /\ x = s
    <3>1. sched'[x].cfg = [sched[x].cfg EXCEPT ![u] = "no"] /\ said'[x] = said[x] \ {u}
      BY <1>1, <1>2, <2>2, StripType
    <3>2. sched[x].cfg \in [User -> Consent]
      BY <1>1 DEF SchedRow
    <3> QED
      BY <2>1, <3>1, <3>2
  <2>3. CASE ~(Live(s) /\ x = s)
    <3>1. CASE ~Live(s)
      BY <1>2, <2>1, <3>1
    <3>2. CASE Live(s) /\ x # s
      <4>1. s \in Sched
        BY <1>1, <3>2 DEF Live
      <4>2. sched'[x] = sched[x] /\ said'[x] = said[x]
        <5>1. sched' = Strip(s, u) /\ said' = [said EXCEPT ![s] = @ \ {u}]
          BY <1>2, <3>2
        <5>2. \A y \in Sched : y # s => Strip(s, u)[y] = sched[y]
          BY <1>1, <4>1, StripType
        <5> QED
          BY <1>1, <3>2, <5>1, <5>2
      <4> QED
        BY <2>1, <4>2
    <3> QED
      BY <2>3, <3>1, <3>2
  <2> QED
    BY <2>2, <2>3
<1> QED
  BY <1>7, <1>8, <1>9, <1>10 DEF IInv

\* An addition: the schedule asks whom it did not have.
LEMMA AddInv ==
  ASSUME IInv, NEW c \in Client, AddMember(c)
  PROVE  IInv'
<1> DEFINE t == req[c].t
           u == req[c].u
           s == req[c].peek
           new == req[c].part[u] = "no"
           cfg == [sched[s].cfg EXCEPT ![u] = "asked"]
           row == [sched[s] EXCEPT !.cfg = cfg, !.auto = FALSE]
<1>1. /\ req[c] \in Request /\ t \in Task /\ u \in User /\ s \in Sched \cup {None}
      /\ sched \in [Sched -> SchedRow] /\ task \in [Task -> TaskRow]
      /\ left \in [Task -> SUBSET User]
  <2>1. req[c].op # "free"
    BY DEF AddMember
  <2> QED
    BY <2>1, InFlight DEF IInv, TypeOK, Request
<1>2. /\ sched' = IF new /\ Live(s) /\ sched[s].cfg[u] = "no"
                 THEN [sched EXCEPT ![s].cfg[u] = "asked", ![s].auto = FALSE] ELSE sched
      /\ task' = IF new /\ task[t].part[u] = "no"
                THEN [task EXCEPT ![t].part[u] = "Pending"] ELSE task
      /\ left' = IF new THEN BroughtIn(t, s, {u}, {}) ELSE left
  BY Zenon DEF AddMember
<1>3. Done(c) /\ UNCHANGED <<now, scan, requests, fired, said, overtaken>>
  BY Zenon DEF AddMember
<1> HIDE DEF t, u, s, new
<1>4. /\ task' \in [Task -> TaskRow]
      /\ \A x \in Task : task'[x].st = task[x].st /\ task'[x].sch = task[x].sch
  <2> DEFINE part == [task[t].part EXCEPT ![u] = "Pending"]
             trow == [task[t] EXCEPT !.part = part]
  <2>1. [task EXCEPT ![t].part[u] = "Pending"] = [task EXCEPT ![t] = trow]
    BY <1>1
  <2>2. part \in [User -> Answer]
    BY <1>1 DEF TaskRow, Answer
  <2> HIDE DEF part
  <2>3. trow \in TaskRow /\ trow.st = task[t].st /\ trow.sch = task[t].sch
    BY <1>1, <2>2, ZenonT(30) DEF TaskRow
  <2>4. task' = task \/ task' = [task EXCEPT ![t] = trow]
    BY <1>2, <2>1
  <2> HIDE DEF trow
  <2> QED
    BY <1>1, <2>3, <2>4
<1>5. \/ sched' = sched
      \/ /\ s \in Sched /\ sched[s].cfg[u] = "no"
         /\ sched' = [sched EXCEPT ![s] = row]
  BY <1>1, <1>2 DEF Live
<1>6. s \in Sched => /\ row \in SchedRow /\ row.st = sched[s].st /\ row.next = sched[s].next
                     /\ row.cfg = cfg
  <2> SUFFICES ASSUME s \in Sched
               PROVE  /\ row \in SchedRow /\ row.st = sched[s].st
                      /\ row.next = sched[s].next /\ row.cfg = cfg
    OBVIOUS
  <2>1. sched[s] \in SchedRow
    BY <1>1
  <2>2. cfg \in [User -> Consent]
    BY <2>1 DEF SchedRow, Consent
  <2> HIDE DEF cfg
  <2> QED
    BY <2>1, <2>2, AskedType
<1> HIDE DEF row
<1>7. /\ sched' \in [Sched -> SchedRow]
      /\ \A x \in Sched : sched'[x].st = sched[x].st /\ sched'[x].next = sched[x].next
      /\ \A x \in Sched : \/ sched'[x] = sched[x]
                          \/ /\ sched[x].cfg[u] = "no"
                             /\ sched'[x].cfg = [sched[x].cfg EXCEPT ![u] = "asked"]
  BY <1>1, <1>5, <1>6
<1>8. left' \in [Task -> SUBSET User]
  BY <1>1, <1>2 DEF BroughtIn
<1>9. TypeOK'
  BY <1>3, <1>4, <1>7, <1>8, DoneType DEF IInv, TypeOK
<1>10. Clocks' /\ FiredBehind' /\ OncePerInstant'
  BY <1>3, <1>7, RoundsKept DEF IInv, SameRounds
<1>11. NoOrphanSchedule'
  BY <1>4, <1>7, BindingKept DEF IInv, SameBinding
<1>12. Confirmations'
  <2> SUFFICES ASSUME NEW x \in Sched, sched'[x].st = "live"
               PROVE  {v \in User : sched'[x].cfg[v] = "yes"} = said[x]
    BY <1>3 DEF Confirmations
  <2>1. {v \in User : sched[x].cfg[v] = "yes"} = said[x]
    BY <1>7 DEF IInv, Confirmations
  <2>2. sched[x].cfg \in [User -> Consent]
    BY <1>1 DEF SchedRow
  <2> QED
    BY <1>1, <1>7, <2>1, <2>2
<1> QED
  BY <1>9, <1>10, <1>11, <1>12 DEF IInv

\* A deletion takes the schedule and all its tasks, or a task that has none.
LEMMA DeletedType ==
  ASSUME task \in [Task -> TaskRow], NEW tasks
  PROVE  /\ Deleted(tasks) \in [Task -> TaskRow]
         /\ \A x \in Task : Deleted(tasks)[x].sch = task[x].sch
         /\ \A x \in Task : x \notin tasks => Deleted(tasks)[x] = task[x]
<1>1. \A x \in Task : /\ [task[x] EXCEPT !.st = "deleted"] \in TaskRow
                      /\ [task[x] EXCEPT !.st = "deleted"].sch = task[x].sch
  BY DEF TaskRow
<1> QED
  BY <1>1 DEF Deleted

LEMMA DroppedType ==
  ASSUME sched \in [Sched -> SchedRow], NEW s \in Sched, NEW new,
         new = [sched EXCEPT ![s].st = "deleted"]
  PROVE  /\ new \in [Sched -> SchedRow] /\ new[s].st = "deleted"
         /\ \A x \in Sched : new[x].next = sched[x].next /\ new[x].cfg = sched[x].cfg
         /\ \A x \in Sched : x # s => new[x] = sched[x]
<1> DEFINE row == [sched[s] EXCEPT !.st = "deleted"]
<1>1. new = [sched EXCEPT ![s] = row]
  OBVIOUS
<1>2. row \in SchedRow /\ row.st = "deleted" /\ row.next = sched[s].next /\ row.cfg = sched[s].cfg
  BY DEF SchedRow
<1> HIDE DEF row
<1> QED
  BY <1>1, <1>2

LEMMA DeleteSummaryInv ==
  ASSUME IInv, NEW c \in Client, DeleteSummary(c)
  PROVE  IInv'
<1> DEFINE t == req[c].t
           s == req[c].peek
           gone == IF Live(s) THEN Bound(s) ELSE {t}
<1>1. /\ req[c] \in Request /\ t \in Task /\ s \in Sched \cup {None}
      /\ sched \in [Sched -> SchedRow] /\ task \in [Task -> TaskRow]
  <2>1. req[c].op # "free"
    BY DEF DeleteSummary
  <2> QED
    BY <2>1, InFlight DEF IInv, TypeOK, Request
<1>2. /\ task' = Deleted(gone)
      /\ sched' = IF Live(s) THEN [sched EXCEPT ![s].st = "deleted"] ELSE sched
  BY Zenon DEF DeleteSummary
<1>3. BindingHolds(c, None) /\ Done(c) /\ UNCHANGED <<now, scan, requests, history>>
  BY Zenon DEF DeleteSummary
<1>4. task[t].sch = s
  BY <1>3 DEF BindingHolds, Other
<1> HIDE DEF t, s, gone
<1>5. /\ task' \in [Task -> TaskRow]
      /\ \A x \in Task : task'[x].sch = task[x].sch
      /\ \A x \in Task : x \notin gone => task'[x] = task[x]
  BY <1>1, <1>2, DeletedType
<1>6. /\ sched' \in [Sched -> SchedRow]
      /\ \A x \in Sched : sched'[x].next = sched[x].next /\ sched'[x].cfg = sched[x].cfg
      /\ \A x \in Sched : x # s => sched'[x] = sched[x]
      /\ Live(s) => sched'[s].st = "deleted"
      /\ ~Live(s) => sched' = sched
  <2>1. CASE Live(s)
    <3>1. s \in Sched
      BY <1>1, <2>1 DEF Live
    <3>2. sched' = [sched EXCEPT ![s].st = "deleted"]
      BY <1>2, <2>1
    <3> QED
      BY <1>1, <2>1, <3>1, <3>2, DroppedType
  <2>2. CASE ~Live(s)
    BY <1>1, <1>2, <2>2
  <2> QED
    BY <2>1, <2>2
<1>7. TypeOK'
  BY <1>3, <1>5, <1>6, DoneType DEF IInv, TypeOK, history
<1>8. Clocks' /\ FiredBehind' /\ OncePerInstant'
  BY <1>3, <1>6, RoundsKept DEF IInv, SameRounds, history
<1>9. NoOrphanSchedule'
  <2> SUFFICES ASSUME NEW x \in Sched, sched'[x].st = "live"
               PROVE  \E v \in Task : task'[v].st = "live" /\ task'[v].sch = x
    BY DEF NoOrphanSchedule, Live, Bound
  <2>1. Live(x) /\ ~(Live(s) /\ x = s)
    BY <1>6, NotASchedule DEF Live
  <2>2. PICK v \in Task : task[v].st = "live" /\ task[v].sch = x
    BY <2>1 DEF IInv, NoOrphanSchedule, Bound
  <2>3. v \notin gone
    BY <1>4, <2>1, <2>2 DEF gone, Bound
  <2> QED
    BY <1>5, <2>2, <2>3
<1>10. Confirmations'
  <2>1. SameConfirmations
    BY <1>3, <1>6 DEF SameConfirmations, history, Live
  <2> QED
    BY <2>1, ConfirmationsKept DEF IInv
<1> QED
  BY <1>7, <1>8, <1>9, <1>10 DEF IInv

LEMMA DeleteScheduleInv ==
  ASSUME IInv, NEW s \in Sched, DeleteSchedule(s)
  PROVE  IInv'
<1>1. /\ sched \in [Sched -> SchedRow] /\ task \in [Task -> TaskRow]
      /\ sched' = [sched EXCEPT ![s].st = "deleted"]
      /\ task' = Deleted(Bound(s))
      /\ UNCHANGED <<now, scan, req, history>> /\ NewRequest
  BY Zenon DEF IInv, TypeOK, DeleteSchedule
<1>2. /\ task' \in [Task -> TaskRow]
      /\ \A x \in Task : x \notin Bound(s) => task'[x] = task[x]
  BY <1>1, DeletedType
<1>3. /\ sched' \in [Sched -> SchedRow] /\ sched'[s].st = "deleted"
      /\ \A x \in Sched : sched'[x].next = sched[x].next /\ sched'[x].cfg = sched[x].cfg
      /\ \A x \in Sched : x # s => sched'[x] = sched[x]
  BY <1>1, DroppedType
<1>4. TypeOK'
  BY <1>1, <1>2, <1>3 DEF IInv, TypeOK, history, NewRequest
<1>5. Clocks' /\ FiredBehind' /\ OncePerInstant'
  BY <1>1, <1>3, RoundsKept DEF IInv, SameRounds, history
<1>6. NoOrphanSchedule'
  <2> SUFFICES ASSUME NEW x \in Sched, sched'[x].st = "live"
               PROVE  \E v \in Task : task'[v].st = "live" /\ task'[v].sch = x
    BY DEF NoOrphanSchedule, Live, Bound
  <2>1. Live(x) /\ x # s
    BY <1>3, NotASchedule DEF Live
  <2>2. PICK v \in Task : task[v].st = "live" /\ task[v].sch = x
    BY <2>1 DEF IInv, NoOrphanSchedule, Bound
  <2> QED
    BY <1>2, <2>1, <2>2 DEF Bound
<1>7. Confirmations'
  <2>1. SameConfirmations
    BY <1>1, <1>3 DEF SameConfirmations, history
  <2> QED
    BY <2>1, ConfirmationsKept DEF IInv
<1> QED
  BY <1>4, <1>5, <1>6, <1>7 DEF IInv

\* A confirmation, a pause, a resumption: one schedule row changes, not whether it lives.
LEMMA ConsentInv ==
  ASSUME IInv, NEW s \in Sched,
         (\E u \in User : ConfirmSchedule(s, u)) \/ Resume(s) \/ Pause(s)
  PROVE  IInv'
<1>1. /\ sched \in [Sched -> SchedRow] /\ sched[s] \in SchedRow /\ said \in [Sched -> SUBSET User]
      /\ now \in 0 .. MaxNow
  BY DEF IInv, TypeOK
<1>2. /\ NewRequest /\ Live(s)
      /\ UNCHANGED <<task, now, scan, req, fired, left, overtaken>>
  BY Zenon DEF ConfirmSchedule, Resume, Pause, history
<1>3. PICK row \in SchedRow :
        /\ sched' = [sched EXCEPT ![s] = row]
        /\ row.st = sched[s].st /\ row.next \in {sched[s].next, now + 1}
        /\ said' \in [Sched -> SUBSET User] /\ \A x \in Sched : x # s => said'[x] = said[x]
        /\ {u \in User : sched[s].cfg[u] = "yes"} = said[s] =>
             {u \in User : row.cfg[u] = "yes"} = said'[s]
  <2>1. ASSUME NEW u \in User, ConfirmSchedule(s, u)
        PROVE  \E row \in SchedRow :
                 /\ sched' = [sched EXCEPT ![s] = row]
                 /\ row.st = sched[s].st /\ row.next \in {sched[s].next, now + 1}
                 /\ said' \in [Sched -> SUBSET User] /\ \A x \in Sched : x # s => said'[x] = said[x]
                 /\ {v \in User : sched[s].cfg[v] = "yes"} = said[s] =>
                      {v \in User : row.cfg[v] = "yes"} = said'[s]
    <3> DEFINE cfg == [sched[s].cfg EXCEPT ![u] = "yes"]
               row == [sched[s] EXCEPT !.cfg = cfg]
    <3>1. sched' = [sched EXCEPT ![s] = row] /\ said' = [said EXCEPT ![s] = @ \cup {u}]
      BY <1>1, <2>1 DEF ConfirmSchedule
    <3>2. sched[s].cfg \in [User -> Consent] /\ cfg \in [User -> Consent]
      BY <1>1 DEF SchedRow, Consent
    <3>3. {v \in User : cfg[v] = "yes"} = {v \in User : sched[s].cfg[v] = "yes"} \cup {u}
      BY <3>2
    <3> HIDE DEF cfg
    <3>4. row \in SchedRow /\ row.st = sched[s].st /\ row.next = sched[s].next /\ row.cfg = cfg
      BY <1>1, <3>2 DEF SchedRow
    <3> HIDE DEF row
    <3>5. said' \in [Sched -> SUBSET User] /\ said'[s] = said[s] \cup {u}
          /\ \A x \in Sched : x # s => said'[x] = said[x]
      BY <1>1, <3>1
    <3>6. {v \in User : sched[s].cfg[v] = "yes"} = said[s] =>
            {v \in User : row.cfg[v] = "yes"} = said'[s]
      BY <3>3, <3>4, <3>5
    <3> QED
      BY <3>1, <3>4, <3>5, <3>6
  <2>2. CASE Resume(s)
    <3> DEFINE cfg == IF sched[s].auto THEN sched[s].cfg ELSE AskAgain(sched[s].cfg)
               row == Resumed(sched[s])
    <3>1. /\ sched' = [sched EXCEPT ![s] = row]
          /\ said' = IF sched[s].auto THEN said ELSE [said EXCEPT ![s] = {}]
      BY <2>2, Zenon DEF Resume
    <3>2. /\ cfg \in [User -> Consent]
          /\ sched[s].auto => cfg = sched[s].cfg
          /\ ~sched[s].auto => \A u \in User : cfg[u] # "yes"
      BY <1>1, AskType DEF SchedRow
    <3>3. now + 1 \in Instant
      BY <1>1 DEF Instant
    <3>4. row \in SchedRow /\ row.st = sched[s].st /\ row.next = now + 1 /\ row.cfg = cfg
      BY <1>1, <3>2, <3>3 DEF SchedRow, Resumed
    <3> HIDE DEF cfg
    <3> HIDE DEF row
    <3>5. /\ said' \in [Sched -> SUBSET User] /\ \A x \in Sched : x # s => said'[x] = said[x]
          /\ said'[s] = IF sched[s].auto THEN said[s] ELSE {}
      BY <1>1, <3>1
    <3>6. {v \in User : sched[s].cfg[v] = "yes"} = said[s] =>
            {v \in User : row.cfg[v] = "yes"} = said'[s]
      BY <3>2, <3>4, <3>5
    <3> QED
      BY <3>1, <3>4, <3>5, <3>6
  <2>3. CASE Pause(s)
    <3> DEFINE row == [sched[s] EXCEPT !.active = FALSE]
    <3>1. sched' = [sched EXCEPT ![s] = row] /\ said' = said
      BY <1>1, <2>3 DEF Pause, history
    <3>2. row \in SchedRow /\ row.st = sched[s].st /\ row.next = sched[s].next
          /\ row.cfg = sched[s].cfg
      BY <1>1, PausedType
    <3> HIDE DEF row
    <3> QED
      BY <1>1, <3>1, <3>2
  <2> QED
    BY <2>1, <2>2, <2>3
<1>4. sched' \in [Sched -> SchedRow] /\ sched'[s] = row /\ \A x \in Sched : x # s => sched'[x] = sched[x]
  BY <1>1, <1>3
<1>5. TypeOK'
  BY <1>2, <1>3, <1>4 DEF IInv, TypeOK, NewRequest
<1>6. Clocks' /\ FiredBehind' /\ OncePerInstant'
  <2>1. SameRounds
    BY <1>2, <1>3, <1>4 DEF SameRounds
  <2> QED
    BY <2>1, RoundsKept DEF IInv
<1>7. NoOrphanSchedule'
  <2>1. SameBinding
    BY <1>2, <1>3, <1>4 DEF SameBinding
  <2> QED
    BY <2>1, BindingKept DEF IInv
<1>8. Confirmations'
  <2> SUFFICES ASSUME NEW x \in Sched, sched'[x].st = "live"
               PROVE  {v \in User : sched'[x].cfg[v] = "yes"} = said'[x]
    BY DEF Confirmations
  <2>1. sched[x].st = "live"
    BY <1>3, <1>4
  <2>2. {v \in User : sched[x].cfg[v] = "yes"} = said[x]
    BY <2>1 DEF IInv, Confirmations
  <2> QED
    BY <1>3, <1>4, <2>2
<1> QED
  BY <1>5, <1>6, <1>7, <1>8 DEF IInv

-----------------------------------------------------------------------------
(* Who has left                                                            *)

\* The roster that a request in flight has read, and may yet write, names nobody who has
\* left since without the departure knowing of the request.
RosterRead ==
  \A c \in Client : req[c].op \in {"create", "update"} =>
    \A u \in Member : u \in left[req[c].t] /\ ~overtaken[req[c].t] => u \notin Roster(req[c].part)

\* A task is bound to a schedule that was made.
BoundExists ==
  \A t \in Task : task[t].sch \in Sched => sched[task[t].sch].st # "none"

LInv == LeaversStayOut /\ RosterRead /\ BoundExists

\* The creator is nobody's member.
LEMMA MembersOnly == \A u \in Member : u \in User /\ u # Creator
BY DEF User

LEMMA AskNames == ASSUME NEW us PROVE \A u \in User : Ask(us)[u] # "no" <=> u \in us
BY DEF Ask

LEMMA MergeNames ==
  ASSUME NEW cfg, NEW us
  PROVE  \A u \in User : MergeRoster(cfg, us)[u] # "no" <=> u \in us \cup {Creator}
BY DEF MergeRoster

LEMMA EffectiveNames ==
  ASSUME NEW cfg
  PROVE  /\ \A u \in User : u \in Effective(cfg) => u = Creator \/ cfg[u] # "no"
         /\ \A u \in User : cfg[u] # "no" => u \in Effective(cfg)
BY DEF Effective

\* An update names the participants sent, those of the task it is scoped to, and those it
\* had named; it invents nobody.
LEMMA UpdateNames ==
  ASSUME NEW c \in Client, NEW row \in SchedRow, NEW auto \in BOOLEAN, NEW sent,
         NEW scoped \in BOOLEAN
  PROVE  LET cfg == UpdatedConfig(c, row, auto, sent, scoped)
         IN  \A u \in Member : cfg[u] # "no" =>
               \/ row.cfg[u] # "no"
               \/ sent # None /\ u \in sent
               \/ scoped /\ u \in Roster(req[c].part)
<1> SUFFICES ASSUME NEW u \in Member, UpdatedConfig(c, row, auto, sent, scoped)[u] # "no"
             PROVE  \/ row.cfg[u] # "no"
                    \/ sent # None /\ u \in sent
                    \/ scoped /\ u \in Roster(req[c].part)
  BY Zenon
<1> DEFINE parts  == IF scoped THEN Roster(req[c].part) ELSE {}
           roster == IF sent # None THEN sent \cup parts ELSE parts
           known  == sent # None \/ parts # {}
           kept   == IF known THEN MergeLocked(c, row, roster)
                     ELSE MergeRoster(row.cfg, Effective(row.cfg))
           cfg    == IF auto THEN IF known THEN Ask(roster) ELSE row.cfg
                     ELSE IF row.auto THEN AskAgain(kept) ELSE kept
<1>1. UpdatedConfig(c, row, auto, sent, scoped) = cfg
  BY Zenon DEF UpdatedConfig
<1>2. u \in User /\ u # Creator
  BY MembersOnly
<1> DEFINE named == row.cfg[u] # "no" \/ u \in roster
<1>3. named => \/ row.cfg[u] # "no"
               \/ sent # None /\ u \in sent
               \/ scoped /\ u \in Roster(req[c].part)
  OBVIOUS
<1>4. kept[u] # "no" => named
  <2>1. CASE known
    <3> HIDE DEF roster
    <3> QED
      BY <1>2, <2>1, MergeNames DEF MergeLocked
  <2>2. CASE ~known
    <3>1. kept = MergeRoster(row.cfg, Effective(row.cfg))
      BY <2>2
    <3> HIDE DEF kept, roster
    <3> QED
      BY <1>2, <3>1, MergeNames, EffectiveNames
  <2> QED
    BY <2>1, <2>2
<1>5. AskAgain(kept)[u] # "no" => kept[u] # "no"
  <2> HIDE DEF kept
  <2> QED
    BY <1>2, AskNames, EffectiveNames DEF AskAgain
<1>6. Ask(roster)[u] # "no" => u \in roster
  <2> HIDE DEF roster
  <2> QED
    BY <1>2, AskNames
<1>7. cfg[u] # "no" => named
  <2> HIDE DEF kept, roster, known
  <2> QED
    BY <1>4, <1>5, <1>6
<1> QED
  BY <1>1, <1>3, <1>7

\* A finite set of ids that is not empty has a greatest one.
LEMMA GreatestOf ==
  ASSUME NEW S \in SUBSET Nat, IsFiniteSet(S), S # {}
  PROVE  \E m \in S : \A x \in S : x <= m
<1> DEFINE Above(x) == {y \in S : x < y}
           N == {Cardinality(Above(x)) : x \in S}
<1>1. \A x \in S : IsFiniteSet(Above(x)) /\ Cardinality(Above(x)) \in Nat
  BY FS_Subset, FS_CardinalityType
<1>2. N \in SUBSET Nat /\ N # {}
  BY <1>1
<1>3. PICK k \in N : \A j \in N : ~(j < k)
  <2> HIDE DEF N
  <2>1. \E k \in N : \A j \in N : <<j, k>> \notin OpToRel(<, Nat)
    BY <1>2, NatLessThanWellFounded, WFMin
  <2> QED
    BY <1>2, <2>1 DEF OpToRel
<1>4. PICK m \in S : k = Cardinality(Above(m))
  OBVIOUS
<1>5. ASSUME NEW x \in S, ~(x <= m)
      PROVE  FALSE
  <2>1. x \in Nat /\ m \in Nat /\ m < x
    BY <1>5
  <2>2. Above(x) \in SUBSET Above(m) /\ x \in Above(m) /\ x \notin Above(x)
    <3>1. \A y \in S : y \in Nat /\ (x < y => m < y)
      BY <2>1
    <3>2. ~(x < x)
      BY <2>1
    <3> QED
      BY <2>1, <3>1, <3>2, Zenon
  <2>3. /\ Cardinality(Above(x)) <= Cardinality(Above(m))
        /\ Cardinality(Above(m)) # Cardinality(Above(x))
    <3> HIDE DEF Above
    <3> QED
      BY <1>1, <2>2, FS_Subset
  <2>4. Cardinality(Above(x)) \in N
    OBVIOUS
  <2> HIDE DEF N, Above
  <2> QED
    BY <1>1, <1>3, <1>4, <1>5, <2>3, <2>4
<1> QED
  BY <1>5

LEMMA LatestIsBound ==
  ASSUME NEW s, Bound(s) # {}
  PROVE  Latest(s) \in Bound(s)
<1>1. Bound(s) \in SUBSET Nat /\ IsFiniteSet(Bound(s))
  BY FS_Subset DEF Bound
<1>2. \E t \in Bound(s) : \A u \in Bound(s) : u <= t
  BY <1>1, GreatestOf
<1> QED
  BY <1>2 DEF Latest

\* Nobody is brought in: tasks and schedules that live did so before, with no more members.
Narrowed ==
  /\ \A t \in Task : task'[t].st = "live" =>
       /\ task[t].st = "live" /\ task'[t].sch = task[t].sch
       /\ \A u \in Member : task[t].part[u] = "no" => task'[t].part[u] = "no"
  /\ \A s \in Sched : sched'[s].st = "live" =>
       /\ sched[s].st = "live"
       /\ \A u \in Member : sched[s].cfg[u] = "no" => sched'[s].cfg[u] = "no"

LEMMA NarrowedKept ==
  ASSUME LeaversStayOut, Narrowed, left' = left, overtaken' = overtaken,
         TypeOK, TypeOK'
  PROVE  LeaversStayOut'
<1> SUFFICES ASSUME NEW t \in Task, NEW u \in Member,
                    u \in left[t], task'[t].st = "live", ~overtaken[t]
             PROVE  /\ task'[t].part[u] = "no"
                    /\ task'[t].sch # None /\ sched'[task'[t].sch].st = "live"
                         => sched'[task'[t].sch].cfg[u] = "no"
  BY DEF LeaversStayOut, Live
<1>1. task[t].st = "live" /\ task'[t].sch = task[t].sch
  BY DEF Narrowed
<1>2. task[t].part[u] = "no" /\ (Live(task[t].sch) => sched[task[t].sch].cfg[u] = "no")
  BY <1>1 DEF LeaversStayOut
<1>3. task'[t].sch \in Sched \cup {None}
  BY DEF TypeOK, TaskRow
<1> QED
  BY <1>1, <1>2, <1>3 DEF Narrowed, Live

\* The requests in flight are those there were.
LEMMA ReadKept ==
  ASSUME RosterRead,
         \A c \in Client : req'[c].op = "free" \/ req'[c] = req[c],
         \A c \in Client : req[c].op \in {"create", "update"} /\ req'[c] = req[c] =>
           /\ overtaken[req[c].t] => overtaken'[req[c].t]
           /\ ~overtaken'[req[c].t] => \A u \in Member : u \in left'[req[c].t] => u \in left[req[c].t]
  PROVE  RosterRead'
BY DEF RosterRead, Roster

LEMMA ExistsKept ==
  ASSUME BoundExists, SameBinding PROVE BoundExists'
BY DEF BoundExists, SameBinding

LEMMA DoneRead ==
  ASSUME TypeOK, RosterRead, NEW c \in Client, Done(c), overtaken' = overtaken,
         \A t \in Task : left'[t] \subseteq left[t]
  PROVE  RosterRead'
<1>1. \A d \in Client : req'[d].op = "free" \/ req'[d] = req[d]
  BY DEF Done, NoRequest, TypeOK
<1>2. \A d \in Client : req[d].op \in {"create", "update"} => req[d].t \in Task
  BY InFlight DEF Request
<1> QED
  BY <1>1, <1>2, ReadKept

LEMMA BroughtKeeps ==
  ASSUME NEW t, NEW s, NEW named, NEW seen
  PROVE  \A x \in Task :
           /\ BroughtIn(t, s, named, seen)[x] \subseteq left[x]
           /\ x = t => BroughtIn(t, s, named, seen)[x] = left[x] \ named
           /\ x # t /\ Live(s) /\ task[x].sch = s =>
                BroughtIn(t, s, named, seen)[x] = left[x] \ (named \cup seen)
BY DEF BroughtIn

\* Time, the scans' lists, a claim that fails, a request that is refused.
LEMMA ListsLeft ==
  ASSUME TypeOK, LInv, UNCHANGED <<tableVars, history>>, req' = req \/ \E c \in Client : Done(c)
  PROVE  LInv'
<1>1. UNCHANGED <<sched, task, left, overtaken>>
  BY Zenon DEF tableVars, history
<1>2. LeaversStayOut' /\ BoundExists'
  BY <1>1 DEF LInv, LeaversStayOut, BoundExists, Live
<1>3. RosterRead'
  <2>1. CASE req' = req
    BY <1>1, <2>1 DEF LInv, RosterRead, Roster
  <2>2. CASE \E c \in Client : Done(c)
    BY <1>1, <2>2, DoneRead DEF LInv
  <2> QED
    BY <2>1, <2>2
<1> QED
  BY <1>2, <1>3 DEF LInv

\* What a request reads of a task names nobody who has left it.
LEMMA BeginLeft ==
  ASSUME TypeOK, LInv, NEW c \in Client, NEW op \in RequestKind, NEW t \in Task,
         NEW s \in Sched \cup {None}, NEW u \in User, Begin(c, op, t, s, u)
  PROVE  LInv'
<1>1. UNCHANGED <<sched, task, left, overtaken>> /\ task[t].st = "live"
  BY Zenon DEF Begin, tableVars, history
<1>2. /\ req'[c].t = t /\ req'[c].part = task[t].part
      /\ \A d \in Client : d # c => req'[d] = req[d]
  BY DEF Begin, TypeOK
<1>3. LeaversStayOut' /\ BoundExists'
  BY <1>1 DEF LInv, LeaversStayOut, BoundExists, Live
<1>4. RosterRead'
  <2> SUFFICES ASSUME NEW d \in Client, req'[d].op \in {"create", "update"}, NEW v \in Member,
                      v \in left[req'[d].t], ~overtaken[req'[d].t]
               PROVE  v \notin Roster(req'[d].part)
    BY <1>1 DEF RosterRead, Roster
  <2>1. CASE d = c
    <3>1. task[t].part[v] = "no"
      BY <1>1, <1>2, <2>1 DEF LInv, LeaversStayOut
    <3> QED
      BY <1>2, <2>1, <3>1 DEF Roster
  <2>2. CASE d # c
    BY <1>2, <2>2 DEF LInv, RosterRead
  <2> QED
    BY <2>1, <2>2
<1> QED
  BY <1>3, <1>4 DEF LInv

\* A claim materialises whom the configuration names, and it names nobody who has left.
LEMMA ClaimLeft ==
  ASSUME TypeOK, LInv, NEW w \in Scanner, NEW s \in Sched, NEW n \in Instant, ClaimDue(w, s, n)
  PROVE  LInv'
<1> DEFINE row == sched[s]
           moved == Advance(row, scan[w].now)
           paused == [moved EXCEPT !.active = FALSE]
           off    == [row EXCEPT !.active = FALSE]
<1>1. /\ row \in SchedRow /\ scan[w].now \in 0 .. MaxNow
      /\ task \in [Task -> TaskRow] /\ sched \in [Sched -> SchedRow]
  BY DEF TypeOK
<1>2. /\ moved \in SchedRow /\ moved.st = row.st /\ moved.cfg = row.cfg
      /\ paused.st = row.st /\ paused.cfg = row.cfg
  <2>1. /\ moved \in SchedRow /\ moved.st = row.st /\ moved.cfg = row.cfg
    BY <1>1, AdvanceType, Zenon
  <2> HIDE DEF moved
  <2> QED
    BY <2>1, PausedType, Zenon
<1>0. off.st = row.st /\ off.cfg = row.cfg
  BY <1>1, PausedType, Zenon
<1>3. sched' \in {sched, [sched EXCEPT ![s] = moved], [sched EXCEPT ![s] = paused],
                  [sched EXCEPT ![s] = off]}
  BY Zenon DEF ClaimDue, tableVars
<1>4. \/ task' = task
      \/ Live(s) /\ Bound(s) # {} /\ task' = Requeue(Latest(s), row)
  BY Zenon DEF ClaimDue, StillDue, tableVars
<1>5. UNCHANGED <<req, left, overtaken>>
  BY Zenon DEF ClaimDue
<1> HIDE DEF moved, paused, off
<1>6. \A x \in Sched : sched'[x].st = sched[x].st /\ sched'[x].cfg = sched[x].cfg
  BY <1>0, <1>1, <1>2, <1>3
<1>7. \A t \in Task : /\ task'[t].st = task[t].st /\ task'[t].sch = task[t].sch
                      /\ \/ task'[t].part = task[t].part
                         \/ /\ Live(s) /\ t \in Bound(s)
                            /\ task'[t].part = [u \in User |-> IF u \in Accepted(row)
                                                               THEN "Accepted" ELSE "no"]
  <2>1. CASE task' = task
    BY <2>1
  <2>2. CASE Live(s) /\ Bound(s) # {} /\ task' = Requeue(Latest(s), row)
    <3>1. Latest(s) \in Bound(s)
      BY <2>2, LatestIsBound
    <3>2. ASSUME NEW t \in Task
          PROVE  /\ task'[t].st = task[t].st /\ task'[t].sch = task[t].sch
                 /\ task'[t].part = IF t = Latest(s)
                                    THEN [u \in User |-> IF u \in Accepted(row)
                                                         THEN "Accepted" ELSE "no"]
                                    ELSE task[t].part
      BY <1>1, <2>2 DEF Requeue, TaskRow
    <3> QED
      BY <2>2, <3>1, <3>2
  <2> QED
    BY <1>4, <2>1, <2>2
<1>8. \A t \in Task : task'[t].st = task[t].st /\ task'[t].sch = task[t].sch
  BY <1>7
<1>9. LeaversStayOut'
  <2> SUFFICES ASSUME NEW t \in Task, NEW u \in Member,
                      u \in left[t], task[t].st = "live", ~overtaken[t]
               PROVE  /\ task'[t].part[u] = "no"
                      /\ task[t].sch # None /\ sched'[task[t].sch].st = "live"
                           => sched'[task[t].sch].cfg[u] = "no"
    BY <1>5, <1>8 DEF LeaversStayOut, Live
  <2>1. task[t].part[u] = "no" /\ (Live(task[t].sch) => sched[task[t].sch].cfg[u] = "no")
    BY DEF LInv, LeaversStayOut
  <2>2. task[t].sch \in Sched \cup {None}
    BY <1>1 DEF TaskRow
  <2>3. task'[t].part[u] = "no"
    <3>1. CASE task'[t].part = task[t].part
      BY <2>1, <3>1
    <3>2. CASE Live(s) /\ t \in Bound(s)
               /\ task'[t].part = [v \in User |-> IF v \in Accepted(row)
                                                  THEN "Accepted" ELSE "no"]
      <4>1. row.cfg[u] = "no"
        BY <2>1, <3>2 DEF Bound
      <4>2. u \in User /\ u \notin Effective(row.cfg)
        BY <4>1, MembersOnly, EffectiveNames
      <4>3. u \notin Accepted(row)
        BY <4>2 DEF Accepted
      <4> QED
        BY <3>2, <4>2, <4>3
    <3> QED
      BY <1>7, <3>1, <3>2
  <2> QED
    BY <1>6, <2>1, <2>2, <2>3 DEF Live
<1>10. RosterRead' /\ BoundExists'
  BY <1>5, <1>6, <1>7, ExistsKept DEF LInv, RosterRead, Roster, SameBinding
<1> QED
  BY <1>9, <1>10 DEF LInv

LEMMA RunEndsLeft ==
  ASSUME TypeOK, TypeOK', LInv, NEW t \in Task, RunEnds(t)
  PROVE  LInv'
<1>1. UNCHANGED <<sched, req, left, overtaken>>
  BY Zenon DEF RunEnds, history
<1>2. \A x \in Task : /\ task'[x].st = task[x].st /\ task'[x].sch = task[x].sch
                      /\ task'[x].part = task[x].part
  BY SMTT(30) DEF RunEnds, TypeOK, TaskRow
<1>3. LeaversStayOut'
  BY <1>1, <1>2, NarrowedKept DEF LInv, Narrowed
<1>4. RosterRead' /\ BoundExists'
  BY <1>1, <1>2, ExistsKept DEF LInv, RosterRead, Roster, SameBinding
<1> QED
  BY <1>3, <1>4 DEF LInv

\* The roster a creation read is what its schedule runs, and the schedule's other tasks
\* take it too.
LEMMA CreateLeft ==
  ASSUME TypeOK, LInv, NEW c \in Client, CreateSchedule(c)
  PROVE  LInv'
<1> DEFINE t == req[c].t
           parts == Roster(req[c].part)
<1>1. req[c] \in Request /\ t \in Task /\ req[c].peek \in Sched \cup {None} /\ req[c].op = "create"
  <2>1. req[c].op = "create"
    BY DEF CreateSchedule
  <2> QED
    BY <2>1, InFlight DEF Request
<1>2. PICK s \in Sched, auto \in BOOLEAN :
        /\ IF Live(req[c].peek) THEN s = req[c].peek ELSE sched[s].st = "none"
        /\ sched' = [sched EXCEPT ![s] =
             [st |-> "live", active |-> TRUE, auto |-> auto, next |-> now + 1,
              cfg |-> Ask(IF auto THEN parts ELSE parts \cup {Creator})]]
        /\ task' = [task EXCEPT ![t].sch = s]
        /\ left' = BroughtIn(t, s, {}, parts)
  BY Zenon DEF CreateSchedule
<1>3. TaskCanBind(c) /\ BindingHolds(c, None) /\ Done(c) /\ overtaken' = overtaken
  BY Zenon DEF CreateSchedule
<1>4. /\ sched \in [Sched -> SchedRow] /\ task \in [Task -> TaskRow]
      /\ left \in [Task -> SUBSET User]
  BY DEF TypeOK
<1>5. task[t].st = "live" /\ task[t].sch = req[c].peek
  BY <1>3 DEF TaskCanBind, TaskLive, BindingHolds, Other
<1>6. PICK us : us = IF auto THEN parts ELSE parts \cup {Creator}
  OBVIOUS
<1>7. /\ sched'[s].st = "live" /\ sched'[s].cfg = Ask(us)
      /\ \A x \in Sched : x # s => sched'[x] = sched[x]
  BY <1>2, <1>4, <1>6
<1>8. \A u \in Member : u \notin parts => sched'[s].cfg[u] = "no"
  BY <1>6, <1>7, AskNames, MembersOnly
<1>9. /\ \A x \in Task : task'[x].st = task[x].st /\ task'[x].part = task[x].part
      /\ \A x \in Task : x # t => task'[x].sch = task[x].sch
      /\ task'[t].sch = s
  <2>1. task' = [task EXCEPT ![t].sch = s]
    BY <1>2
  <2> HIDE DEF t
  <2> QED
    BY <1>1, <1>4, <2>1 DEF TaskRow
<1>10. /\ \A x \in Task : left'[x] \subseteq left[x]
       /\ \A x \in Task : x # t /\ Live(s) /\ task[x].sch = s => left'[x] = left[x] \ parts
  <2> HIDE DEF t, parts
  <2> QED
    BY <1>2, BroughtKeeps
<1>11. \A u \in Member : u \in left[t] /\ ~overtaken[t] => u \notin parts
  BY <1>1 DEF LInv, RosterRead
<1> HIDE DEF t, parts
<1>12. LeaversStayOut'
  <2> SUFFICES ASSUME NEW x \in Task, NEW u \in Member,
                      u \in left'[x], task[x].st = "live", ~overtaken[x]
               PROVE  /\ task[x].part[u] = "no"
                      /\ task'[x].sch # None /\ sched'[task'[x].sch].st = "live"
                           => sched'[task'[x].sch].cfg[u] = "no"
    BY <1>3, <1>9 DEF LeaversStayOut, Live
  <2>1. u \in left[x]
    BY <1>10
  <2>2. task[x].part[u] = "no" /\ (Live(task[x].sch) => sched[task[x].sch].cfg[u] = "no")
    BY <2>1 DEF LInv, LeaversStayOut
  <2>3. CASE x = t
    BY <1>8, <1>9, <1>11, <2>1, <2>2, <2>3
  <2>4. CASE x # t /\ task[x].sch = s
    <3>1. Live(s)
      BY <1>2, <2>4, NotASchedule DEF LInv, BoundExists, Live
    <3>2. u \notin parts
      BY <1>10, <2>4, <3>1
    <3> QED
      BY <1>8, <1>9, <2>2, <2>4, <3>2
  <2>5. CASE x # t /\ task[x].sch # s
    <3>1. task[x].sch \in Sched \cup {None}
      BY <1>4 DEF TaskRow
    <3> QED
      BY <1>7, <1>9, <2>2, <2>5, <3>1 DEF Live
  <2> QED
    BY <2>3, <2>4, <2>5
<1>13. RosterRead'
  BY <1>3, <1>10, DoneRead DEF LInv
<1>14. BoundExists'
  BY <1>1, <1>7, <1>9 DEF LInv, BoundExists
<1> QED
  BY <1>12, <1>13, <1>14 DEF LInv

\* An update names whom the request names, whom the schedule had, or whom it read in the
\* roster of the task it is scoped to.
LEMMA UpdateLeft ==
  ASSUME TypeOK, LInv, NEW c \in Client, UpdateSchedule(c)
  PROVE  LInv'
<1> DEFINE t == req[c].t
           s == req[c].s
           row == sched[s]
           old == Other(s, req[c].peek)
<1>1. PICK auto \in BOOLEAN, sent \in {None} \cup SUBSET Member, scoped \in BOOLEAN :
        /\ scoped => TaskCanBind(c) /\ BindingHolds(c, s)
        /\ UpdateRows(c, auto, sent, scoped)
  BY Zenon DEF UpdateSchedule
<1>2. Done(c) /\ overtaken' = overtaken
  BY Zenon DEF UpdateSchedule
<1>3. /\ req[c] \in Request /\ t \in Task /\ s \in Sched /\ Live(s) /\ req[c].op = "update"
      /\ sched \in [Sched -> SchedRow] /\ task \in [Task -> TaskRow] /\ row \in SchedRow
      /\ left \in [Task -> SUBSET User]
  <2>1. req[c].op = "update" /\ Live(s)
    BY DEF UpdateSchedule
  <2>2. req[c] \in Request
    BY <2>1, InFlight
  <2> QED
    BY <2>1, <2>2 DEF TypeOK, Request, Live
<1> DEFINE bare  == scoped /\ Live(old) /\ Bound(old) \subseteq {t}
           cfg   == UpdatedConfig(c, row, auto, sent, scoped)
           named == (IF sent # None THEN sent ELSE {})
                      \cup (IF scoped /\ task[t].sch # s THEN Effective(row.cfg) ELSE {})
           seen  == IF scoped THEN Roster(req[c].part) ELSE {}
<1>4. PICK n \in {row.next, now + 1} :
        sched' = [x \in Sched |->
          IF x = s THEN [row EXCEPT !.auto = auto, !.cfg = cfg, !.next = n]
          ELSE IF x = old /\ bare THEN [sched[x] EXCEPT !.st = "deleted"]
          ELSE sched[x]]
  BY <1>1, Zenon DEF UpdateRows
<1>5. /\ task' = IF scoped THEN [task EXCEPT ![t].sch = s] ELSE task
      /\ left' = BroughtIn(t, s, named, seen)
  BY <1>1, Zenon DEF UpdateRows
<1>6. \A u \in Member : cfg[u] # "no" =>
        \/ row.cfg[u] # "no"
        \/ sent # None /\ u \in sent
        \/ u \in seen
  <2>1. \A u \in Member : cfg[u] # "no" =>
          \/ row.cfg[u] # "no"
          \/ sent # None /\ u \in sent
          \/ scoped /\ u \in Roster(req[c].part)
    <3> HIDE DEF row
    <3> QED
      BY <1>3, UpdateNames
  <2> HIDE DEF cfg
  <2> QED
    BY <2>1
<1>7. /\ \A x \in Task : left'[x] \subseteq left[x]
      /\ left'[t] = left[t] \ named
      /\ \A x \in Task : x # t /\ task[x].sch = s => left'[x] = left[x] \ (named \cup seen)
  <2> HIDE DEF t, s, named, seen
  <2> QED
    BY <1>3, <1>5, BroughtKeeps
<1> HIDE DEF cfg
<1>8. sched'[s].st = "live" /\ sched'[s].cfg = cfg
  <2>1. sched'[s] = [row EXCEPT !.auto = auto, !.cfg = cfg, !.next = n]
    BY <1>3, <1>4
  <2>2. row.st = "live"
    BY <1>3 DEF Live
  <2> HIDE DEF row
  <2> QED
    BY <1>3, <2>1, <2>2 DEF SchedRow
<1>9. \A x \in Sched : x # s =>
        \/ sched'[x] = sched[x]
        \/ sched'[x].st = "deleted"
  <2> SUFFICES ASSUME NEW x \in Sched, x # s, sched'[x] # sched[x]
               PROVE  sched'[x].st = "deleted"
    OBVIOUS
  <2>1. sched'[x] = [sched[x] EXCEPT !.st = "deleted"]
    BY <1>4, Zenon
  <2> QED
    BY <1>3, <2>1 DEF SchedRow
<1>10. /\ \A x \in Task : task'[x].st = task[x].st /\ task'[x].part = task[x].part
       /\ \A x \in Task : x # t => task'[x].sch = task[x].sch
       /\ task'[t].sch = IF scoped THEN s ELSE task[t].sch
  <2> HIDE DEF t, s
  <2> QED
    BY <1>3, <1>5 DEF TaskRow
<1>11. \A u \in Member : u \in left[t] /\ ~overtaken[t] => u \notin seen
  BY <1>3 DEF LInv, RosterRead
<1>12. scoped => task[t].st = "live"
  BY <1>1 DEF TaskCanBind, TaskLive
<1>13. \A u \in Member : u \notin named =>
         /\ ~(sent # None /\ u \in sent)
         /\ scoped /\ task[t].sch # s => row.cfg[u] = "no"
  <2> SUFFICES ASSUME NEW u \in Member, u \notin named
               PROVE  /\ ~(sent # None /\ u \in sent)
                      /\ scoped /\ task[t].sch # s => row.cfg[u] = "no"
    OBVIOUS
  <2>1. row.cfg[u] # "no" => u \in Effective(row.cfg)
    BY MembersOnly, EffectiveNames
  <2> QED
    BY <2>1
<1>14. seen # {} => scoped
  OBVIOUS
<1> HIDE DEF t, s, row, old, bare, named, seen
<1>15. LeaversStayOut'
  <2> SUFFICES ASSUME NEW x \in Task, NEW u \in Member,
                      u \in left'[x], task[x].st = "live", ~overtaken[x]
               PROVE  /\ task[x].part[u] = "no"
                      /\ task'[x].sch # None /\ sched'[task'[x].sch].st = "live"
                           => sched'[task'[x].sch].cfg[u] = "no"
    BY <1>2, <1>10 DEF LeaversStayOut, Live
  <2>1. u \in left[x] /\ task[x].sch \in Sched \cup {None}
    BY <1>3, <1>7 DEF TaskRow
  <2>2. task[x].part[u] = "no" /\ (Live(task[x].sch) => sched[task[x].sch].cfg[u] = "no")
    BY <2>1 DEF LInv, LeaversStayOut
  <2>3. task[x].sch = s => row.cfg[u] = "no"
    BY <1>3, <2>2 DEF row
  <2>4. CASE task'[x].sch = s
    <3>1. CASE x = t
      <4>1. u \notin named /\ u \notin seen
        BY <1>7, <1>11, <2>1, <3>1
      <4>2. row.cfg[u] = "no"
        BY <1>10, <1>13, <2>3, <2>4, <3>1, <4>1
      <4>3. cfg[u] = "no"
        BY <1>6, <1>13, <4>1, <4>2
      <4> QED
        BY <1>8, <2>2, <2>4, <4>3
    <3>2. CASE x # t
      <4>1. task[x].sch = s
        BY <1>10, <2>4, <3>2
      <4>2. u \notin named /\ u \notin seen
        BY <1>7, <3>2, <4>1
      <4>3. cfg[u] = "no"
        BY <1>6, <1>13, <2>3, <4>1, <4>2
      <4> QED
        BY <1>8, <2>2, <2>4, <4>3
    <3> QED
      BY <3>1, <3>2
  <2>5. CASE task'[x].sch # s
    <3>1. task'[x].sch = task[x].sch
      BY <1>10, <2>5
    <3> QED
      BY <1>9, <2>1, <2>2, <2>5, <3>1 DEF Live
  <2> QED
    BY <2>4, <2>5
<1>16. RosterRead'
  BY <1>2, <1>7, DoneRead DEF LInv
<1>17. BoundExists'
  <2> SUFFICES ASSUME NEW x \in Task, task'[x].sch \in Sched
               PROVE  sched'[task'[x].sch].st # "none"
    BY DEF BoundExists
  <2>1. CASE task'[x].sch = s
    BY <1>8, <2>1
  <2>2. CASE task'[x].sch # s
    BY <1>9, <1>10, <2>2 DEF LInv, BoundExists
  <2> QED
    BY <2>1, <2>2
<1> QED
  BY <1>15, <1>16, <1>17 DEF LInv

\* A departure takes the member out of the task and of the schedule it read as the task's;
\* a request in flight that read the roster before counts it as overtaken.
LEMMA LeaveLeft ==
  ASSUME TypeOK, TypeOK', LInv, NEW c \in Client, Leave(c)
  PROVE  LInv'
<1> DEFINE t == req[c].t
           u == req[c].u
           s == req[c].peek
           gone == IF s = None THEN {t} ELSE Bound(s)
<1>1. /\ req[c] \in Request /\ t \in Task /\ u \in User /\ s \in Sched \cup {None}
      /\ sched \in [Sched -> SchedRow] /\ task \in [Task -> TaskRow]
      /\ left \in [Task -> SUBSET User] /\ overtaken \in [Task -> BOOLEAN]
  <2>1. req[c].op # "free"
    BY DEF Leave
  <2> QED
    BY <2>1, InFlight DEF TypeOK, Request
<1>2. /\ task' = Departed(t, u, gone)
      /\ sched' = IF Live(s) THEN Strip(s, u) ELSE sched
      /\ left' = [left EXCEPT ![t] = @ \cup {u}]
  BY Zenon DEF Leave
<1>3. overtaken' = [overtaken EXCEPT ![t] =
           @ \/ task[t].sch # s
             \/ \E d \in Client \ {c} : req[d].op \in {"create", "update", "add"}]
  BY Zenon DEF Leave
<1>4. Done(c)
  BY Zenon DEF Leave
<1> HIDE DEF t, u, s, gone
<1>5. \A x \in Task : /\ task'[x].st = task[x].st /\ task'[x].sch = task[x].sch
                      /\ \A v \in User : task'[x].part[v] = IF v = u /\ x \in gone THEN "no"
                                                            ELSE task[x].part[v]
  <2>1. \A x \in Task : task'[x].st = task[x].st /\ task'[x].sch = task[x].sch
    BY <1>1, <1>2, DepartType
  <2>2. ASSUME NEW x \in Task, NEW v \in User
        PROVE  task'[x].part[v] = IF v = u /\ x \in gone THEN "no" ELSE task[x].part[v]
    <3> DEFINE part == [task[x].part EXCEPT ![u] = IF x \in gone THEN "no" ELSE @]
               status == IF x = t /\ task[x].status = "Completed" THEN "Running"
                         ELSE task[x].status
    <3>1. task'[x] = [task[x] EXCEPT !.part = part, !.status = status]
      BY <1>2 DEF Departed
    <3>2. task[x] \in TaskRow /\ task[x].part \in [User -> Answer]
      BY <1>1 DEF TaskRow
    <3> HIDE DEF part, status
    <3>3. task'[x].part = part
      BY <3>1, <3>2 DEF TaskRow
    <3> QED
      BY <1>1, <3>2, <3>3 DEF part
  <2> QED
    BY <2>1, <2>2
<1>6. \A x \in Sched : /\ sched'[x].st = sched[x].st
                       /\ \A v \in User : sched'[x].cfg[v] = IF v = u /\ x = s /\ Live(s) THEN "no"
                                                             ELSE sched[x].cfg[v]
  <2>1. CASE Live(s)
    <3>1. s \in Sched /\ sched' = Strip(s, u)
      BY <1>1, <1>2, <2>1 DEF Live
    <3>2. /\ \A x \in Sched : sched'[x].st = sched[x].st
          /\ \A x \in Sched : x # s => sched'[x] = sched[x]
          /\ sched'[s].cfg = [sched[s].cfg EXCEPT ![u] = "no"]
      <4>1. sched \in [Sched -> SchedRow] /\ s \in Sched /\ u \in User
        BY <1>1, <3>1
      <4>2. \A x \in Sched : Strip(s, u)[x].st = sched[x].st /\ Strip(s, u)[x].next = sched[x].next
        BY <4>1, StripType
      <4>3. \A x \in Sched : x # s => Strip(s, u)[x] = sched[x]
        BY <4>1, StripType
      <4>4. Strip(s, u)[s].cfg = [sched[s].cfg EXCEPT ![u] = "no"]
        BY <4>1, StripType
      <4> QED
        BY <3>1, <4>2, <4>3, <4>4, Zenon
    <3>3. sched[s].cfg \in [User -> Consent]
      BY <1>1, <3>1 DEF SchedRow
    <3>4. \A v \in User : sched'[s].cfg[v] = IF v = u THEN "no" ELSE sched[s].cfg[v]
      BY <3>2, <3>3
    <3> QED
      BY <2>1, <3>2, <3>4
  <2>2. CASE ~Live(s)
    BY <1>2, <2>2
  <2> QED
    BY <2>1, <2>2
<1>7. /\ \A x \in Task : x # t => left'[x] = left[x] /\ overtaken'[x] = overtaken[x]
      /\ left'[t] = left[t] \cup {u}
      /\ overtaken[t] => overtaken'[t]
      /\ ~overtaken'[t] => /\ task[t].sch = s
                           /\ \A d \in Client \ {c} : req[d].op \notin {"create", "update", "add"}
  BY <1>1, <1>2, <1>3
<1>8. LeaversStayOut'
  <2> SUFFICES ASSUME NEW x \in Task, NEW v \in Member,
                      v \in left'[x], task[x].st = "live", ~overtaken'[x]
               PROVE  /\ task'[x].part[v] = "no"
                      /\ task[x].sch # None /\ sched'[task[x].sch].st = "live"
                           => sched'[task[x].sch].cfg[v] = "no"
    BY <1>5 DEF LeaversStayOut, Live
  <2>1. v \in User /\ task[x].sch \in Sched \cup {None} /\ ~overtaken[x]
    BY <1>1, <1>7, MembersOnly DEF TaskRow
  <2>2. CASE v \in left[x]
    <3>1. task[x].part[v] = "no" /\ (Live(task[x].sch) => sched[task[x].sch].cfg[v] = "no")
      BY <2>1, <2>2 DEF LInv, LeaversStayOut
    <3> QED
      BY <1>5, <1>6, <2>1, <3>1 DEF Live
  <2>3. CASE v \notin left[x]
    <3>1. x = t /\ v = u /\ task[t].sch = s
      BY <1>7, <2>3
    <3>2. t \in gone
      BY <1>1, <3>1 DEF gone, Bound
    <3> QED
      BY <1>1, <1>5, <1>6, <2>1, <3>1, <3>2 DEF Live
  <2> QED
    BY <2>2, <2>3
<1>9. RosterRead'
  <2>1. \A d \in Client : d # c => req'[d] = req[d]
    BY <1>4 DEF Done, TypeOK
  <2>2. req'[c].op = "free"
    BY <1>4 DEF Done, TypeOK, NoRequest
  <2>3. \A d \in Client : req[d].op \in {"create", "update"} => req[d].t \in Task
    BY InFlight DEF Request
  <2>4. ASSUME NEW d \in Client, req[d].op \in {"create", "update"}, req'[d] = req[d]
        PROVE  /\ overtaken[req[d].t] => overtaken'[req[d].t]
               /\ ~overtaken'[req[d].t] =>
                    \A v \in Member : v \in left'[req[d].t] => v \in left[req[d].t]
    <3>1. d # c
      BY <2>2, <2>4
    <3> QED
      BY <1>7, <2>3, <2>4, <3>1
  <2> QED
    BY <2>1, <2>2, <2>4, ReadKept DEF LInv
<1>10. BoundExists'
  BY <1>5, <1>6, ExistsKept DEF LInv, SameBinding
<1> QED
  BY <1>8, <1>9, <1>10 DEF LInv

\* Whom an addition brings in has not left any more, in any task of the schedule.
LEMMA AddLeft ==
  ASSUME TypeOK, LInv, NEW c \in Client, AddMember(c)
  PROVE  LInv'
<1> DEFINE t == req[c].t
           u == req[c].u
           s == req[c].peek
           new == req[c].part[u] = "no"
<1>1. /\ req[c] \in Request /\ t \in Task /\ u \in User /\ s \in Sched \cup {None}
      /\ sched \in [Sched -> SchedRow] /\ task \in [Task -> TaskRow]
      /\ left \in [Task -> SUBSET User]
  <2>1. req[c].op # "free"
    BY DEF AddMember
  <2> QED
    BY <2>1, InFlight DEF TypeOK, Request
<1>2. /\ sched' = IF new /\ Live(s) /\ sched[s].cfg[u] = "no"
                 THEN [sched EXCEPT ![s].cfg[u] = "asked", ![s].auto = FALSE] ELSE sched
      /\ task' = IF new /\ task[t].part[u] = "no"
                THEN [task EXCEPT ![t].part[u] = "Pending"] ELSE task
      /\ left' = IF new THEN BroughtIn(t, s, {u}, {}) ELSE left
  BY Zenon DEF AddMember
<1>3. Done(c) /\ overtaken' = overtaken
  BY Zenon DEF AddMember
<1> HIDE DEF t, u, s, new
<1>4. \A x \in Task : /\ task'[x].st = task[x].st /\ task'[x].sch = task[x].sch
                      /\ \A v \in User : (new /\ x = t /\ v = u)
                                         \/ task'[x].part[v] = task[x].part[v]
  <2>1. CASE task' = task
    BY <2>1
  <2>2. CASE new /\ task' = [task EXCEPT ![t].part[u] = "Pending"]
    <3> DEFINE part == [task[t].part EXCEPT ![u] = "Pending"]
               row == [task[t] EXCEPT !.part = part]
    <3>1. task' = [task EXCEPT ![t] = row]
      BY <1>1, <2>2
    <3>2. row.st = task[t].st /\ row.sch = task[t].sch /\ row.part = part
      <4> HIDE DEF part
      <4> QED
        BY <1>1 DEF TaskRow
    <3>3. \A v \in User : v = u \/ part[v] = task[t].part[v]
      BY <1>1 DEF TaskRow
    <3> HIDE DEF part, row
    <3> QED
      BY <1>1, <2>2, <3>1, <3>2, <3>3
  <2> QED
    BY <1>2, <2>1, <2>2
<1>5. \A x \in Sched : /\ sched'[x].st = sched[x].st
                       /\ \A v \in User : (new /\ Live(s) /\ x = s /\ v = u)
                                          \/ sched'[x].cfg[v] = sched[x].cfg[v]
  <2>1. CASE sched' = sched
    BY <2>1
  <2>2. CASE new /\ Live(s) /\ sched' = [sched EXCEPT ![s].cfg[u] = "asked", ![s].auto = FALSE]
    <3> DEFINE cfg == [sched[s].cfg EXCEPT ![u] = "asked"]
               row == [sched[s] EXCEPT !.cfg = cfg, !.auto = FALSE]
    <3>1. s \in Sched /\ sched[s] \in SchedRow
      BY <1>1, <2>2 DEF Live
    <3>2. sched' = [sched EXCEPT ![s] = row]
      BY <1>1, <2>2, <3>1
    <3>3. cfg \in [User -> Consent] /\ \A v \in User : v = u \/ cfg[v] = sched[s].cfg[v]
      BY <1>1, <3>1 DEF SchedRow, Consent
    <3> HIDE DEF cfg
    <3>4. row.st = sched[s].st /\ row.cfg = cfg
      BY <3>1, <3>3, AskedType
    <3> HIDE DEF row
    <3> QED
      BY <1>1, <2>2, <3>1, <3>2, <3>3, <3>4
  <2> QED
    BY <1>2, <2>1, <2>2
<1>6. /\ \A x \in Task : left'[x] \subseteq left[x]
      /\ new => u \notin left'[t]
      /\ new /\ Live(s) => \A x \in Task : task[x].sch = s => u \notin left'[x]
  BY <1>1, <1>2, BroughtKeeps
<1>7. LeaversStayOut'
  <2> SUFFICES ASSUME NEW x \in Task, NEW v \in Member,
                      v \in left'[x], task[x].st = "live", ~overtaken[x]
               PROVE  /\ task'[x].part[v] = "no"
                      /\ task[x].sch # None /\ sched'[task[x].sch].st = "live"
                           => sched'[task[x].sch].cfg[v] = "no"
    BY <1>3, <1>4 DEF LeaversStayOut, Live
  <2>1. v \in left[x] /\ v \in User /\ task[x].sch \in Sched \cup {None}
    BY <1>1, <1>6, MembersOnly DEF TaskRow
  <2>2. task[x].part[v] = "no" /\ (Live(task[x].sch) => sched[task[x].sch].cfg[v] = "no")
    BY <2>1 DEF LInv, LeaversStayOut
  <2>3. task'[x].part[v] = "no"
    BY <1>4, <1>6, <2>1, <2>2
  <2>4. ASSUME task[x].sch # None, sched'[task[x].sch].st = "live"
        PROVE  sched'[task[x].sch].cfg[v] = "no"
    <3>1. sched[task[x].sch].cfg[v] = "no"
      BY <1>5, <2>1, <2>2, <2>4 DEF Live
    <3>2. ~(new /\ Live(s) /\ task[x].sch = s /\ v = u)
      BY <1>6
    <3> QED
      BY <1>5, <2>1, <2>4, <3>1, <3>2
  <2> QED
    BY <2>3, <2>4
<1>8. RosterRead'
  BY <1>3, <1>6, DoneRead DEF LInv
<1>9. BoundExists'
  BY <1>4, <1>5, ExistsKept DEF LInv, SameBinding
<1> QED
  BY <1>7, <1>8, <1>9 DEF LInv

\* A deletion leaves fewer tasks and schedules.
LEMMA DeletesLeft ==
  ASSUME TypeOK, TypeOK', LInv,
         NEW gone \in SUBSET Task, task' = Deleted(gone),
         sched' = sched \/ \E s \in Sched : sched' = [sched EXCEPT ![s].st = "deleted"],
         UNCHANGED <<left, overtaken>>, req' = req \/ \E c \in Client : Done(c)
  PROVE  LInv'
<1>1. /\ sched \in [Sched -> SchedRow] /\ task \in [Task -> TaskRow]
  BY DEF TypeOK
<1>2. \A x \in Task : /\ task'[x].sch = task[x].sch
                      /\ x \notin gone => task'[x] = task[x]
                      /\ x \in gone => task'[x].st = "deleted"
  <2>1. \A x \in Task : x \in gone => task'[x].st = "deleted"
    BY <1>1 DEF Deleted, TaskRow
  <2> QED
    BY <1>1, <2>1, DeletedType
<1>3. \A x \in Sched : sched'[x] = sched[x] \/ sched'[x].st = "deleted"
  BY <1>1, DroppedType
<1>4. LeaversStayOut'
  BY <1>2, <1>3, NarrowedKept DEF LInv, Narrowed
<1>5. BoundExists'
  BY <1>2, <1>3 DEF LInv, BoundExists
<1>6. RosterRead'
  <2>1. CASE req' = req
    BY <2>1 DEF LInv, RosterRead, Roster
  <2>2. CASE \E c \in Client : Done(c)
    BY <2>2, DoneRead DEF LInv
  <2> QED
    BY <2>1, <2>2
<1> QED
  BY <1>4, <1>5, <1>6 DEF LInv

\* Confirming, resuming and pausing bring nobody in.
LEMMA ConsentLeft ==
  ASSUME TypeOK, TypeOK', LInv, NEW s \in Sched,
         (\E u \in User : ConfirmSchedule(s, u)) \/ Resume(s) \/ Pause(s)
  PROVE  LInv'
<1>1. sched \in [Sched -> SchedRow] /\ sched[s] \in SchedRow /\ now \in 0 .. MaxNow
  BY DEF TypeOK
<1>2. UNCHANGED <<task, req, left, overtaken>>
  BY Zenon DEF ConfirmSchedule, Resume, Pause, history
<1>3. PICK row :
        /\ sched' = [sched EXCEPT ![s] = row]
        /\ row.st = sched[s].st
        /\ \A v \in Member : sched[s].cfg[v] = "no" => row.cfg[v] = "no"
  <2>1. ASSUME NEW u \in User, ConfirmSchedule(s, u)
        PROVE  \E row :
                 /\ sched' = [sched EXCEPT ![s] = row]
                 /\ row.st = sched[s].st
                 /\ \A v \in Member : sched[s].cfg[v] = "no" => row.cfg[v] = "no"
    <3> DEFINE cfg == [sched[s].cfg EXCEPT ![u] = "yes"]
               row == [sched[s] EXCEPT !.cfg = cfg]
    <3>1. sched' = [sched EXCEPT ![s] = row] /\ u \in Effective(sched[s].cfg)
      BY <1>1, <2>1 DEF ConfirmSchedule
    <3>2. sched[s].cfg \in [User -> Consent]
      BY <1>1 DEF SchedRow
    <3>3. \A v \in Member : sched[s].cfg[v] = "no" => cfg[v] = "no"
      BY <3>1, <3>2, MembersOnly, EffectiveNames
    <3> HIDE DEF cfg
    <3>4. row.st = sched[s].st /\ row.cfg = cfg
      BY <1>1 DEF SchedRow
    <3> HIDE DEF row
    <3> QED
      BY <3>1, <3>3, <3>4
  <2>2. CASE Resume(s)
    <3> DEFINE cfg == IF sched[s].auto THEN sched[s].cfg ELSE AskAgain(sched[s].cfg)
               row == Resumed(sched[s])
    <3>1. sched' = [sched EXCEPT ![s] = row]
      BY <2>2, Zenon DEF Resume
    <3>2. \A v \in Member : sched[s].cfg[v] = "no" => cfg[v] = "no"
      <4>1. \A v \in Member : sched[s].cfg[v] = "no" => v \notin Effective(sched[s].cfg)
        BY MembersOnly, EffectiveNames
      <4> QED
        BY <4>1, MembersOnly, AskNames DEF AskAgain
    <3>3. row.st = sched[s].st /\ row.cfg = cfg
      BY <1>1 DEF SchedRow, Resumed
    <3> HIDE DEF cfg, row
    <3> QED
      BY <3>1, <3>2, <3>3
  <2>3. CASE Pause(s)
    <3> DEFINE row == [sched[s] EXCEPT !.active = FALSE]
    <3>1. sched' = [sched EXCEPT ![s] = row]
      BY <1>1, <2>3 DEF Pause
    <3>2. row.st = sched[s].st /\ row.cfg = sched[s].cfg
      BY <1>1, PausedType
    <3> HIDE DEF row
    <3> QED
      BY <3>1, <3>2
  <2> QED
    BY <2>1, <2>2, <2>3
<1>4. sched'[s] = row /\ \A x \in Sched : x # s => sched'[x] = sched[x]
  BY <1>1, <1>3
<1>5. LeaversStayOut'
  <2>1. Narrowed
    BY <1>2, <1>3, <1>4 DEF Narrowed
  <2> QED
    BY <1>2, <2>1, NarrowedKept DEF LInv
<1>6. RosterRead'
  BY <1>2 DEF LInv, RosterRead, Roster
<1>7. BoundExists'
  <2>1. SameBinding
    BY <1>2, <1>3, <1>4 DEF SameBinding
  <2> QED
    BY <2>1, ExistsKept DEF LInv
<1> QED
  BY <1>5, <1>6, <1>7 DEF LInv

LEMMA InitLeft == Init => LInv
<1> SUFFICES ASSUME Init PROVE LInv
  OBVIOUS
<1>1. LeaversStayOut /\ RosterRead
  BY DEF Init, LeaversStayOut, RosterRead, NoRequest
<1>2. BoundExists
  <2>1. PICK live \in {{u \in Task : u <= t} : t \in Task}, member \in [Task -> SUBSET Member],
             sch \in [Task -> Sched \cup {None}], auto \in BOOLEAN :
          /\ \A t \in Task : IF t \in live THEN live = Task => sch[t] # None
                            ELSE sch[t] = None /\ member[t] = {}
          /\ \A t, v \in Task : t # v /\ sch[t] # None => sch[t] # sch[v]
          /\ task = [t \in Task |->
               IF t \notin live THEN NoTask
               ELSE [st |-> "live", sch |-> sch[t], status |-> "Completed",
                     part |-> [u \in User |-> IF u \in member[t] \cup {Creator}
                                              THEN "Accepted" ELSE "no"]]]
          /\ sched = [s \in Sched |->
               IF \A t \in live : sch[t] # s THEN NoSched
               ELSE [st |-> "live", active |-> TRUE, auto |-> auto, next |-> 1,
                     cfg |-> Ask({Creator} \cup UNION {member[t] : t \in {t \in live : sch[t] = s}})]]
          /\ requests = Cardinality({t \in live : sch[t] # None}) /\ requests <= MaxRequests
    BY Zenon DEF Init
  <2>2. ASSUME NEW t \in Task, task[t].sch \in Sched
        PROVE  sched[task[t].sch].st # "none"
    <3>1. t \in live /\ sch[t] = task[t].sch
      <4>1. task[t].sch = IF t \in live THEN sch[t] ELSE None
        BY <2>1 DEF NoTask
      <4> QED
        BY <2>2, <4>1, NotASchedule
    <3> DEFINE us == {Creator} \cup UNION {member[x] : x \in {x \in live : sch[x] = sch[t]}}
    <3>2. sched[sch[t]] = [st |-> "live", active |-> TRUE, auto |-> auto, next |-> 1, cfg |-> Ask(us)]
      BY <2>1, <2>2, <3>1, Zenon
    <3> HIDE DEF us
    <3> QED
      BY <3>1, <3>2
  <2> QED
    BY <2>2 DEF BoundExists
<1> QED
  BY <1>1, <1>2 DEF LInv

LEMMA NextLeft == TypeOK /\ TypeOK' /\ LInv /\ [Next]_vars => LInv'
<1> SUFFICES ASSUME TypeOK, TypeOK', LInv, [Next]_vars PROVE LInv'
  OBVIOUS
<1>1. CASE \/ Tick
           \/ \E w \in Scanner : ScanLists(w)
           \/ \E w \in Scanner, s \in Sched, n \in Instant : ClaimFails(w, s, n)
           \/ \E c \in Client : Refuse(c)
  <2>1. UNCHANGED <<tableVars, history>> /\ (req' = req \/ \E c \in Client : Done(c))
    BY <1>1, Zenon DEF Tick, ScanLists, ClaimFails, Refuse
  <2> QED
    BY <2>1, ListsLeft
<1>2. CASE \E w \in Scanner, s \in Sched, n \in Instant : ClaimDue(w, s, n)
  BY <1>2, ClaimLeft
<1>3. CASE \E t \in Task : RunEnds(t)
  BY <1>3, RunEndsLeft
<1>4. ASSUME NEW c \in Client, NEW t \in Task,
             \/ BeginCreate(c, t) \/ BeginDelete(c, t)
             \/ \E s \in Sched : BeginUpdate(c, t, s)
             \/ \E u \in Member : BeginLeave(c, t, u) \/ BeginAdd(c, t, u)
      PROVE  LInv'
  <2>1. Creator \in User /\ Member \subseteq User
    BY DEF User
  <2>2. PICK op \in RequestKind, s \in Sched \cup {None}, u \in User : Begin(c, op, t, s, u)
    BY <1>4, <2>1, Zenon DEF BeginCreate, BeginDelete, BeginUpdate, BeginLeave, BeginAdd, RequestKind
  <2> QED
    BY <2>2, BeginLeft
<1>5. ASSUME NEW c \in Client, Commit(c) PROVE LInv'
  <2>1. CASE DeleteSummary(c)
    <3> DEFINE s == req[c].peek
               gone == IF Live(s) THEN Bound(s) ELSE {req[c].t}
    <3>1. /\ task' = Deleted(gone)
          /\ sched' = IF Live(s) THEN [sched EXCEPT ![s].st = "deleted"] ELSE sched
          /\ Done(c) /\ UNCHANGED <<left, overtaken>>
      BY <2>1, Zenon DEF DeleteSummary, history
    <3>2. req[c].op # "free"
      BY <2>1 DEF DeleteSummary
    <3>3. gone \in SUBSET Task /\ (Live(s) => s \in Sched)
      BY <3>2, InFlight DEF Request, Bound, Live
    <3> HIDE DEF s, gone
    <3> QED
      BY <3>1, <3>3, DeletesLeft
  <2> QED
    BY <1>5, <2>1, CreateLeft, UpdateLeft, LeaveLeft, AddLeft DEF Commit
<1>6. CASE \/ \E s \in Sched, u \in User : ConfirmSchedule(s, u)
           \/ \E s \in Sched : Resume(s) \/ Pause(s)
  BY <1>6, ConsentLeft
<1>7. ASSUME NEW s \in Sched, DeleteSchedule(s) PROVE LInv'
  <2>1. /\ task' = Deleted(Bound(s)) /\ sched' = [sched EXCEPT ![s].st = "deleted"]
        /\ UNCHANGED <<req, left, overtaken>>
    BY <1>7, Zenon DEF DeleteSchedule, history
  <2>2. Bound(s) \in SUBSET Task
    BY DEF Bound
  <2> QED
    BY <2>1, <2>2, DeletesLeft
<1>8. CASE UNCHANGED vars
  <2>1. UNCHANGED <<tableVars, history>> /\ req' = req
    BY <1>8, Zenon DEF vars
  <2> QED
    BY <2>1, ListsLeft
<1> QED
  BY <1>1, <1>2, <1>3, <1>4, <1>5, <1>6, <1>7, <1>8 DEF Next

-----------------------------------------------------------------------------
(* The theorems                                                            *)

LEMMA NextInv == IInv /\ [Next]_vars => IInv'
<1> SUFFICES ASSUME IInv, [Next]_vars PROVE IInv'
  OBVIOUS
<1>1. CASE \/ Tick
           \/ \E w \in Scanner : ScanLists(w)
           \/ \E w \in Scanner, s \in Sched, n \in Instant : ClaimFails(w, s, n)
           \/ \E c \in Client : Refuse(c)
  BY <1>1, ListsInv
<1>2. CASE \E w \in Scanner, s \in Sched, n \in Instant : ClaimDue(w, s, n)
  BY <1>2, ClaimInv
<1>3. CASE \E t \in Task : RunEnds(t)
  BY <1>3, RunEndsInv
<1>4. ASSUME NEW c \in Client, NEW t \in Task,
             \/ BeginCreate(c, t) \/ BeginDelete(c, t)
             \/ \E s \in Sched : BeginUpdate(c, t, s)
             \/ \E u \in Member : BeginLeave(c, t, u) \/ BeginAdd(c, t, u)
      PROVE  IInv'
  <2>1. Creator \in User /\ Member \subseteq User
    BY DEF User
  <2>2. PICK op \in RequestKind, s \in Sched \cup {None}, u \in User : Begin(c, op, t, s, u)
    BY <1>4, <2>1, Zenon DEF BeginCreate, BeginDelete, BeginUpdate, BeginLeave, BeginAdd, RequestKind
  <2> QED
    BY <2>2, BeginInv
<1>5. CASE \E c \in Client : Commit(c)
  BY <1>5, CreateInv, UpdateInv, LeaveInv, AddInv, DeleteSummaryInv DEF Commit
<1>6. CASE \/ \E s \in Sched, u \in User : ConfirmSchedule(s, u)
           \/ \E s \in Sched : Resume(s) \/ Pause(s)
  BY <1>6, ConsentInv
<1>7. CASE \E s \in Sched : DeleteSchedule(s)
  BY <1>7, DeleteScheduleInv
<1>8. CASE UNCHANGED vars
  <2>1. UNCHANGED <<tableVars, now, scan, req, requests, history>>
    BY <1>8, Zenon DEF vars
  <2>2. TypeOK'
    BY <2>1 DEF IInv, TypeOK, tableVars, history
  <2> QED
    BY <2>1, <2>2, RowsKept DEF IInv, TypeOK, Clocks
<1> QED
  BY <1>1, <1>2, <1>3, <1>4, <1>5, <1>6, <1>7, <1>8 DEF Next

\* The invariant holds in every reachable state, for any number of schedules, tasks,
\* members, scans and requests.
THEOREM Invariance == Spec => []IInv
BY InitInv, NextInv, PTL DEF Spec

\* Every variable keeps its shape.
THEOREM TypeCorrect == Spec => []TypeOK
<1>1. IInv => TypeOK
  BY DEF IInv
<1> QED
  BY Invariance, <1>1, PTL

\* One instant of one schedule starts one round: the claim compares the row it has locked
\* with its list (scheduler.go:78-104) and moves it on.
THEOREM RoundsAreUnique == Spec => []OncePerInstant
<1>1. IInv => OncePerInstant
  BY DEF IInv
<1> QED
  BY Invariance, <1>1, PTL

\* A live schedule has a live task, however creations, take-overs and deletions interleave:
\* each reads the binding again under its locks (schedule.go:1289-1299).
THEOREM SchedulesHaveTasks == Spec => []NoOrphanSchedule
<1>1. IInv => NoOrphanSchedule
  BY DEF IInv
<1> QED
  BY Invariance, <1>1, PTL

\* What a schedule holds for confirmed is what was confirmed since it last asked: an update
\* merges with the stored configuration and not with the one it read (schedule.go:1482-1495).
THEOREM ConsentIsKept == Spec => []ConfirmationsCount
<1>1. IInv => ConfirmationsCount
  BY DEF IInv, Confirmations, ConfirmationsCount, Live
<1> QED
  BY Invariance, <1>1, PTL

\* Who has left is in no row and in no configuration that a round would materialise
\* (personal.go:1724-1726), unless a request in flight had read the roster before the
\* departure: what requests read (RosterRead) is what makes it inductive.
THEOREM LeaversAreOut == Spec => []LeaversStayOut
<1>1. LInv => LeaversStayOut
  BY DEF LInv
<1> QED
  BY TypeCorrect, InitLeft, NextLeft, <1>1, PTL DEF Spec

HIDE ConstantsAssumption DEF ConstantsAssumption

-----------------------------------------------------------------------------
(* Recurrence: the calendar, the steps of a cadence, then the loop that    *)
(* takes them, the invariant of CadenceSpec and its three properties.      *)

-----------------------------------------------------------------------------
(* Instants and days                                                       *)

LEMMA Instants ==
  ASSUME NEW t \in Nat
  PROVE  Day(t) \in Nat /\ Slot(t) \in 0 .. Slots - 1 /\ t = Day(t) * Slots + Slot(t)
BY CalendarAssumption DEF CalendarAssumption, Day, Slot

LEMMA InstantOf ==
  ASSUME NEW d \in Nat, NEW s \in 0 .. Slots - 1
  PROVE  /\ d * Slots + s \in Nat
         /\ Day(d * Slots + s) = d /\ Slot(d * Slots + s) = s
BY CalendarAssumption DEF CalendarAssumption, Day, Slot

\* Instants are ordered by their days, then by their slots.
LEMMA Earlier ==
  ASSUME NEW t \in Nat, NEW u \in Nat
  PROVE  /\ Day(t) < Day(u) => t < u
         /\ Day(t) = Day(u) /\ Slot(t) < Slot(u) => t < u
         /\ Day(t) = Day(u) /\ Slot(t) = Slot(u) => t = u
         /\ t <= u => Day(t) <= Day(u)
<1> DEFINE a == Day(t)  b == Day(u)  p == Slot(t)  q == Slot(u)
<1>1. /\ a \in Nat /\ b \in Nat /\ p \in 0 .. Slots - 1 /\ q \in 0 .. Slots - 1
      /\ t = a * Slots + p /\ u = b * Slots + q
  BY Instants
<1>2. ASSUME NEW x \in Nat, NEW y \in Nat, x < y
      PROVE  x * Slots + Slots <= y * Slots
  <2>1. PICK k \in Nat : y = x + 1 + k
    <3>1. y - x - 1 \in Nat /\ y = x + 1 + (y - x - 1)
      BY <1>2
    <3> QED BY <3>1
  <2> QED
    BY <2>1, CalendarAssumption DEF CalendarAssumption
<1>3. Slots \in Nat /\ a * Slots \in Nat /\ b * Slots \in Nat
  <2>1. Slots \in Nat
    BY CalendarAssumption DEF CalendarAssumption
  <2>2. \A x \in Nat : x * Slots \in Nat
    BY <2>1
  <2> HIDE DEF a, b
  <2> QED
    BY <1>1, <2>1, <2>2
<1>4. a < b => a * Slots + Slots <= b * Slots
  BY <1>1, <1>2
<1>5. b < a => b * Slots + Slots <= a * Slots
  BY <1>1, <1>2
<1>6. a = b => a * Slots = b * Slots
  OBVIOUS
<1> HIDE DEF a, b, p, q
<1>7. /\ a < b => t < u
      /\ a = b /\ p < q => t < u
      /\ a = b /\ p = q => t = u
      /\ t <= u => a <= b
  BY <1>1, <1>3, <1>4, <1>5, <1>6
<1> QED
  BY <1>7 DEF a, b, p, q

\* Days pass and the time of day stays.
LEMMA DaysLater ==
  ASSUME NEW t \in Nat, NEW n \in Nat
  PROVE  /\ t + n * Slots \in Nat
         /\ Day(t + n * Slots) = Day(t) + n /\ Slot(t + n * Slots) = Slot(t)
<1>1. Day(t) \in Nat /\ Slot(t) \in 0 .. Slots - 1 /\ t = Day(t) * Slots + Slot(t)
  BY Instants
<1>2. PICK d \in Nat, s \in 0 .. Slots - 1 : d = Day(t) /\ s = Slot(t) /\ t = d * Slots + s
  BY <1>1
<1>3. t + n * Slots = (d + n) * Slots + s
  BY <1>2, CalendarAssumption DEF CalendarAssumption
<1>4. d + n \in Nat
  OBVIOUS
<1> QED
  BY <1>2, <1>3, <1>4, InstantOf

-----------------------------------------------------------------------------
(* The calendar                                                            *)

\* Induction, for one set at a time.
LEMMA UpTo ==
  ASSUME NEW S, 0 \in S, \A n \in Nat : n \in S => n + 1 \in S
  PROVE  Nat \subseteq S
<1> DEFINE T == Nat \ S
<1>1. SUFFICES ASSUME T # {} PROVE FALSE
  OBVIOUS
<1>2. PICK n \in T : \A m \in T : <<m, n>> \notin OpToRel(<, Nat)
  <2> HIDE DEF T
  <2>1. T \subseteq Nat
    BY DEF T
  <2> QED
    BY <1>1, <2>1, NatLessThanWellFounded, WFMin
<1>3. n \in Nat /\ n # 0 /\ n - 1 \in Nat /\ n - 1 < n /\ (n - 1) + 1 = n
  OBVIOUS
<1>4. n - 1 \notin T
  BY <1>2, <1>3 DEF OpToRel
<1> QED
  BY <1>3, <1>4

\* First is what its definition says.
LEMMA FirstExists ==
  ASSUME NEW len \in Nat
  PROVE  \E f : f = [m \in 1 .. len + 1 |-> IF m = 1 THEN 0 ELSE f[m - 1] + MonthLen[m - 1]]
<1> DEFINE Body(f, m) == IF m = 1 THEN 0 ELSE f[m - 1] + MonthLen[m - 1]
           S == {n \in Nat : \E f : f = [m \in 1 .. n + 1 |-> Body(f, m)]}
<1>1. 0 \in S
  <2>1. [m \in 1 .. 0 + 1 |-> 0] = [m \in 1 .. 0 + 1 |-> Body([k \in 1 .. 0 + 1 |-> 0], m)]
    OBVIOUS
  <2> QED
    BY <2>1
<1>2. ASSUME NEW n \in Nat, n \in S
      PROVE  n + 1 \in S
  <2>1. PICK f : f = [m \in 1 .. n + 1 |-> Body(f, m)]
    BY <1>2
  <2> DEFINE g == [m \in 1 .. (n + 1) + 1 |-> IF m = (n + 1) + 1 THEN f[n + 1] + MonthLen[n + 1]
                                              ELSE f[m]]
  <2>2. ASSUME NEW m \in 1 .. (n + 1) + 1
        PROVE  g[m] = Body(g, m)
    <3>1. CASE m = (n + 1) + 1
      BY <3>1
    <3>2. CASE m # (n + 1) + 1
      <4>1. m \in 1 .. n + 1 /\ (m # 1 => m - 1 \in 1 .. n + 1 /\ m - 1 # (n + 1) + 1)
        BY <3>2
      <4>2. f[m] = Body(f, m)
        BY <2>1, <4>1
      <4>3. g[m] = f[m] /\ (m # 1 => g[m - 1] = f[m - 1])
        BY <3>2, <4>1
      <4> QED
        BY <4>2, <4>3
    <3> QED
      BY <3>1, <3>2
  <2>3. g = [m \in 1 .. (n + 1) + 1 |-> Body(g, m)]
    BY <2>2
  <2> HIDE DEF g, Body
  <2> QED
    BY <2>3
<1>3. len \in S
  <2> HIDE DEF S
  <2> QED
    BY <1>1, <1>2, UpTo
<1> QED
  BY <1>3

LEMMA FirstUnfolds ==
  First = [m \in 1 .. Len(MonthLen) + 1 |-> IF m = 1 THEN 0 ELSE First[m - 1] + MonthLen[m - 1]]
<1>1. Len(MonthLen) \in Nat
  BY CalendarAssumption DEF CalendarAssumption
<1> QED
  BY <1>1, FirstExists DEF First

LEMMA Calendar ==
  /\ Len(MonthLen) \in Nat
  /\ \A m \in Months : m \in Nat /\ m + 1 \in Nat /\ MonthLen[m] \in 28 .. 31
  /\ \A m \in 1 .. Len(MonthLen) + 1 : First[m] \in Nat
  /\ \A m \in Months : First[m + 1] = First[m] + MonthLen[m]
<1>1. Len(MonthLen) \in Nat /\ \A m \in Months : MonthLen[m] \in 28 .. 31
  BY CalendarAssumption DEF CalendarAssumption, Months
<1>2. \A m \in Months : /\ m + 1 \in 1 .. Len(MonthLen) + 1 /\ m + 1 # 1 /\ (m + 1) - 1 = m
                        /\ m \in 1 .. Len(MonthLen) + 1
  BY <1>1 DEF Months
<1>3. \A m \in Months : First[m + 1] = First[m] + MonthLen[m]
  BY <1>2, FirstUnfolds
<1> DEFINE S == {n \in Nat : n + 1 \in 1 .. Len(MonthLen) + 1 => First[n + 1] \in Nat}
<1>4. 0 \in S
  <2>1. 1 \in 1 .. Len(MonthLen) + 1
    BY <1>1
  <2>2. First[1] = 0
    BY <2>1, FirstUnfolds
  <2> QED
    BY <2>2
<1>5. ASSUME NEW n \in Nat, n \in S
      PROVE  n + 1 \in S
  <2>1. CASE (n + 1) + 1 \in 1 .. Len(MonthLen) + 1
    <3>1. n + 1 \in Months /\ n + 1 \in 1 .. Len(MonthLen) + 1
      BY <2>1, <1>1 DEF Months
    <3>2. First[n + 1] \in Nat /\ First[(n + 1) + 1] = First[n + 1] + MonthLen[n + 1]
      BY <3>1, <1>5, <1>3
    <3> QED
      BY <3>1, <3>2, <1>1
  <2>2. CASE ~ ((n + 1) + 1 \in 1 .. Len(MonthLen) + 1)
    BY <2>2
  <2> QED
    BY <2>1, <2>2
<1>6. Nat \subseteq S
  <2> HIDE DEF S
  <2> QED
    BY <1>4, <1>5, UpTo
<1>7. ASSUME NEW m \in 1 .. Len(MonthLen) + 1
      PROVE  First[m] \in Nat
  <2>1. m - 1 \in Nat /\ (m - 1) + 1 = m
    BY <1>1
  <2>2. m - 1 \in S
    BY <2>1, <1>6
  <2> QED
    BY <2>1, <2>2
<1>8. \A m \in Months : m \in Nat /\ m + 1 \in Nat
  BY <1>1 DEF Months
<1> HIDE DEF S
<1> QED
  BY <1>1, <1>3, <1>7, <1>8

\* A later month begins after the end of an earlier one.
LEMMA LaterMonth ==
  ASSUME NEW m \in Months, NEW n \in 1 .. Len(MonthLen) + 1, m < n
  PROVE  First[m + 1] <= First[n]
<1> DEFINE S == {k \in Nat : m + 1 + k \in 1 .. Len(MonthLen) + 1 => First[m + 1] <= First[m + 1 + k]}
<1>1. m \in Nat /\ m + 1 \in 1 .. Len(MonthLen) + 1 /\ First[m + 1] \in Nat /\ m + 1 + 0 = m + 1
  BY Calendar DEF Months
<1>2. 0 \in S
  BY <1>1
<1>3. ASSUME NEW k \in Nat, k \in S
      PROVE  k + 1 \in S
  <2>1. CASE m + 1 + (k + 1) \in 1 .. Len(MonthLen) + 1
    <3>1. m + 1 + k \in Months /\ m + 1 + k \in 1 .. Len(MonthLen) + 1
          /\ (m + 1 + k) + 1 = m + 1 + (k + 1)
      BY <1>1, <2>1, Calendar DEF Months
    <3>2. First[m + 1 + (k + 1)] = First[m + 1 + k] + MonthLen[m + 1 + k]
      BY <3>1, Calendar
    <3>3. First[m + 1] <= First[m + 1 + k]
      BY <3>1, <1>3
    <3>4. First[m + 1 + k] \in Nat /\ MonthLen[m + 1 + k] \in 28 .. 31
      BY <3>1, Calendar
    <3> QED
      BY <1>1, <3>2, <3>3, <3>4
  <2>2. CASE ~ (m + 1 + (k + 1) \in 1 .. Len(MonthLen) + 1)
    BY <2>2
  <2> QED
    BY <2>1, <2>2
<1>4. Nat \subseteq S
  <2> HIDE DEF S
  <2> QED
    BY <1>2, <1>3, UpTo
<1>5. n - (m + 1) \in Nat /\ m + 1 + (n - (m + 1)) = n
  BY <1>1, Calendar
<1> QED
  BY <1>4, <1>5

\* The month of an instant is the one its day lies in.
LEMMA MonthIs ==
  ASSUME NEW t, NEW m \in Months, First[m] <= Day(t), Day(t) < First[m + 1], Day(t) \in Nat
  PROVE  MonthOf(t) = m
<1>1. ASSUME NEW n \in Months, First[n] <= Day(t), Day(t) < First[n + 1]
      PROVE  n = m
  <2>1. /\ m \in Nat /\ n \in Nat
        /\ m \in 1 .. Len(MonthLen) + 1 /\ n \in 1 .. Len(MonthLen) + 1
        /\ First[m] \in Nat /\ First[n] \in Nat /\ First[m + 1] \in Nat /\ First[n + 1] \in Nat
    BY Calendar DEF Months
  <2>2. ~ (m < n)
    BY <1>1, <2>1, LaterMonth
  <2>3. ~ (n < m)
    BY <1>1, <2>1, LaterMonth
  <2> QED
    BY <2>1, <2>2, <2>3
<1> QED
  BY <1>1 DEF MonthOf

\* The instants whose month is in the calendar.
Charted == {t \in Nat : \E m \in Months : Day(t) < First[m + 1]}

LEMMA MonthOfCharted ==
  ASSUME NEW t \in Charted
  PROVE  /\ t \in Nat /\ MonthOf(t) \in Months
         /\ First[MonthOf(t)] <= Day(t) /\ Day(t) < First[MonthOf(t) + 1]
<1>1. t \in Nat /\ Day(t) \in Nat
  BY Instants DEF Charted
<1> DEFINE T == {m \in Nat : m \in Months /\ Day(t) < First[m + 1]}
<1>2. T \subseteq Nat /\ T # {}
  BY Calendar DEF Charted
<1>3. PICK m \in T : \A k \in T : <<k, m>> \notin OpToRel(<, Nat)
  <2> HIDE DEF T
  <2> QED
    BY <1>2, NatLessThanWellFounded, WFMin
<1>4. m \in Months /\ m \in Nat /\ Day(t) < First[m + 1]
  BY <1>3
<1>5. First[m] <= Day(t)
  <2>1. CASE m = 1
    <3>1. 1 \in 1 .. Len(MonthLen) + 1
      BY Calendar
    <3> QED
      BY <2>1, <3>1, <1>1, FirstUnfolds
  <2>2. CASE m # 1
    <3>1. m - 1 \in Months /\ m - 1 \in Nat /\ m - 1 < m /\ (m - 1) + 1 = m /\ First[m] \in Nat
      BY <2>2, <1>4, Calendar DEF Months
    <3>2. m - 1 \notin T
      BY <1>3, <3>1 DEF OpToRel
    <3> QED
      BY <1>1, <3>1, <3>2
  <2> QED
    BY <2>1, <2>2
<1>6. MonthOf(t) = m
  BY <1>1, <1>4, <1>5, MonthIs
<1> QED
  BY <1>1, <1>4, <1>5, <1>6

SlotSet == 0 .. Slots - 1

\* What the arithmetic needs of a cadence: it may be a row, or what a request says.
Fielded(c) == /\ c.days \in Nat /\ c.months \in Nat
              /\ c.dow \in 0 .. 7 /\ c.dom \in 0 .. 31 /\ c.rt \in RunTime

LEMMA DayInMonth ==
  ASSUME NEW m \in Months, NEW dom \in 1 .. 31
  PROVE  /\ DayIn(m, dom) \in Nat
         /\ First[m] <= DayIn(m, dom) /\ DayIn(m, dom) < First[m + 1]
<1>1. m \in 1 .. Len(MonthLen) + 1
  BY Calendar DEF Months
<1>2. /\ First[m] \in Nat /\ First[m + 1] = First[m] + MonthLen[m] /\ MonthLen[m] \in 28 .. 31
  BY <1>1, Calendar
<1> QED
  BY <1>2 DEF DayIn

\* A day of a month, at a time of day.
LEMMA OnDay ==
  ASSUME NEW m \in Months, NEW dom \in 1 .. 31, NEW s \in SlotSet, NEW t,
         t = DayIn(m, dom) * Slots + s
  PROVE  /\ t \in Charted /\ Day(t) = DayIn(m, dom) /\ Slot(t) = s /\ MonthOf(t) = m
<1>1. /\ DayIn(m, dom) \in Nat
      /\ First[m] <= DayIn(m, dom) /\ DayIn(m, dom) < First[m + 1]
  BY DayInMonth
<1>2. t \in Nat /\ Day(t) = DayIn(m, dom) /\ Slot(t) = s
  BY <1>1, InstantOf DEF SlotSet
<1>3. MonthOf(t) = m
  BY <1>1, <1>2, MonthIs
<1> QED
  BY <1>1, <1>2, <1>3 DEF Charted

LEMMA DomType ==
  ASSUME NEW t \in Charted
  PROVE  Dom(t) \in 1 .. 31
<1>1. /\ MonthOf(t) \in Months /\ First[MonthOf(t)] <= Day(t) /\ Day(t) < First[MonthOf(t) + 1]
      /\ Day(t) \in Nat
  BY MonthOfCharted, Instants
<1>2. PICK m \in Months : m = MonthOf(t)
  BY <1>1
<1>3. m \in 1 .. Len(MonthLen) + 1
  BY Calendar DEF Months
<1>4. First[m] \in Nat /\ First[m + 1] = First[m] + MonthLen[m] /\ MonthLen[m] \in 28 .. 31
  BY <1>3, Calendar
<1>5. Dom(t) = Day(t) - First[m] + 1
  BY <1>2 DEF Dom
<1> QED
  BY <1>1, <1>2, <1>4, <1>5

LEMMA SlotsType ==
  /\ \A t \in Nat : Slot(t) \in SlotSet
  /\ SlotSet \subseteq Nat /\ Unset \notin SlotSet
  /\ RunTime = {Unset} \cup SlotSet
<1>1. \A t \in Nat : Slot(t) \in SlotSet
  BY Instants DEF SlotSet
<1>2. SlotSet \subseteq Nat /\ Unset \notin SlotSet
  BY CalendarAssumption DEF SlotSet, CalendarAssumption
<1>3. RunTime = {Unset} \cup SlotSet
  BY DEF RunTime, SlotSet
<1> QED
  BY <1>1, <1>2, <1>3

\* The time of day a run is given.
TimeOfDay(rt, t) == IF rt = Unset THEN Slot(t) ELSE rt

LEMMA TimeOfDayType ==
  ASSUME NEW rt \in RunTime, NEW t \in Nat
  PROVE  TimeOfDay(rt, t) \in SlotSet
BY SlotsType DEF TimeOfDay

LEMMA AtRunTime ==
  ASSUME NEW rt \in RunTime, NEW t \in Nat
  PROVE  /\ ApplyRunTime(t, rt) \in Nat
         /\ Day(ApplyRunTime(t, rt)) = Day(t)
         /\ Slot(ApplyRunTime(t, rt)) = TimeOfDay(rt, t)
<1>1. CASE rt = Unset
  BY <1>1 DEF ApplyRunTime, TimeOfDay
<1>2. CASE rt # Unset
  <2>1. rt \in 0 .. Slots - 1 /\ Day(t) \in Nat
    BY <1>2, Instants DEF RunTime
  <2> QED
    BY <1>2, <2>1, InstantOf DEF ApplyRunTime, TimeOfDay
<1> QED
  BY <1>1, <1>2

\* The same instants, with the time of day of one and the day of the other.
LEMMA ChartedDay ==
  ASSUME NEW t \in Charted, NEW u \in Nat, Day(u) = Day(t)
  PROVE  u \in Charted /\ MonthOf(u) = MonthOf(t)
BY DEF Charted, MonthOf

LEMMA AlignedInMonth ==
  ASSUME NEW t \in Charted, NEW dom \in 1 .. 31
  PROVE  /\ AlignDayOfMonth(t, dom) \in Charted
         /\ Day(AlignDayOfMonth(t, dom)) = DayIn(MonthOf(t), dom)
         /\ Slot(AlignDayOfMonth(t, dom)) = Slot(t)
         /\ MonthOf(AlignDayOfMonth(t, dom)) = MonthOf(t)
<1>1. MonthOf(t) \in Months /\ t \in Nat /\ Slot(t) \in SlotSet
  BY MonthOfCharted, SlotsType
<1>2. AlignDayOfMonth(t, dom) = DayIn(MonthOf(t), dom) * Slots + Slot(t)
  BY DEF AlignDayOfMonth
<1> QED
  BY <1>1, <1>2, OnDay, Zenon

\* u is on day dom of month m, at the wanted time.
OnDayOf(u, m, dom, slot) ==
  /\ u \in Charted /\ MonthOf(u) = m /\ Day(u) = DayIn(m, dom) /\ Slot(u) = slot

\* A month cadence moves by whole months, to its day and its time.
LEMMA MonthStep ==
  ASSUME NEW c, Fielded(c), c.months > 0, NEW t \in Charted,
         MonthOf(t) + c.months \in Months, NEW dom \in 1 .. 31
  PROVE  /\ OnDayOf(StepMonths(c, dom, t), MonthOf(t) + c.months, dom, TimeOfDay(c.rt, t))
         /\ OnDayOf(AlignDayOfMonth(ApplyRunTime(AddMonthsClamped(t, c.months), c.rt), dom),
                    MonthOf(t) + c.months, dom, TimeOfDay(c.rt, t))
<1>1. /\ MonthOf(t) \in Months /\ t \in Nat /\ Slot(t) \in SlotSet /\ Dom(t) \in 1 .. 31
      /\ c.rt \in RunTime
  BY MonthOfCharted, SlotsType, DomType DEF Fielded
<1>2. PICK n \in Months : n = MonthOf(t) + c.months
  OBVIOUS
<1>3. PICK a : a = AddMonthsClamped(t, c.months)
  OBVIOUS
<1>4. /\ a \in Charted /\ Slot(a) = Slot(t) /\ MonthOf(a) = n
  <2>1. a = DayIn(n, Dom(t)) * Slots + Slot(t)
    BY <1>2, <1>3 DEF AddMonthsClamped
  <2> QED
    BY <1>1, <2>1, OnDay
<1>5. a \in Nat
  BY <1>4 DEF Charted
<1>6. TimeOfDay(c.rt, a) = TimeOfDay(c.rt, t)
  BY <1>4 DEF TimeOfDay
<1>7. OnDayOf(StepMonths(c, dom, t), n, dom, TimeOfDay(c.rt, t))
  <2>1. PICK b : b = AlignDayOfMonth(a, dom)
    OBVIOUS
  <2>2. b \in Charted /\ Day(b) = DayIn(n, dom) /\ Slot(b) = Slot(a) /\ MonthOf(b) = n
    BY <1>4, <2>1, AlignedInMonth
  <2>3. b \in Nat /\ TimeOfDay(c.rt, b) = TimeOfDay(c.rt, t)
    BY <1>4, <2>2 DEF Charted, TimeOfDay
  <2>4. PICK u : u = ApplyRunTime(b, c.rt)
    OBVIOUS
  <2>5. u \in Nat /\ Day(u) = Day(b) /\ Slot(u) = TimeOfDay(c.rt, t)
    BY <1>1, <2>3, <2>4, AtRunTime
  <2>6. u \in Charted /\ MonthOf(u) = n
    BY <2>2, <2>5, ChartedDay
  <2>7. StepMonths(c, dom, t) = u
    BY <1>3, <2>1, <2>4 DEF StepMonths
  <2> QED
    BY <2>2, <2>5, <2>6, <2>7 DEF OnDayOf
<1>8. OnDayOf(AlignDayOfMonth(ApplyRunTime(a, c.rt), dom), n, dom, TimeOfDay(c.rt, t))
  <2>1. PICK b : b = ApplyRunTime(a, c.rt)
    OBVIOUS
  <2>2. b \in Nat /\ Day(b) = Day(a) /\ Slot(b) = TimeOfDay(c.rt, t)
    BY <1>1, <1>5, <1>6, <2>1, AtRunTime
  <2>3. b \in Charted /\ MonthOf(b) = n
    BY <1>4, <2>2, ChartedDay
  <2> QED
    BY <2>1, <2>2, <2>3, AlignedInMonth DEF OnDayOf
<1> QED
  BY <1>2, <1>3, <1>7, <1>8

\* This month's run of a month cadence.
LEMMA ThisMonth ==
  ASSUME NEW rt \in RunTime, NEW t \in Charted, NEW dom \in 1 .. 31
  PROVE  OnDayOf(AlignDayOfMonth(ApplyRunTime(t, rt), dom), MonthOf(t), dom, TimeOfDay(rt, t))
<1>1. t \in Nat
  BY DEF Charted
<1>2. PICK b : b = ApplyRunTime(t, rt)
  OBVIOUS
<1>3. b \in Nat /\ Day(b) = Day(t) /\ Slot(b) = TimeOfDay(rt, t)
  BY <1>1, <1>2, AtRunTime
<1>4. b \in Charted /\ MonthOf(b) = MonthOf(t)
  BY <1>3, ChartedDay
<1> QED
  BY <1>2, <1>3, <1>4, AlignedInMonth DEF OnDayOf

\* A later month is later.
LEMMA LaterMonthLater ==
  ASSUME NEW t \in Charted, NEW u \in Charted, MonthOf(t) < MonthOf(u)
  PROVE  t < u
<1>1. PICK m \in Months, n \in Months : m = MonthOf(t) /\ n = MonthOf(u) /\ m < n
  BY MonthOfCharted
<1>2. /\ Day(t) < First[m + 1] /\ First[n] <= Day(u) /\ Day(t) \in Nat /\ Day(u) \in Nat
      /\ t \in Nat /\ u \in Nat
  BY <1>1, MonthOfCharted, Instants
<1>3. n \in 1 .. Len(MonthLen) + 1 /\ m + 1 \in 1 .. Len(MonthLen) + 1
  BY Calendar DEF Months
<1>4. First[m + 1] <= First[n] /\ First[m + 1] \in Nat /\ First[n] \in Nat
  BY <1>1, <1>3, LaterMonth, Calendar
<1>5. Day(t) < Day(u)
  BY <1>2, <1>4
<1> QED
  BY <1>2, <1>5, Earlier

-----------------------------------------------------------------------------
(* Days and weeks                                                          *)

LEMMA Mod7 ==
  /\ \A x \in Nat : \E q \in Nat, e \in 0 .. 6 : x = 7 * q + e
  /\ \A q \in Nat, e \in 0 .. 6 : (7 * q + e) % 7 = e
<1>1. ASSUME NEW x \in Nat
      PROVE  \E q \in Nat, e \in 0 .. 6 : x = 7 * q + e
  <2>1. x \div 7 \in Nat /\ x % 7 \in 0 .. 6 /\ x = 7 * (x \div 7) + (x % 7)
    OBVIOUS
  <2> QED
    BY <2>1
<1>2. ASSUME NEW q \in Nat, NEW e \in 0 .. 6
      PROVE  (7 * q + e) % 7 = e
  OBVIOUS
<1> QED
  BY <1>1, <1>2

LEMMA DowType == ASSUME NEW t \in Nat PROVE Dow(t) \in 1 .. 7
<1>1. PICK d \in Nat, f \in 0 .. 6 : d = Day(t) /\ f = FirstDow
  BY Instants, CalendarAssumption DEF CalendarAssumption
<1>2. ((d + f) % 7) + 1 \in 1 .. 7
  OBVIOUS
<1> QED
  BY <1>1, <1>2 DEF Dow

\* Moving to a weekday moves less than a week, and not at all from that weekday.
LEMMA AlignedInWeek ==
  ASSUME NEW t \in Nat, NEW dow \in 0 .. 7
  PROVE  LET u == AlignDayOfWeek(t, dow)
         IN  /\ u \in Nat /\ Day(t) <= Day(u) /\ Slot(u) = Slot(t)
             /\ dow # 0 => Dow(u) = dow
             /\ dow = 0 \/ Dow(t) = dow => u = t
<1>1. CASE dow = 0
  <2>1. AlignDayOfWeek(t, dow) = t /\ Day(t) \in Nat
    BY <1>1, Instants DEF AlignDayOfWeek
  <2> QED
    BY <1>1, <2>1
<1>2. CASE dow # 0
  <2>1. PICK d \in Nat, f \in 0 .. 6 : d = Day(t) /\ f = FirstDow
    BY Instants, CalendarAssumption DEF CalendarAssumption
  <2>2. PICK k : k = (dow + 7 - Dow(t)) % 7
    OBVIOUS
  <2>3. Dow(t) = ((d + f) % 7) + 1 /\ Dow(t) \in 1 .. 7
    BY <2>1, DowType DEF Dow
  <2>4. k \in Nat /\ ((d + k + f) % 7) + 1 = dow /\ (Dow(t) = dow => k = 0)
    <3>1. PICK w \in 1 .. 7 : w = Dow(t)
      BY <2>3
    <3>2. PICK q \in Nat, e \in 0 .. 6 : d + f = 7 * q + e
      <4>1. d + f \in Nat
        OBVIOUS
      <4> QED
        BY <4>1, Mod7
    <3>3. w = e + 1
      BY <2>3, <3>1, <3>2, Mod7
    <3>4. CASE w <= dow
      <4>1. dow - w \in 0 .. 6 /\ dow + 7 - w = 7 * 1 + (dow - w)
        BY <1>2, <3>4
      <4>2. k = dow - w
        BY <2>2, <3>1, <4>1, Mod7
      <4>3. d + k + f = 7 * q + (dow - 1) /\ dow - 1 \in 0 .. 6
        BY <1>2, <3>2, <3>3, <4>2
      <4>4. (d + k + f) % 7 = dow - 1
        BY <4>3, Mod7
      <4>5. k \in Nat /\ (w = dow => k = 0) /\ (dow - 1) + 1 = dow
        BY <4>1, <4>2
      <4> QED
        BY <3>1, <4>4, <4>5, Zenon
    <3>5. CASE dow < w
      <4>1. dow + 7 - w \in 0 .. 6 /\ dow + 7 - w = 7 * 0 + (dow + 7 - w)
        BY <1>2, <3>5
      <4>2. k = dow + 7 - w
        BY <2>2, <3>1, <4>1, Mod7
      <4>3. d + k + f = 7 * (q + 1) + (dow - 1) /\ dow - 1 \in 0 .. 6 /\ q + 1 \in Nat
        BY <1>2, <3>2, <3>3, <4>2
      <4>4. (d + k + f) % 7 = dow - 1
        BY <4>3, Mod7
      <4>5. k \in Nat /\ (w = dow => k = 0) /\ (dow - 1) + 1 = dow
        BY <3>5, <4>1, <4>2
      <4> QED
        BY <3>1, <4>4, <4>5, Zenon
    <3> QED
      BY <3>4, <3>5
  <2>5. PICK u : u = t + k * Slots
    OBVIOUS
  <2>6. u \in Nat /\ Day(u) = d + k /\ Slot(u) = Slot(t)
    BY <2>1, <2>4, <2>5, DaysLater
  <2>7. Dow(u) = dow
    BY <2>1, <2>4, <2>6 DEF Dow
  <2>8. AlignDayOfWeek(t, dow) = u
    BY <1>2, <2>2, <2>5 DEF AlignDayOfWeek
  <2>9. Dow(t) = dow => u = t
    BY <2>4, <2>5, CalendarAssumption DEF CalendarAssumption
  <2>10. Day(t) <= Day(u)
    BY <2>1, <2>4, <2>6
  <2> QED
    BY <1>2, <2>6, <2>7, <2>8, <2>9, <2>10
<1> QED
  BY <1>1, <1>2

\* A time on the wanted weekday, if one is wanted, at the wanted time of day.
OnWeekday(c, u, slot) ==
  u \in Nat /\ Slot(u) = slot /\ (c.dow # 0 => Dow(u) = c.dow)

\* A day cadence moves at least its days, and just these when it is on its weekday.
LEMMA DayStep ==
  ASSUME NEW c, Fielded(c), Valid(c), c.months = 0, NEW t \in Nat
  PROVE  LET u == StepDays(c, t)
         IN  /\ OnWeekday(c, u, TimeOfDay(c.rt, t))
             /\ Day(t) + c.days <= Day(u)
             /\ c.dow = 0 \/ Dow(t) = c.dow => Day(u) = Day(t) + c.days
<1>1. /\ c.days \in Nat /\ c.dow \in 0 .. 7 /\ c.rt \in RunTime
      /\ c.days > 0 /\ (c.days % 7 # 0 => c.dow = 0)
  BY DEF Fielded, Valid, ValidInterval, ValidAnchors
<1>2. PICK a : a = AddDays(t, c.days)
  OBVIOUS
<1>3. a \in Nat /\ Day(a) = Day(t) + c.days /\ Slot(a) = Slot(t)
  BY <1>1, <1>2, DaysLater DEF AddDays
<1>4. PICK b : b = ApplyRunTime(a, c.rt)
  OBVIOUS
<1>5. b \in Nat /\ Day(b) = Day(t) + c.days /\ Slot(b) = TimeOfDay(c.rt, t)
  <2>1. TimeOfDay(c.rt, a) = TimeOfDay(c.rt, t)
    BY <1>3 DEF TimeOfDay
  <2> QED
    BY <1>1, <1>3, <1>4, <2>1, AtRunTime
<1>6. PICK d \in Nat : d = Day(t)
  BY Instants
<1>7. CASE c.days % 7 = 0
  <2>1. StepDays(c, t) = AlignDayOfWeek(b, c.dow)
    BY <1>2, <1>4, <1>7 DEF StepDays
  <2>2. PICK u : u = AlignDayOfWeek(b, c.dow)
    OBVIOUS
  <2>3. /\ u \in Nat /\ Day(b) <= Day(u) /\ Slot(u) = Slot(b)
        /\ (c.dow # 0 => Dow(u) = c.dow)
        /\ (c.dow = 0 \/ Dow(b) = c.dow => u = b)
    BY <1>1, <1>5, <2>2, AlignedInWeek
  <2>4. Dow(b) = Dow(t)
    <3>1. PICK n \in Nat, f \in 0 .. 6 : n = c.days /\ f = FirstDow
      BY <1>1, CalendarAssumption DEF CalendarAssumption
    <3>2. (d + n + f) % 7 = (d + f) % 7
      <4>1. PICK q \in Nat, e \in 0 .. 6 : n = 7 * q + e
        BY Mod7
      <4>2. e = 0
        BY <1>7, <3>1, <4>1, Mod7
      <4>3. PICK p \in Nat, g \in 0 .. 6 : d + f = 7 * p + g
        <5>1. d + f \in Nat
          OBVIOUS
        <5> QED
          BY <5>1, Mod7
      <4>4. d + n + f = 7 * (p + q) + g /\ p + q \in Nat
        BY <4>1, <4>2, <4>3
      <4> QED
        BY <4>3, <4>4, Mod7
    <3> QED
      BY <1>5, <1>6, <3>1, <3>2 DEF Dow
  <2>5. c.dow = 0 \/ Dow(t) = c.dow => Day(u) = Day(t) + c.days
    BY <1>5, <2>3, <2>4
  <2>6. Slot(u) = TimeOfDay(c.rt, t) /\ Day(t) + c.days <= Day(u)
    BY <1>5, <2>3
  <2> QED
    BY <2>1, <2>2, <2>3, <2>5, <2>6 DEF OnWeekday
<1>8. CASE c.days % 7 # 0
  <2>1. StepDays(c, t) = b /\ c.dow = 0
    BY <1>1, <1>2, <1>4, <1>8 DEF StepDays
  <2>2. Day(t) + c.days <= Day(b)
    BY <1>1, <1>5, <1>6
  <2> QED
    BY <1>5, <2>1, <2>2 DEF OnWeekday
<1> QED
  BY <1>7, <1>8

\* This week's run of a week cadence, today's of a day cadence.
LEMMA ThisWeek ==
  ASSUME NEW rt \in RunTime, NEW t \in Nat, NEW c, c.dow \in 0 .. 7
  PROVE  OnWeekday(c, AlignDayOfWeek(ApplyRunTime(t, rt), c.dow), TimeOfDay(rt, t))
<1>1. PICK b : b = ApplyRunTime(t, rt)
  OBVIOUS
<1>2. b \in Nat /\ Day(b) = Day(t) /\ Slot(b) = TimeOfDay(rt, t)
  BY <1>1, AtRunTime
<1>3. PICK u : u = AlignDayOfWeek(b, c.dow)
  OBVIOUS
<1>4. /\ u \in Nat /\ Slot(u) = Slot(b)
      /\ (c.dow # 0 => Dow(u) = c.dow)
  BY <1>2, <1>3, AlignedInWeek
<1> QED
  BY <1>1, <1>2, <1>3, <1>4 DEF OnWeekday

-----------------------------------------------------------------------------
(* Within the calendar                                                     *)

\* What has been reached by an instant of the clock leaves room for a step.
LEMMA Within ==
  ASSUME NEW t \in Nat, NEW u \in Clock, t <= u, NEW n \in Reach
  PROVE  t \in Charted /\ MonthOf(t) + n \in Months
<1>1. PICK m \in Months : m + n <= Len(MonthLen) /\ \A s \in Clock : Day(s) < First[m + 1]
  BY DEF Reach
<1>2. u \in Nat /\ Day(t) \in Nat /\ Day(u) \in Nat /\ Day(t) <= Day(u) /\ Day(u) < First[m + 1]
  <2>1. u \in Nat
    BY CalendarAssumption DEF CalendarAssumption
  <2> QED
    BY <1>1, <2>1, Instants, Earlier
<1>3. m \in Nat /\ m + 1 \in 1 .. Len(MonthLen) + 1 /\ n \in Nat /\ First[m + 1] \in Nat
  BY Calendar DEF Months, Reach
<1>4. Day(t) < First[m + 1]
  BY <1>2, <1>3
<1>5. t \in Charted
  BY <1>4 DEF Charted
<1>6. PICK k \in Months : k = MonthOf(t)
  BY <1>5, MonthOfCharted
<1>7. k <= m
  <2>1. SUFFICES ASSUME m < k PROVE FALSE
    BY <1>3, <1>6, Calendar
  <2>2. k \in 1 .. Len(MonthLen) + 1 /\ First[k] \in Nat
    BY Calendar DEF Months
  <2>3. First[m + 1] <= First[k]
    BY <2>1, <2>2, LaterMonth
  <2>4. First[k] <= Day(t)
    BY <1>5, <1>6, MonthOfCharted
  <2> QED
    BY <1>2, <1>3, <1>4, <2>2, <2>3, <2>4
<1>8. k + n \in Months
  BY <1>1, <1>3, <1>7, Calendar DEF Months
<1> QED
  BY <1>5, <1>6, <1>8

-----------------------------------------------------------------------------
(* The loop of NextRunScheduledAdvance                                     *)

\* The instants it visits.
Visits(c, target, from, at) ==
  at = [i \in 0 .. LastInstant |-> IF i = 0 THEN from ELSE StepOf(c, target, at[i - 1])]

LEMMA ClockEnds ==
  /\ LastInstant \in Clock /\ Clock \subseteq Nat
  /\ \A t \in Clock : t <= LastInstant
BY CalendarAssumption DEF CalendarAssumption, LastInstant

LEMMA VisitsExist ==
  ASSUME NEW c, NEW target, NEW from
  PROVE  \E at : Visits(c, target, from, at)
<1> DEFINE Body(f, i) == IF i = 0 THEN from ELSE StepOf(c, target, f[i - 1])
           S == {n \in Nat : \E f : f = [i \in 0 .. n |-> Body(f, i)]}
<1>1. 0 \in S
  <2>1. [i \in 0 .. 0 |-> from] = [i \in 0 .. 0 |-> Body([k \in 0 .. 0 |-> from], i)]
    OBVIOUS
  <2> QED
    BY <2>1
<1>2. ASSUME NEW n \in Nat, n \in S
      PROVE  n + 1 \in S
  <2>1. PICK f : f = [i \in 0 .. n |-> Body(f, i)]
    BY <1>2
  <2> DEFINE g == [i \in 0 .. n + 1 |-> IF i = n + 1 THEN StepOf(c, target, f[n]) ELSE f[i]]
  <2>2. ASSUME NEW i \in 0 .. n + 1
        PROVE  g[i] = Body(g, i)
    <3>1. CASE i = n + 1
      BY <3>1
    <3>2. CASE i # n + 1
      <4>1. i \in 0 .. n /\ (i # 0 => i - 1 \in 0 .. n /\ i - 1 # n + 1)
        BY <3>2
      <4>2. f[i] = Body(f, i)
        BY <2>1, <4>1
      <4>3. g[i] = f[i] /\ (i # 0 => g[i - 1] = f[i - 1])
        BY <3>2, <4>1
      <4> QED
        BY <4>2, <4>3
    <3> QED
      BY <3>1, <3>2
  <2>3. g = [i \in 0 .. n + 1 |-> Body(g, i)]
    BY <2>2
  <2> HIDE DEF g, Body
  <2> QED
    BY <2>3
<1>3. LastInstant \in S
  <2> HIDE DEF S
  <2> QED
    BY <1>1, <1>2, UpTo, ClockEnds
<1> QED
  BY <1>3 DEF Visits

\* The steps from the instants of G that are not after t stay in G, and go forward.
Closed(c, target, t, G) ==
  \A x \in G : x <= t => StepOf(c, target, x) \in G /\ StepOf(c, target, x) > x

\* The loop ends with the step from an instant of G that is not after t to one that is.
Arrives(c, anchor, from, t, target, G) ==
  \E x \in G : /\ x <= t
              /\ ScheduledAdvance(c, anchor, from, t) = StepOf(c, target, x)
              /\ StepOf(c, target, x) > t

\* The loop stops at the first instant it visits that is after t.
LEMMA AdvanceLoop ==
  ASSUME NEW c, NEW anchor, NEW from \in Nat \ {0}, NEW t \in Clock, from <= t, NEW target,
         target = MonthlyTargetDom(c, anchor, from),
         NEW G \in SUBSET Nat, from \in G, Closed(c, target, t, G)
  PROVE  Arrives(c, anchor, from, t, target, G)
<1> USE DEF Closed, Arrives
<1> DEFINE at == CHOOSE at : Visits(c, target, from, at)
<1>1. Visits(c, target, from, at)
  BY VisitsExist
<1> HIDE DEF at
<1>2. /\ t \in Nat /\ LastInstant \in Nat /\ t <= LastInstant
  BY ClockEnds
<1>3. /\ at[0] = from
      /\ \A i \in 1 .. LastInstant : at[i] = StepOf(c, target, at[i - 1])
  <2>1. at[0] = from
    BY <1>1, <1>2 DEF Visits
  <2>2. ASSUME NEW i \in 1 .. LastInstant
        PROVE  at[i] = StepOf(c, target, at[i - 1])
    <3>1. i \in 0 .. LastInstant /\ i # 0
      BY <1>2
    <3> QED
      BY <1>1, <3>1 DEF Visits
  <2> QED
    BY <2>1, <2>2
<1> DEFINE Over == {i \in Nat : i \in 1 .. LastInstant /\ at[i] \in G /\ at[i] > t}
\* It gets there.
<1>4. Over # {}
  <2>1. SUFFICES ASSUME Over = {} PROVE FALSE
    OBVIOUS
  <2> DEFINE S == {i \in Nat : i \in 0 .. LastInstant =>
                                 at[i] \in G /\ at[i] <= t /\ from + i <= at[i]}
  <2>2. 0 \in S
    BY <1>3
  <2>3. ASSUME NEW i \in Nat, i \in S
        PROVE  i + 1 \in S
    <3>1. SUFFICES ASSUME i + 1 \in 0 .. LastInstant
                   PROVE  at[i + 1] \in G /\ at[i + 1] <= t /\ from + (i + 1) <= at[i + 1]
      OBVIOUS
    <3>2. i \in 0 .. LastInstant /\ i + 1 \in 1 .. LastInstant /\ (i + 1) - 1 = i
      BY <3>1, <1>2
    <3>3. at[i] \in G /\ at[i] <= t /\ from + i <= at[i]
      BY <2>3, <3>2
    <3>4. at[i + 1] = StepOf(c, target, at[i])
      BY <1>3, <3>2
    <3>5. at[i + 1] \in G /\ at[i + 1] > at[i]
      BY <3>3, <3>4
    <3>6. ~ (at[i + 1] > t)
      BY <2>1, <3>2, <3>5
    <3>7. PICK a \in Nat, b \in Nat : a = at[i] /\ b = at[i + 1]
      BY <3>3, <3>5
    <3>8. b <= t /\ from + (i + 1) <= b
      BY <3>3, <3>5, <3>6, <3>7, <1>2
    <3> QED
      BY <3>5, <3>7, <3>8
  <2>4. LastInstant \in S
    <3> HIDE DEF S
    <3> QED
      BY <2>2, <2>3, UpTo, <1>2
  <2>5. at[LastInstant] \in Nat /\ at[LastInstant] <= t /\ from + LastInstant <= at[LastInstant]
    <3>1. LastInstant \in 0 .. LastInstant
      BY <1>2
    <3>2. at[LastInstant] \in G /\ at[LastInstant] <= t /\ from + LastInstant <= at[LastInstant]
      BY <2>4, <3>1
    <3> QED
      BY <3>2
  <2>6. PICK a \in Nat : a = at[LastInstant]
    BY <2>5
  <2> QED
    BY <2>5, <2>6, <1>2
\* The first one after t.
<1>5. PICK k \in Over : \A j \in Over : <<j, k>> \notin OpToRel(<, Nat)
  <2>1. Over \subseteq Nat
    OBVIOUS
  <2> HIDE DEF Over
  <2> QED
    BY <1>4, <2>1, NatLessThanWellFounded, WFMin
<1>6. k \in Nat /\ k \in 1 .. LastInstant /\ at[k] \in G /\ at[k] > t
  BY <1>5
<1>7. \A j \in Over : ~(j < k)
  BY <1>5, <1>6 DEF OpToRel
<1> DEFINE S == {i \in Nat : i < k => at[i] \in G /\ at[i] <= t}
<1>8. 0 \in S
  BY <1>3
<1>9. ASSUME NEW i \in Nat, i \in S
      PROVE  i + 1 \in S
  <2>1. SUFFICES ASSUME i + 1 < k
                 PROVE  at[i + 1] \in G /\ at[i + 1] <= t
    OBVIOUS
  <2>2. i < k /\ i + 1 \in 1 .. LastInstant /\ (i + 1) - 1 = i
    BY <2>1, <1>2, <1>6
  <2>3. at[i] \in G /\ at[i] <= t /\ at[i + 1] = StepOf(c, target, at[i])
    BY <1>3, <1>9, <2>2
  <2>4. at[i + 1] \in G
    BY <2>3
  <2>5. ~ (at[i + 1] > t)
    BY <1>7, <2>1, <2>2, <2>4
  <2>6. PICK b \in Nat : b = at[i + 1]
    BY <2>4
  <2> QED
    BY <2>4, <2>5, <2>6, <1>2
<1>10. Nat \subseteq S
  <2> HIDE DEF S
  <2> QED
    BY <1>8, <1>9, UpTo
<1>11. \A i \in Nat : i < k => at[i] \in G /\ at[i] <= t
  BY <1>10
<1> DEFINE Stops(i) == at[i] > t /\ \A j \in 1 .. i - 1 : at[j] <= t
<1>12. Stops(k)
  <2>1. \A j \in 1 .. k - 1 : j \in Nat /\ j < k
    BY <1>6
  <2> QED
    BY <1>6, <1>11, <2>1
<1>13. ASSUME NEW i \in 1 .. LastInstant, Stops(i)
       PROVE  i = k
  <2>1. i \in Nat /\ ~ (i < k)
    <3>1. i \in Nat
      OBVIOUS
    <3>2. ASSUME i < k PROVE FALSE
      <4>1. at[i] \in Nat /\ at[i] <= t
        BY <3>1, <3>2, <1>11
      <4> QED
        BY <4>1, <1>2, <1>13
    <3> QED
      BY <3>1, <3>2
  <2>2. ~ (k < i)
    <3>1. ASSUME k < i PROVE FALSE
      <4>1. k \in 1 .. i - 1
        BY <3>1, <1>6
      <4>2. at[k] <= t
        BY <4>1, <1>13
      <4>3. PICK b \in Nat : b = at[k]
        BY <1>6
      <4> QED
        BY <4>2, <4>3, <1>2, <1>6
    <3> QED
      BY <3>1
  <2> QED
    BY <2>1, <2>2, <1>6
<1>14. (CHOOSE i \in 1 .. LastInstant : Stops(i)) = k
  <2> HIDE DEF Stops
  <2> QED
    BY <1>6, <1>12, <1>13
<1>15. ScheduledAdvance(c, anchor, from, t) = at[k]
  <2>1. ScheduledAdvance(c, anchor, from, t) = at[CHOOSE i \in 1 .. LastInstant : Stops(i)]
    BY SMT DEF ScheduledAdvance, at, Visits
  <2> QED
    BY <2>1, <1>14, Zenon
<1>16. k - 1 \in Nat /\ k - 1 < k
  BY <1>6
<1>17. at[k - 1] \in G /\ at[k - 1] <= t /\ at[k] = StepOf(c, target, at[k - 1])
  BY <1>3, <1>6, <1>11, <1>16
<1> QED
  BY <1>6, <1>15, <1>17

-----------------------------------------------------------------------------
(* The next run is on the cadence                                          *)

TargetDom(c, anchor) == IF c.dom # 0 THEN c.dom ELSE anchor

OnCadence(c, anchor, u) ==
  /\ u \in Nat
  /\ c.rt # Unset => Slot(u) = c.rt
  /\ c.dow # 0 => Dow(u) = c.dow
  /\ c.months > 0 => Day(u) = DayIn(MonthOf(u), TargetDom(c, anchor))

\* A cadence the API accepts, with the anchor a month cadence needs, that stays in the
\* calendar.
Runnable(c, anchor) ==
  /\ Fielded(c) /\ Valid(c) /\ c.months \in Reach
  /\ c.months > 0 => TargetDom(c, anchor) \in 1 .. 31

LEMMA ByDay ==
  ASSUME NEW c, Fielded(c), c.months > 0, c.dow = 0, NEW anchor, NEW u, NEW m, NEW t,
         OnDayOf(u, m, TargetDom(c, anchor), TimeOfDay(c.rt, t))
  PROVE  OnCadence(c, anchor, u)
BY DEF OnDayOf, TimeOfDay, OnCadence, Charted

LEMMA ByWeekday ==
  ASSUME NEW c, c.months = 0, NEW anchor, NEW u, NEW t,
         OnWeekday(c, u, TimeOfDay(c.rt, t))
  PROVE  OnCadence(c, anchor, u)
BY DEF OnWeekday, TimeOfDay, OnCadence

LEMMA InitialRun ==
  ASSUME NEW c, NEW anchor, Runnable(c, anchor), NEW t \in Clock
  PROVE  /\ OnCadence(c, anchor, NextRunInitial(c, anchor, t))
         /\ NextRunInitial(c, anchor, t) > t
<1>1. Fielded(c) /\ Valid(c) /\ c.months \in Reach /\ t \in Nat
  BY ClockEnds DEF Runnable
<1>2. c.rt \in RunTime /\ c.months \in Nat /\ c.dow \in 0 .. 7
  BY <1>1 DEF Fielded
<1>3. CASE c.months > 0
  <2>1. PICK dom \in 1 .. 31 : dom = TargetDom(c, anchor)
    BY <1>3 DEF Runnable
  <2>2. EffectiveDom(c, anchor) = dom
    BY <1>3, <2>1 DEF EffectiveDom, TargetDom
  <2>3. t \in Charted /\ MonthOf(t) + c.months \in Months /\ MonthOf(t) \in Months
    BY <1>1, Within, MonthOfCharted
  <2>4. PICK soon : soon = AlignDayOfMonth(ApplyRunTime(t, c.rt), dom)
    OBVIOUS
  <2>5. PICK late : late = AlignDayOfMonth(ApplyRunTime(AddMonthsClamped(t, c.months), c.rt), dom)
    OBVIOUS
  <2>6. OnDayOf(soon, MonthOf(t), dom, TimeOfDay(c.rt, t))
    BY <1>2, <2>3, <2>4, ThisMonth
  <2>7. OnDayOf(late, MonthOf(t) + c.months, dom, TimeOfDay(c.rt, t))
    BY <1>1, <1>3, <2>3, <2>5, MonthStep
  <2>8. c.dow = 0
    BY <1>1, <1>3 DEF Valid, ValidAnchors
  <2>9. OnCadence(c, anchor, soon) /\ OnCadence(c, anchor, late)
    BY <1>1, <1>3, <2>1, <2>6, <2>7, <2>8, ByDay
  <2>10. late > t
    <3>1. late \in Charted /\ MonthOf(late) = MonthOf(t) + c.months
      BY <2>7 DEF OnDayOf
    <3>2. MonthOf(t) < MonthOf(late)
      BY <1>2, <1>3, <2>3, <3>1, Calendar
    <3>3. t < late
      BY <2>3, <3>1, <3>2, LaterMonthLater
    <3> QED
      BY <3>3
  <2>11. NextRunInitial(c, anchor, t) = IF soon > t THEN soon ELSE late
    BY <1>3, <2>2, <2>4, <2>5 DEF NextRunInitial
  <2> QED
    BY <2>9, <2>10, <2>11
<1>4. CASE c.months = 0
  <2>1. ~ (c.months > 0)
    BY <1>4
  <2>2. c.days \in Nat /\ c.days > 0 /\ (c.days % 7 # 0 => c.dow = 0)
    BY <1>1, <1>4 DEF Fielded, Valid, ValidInterval, ValidAnchors
  <2>3. PICK soon : soon = IF c.days % 7 = 0 THEN AlignDayOfWeek(ApplyRunTime(t, c.rt), c.dow)
                           ELSE ApplyRunTime(t, c.rt)
    OBVIOUS
  <2>4. PICK late : late = StepDays(c, t)
    OBVIOUS
  <2>5. OnWeekday(c, soon, TimeOfDay(c.rt, t))
    <3>1. CASE c.days % 7 = 0
      BY <1>1, <1>2, <2>3, <3>1, ThisWeek
    <3>2. CASE c.days % 7 # 0
      BY <1>1, <1>2, <2>2, <2>3, <3>2, AtRunTime DEF OnWeekday
    <3> QED
      BY <3>1, <3>2
  <2>6. OnWeekday(c, late, TimeOfDay(c.rt, t)) /\ Day(t) + c.days <= Day(late)
    BY <1>1, <1>4, <2>4, DayStep
  <2>7. OnCadence(c, anchor, soon) /\ OnCadence(c, anchor, late)
    BY <1>4, <2>5, <2>6, ByWeekday
  <2>8. late > t
    <3>1. late \in Nat
      BY <2>6 DEF OnWeekday
    <3>2. Day(t) < Day(late)
      BY <1>1, <2>2, <2>6, <3>1, Instants
    <3>3. t < late
      BY <1>1, <3>1, <3>2, Earlier
    <3> QED
      BY <3>3
  <2>9. NextRunInitial(c, anchor, t) = IF soon > t THEN soon ELSE late
    BY <2>1, <2>3, <2>4 DEF NextRunInitial
  <2> QED
    BY <2>7, <2>8, <2>9
<1> QED
  BY <1>2, <1>3, <1>4

\* A step from an instant that is due leads to one of the cadence, and forward.
LEMMA StepRun ==
  ASSUME NEW c, NEW anchor, Runnable(c, anchor), NEW from, NEW t \in Clock,
         NEW x \in Nat, x <= t
  PROVE  LET u == StepOf(c, MonthlyTargetDom(c, anchor, from), x)
         IN  /\ OnCadence(c, anchor, u) /\ u > x
             /\ Slot(u) = TimeOfDay(c.rt, x)
             /\ c.months > 0 => u \in Charted /\ MonthOf(u) = MonthOf(x) + c.months
             /\ c.months = 0 /\ (c.dow = 0 \/ Dow(x) = c.dow) => Day(u) = Day(x) + c.days
<1>1. Fielded(c) /\ Valid(c) /\ c.months \in Reach
  BY DEF Runnable
<1>2. c.rt \in RunTime /\ c.months \in Nat /\ c.dow \in 0 .. 7
  BY <1>1 DEF Fielded
<1>3. CASE c.months > 0
  <2>1. PICK dom \in 1 .. 31 : dom = TargetDom(c, anchor)
    BY <1>3 DEF Runnable
  <2>2. MonthlyTargetDom(c, anchor, from) = dom
    <3>1. c.dom = 0 => anchor # 0
      BY <2>1 DEF TargetDom
    <3> QED
      BY <2>1, <3>1 DEF MonthlyTargetDom, TargetDom
  <2>3. x \in Charted /\ MonthOf(x) + c.months \in Months /\ MonthOf(x) \in Months
    BY <1>1, Within, MonthOfCharted
  <2>4. PICK u : u = StepMonths(c, dom, x)
    OBVIOUS
  <2>5. OnDayOf(u, MonthOf(x) + c.months, dom, TimeOfDay(c.rt, x))
    BY <1>1, <1>3, <2>3, <2>4, MonthStep
  <2>6. u \in Charted /\ MonthOf(u) = MonthOf(x) + c.months /\ Slot(u) = TimeOfDay(c.rt, x)
    BY <2>5 DEF OnDayOf
  <2>7. c.dow = 0
    BY <1>1, <1>3 DEF Valid, ValidAnchors
  <2>8. OnCadence(c, anchor, u)
    BY <1>1, <1>3, <2>1, <2>5, <2>7, ByDay
  <2>9. x < u
    <3>1. MonthOf(x) < MonthOf(u)
      BY <1>2, <1>3, <2>3, <2>6, Calendar
    <3> QED
      BY <2>3, <2>6, <3>1, LaterMonthLater
  <2>10. StepOf(c, MonthlyTargetDom(c, anchor, from), x) = u
    BY <1>3, <2>2, <2>4 DEF StepOf
  <2>11. ~ (c.months = 0)
    BY <1>3
  <2>12. u > x
    BY <2>9
  <2> QED
    BY <2>6, <2>8, <2>10, <2>11, <2>12, Zenon
<1>4. CASE c.months = 0
  <2>1. ~ (c.months > 0)
    BY <1>4
  <2>2. c.days \in Nat /\ c.days > 0
    BY <1>1, <1>4 DEF Fielded, Valid, ValidInterval
  <2>3. PICK u : u = StepDays(c, x)
    OBVIOUS
  <2>4. /\ OnWeekday(c, u, TimeOfDay(c.rt, x)) /\ Day(x) + c.days <= Day(u)
        /\ c.dow = 0 \/ Dow(x) = c.dow => Day(u) = Day(x) + c.days
    BY <1>1, <1>4, <2>3, DayStep
  <2>5. OnCadence(c, anchor, u)
    BY <1>4, <2>4, ByWeekday
  <2>6. u \in Nat /\ Slot(u) = TimeOfDay(c.rt, x)
    BY <2>4 DEF OnWeekday
  <2>7. u > x
    <3>1. Day(x) < Day(u)
      BY <2>2, <2>4, <2>6, Instants
    <3>2. x < u
      BY <2>6, <3>1, Earlier
    <3> QED
      BY <3>2
  <2>8. StepOf(c, MonthlyTargetDom(c, anchor, from), x) = u
    BY <2>1, <2>3 DEF StepOf
  <2> QED
    BY <2>1, <2>4, <2>5, <2>6, <2>7, <2>8, Zenon
<1> QED
  BY <1>2, <1>3, <1>4

\* Whatever instant was due, the claim moves to one of the cadence, after now.
LEMMA AdvancedRun ==
  ASSUME NEW c, NEW anchor, Runnable(c, anchor), NEW from \in Nat \ {0}, NEW t \in Clock,
         from <= t
  PROVE  /\ OnCadence(c, anchor, ScheduledAdvance(c, anchor, from, t))
         /\ ScheduledAdvance(c, anchor, from, t) > t
<1>1. PICK target : target = MonthlyTargetDom(c, anchor, from)
  OBVIOUS
<1>2. \A x \in Nat : x <= t => /\ OnCadence(c, anchor, StepOf(c, target, x))
                               /\ StepOf(c, target, x) > x
  BY <1>1, StepRun
<1>3. \A x \in Nat : x <= t => StepOf(c, target, x) \in Nat
  BY <1>2 DEF OnCadence
<1>4. PICK G \in SUBSET Nat : G = Nat
  OBVIOUS
<1>5. from \in G /\ Closed(c, target, t, G)
  BY <1>2, <1>3, <1>4 DEF Closed
<1>6. Arrives(c, anchor, from, t, target, G)
  BY <1>1, <1>5, AdvanceLoop
<1> QED
  BY <1>2, <1>4, <1>6 DEF Arrives

-----------------------------------------------------------------------------
(* What is written                                                         *)

Anchor == {Unset} \cup 1 .. 31
UpdType == {NoUpdate} \cup [pc : {"read"}, req : Patch, anchor : Anchor]

LEMMA RowFields ==
  ASSUME NEW c, NEW a
  PROVE  LET r == Row(c, a)
         IN  /\ r.days = c.days /\ r.months = c.months /\ r.dow = c.dow /\ r.dom = c.dom
             /\ r.rt = c.rt /\ r.anchor = a
BY DEF Row, Fields

\* Cadences that agree on all fields are one for what depends on the fields only.
Alike(c, d) == /\ c.days = d.days /\ c.months = d.months /\ c.dow = d.dow
               /\ c.dom = d.dom /\ c.rt = d.rt

LEMMA AlikeRuns ==
  ASSUME NEW c, NEW d, Alike(c, d), NEW a, NEW u
  PROVE  /\ Runnable(c, a) => Runnable(d, a)
         /\ OnCadence(c, a, u) => OnCadence(d, a, u)
<1>1. Runnable(c, a) => Runnable(d, a)
  BY DEF Alike, Runnable, Fielded, Valid, ValidInterval, ValidAnchors, TargetDom
<1>2. OnCadence(c, a, u) => OnCadence(d, a, u)
  BY DEF Alike, OnCadence, TargetDom
<1> QED
  BY <1>1, <1>2

\* A field of a request: sent, or not.
Sent(x, old) == IF x = Unset THEN old ELSE x

LEMMA MergeFields ==
  ASSUME NEW stored, Fielded(stored), stored.months \in Reach, NEW patch \in Patch
  PROVE  LET c == Merge(stored, patch)
         IN  /\ Fielded(c) /\ c.months \in Reach
             /\ c.days = Sent(patch.days, stored.days) /\ c.months = Sent(patch.months, stored.months)
             /\ c.rt = Sent(patch.rt, stored.rt)
<1>1. /\ patch \in PatchType /\ patch.months \in Reach \cup {Unset} /\ Unset \notin Nat
  BY CalendarAssumption DEF CalendarAssumption
<1> DEFINE eff == [f \in Fields |-> IF patch[f] = Unset THEN stored[f] ELSE patch[f]]
           c == Merge(stored, patch)
<1>2. /\ eff.days = Sent(patch.days, stored.days) /\ eff.months = Sent(patch.months, stored.months)
      /\ eff.rt = Sent(patch.rt, stored.rt) /\ eff.dow = Sent(patch.dow, stored.dow)
      /\ eff.dom = Sent(patch.dom, stored.dom) /\ DOMAIN eff = Fields
  BY DEF Fields, Sent
<1>3. PICK e : e = eff
  OBVIOUS
<1>4. DOMAIN e = Fields /\ e = [f \in Fields |-> e[f]]
  BY <1>3
<1>5. /\ c.days = e.days /\ c.months = e.months /\ c.rt = e.rt
      /\ c.dow \in {0, e.dow} /\ c.dom \in {0, e.dom}
  <2> HIDE DEF eff
  <2>1. \E b \in BOOLEAN, d \in BOOLEAN :
          c = [e EXCEPT !.dow = IF b THEN 0 ELSE @, !.dom = IF d THEN 0 ELSE @]
    BY <1>3 DEF Merge, eff
  <2> QED
    BY <1>4, <2>1 DEF Fields
<1>6. /\ Sent(patch.days, stored.days) \in Nat /\ Sent(patch.months, stored.months) \in Reach
      /\ Sent(patch.dow, stored.dow) \in 0 .. 7 /\ Sent(patch.dom, stored.dom) \in 0 .. 31
      /\ Sent(patch.rt, stored.rt) \in RunTime
  BY <1>1 DEF PatchType, Fielded, Sent, RunTime
<1>7. \A n \in Reach : n \in Nat
  BY DEF Reach
<1> HIDE DEF eff, c
<1>8. /\ c.days \in Nat /\ c.months \in Nat /\ c.months \in Reach /\ c.rt \in RunTime
      /\ c.dow \in 0 .. 7 /\ c.dom \in 0 .. 31
  BY <1>2, <1>3, <1>5, <1>6, <1>7
<1> QED
  BY <1>2, <1>3, <1>5, <1>8 DEF Fielded, c

LEMMA AnchorType ==
  ASSUME NEW stored, stored.anchor \in 0 .. 31, NEW c, Fielded(c), NEW dom, NEW t \in Charted
  PROVE  /\ AnchorOnCreate(c, t) \in 1 .. 31
         /\ AnchorOnUpdate(stored, c, dom, t) \in Anchor
         /\ c.months > 0 /\ AnchorOnUpdate(stored, c, dom, t) = Unset => stored.months # 0
<1>1. Dom(t) \in 1 .. 31 /\ c.dom \in 0 .. 31 /\ Unset \notin Nat /\ c.months \in Nat
  BY DomType, CalendarAssumption DEF Fielded, CalendarAssumption
<1>2. AnchorOnCreate(c, t) \in 1 .. 31
  BY <1>1 DEF AnchorOnCreate
<1>3. /\ AnchorOnUpdate(stored, c, dom, t) \in Anchor
      /\ c.months > 0 /\ AnchorOnUpdate(stored, c, dom, t) = Unset => stored.months # 0
  <2>1. PICK a \in 1 .. 31 : a = AnchorOnCreate(c, t)
    BY <1>2
  <2>2. a # Unset /\ (stored.anchor # 0 => stored.anchor \in 1 .. 31 /\ stored.anchor # Unset)
    BY <1>1
  <2> HIDE DEF AnchorOnCreate
  <2> QED
    BY <1>1, <2>1, <2>2 DEF AnchorOnUpdate, Anchor
<1> QED
  BY <1>2, <1>3

-----------------------------------------------------------------------------
(* The invariant                                                           *)

\* The row holds a cadence that can run, and its anchor if months count.
RowInv == /\ Runnable(cadence, cadence.anchor)
          /\ cadence.anchor \in 0 .. 31 /\ (cadence.months > 0 => cadence.anchor \in 1 .. 31)

\* The next run is on the cadence, save for a day of the month that a stale anchor moved.
NextInvar == /\ next \in Nat \ {0}
             /\ \E anchor \in 0 .. 31 : /\ OnCadence(cadence, anchor, next)
                                        /\ ~stale => anchor = cadence.anchor

\* The last round's window ends at last_run_at.
WindowInv == window = Unset \/ (last \in Nat /\ window.end = last)

CadenceInv == /\ time \in Clock /\ upd \in [Update -> UpdType]
              /\ RowInv /\ NextInvar /\ WindowInv

LEMMA NowIsCharted ==
  ASSUME time \in Clock, NEW n \in Reach
  PROVE  time \in Charted
BY ClockEnds, Within

\* What a creation or an update writes.
LEMMA Written ==
  ASSUME time \in Clock, NEW c, Fielded(c), Valid(c), c.months \in Reach,
         NEW r, Alike(c, r), NEW anchor \in 0 .. 31, c.months > 0 => anchor \in 1 .. 31
  PROVE  /\ Runnable(r, anchor)
         /\ OnCadence(r, anchor, NextRunInitial(c, anchor, time))
         /\ NextRunInitial(c, anchor, time) \in Nat \ {0}
<1>1. Runnable(c, anchor)
  BY DEF Runnable, TargetDom, Fielded
<1>2. PICK u : u = NextRunInitial(c, anchor, time)
  OBVIOUS
<1>3. OnCadence(c, anchor, u) /\ u > time /\ time \in Nat
  BY <1>1, <1>2, InitialRun, ClockEnds
<1>4. u \in Nat \ {0}
  BY <1>3 DEF OnCadence
<1> QED
  BY <1>1, <1>2, <1>3, <1>4, AlikeRuns

LEMMA CadenceInitInv == CadenceInit => CadenceInv
<1> SUFFICES ASSUME CadenceInit PROVE CadenceInv
  OBVIOUS
<1>1. PICK c \in Cadence : /\ Valid(c) /\ cadence = Anchored(c, time)
                           /\ next = NextRunInitial(c, cadence.anchor, time)
  BY DEF CadenceInit
<1>2. time \in Clock /\ window = Unset /\ upd = [u \in Update |-> NoUpdate]
  BY DEF CadenceInit
<1>3. Fielded(c) /\ c.months \in Reach
  BY CalendarAssumption DEF CalendarAssumption, CadenceType, Fielded
<1>4. PICK anchor : anchor = IF c.months > 0 THEN AnchorOnCreate(c, time) ELSE 0
  OBVIOUS
<1>5. anchor \in 0 .. 31 /\ (c.months > 0 => anchor \in 1 .. 31)
  <2>1. PICK z : z = [anchor |-> 0]
    OBVIOUS
  <2>2. z.anchor \in 0 .. 31
    BY <2>1
  <2>3. AnchorOnCreate(c, time) \in 1 .. 31
    BY <1>2, <1>3, <2>2, NowIsCharted, AnchorType
  <2> QED
    BY <1>4, <2>3
<1>6. cadence = Row(c, anchor)
  BY <1>1, <1>4 DEF Anchored
<1>7. Alike(c, cadence) /\ cadence.anchor = anchor
  BY <1>6, RowFields DEF Alike
<1>8. /\ Runnable(cadence, anchor) /\ OnCadence(cadence, anchor, next) /\ next \in Nat \ {0}
  BY <1>1, <1>2, <1>3, <1>5, <1>7, Written
<1>9. RowInv
  BY <1>5, <1>7, <1>8 DEF RowInv, Alike
<1>10. NextInvar
  BY <1>5, <1>7, <1>8 DEF NextInvar
<1> QED
  BY <1>2, <1>9, <1>10 DEF CadenceInv, WindowInv, UpdType

LEMMA RecreateInv ==
  ASSUME CadenceInv, NEW c \in Cadence, Recreate(c)
  PROVE  CadenceInv'
<1>1. /\ time \in Clock /\ cadence.anchor \in 0 .. 31
      /\ (cadence.months > 0 => cadence.anchor \in 1 .. 31) /\ cadence.months \in Nat
  BY DEF CadenceInv, RowInv, Runnable, Fielded
<1>2. Fielded(c) /\ Valid(c) /\ c.months \in Reach
  BY CalendarAssumption DEF CalendarAssumption, CadenceType, Fielded, Recreate
<1>3. PICK written : written = AnchorOnUpdate(cadence, c, c.dom, time)
  OBVIOUS
<1>4. PICK anchor : anchor = IF written = Unset THEN cadence.anchor ELSE written
  OBVIOUS
<1>5. written \in Anchor /\ (c.months > 0 /\ written = Unset => cadence.months # 0)
  BY <1>1, <1>2, <1>3, NowIsCharted, AnchorType
<1>6. anchor \in 0 .. 31 /\ (c.months > 0 => anchor \in 1 .. 31)
  BY <1>1, <1>4, <1>5 DEF Anchor
<1>7. /\ cadence' = Row(c, IF c.months > 0 THEN anchor ELSE cadence.anchor)
      /\ next' = NextRunInitial(c, anchor, time)
      /\ stale' = FALSE /\ UNCHANGED <<time, last, window, upd>>
  BY <1>3, <1>4 DEF Recreate
<1>8. PICK r : r = cadence'
  OBVIOUS
<1>9. Alike(c, r) /\ r.anchor = IF c.months > 0 THEN anchor ELSE cadence.anchor
  BY <1>7, <1>8, RowFields DEF Alike
<1>10. Runnable(r, anchor) /\ OnCadence(r, anchor, next') /\ next' \in Nat \ {0}
  BY <1>1, <1>2, <1>6, <1>7, <1>9, Written
<1>11. Runnable(r, r.anchor) /\ OnCadence(r, r.anchor, next')
  <2>1. c.months > 0 \/ ~ (r.months > 0)
    BY <1>9 DEF Alike
  <2> QED
    BY <1>9, <1>10, <2>1 DEF Runnable, OnCadence
<1>12. r.anchor \in 0 .. 31 /\ (r.months > 0 => r.anchor \in 1 .. 31)
  BY <1>1, <1>6, <1>9 DEF Alike
<1>13. RowInv'
  BY <1>8, <1>11, <1>12 DEF RowInv
<1>14. NextInvar'
  BY <1>8, <1>10, <1>11, <1>12 DEF NextInvar
<1>15. WindowInv' /\ (time \in Clock)' /\ (upd \in [Update -> UpdType])'
  BY <1>7 DEF CadenceInv, WindowInv
<1> QED
  BY <1>13, <1>14, <1>15 DEF CadenceInv

LEMMA UpdateReadsInv ==
  ASSUME CadenceInv, NEW u \in Update, NEW patch \in Patch, UpdateReads(u, patch)
  PROVE  CadenceInv'
<1>1. /\ time \in Clock /\ cadence.anchor \in 0 .. 31 /\ Fielded(cadence) /\ cadence.months \in Reach
  BY DEF CadenceInv, RowInv, Runnable
<1>2. PICK c : c = Merge(cadence, patch)
  OBVIOUS
<1>3. Fielded(c)
  BY <1>1, <1>2, MergeFields
<1>4. PICK a : a = AnchorOnUpdate(cadence, c, patch.dom, time)
  OBVIOUS
<1>5. a \in Anchor
  BY <1>1, <1>3, <1>4, NowIsCharted, AnchorType
<1>6. /\ upd' = [upd EXCEPT ![u] = [pc |-> "read", req |-> patch, anchor |-> a]]
      /\ UNCHANGED <<time, cadence, active, next, last, window, stale>>
  BY <1>2, <1>4 DEF UpdateReads
<1>7. (upd \in [Update -> UpdType])'
  BY <1>5, <1>6 DEF CadenceInv, UpdType
<1> QED
  BY <1>6, <1>7 DEF CadenceInv, RowInv, NextInvar, WindowInv

LEMMA UpdateWritesInv ==
  ASSUME CadenceInv, NEW u \in Update, UpdateWrites(u)
  PROVE  CadenceInv'
<1>1. /\ time \in Clock /\ cadence.anchor \in 0 .. 31 /\ Fielded(cadence) /\ cadence.months \in Reach
      /\ (cadence.months > 0 => cadence.anchor \in 1 .. 31) /\ cadence.months \in Nat
      /\ upd \in [Update -> UpdType]
  BY DEF CadenceInv, RowInv, Runnable, Fielded
<1>2. PICK patch : patch = upd[u].req
  OBVIOUS
<1>3. patch \in Patch /\ upd[u].anchor \in Anchor
  BY <1>1, <1>2 DEF UpdateWrites, UpdType, NoUpdate
<1>4. PICK c : c = Merge(cadence, patch)
  OBVIOUS
<1>5. /\ Fielded(c) /\ c.months \in Reach
      /\ c.days = Sent(patch.days, cadence.days) /\ c.months = Sent(patch.months, cadence.months)
      /\ c.rt = Sent(patch.rt, cadence.rt)
  BY <1>1, <1>3, <1>4, MergeFields
<1>6. PICK locked : locked = AnchorOnUpdate(cadence, c, patch.dom, time)
  OBVIOUS
<1>7. locked \in Anchor /\ (c.months > 0 /\ locked = Unset => cadence.months # 0)
  BY <1>1, <1>5, <1>6, NowIsCharted, AnchorType
<1>8. PICK anchor : anchor = IF locked # Unset THEN locked ELSE cadence.anchor
  OBVIOUS
<1>9. PICK written : written = IF locked # Unset THEN locked
                               ELSE IF upd[u].anchor # Unset THEN upd[u].anchor ELSE cadence.anchor
  OBVIOUS
<1>10. /\ anchor \in 0 .. 31 /\ (c.months > 0 => anchor \in 1 .. 31)
       /\ written \in 0 .. 31 /\ (c.months > 0 => written \in 1 .. 31)
  <2>1. \A x \in Anchor : x # Unset => x \in 1 .. 31
    BY DEF Anchor
  <2> QED
    BY <1>1, <1>3, <1>7, <1>8, <1>9, <2>1
<1>11. PICK stored : stored = [f \in Fields |->
                                 IF f \in {"dow", "dom"} THEN c[f]
                                 ELSE IF patch[f] = Unset THEN cadence[f] ELSE patch[f]]
  OBVIOUS
<1>12. Alike(c, stored)
  BY <1>5, <1>11 DEF Alike, Fields, Sent
<1>13. UNCHANGED <<time, last, window>> /\ (upd \in [Update -> UpdType])'
  BY <1>1 DEF UpdateWrites, UpdType
<1>14. CASE ~Valid(c)
  <2>1. UNCHANGED <<cadence, next, stale>>
    BY <1>2, <1>4, <1>14 DEF UpdateWrites
  <2> QED
    BY <1>13, <2>1 DEF CadenceInv, RowInv, NextInvar, WindowInv
<1>15. CASE Valid(c)
  <2>1. /\ cadence' = Row(stored, written)
        /\ next' = NextRunInitial(c, anchor, time)
        /\ stale' = (c.months > 0 /\ c.dom = 0 /\ written # anchor)
    BY <1>2, <1>4, <1>6, <1>8, <1>9, <1>11, <1>15 DEF UpdateWrites
  <2>2. PICK r : r = cadence'
    OBVIOUS
  <2>3. Alike(c, r) /\ r.anchor = written
    BY <1>12, <2>1, <2>2, RowFields DEF Alike
  <2>4. Runnable(r, anchor) /\ OnCadence(r, anchor, next') /\ next' \in Nat \ {0}
    BY <1>1, <1>5, <1>10, <1>15, <2>1, <2>3, Written
  <2>5. Runnable(r, written)
    BY <1>10, <2>3, <2>4 DEF Runnable, TargetDom, Alike, Fielded
  <2>6. ~stale' => OnCadence(r, written, next')
    BY <2>1, <2>3, <2>4 DEF OnCadence, TargetDom, Alike
  <2>7. RowInv'
    BY <1>10, <2>2, <2>3, <2>5 DEF RowInv, Alike
  <2>8. NextInvar'
    BY <1>10, <2>2, <2>3, <2>4, <2>6 DEF NextInvar
  <2> QED
    BY <1>13, <2>7, <2>8, <1>1 DEF CadenceInv, WindowInv
<1> QED
  BY <1>14, <1>15

LEMMA ClaimCadenceInv ==
  ASSUME CadenceInv, Claim
  PROVE  CadenceInv'
<1>1. /\ time \in Clock /\ time \in Nat /\ next \in Nat \ {0} /\ next <= time
      /\ Runnable(cadence, cadence.anchor) /\ cadence.anchor \in 0 .. 31
  BY ClockEnds DEF CadenceInv, RowInv, NextInvar, Claim
<1>2. PICK u : u = ScheduledAdvance(cadence, cadence.anchor, next, time)
  OBVIOUS
<1>3. OnCadence(cadence, cadence.anchor, u) /\ u > time
  BY <1>1, <1>2, AdvancedRun
<1>4. u \in Nat \ {0}
  BY <1>1, <1>3 DEF OnCadence
<1>5. next' = u /\ stale' = FALSE /\ UNCHANGED <<time, cadence, upd>>
  BY <1>2 DEF Claim
<1>6. NextInvar'
  <2>1. PICK anchor \in 0 .. 31 : anchor = cadence.anchor
    BY <1>1
  <2> QED
    BY <1>3, <1>4, <1>5, <2>1 DEF NextInvar
<1>7. WindowInv'
  <2>1. CASE last' = time /\ window' = [start |-> WindowStart, end |-> time]
    BY <1>1, <2>1 DEF WindowInv
  <2>2. CASE last' = last /\ window' = window
    BY <2>2 DEF CadenceInv, WindowInv
  <2> QED
    BY <2>1, <2>2 DEF Claim, SkippedIsNotRun
<1>8. RowInv' /\ (time \in Clock)' /\ (upd \in [Update -> UpdType])'
  BY <1>5 DEF CadenceInv, RowInv
<1> QED
  BY <1>6, <1>7, <1>8 DEF CadenceInv

LEMMA ToggleInv ==
  ASSUME CadenceInv, Deactivate \/ Activate
  PROVE  CadenceInv'
<1>1. /\ time \in Clock /\ Runnable(cadence, cadence.anchor) /\ cadence.anchor \in 0 .. 31
      /\ (cadence.months > 0 => cadence.anchor \in 1 .. 31)
  BY DEF CadenceInv, RowInv
<1>2. UNCHANGED <<time, cadence, last, window, upd>>
  BY DEF Deactivate, Activate
<1>3. RowInv' /\ WindowInv' /\ (time \in Clock)' /\ (upd \in [Update -> UpdType])'
  BY <1>2 DEF CadenceInv, RowInv, WindowInv
<1>4. CASE UNCHANGED <<next, stale>>
  <2>1. NextInvar'
    BY <1>2, <1>4 DEF CadenceInv, NextInvar
  <2> QED
    BY <1>3, <2>1 DEF CadenceInv
<1>5. CASE next' = NextRunInitial(cadence, cadence.anchor, time) /\ stale' = FALSE
  <2>1. PICK anchor \in 0 .. 31 : anchor = cadence.anchor
    BY <1>1
  <2>2. PICK u : u = NextRunInitial(cadence, anchor, time)
    OBVIOUS
  <2>3. OnCadence(cadence, anchor, u) /\ u > time /\ time \in Nat
    BY <1>1, <2>1, <2>2, InitialRun, ClockEnds
  <2>4. u \in Nat \ {0}
    BY <2>3 DEF OnCadence
  <2>5. NextInvar'
    BY <1>2, <1>5, <2>1, <2>2, <2>3, <2>4 DEF NextInvar
  <2> QED
    BY <1>3, <2>5 DEF CadenceInv
<1> QED
  BY <1>4, <1>5 DEF Deactivate, Activate

LEMMA TimePassesInv ==
  ASSUME CadenceInv, TimePasses
  PROVE  CadenceInv'
<1>1. time' \in Clock /\ UNCHANGED <<cadence, active, next, last, window, upd, updates, stale>>
  BY DEF TimePasses
<1> QED
  BY <1>1 DEF CadenceInv, RowInv, NextInvar, WindowInv

LEMMA CadenceNextInv == CadenceInv /\ [CadenceNext]_cadenceVars => CadenceInv'
<1> SUFFICES ASSUME CadenceInv, [CadenceNext]_cadenceVars PROVE CadenceInv'
  OBVIOUS
<1>1. CASE TimePasses
  BY <1>1, TimePassesInv
<1>2. CASE Claim
  BY <1>2, ClaimCadenceInv
<1>3. ASSUME NEW c \in Cadence, Recreate(c) PROVE CadenceInv'
  BY <1>3, RecreateInv
<1>4. ASSUME NEW u \in Update, NEW patch \in Patch, UpdateReads(u, patch) PROVE CadenceInv'
  BY <1>4, UpdateReadsInv
<1>5. ASSUME NEW u \in Update, UpdateWrites(u) PROVE CadenceInv'
  BY <1>5, UpdateWritesInv
<1>6. CASE Deactivate \/ Activate
  BY <1>6, ToggleInv
<1>7. CASE UNCHANGED cadenceVars
  BY <1>7 DEF cadenceVars, CadenceInv, RowInv, NextInvar, WindowInv
<1> QED
  BY <1>1, <1>2, <1>3, <1>4, <1>5, <1>6, <1>7 DEF CadenceNext

\* The row holds a cadence that can run, and next_run_at an instant of it.
THEOREM CadenceIsInvariant == CadenceSpec => []CadenceInv
BY CadenceInitInv, CadenceNextInv, PTL DEF CadenceSpec

\* No drift, over any calendar: whatever creations, updates, toggles and claims came
\* before, next_run_at has the wanted weekday, time and day of the month.
THEOREM NextStaysOnCadence == CadenceSpec => []NextIsOnCadence
<1>1. CadenceInv => NextIsOnCadence
  <2> SUFFICES ASSUME CadenceInv PROVE NextIsOnCadence
    OBVIOUS
  <2>1. PICK anchor \in 0 .. 31 : /\ OnCadence(cadence, anchor, next)
                                  /\ ~stale => anchor = cadence.anchor
    BY DEF CadenceInv, NextInvar
  <2> QED
    BY <2>1 DEF NextIsOnCadence, OnCadence, TargetDom
<1> QED
  BY <1>1, CadenceIsInvariant, PTL

\* Between the windows of two rounds nothing is left out, however many were skipped.
THEOREM WindowsAlwaysAbut == CadenceSpec => WindowsAbut
<1> DEFINE Abut == window' # window /\ window # Unset =>
                     \/ window'.start = window.end
                     \/ Capped(window.end) /\ window'.start = time - MaxWindow * Slots
<1>1. CadenceInv /\ [CadenceNext]_cadenceVars => [Abut]_cadenceVars
  <2> SUFFICES ASSUME CadenceInv, [CadenceNext]_cadenceVars, window' # window, window # Unset
               PROVE  \/ window'.start = window.end
                      \/ Capped(window.end) /\ window'.start = time - MaxWindow * Slots
    OBVIOUS
  <2>1. Claim
    BY DEF CadenceNext, cadenceVars, TimePasses, Recreate, UpdateReads, UpdateWrites,
           Deactivate, Activate
  <2>2. last \in Nat /\ window.end = last /\ last # Unset
    BY CalendarAssumption DEF CadenceInv, WindowInv, CalendarAssumption
  <2>3. window' = [start |-> WindowStart, end |-> time]
    BY <2>1 DEF Claim
  <2>4. WindowStart = IF Capped(last) THEN time - MaxWindow * Slots ELSE last
    BY <2>2 DEF WindowStart
  <2> QED
    BY <2>2, <2>3, <2>4
<1> QED
  BY <1>1, CadenceIsInvariant, PTL DEF CadenceSpec, WindowsAbut

-----------------------------------------------------------------------------
(* The claim moves to the next run                                         *)

LEMMA Multiples ==
  ASSUME NEW n \in Nat \ {0}
  PROVE  /\ \A d \in Nat : d % n = 0 => \E q \in Nat : d = q * n
         /\ \A q \in Nat : q * n \in Nat /\ (q * n) % n = 0 /\ (q + 1) * n = q * n + n
         /\ \A p \in Nat, q \in Nat : q * n < p * n /\ p * n < (q + 1) * n => FALSE
<1>1. ASSUME NEW d \in Nat, d % n = 0
      PROVE  \E q \in Nat : d = q * n
  <2>1. d \div n \in Nat /\ d = (d \div n) * n
    BY <1>1
  <2> QED
    BY <2>1
<1>2. ASSUME NEW q \in Nat
      PROVE  q * n \in Nat /\ (q * n) % n = 0 /\ (q + 1) * n = q * n + n
  <2>1. q * n \in Nat /\ (q + 1) * n = q * n + n
    OBVIOUS
  <2>2. (q * n) % n = 0
    OBVIOUS
  <2> QED
    BY <2>1, <2>2
<1>3. ASSUME NEW p \in Nat, NEW q \in Nat, q * n < p * n, p * n < (q + 1) * n
      PROVE  FALSE
  <2>1. CASE p <= q
    <3>1. PICK k \in Nat : q = p + k
      <4>1. q - p \in Nat /\ q = p + (q - p)
        BY <2>1
      <4> QED
        BY <4>1
    <3>2. q * n = p * n + k * n /\ k * n \in Nat /\ p * n \in Nat
      BY <3>1
    <3> QED
      BY <1>3, <3>2
  <2>2. CASE q < p
    <3>1. PICK k \in Nat : p = (q + 1) + k
      <4>1. p - (q + 1) \in Nat /\ p = (q + 1) + (p - (q + 1))
        BY <2>2
      <4> QED
        BY <4>1
    <3>2. p * n = (q + 1) * n + k * n /\ k * n \in Nat /\ (q + 1) * n \in Nat
      BY <3>1
    <3> QED
      BY <1>3, <3>2
  <2> QED
    BY <2>1, <2>2
<1> QED
  BY <1>1, <1>2, <1>3

\* What a claim of a run on the cadence must do.
MovesToNext(c, anchor, from, t, u) ==
  LET Grid(x) == /\ Slot(x) = Slot(from)
                 /\ IF c.months > 0
                    THEN /\ (MonthOf(x) - MonthOf(from)) % c.months = 0
                         /\ Day(x) = DayIn(MonthOf(x), TargetDom(c, anchor))
                    ELSE (Day(x) - Day(from)) % c.days = 0
  IN  Grid(u) /\ \A x \in t + 1 .. u - 1 : ~Grid(x)

LEMMA NextOfDays ==
  ASSUME NEW c, NEW anchor, Runnable(c, anchor), c.months = 0,
         NEW from \in Nat \ {0}, OnCadence(c, anchor, from), NEW t \in Clock, from <= t
  PROVE  MovesToNext(c, anchor, from, t, ScheduledAdvance(c, anchor, from, t))
<1>1. c.days \in Nat \ {0} /\ Fielded(c)
  BY DEF Runnable, Fielded, Valid, ValidInterval
<1>2. PICK n \in Nat \ {0} : n = c.days
  BY <1>1
<1>3. PICK target : target = MonthlyTargetDom(c, anchor, from)
  OBVIOUS
<1>4. PICK d \in Nat : d = Day(from)
  BY Instants
<1> DEFINE OnIt(x, q) == /\ Slot(x) = Slot(from) /\ Day(x) = d + q * n
                         /\ (c.dow # 0 => Dow(x) = c.dow)
           G == {x \in Nat : \E q \in Nat : OnIt(x, q)}
<1>5. ASSUME NEW x \in Nat, x <= t, NEW q \in Nat, OnIt(x, q)
      PROVE  /\ StepOf(c, target, x) \in Nat /\ OnIt(StepOf(c, target, x), q + 1)
             /\ StepOf(c, target, x) > x
  <2>1. PICK u : u = StepOf(c, target, x)
    OBVIOUS
  <2>2. /\ OnCadence(c, anchor, u) /\ u > x /\ Slot(u) = TimeOfDay(c.rt, x)
        /\ Day(u) = Day(x) + c.days
    BY <1>3, <1>4, <1>5, <2>1, StepRun
  <2>3. Slot(u) = Slot(from)
    BY <1>5, <2>2 DEF TimeOfDay, OnCadence
  <2>4. Day(u) = d + (q + 1) * n
    <3>1. PICK a \in Nat, b \in Nat : a = q * n /\ b = (q + 1) * n /\ b = a + n
      BY Multiples
    <3>2. Day(u) = (d + a) + n
      BY <1>2, <1>5, <2>2, <3>1
    <3> QED
      BY <3>1, <3>2
  <2> QED
    BY <2>1, <2>2, <2>3, <2>4 DEF OnCadence
<1>6. from \in G
  <2>1. OnIt(from, 0)
    BY <1>4 DEF OnCadence
  <2> QED
    BY <2>1
<1>7. Closed(c, target, t, G)
  <2>1. ASSUME NEW x \in G, x <= t
        PROVE  StepOf(c, target, x) \in G /\ StepOf(c, target, x) > x
    <3>1. PICK q \in Nat : OnIt(x, q)
      OBVIOUS
    <3>2. q + 1 \in Nat
      OBVIOUS
    <3> HIDE DEF OnIt
    <3> QED
      BY <1>5, <2>1, <3>1, <3>2
  <2> QED
    BY <2>1 DEF Closed
<1>8. PICK H \in SUBSET Nat : H = G
  OBVIOUS
<1>9. Arrives(c, anchor, from, t, target, H)
  BY <1>3, <1>4, <1>6, <1>7, <1>8, AdvanceLoop
<1>10. PICK x \in Nat, q \in Nat, u \in Nat :
        /\ x <= t /\ OnIt(x, q) /\ OnIt(u, q + 1) /\ u > t
        /\ u = ScheduledAdvance(c, anchor, from, t)
  <2>1. PICK x \in G : /\ x <= t /\ ScheduledAdvance(c, anchor, from, t) = StepOf(c, target, x)
                       /\ StepOf(c, target, x) > t
    BY <1>8, <1>9 DEF Arrives
  <2>2. PICK q \in Nat : OnIt(x, q)
    OBVIOUS
  <2>3. x \in Nat
    OBVIOUS
  <2> HIDE DEF OnIt, G
  <2> QED
    BY <1>5, <2>1, <2>2, <2>3
<1>11. (Day(u) - Day(from)) % c.days = 0
  <2>1. Day(u) - Day(from) = (q + 1) * n
    BY <1>3, <1>4, <1>10, Multiples
  <2> QED
    BY <1>2, <2>1, Multiples
<1>12. ASSUME NEW y \in t + 1 .. u - 1, Slot(y) = Slot(from), (Day(y) - Day(from)) % c.days = 0
       PROVE  FALSE
  <2>1. t \in Nat /\ y \in Nat /\ from <= y /\ x < y /\ y < u
    BY ClockEnds, <1>10
  <2>2. /\ Day(y) \in Nat /\ Day(x) \in Nat /\ Day(u) \in Nat /\ Day(from) <= Day(y)
        /\ Day(x) < Day(y) /\ Day(y) < Day(u)
    <3>1. Day(y) \in Nat /\ Day(x) \in Nat /\ Day(u) \in Nat
      BY <2>1, Instants
    <3>2. Slot(x) = Slot(y) /\ Slot(y) = Slot(u)
      BY <1>10, <1>12
    <3>3. Day(from) <= Day(y) /\ Day(x) <= Day(y) /\ Day(y) <= Day(u)
      BY <2>1, Earlier
    <3>4. Day(x) # Day(y) /\ Day(y) # Day(u)
      BY <2>1, <3>2, Earlier
    <3> QED
      BY <3>1, <3>3, <3>4
  <2>3. PICK e \in Nat : e = Day(y) - d
    BY <1>3, <1>4, <2>2
  <2>4. PICK p \in Nat : e = p * n
    BY <1>2, <1>3, <1>4, <1>12, <2>3, Multiples
  <2>5. q * n < p * n /\ p * n < (q + 1) * n
    <3>1. PICK a \in Nat, b \in Nat : a = q * n /\ b = (q + 1) * n
      BY Multiples
    <3>2. Day(x) = d + a /\ Day(u) = d + b
      BY <1>10, <3>1
    <3>3. Day(y) = d + e
      BY <1>3, <1>4, <2>2, <2>3
    <3>4. a < e /\ e < b
      BY <2>2, <3>2, <3>3
    <3> QED
      BY <2>4, <3>1, <3>4
  <2> QED
    BY <2>5, Multiples
<1> QED
  BY <1>10, <1>11, <1>12 DEF MovesToNext

\* An instant before one of the calendar is of the calendar, in that month or before it.
LEMMA ChartedBefore ==
  ASSUME NEW u \in Charted, NEW x \in Nat, x <= u
  PROVE  x \in Charted /\ MonthOf(x) <= MonthOf(u)
<1>1. PICK m \in Months : Day(u) < First[m + 1]
  BY DEF Charted
<1>2. /\ u \in Nat /\ Day(x) \in Nat /\ Day(u) \in Nat /\ Day(x) <= Day(u)
      /\ m + 1 \in 1 .. Len(MonthLen) + 1
  <2>1. u \in Nat
    BY DEF Charted
  <2>2. Day(x) \in Nat /\ Day(u) \in Nat /\ Day(x) <= Day(u)
    BY <2>1, Instants, Earlier
  <2>3. m + 1 \in 1 .. Len(MonthLen) + 1
    BY Calendar DEF Months
  <2> QED
    BY <2>1, <2>2, <2>3
<1>3. First[m + 1] \in Nat
  BY <1>2, Calendar
<1>4. x \in Charted
  BY <1>1, <1>2, <1>3 DEF Charted
<1>5. PICK j \in Nat, k \in Nat : j = MonthOf(x) /\ k = MonthOf(u)
  BY <1>4, MonthOfCharted, Calendar
<1>6. ~ (k < j)
  <2>1. ASSUME k < j PROVE FALSE
    <3>1. u < x
      BY <1>4, <1>5, <2>1, LaterMonthLater
    <3> QED
      BY <1>2, <3>1
  <2> QED
    BY <2>1
<1> QED
  BY <1>4, <1>5, <1>6

LEMMA NextOfMonths ==
  ASSUME NEW c, NEW anchor, Runnable(c, anchor), c.months > 0,
         NEW from \in Nat \ {0}, OnCadence(c, anchor, from), NEW t \in Clock, from <= t
  PROVE  MovesToNext(c, anchor, from, t, ScheduledAdvance(c, anchor, from, t))
<1>1. c.months \in Nat \ {0} /\ c.months \in Reach /\ t \in Nat
  BY ClockEnds DEF Runnable, Fielded
<1>2. PICK n \in Nat \ {0} : n = c.months
  BY <1>1
<1>3. PICK target : target = MonthlyTargetDom(c, anchor, from)
  OBVIOUS
<1>4. PICK dom : dom = TargetDom(c, anchor)
  OBVIOUS
<1>5. \A x \in Nat : x <= t => x \in Charted /\ MonthOf(x) \in Nat
  BY <1>1, Within, MonthOfCharted, Calendar
<1>6. PICK d \in Nat : d = MonthOf(from)
  BY <1>5
<1> DEFINE OnIt(x, q) == /\ Slot(x) = Slot(from) /\ MonthOf(x) = d + q * n
                         /\ Day(x) = DayIn(MonthOf(x), dom)
           G == {x \in Nat : \E q \in Nat : OnIt(x, q)}
<1>7. ASSUME NEW x \in Nat, x <= t, NEW q \in Nat, OnIt(x, q)
      PROVE  /\ StepOf(c, target, x) \in Charted /\ OnIt(StepOf(c, target, x), q + 1)
             /\ StepOf(c, target, x) > x
  <2>1. PICK u : u = StepOf(c, target, x)
    OBVIOUS
  <2>2. /\ OnCadence(c, anchor, u) /\ u > x /\ Slot(u) = TimeOfDay(c.rt, x)
        /\ u \in Charted /\ MonthOf(u) = MonthOf(x) + c.months
    BY <1>3, <1>7, <2>1, StepRun
  <2>3. Slot(u) = Slot(from)
    BY <1>7, <2>2 DEF TimeOfDay, OnCadence
  <2>4. MonthOf(u) = d + (q + 1) * n
    <3>1. PICK a \in Nat, b \in Nat : a = q * n /\ b = (q + 1) * n /\ b = a + n
      BY Multiples
    <3>2. MonthOf(u) = (d + a) + n
      BY <1>2, <1>7, <2>2, <3>1
    <3> QED
      BY <3>1, <3>2
  <2>5. Day(u) = DayIn(MonthOf(u), dom)
    BY <1>4, <2>2 DEF OnCadence
  <2> QED
    BY <2>1, <2>2, <2>3, <2>4, <2>5
<1>8. from \in G
  <2>1. OnIt(from, 0)
    BY <1>4, <1>6 DEF OnCadence
  <2> QED
    BY <2>1
<1>9. Closed(c, target, t, G)
  <2>1. ASSUME NEW x \in G, x <= t
        PROVE  StepOf(c, target, x) \in G /\ StepOf(c, target, x) > x
    <3>1. PICK q \in Nat : OnIt(x, q)
      OBVIOUS
    <3>2. q + 1 \in Nat /\ Charted \subseteq Nat
      BY DEF Charted
    <3> HIDE DEF OnIt
    <3> QED
      BY <1>7, <2>1, <3>1, <3>2
  <2> QED
    BY <2>1 DEF Closed
<1>10. PICK H \in SUBSET Nat : H = G
  OBVIOUS
<1>11. Arrives(c, anchor, from, t, target, H)
  BY <1>3, <1>8, <1>9, <1>10, AdvanceLoop
<1>12. PICK x \in Nat, q \in Nat, u \in Charted :
         /\ x <= t /\ OnIt(x, q) /\ OnIt(u, q + 1) /\ u > t
         /\ u = ScheduledAdvance(c, anchor, from, t)
  <2>1. PICK x \in G : /\ x <= t /\ ScheduledAdvance(c, anchor, from, t) = StepOf(c, target, x)
                       /\ StepOf(c, target, x) > t
    BY <1>10, <1>11 DEF Arrives
  <2>2. PICK q \in Nat : OnIt(x, q)
    OBVIOUS
  <2>3. x \in Nat
    OBVIOUS
  <2> HIDE DEF OnIt, G
  <2> QED
    BY <1>7, <2>1, <2>2, <2>3
<1>13. (MonthOf(u) - MonthOf(from)) % c.months = 0
  <2>1. MonthOf(u) - MonthOf(from) = (q + 1) * n
    BY <1>6, <1>12, Multiples
  <2> QED
    BY <1>2, <2>1, Multiples
<1>14. ASSUME NEW y \in t + 1 .. u - 1, Slot(y) = Slot(from),
              (MonthOf(y) - MonthOf(from)) % c.months = 0, Day(y) = DayIn(MonthOf(y), dom)
       PROVE  FALSE
  <2>1. /\ u \in Nat /\ y \in Nat /\ from <= y /\ x < y /\ y < u
        /\ x <= y /\ y <= u
    BY <1>1, <1>12 DEF Charted
  <2>2. y \in Charted
    BY <2>1, ChartedBefore
  <2>3. MonthOf(from) <= MonthOf(y) /\ MonthOf(x) <= MonthOf(y) /\ MonthOf(y) <= MonthOf(u)
    BY <2>1, <2>2, ChartedBefore
  <2>4. MonthOf(y) \in Nat /\ MonthOf(x) \in Nat /\ MonthOf(u) \in Nat
    BY <1>5, <1>12, <2>2, MonthOfCharted, Calendar
  <2>5. MonthOf(x) # MonthOf(y)
    <3>1. ASSUME MonthOf(x) = MonthOf(y) PROVE FALSE
      <4>1. Day(x) = Day(y) /\ Slot(x) = Slot(y)
        BY <1>12, <1>14, <3>1
      <4> QED
        BY <2>1, <4>1, Earlier
    <3> QED
      BY <3>1
  <2>6. MonthOf(y) # MonthOf(u)
    <3>1. ASSUME MonthOf(u) = MonthOf(y) PROVE FALSE
      <4>1. Day(u) = Day(y) /\ Slot(u) = Slot(y)
        BY <1>12, <1>14, <3>1
      <4> QED
        BY <2>1, <4>1, Earlier
    <3> QED
      BY <3>1
  <2>7. PICK e \in Nat : e = MonthOf(y) - d
    BY <1>6, <2>3, <2>4
  <2>8. PICK p \in Nat : e = p * n
    BY <1>2, <1>6, <1>14, <2>7, Multiples
  <2>9. q * n < p * n /\ p * n < (q + 1) * n
    <3>1. PICK a \in Nat, b \in Nat : a = q * n /\ b = (q + 1) * n
      BY Multiples
    <3>2. MonthOf(x) = d + a /\ MonthOf(u) = d + b
      BY <1>12, <3>1
    <3>3. MonthOf(y) = d + e
      BY <2>4, <2>7
    <3>4. a < e /\ e < b
      BY <2>3, <2>4, <2>5, <2>6, <3>2, <3>3
    <3> QED
      BY <2>8, <3>1, <3>4
  <2> QED
    BY <2>9, Multiples
<1> QED
  BY <1>4, <1>12, <1>13, <1>14 DEF MovesToNext

\* The loop of NextRunScheduledAdvance, which a recursive function models, reaches the
\* first instant of the grid after now, however long the worker was down.
THEOREM ClaimsMoveToNextRun == CadenceSpec => ClaimMovesToNextRun
<1> DEFINE Moves == Claim => /\ next' > time
                             /\ ~stale => /\ OnGrid(next, next')
                                          /\ \A t \in time + 1 .. next' - 1 : ~OnGrid(next, t)
<1>1. ASSUME CadenceInv, Claim
      PROVE  /\ next' > time
             /\ ~stale => /\ OnGrid(next, next')
                          /\ \A t \in time + 1 .. next' - 1 : ~OnGrid(next, t)
  <2>1. /\ time \in Clock /\ next \in Nat \ {0} /\ next <= time
        /\ Runnable(cadence, cadence.anchor)
        /\ ~stale => OnCadence(cadence, cadence.anchor, next)
    BY <1>1 DEF CadenceInv, RowInv, NextInvar, Claim
  <2>2. PICK u : u = ScheduledAdvance(cadence, cadence.anchor, next, time)
    OBVIOUS
  <2>3. next' = u /\ u > time
    BY <1>1, <2>1, <2>2, AdvancedRun DEF Claim
  <2>4. ASSUME ~stale
        PROVE  MovesToNext(cadence, cadence.anchor, next, time, u)
    <3>1. cadence.months > 0 \/ cadence.months = 0
      BY <2>1 DEF Runnable, Fielded
    <3> QED
      BY <2>1, <2>2, <2>4, <3>1, NextOfMonths, NextOfDays
  <2> QED
    BY <2>3, <2>4 DEF MovesToNext, OnGrid, TargetDom
<1>2. CadenceInv => [Moves]_cadenceVars
  BY <1>1
<1> QED
  BY <1>2, CadenceIsInvariant, PTL DEF CadenceSpec, ClaimMovesToNextRun
=============================================================================
