----------------------------- MODULE Recurrence -----------------------------
(***************************************************************************)
(* When a schedule runs next: the date arithmetic of                       *)
(* internal/service/schedule.go and the transactions that write a          *)
(* schedule's cadence and next_run_at (internal/api/handler/schedule.go,   *)
(* internal/worker/scheduler.go).                                          *)
(*                                                                         *)
(* An instant is a half day or less: Slots of them make a day, days count  *)
(* from the first day of the calendar.  One time zone, no clock changes.   *)
(* cron expressions, which can no longer be written, are left out.         *)
(*                                                                         *)
(* ScheduleProofs extends both Schedule and this module: their names       *)
(* differ.                                                                 *)
(***************************************************************************)
EXTENDS Naturals, Sequences

CONSTANTS
  MonthLen,    \* lengths of the months of the calendar
  FirstDow,    \* weekday of day 0, 0 = Monday
  Slots,       \* instants of a day
  MaxWindow,   \* MaxWindowDays: the longest time range of a round, 0: no limit
  Clock,       \* bound: the instants at which something happens
  Unset,
  Cadence,     \* cadences a schedule is created with
  Patch,       \* scheduling fields an update may send; Unset: not sent
  Update,      \* update requests in flight at once
  MaxUpdates   \* bound: creations, updates and toggles in a behaviour

VARIABLES
  time,     \* the clock
  cadence,  \* the cadence columns of summary_schedule
  active,   \* is_active
  next,     \* next_run_at
  last,     \* last_run_at
  window,   \* time_range_start and _end of the last round (type 4)
  upd,      \* UpdateSchedule: the request, and the anchor from its unlocked read
  updates,  \* history: creations, updates and toggles so far
  stale     \* history: next was computed with another anchor than the one stored

cadenceVars == <<time, cadence, active, next, last, window, upd, updates, stale>>

\* days, months: interval_days, interval_months; dow, dom: 0 is "any"; rt: run_time
Fields == {"days", "months", "dow", "dom", "rt"}

-----------------------------------------------------------------------------
(* The calendar                                                            *)

LastInstant == CHOOSE t \in Clock : \A s \in Clock : s <= t

Months == 1 .. Len(MonthLen)

\* The first day of each month.
First[m \in 1 .. Len(MonthLen) + 1] ==
  IF m = 1 THEN 0 ELSE First[m - 1] + MonthLen[m - 1]

Day(t) == t \div Slots
Slot(t) == t % Slots
MonthOf(t) == CHOOSE m \in Months : First[m] <= Day(t) /\ Day(t) < First[m + 1]
Dom(t) == Day(t) - First[MonthOf(t)] + 1
Dow(t) == ((Day(t) + FirstDow) % 7) + 1

\* The day of month dom of month m, clamped to its last.
DayIn(m, dom) == First[m] + (IF dom > MonthLen[m] THEN MonthLen[m] ELSE dom) - 1

AddMonthsClamped(t, n) == DayIn(MonthOf(t) + n, Dom(t)) * Slots + Slot(t)
AlignDayOfMonth(t, dom) ==
  IF dom = 0 THEN t ELSE DayIn(MonthOf(t), dom) * Slots + Slot(t)
AlignDayOfWeek(t, dow) ==
  IF dow = 0 THEN t ELSE t + ((dow + 7 - Dow(t)) % 7) * Slots
ApplyRunTime(t, rt) == IF rt = Unset THEN t ELSE Day(t) * Slots + rt
AddDays(t, n) == t + n * Slots

\* What ValidateScheduleAnchors and the request's binding let through.
RunTime == {Unset} \cup 0 .. Slots - 1
CadenceType == [days : Nat, months : Nat, dow : 0 .. 7, dom : 0 .. 31, rt : RunTime]
PatchType == [days : Nat \cup {Unset}, months : Nat \cup {Unset}, dow : 0 .. 7 \cup {Unset},
              dom : 0 .. 31 \cup {Unset}, rt : RunTime]

\* bound: n months after any instant of the clock are in the calendar.
Reach == {n \in Nat : \E m \in Months : /\ m + n <= Len(MonthLen)
                                        /\ \A t \in Clock : Day(t) < First[m + 1]}

ASSUME CalendarAssumption ==
  /\ MonthLen \in Seq(28 .. 31)
  /\ FirstDow \in 0 .. 6
  /\ Slots \in Nat \ {0} /\ MaxWindow \in Nat
  /\ Clock \subseteq Nat /\ \E t \in Clock : \A s \in Clock : s <= t
  /\ MaxUpdates \in Nat
  /\ Unset \notin Nat
  /\ Cadence \subseteq CadenceType /\ \A c \in Cadence : c.months \in Reach
  /\ Patch \subseteq PatchType /\ \A r \in Patch : r.months \in Reach \cup {Unset}

-----------------------------------------------------------------------------
(* Validation                                                              *)

\* ValidateIntervalForWrite
ValidInterval(c) == (c.days > 0) # (c.months > 0)

\* ValidateScheduleAnchors
ValidAnchors(c) ==
  IF c.months > 0 THEN c.dow = 0
  ELSE c.dom = 0 /\ (c.days % 7 # 0 => c.dow = 0)

Valid(c) == ValidInterval(c) /\ ValidAnchors(c)

-----------------------------------------------------------------------------
(* The next run                                                            *)

\* NextRunWithInterval, for a day cadence.
StepDays(c, t) ==
  LET moved == ApplyRunTime(AddDays(t, c.days), c.rt)
  IN  IF c.days % 7 = 0 THEN AlignDayOfWeek(moved, c.dow) ELSE moved

\* Mutant: each month counts from the last one, whose day may have been clamped.
AnchorOfLastRun(c, anchor, t) == IF c.dom # 0 THEN c.dom ELSE Dom(t)

MonthlyTargetDom(c, anchor, t) ==
  IF c.dom # 0 THEN c.dom ELSE IF anchor # 0 THEN anchor ELSE Dom(t)

StepMonths(c, target, t) ==
  ApplyRunTime(AlignDayOfMonth(AddMonthsClamped(t, c.months), target), c.rt)

\* Mutant: one step from the instant that was due, however long ago that was.
AdvanceOnce(c, anchor, from, t) ==
  IF c.months > 0 THEN StepMonths(c, MonthlyTargetDom(c, anchor, from), from)
  ELSE StepDays(c, from)

\* One step of a cadence.
StepOf(c, target, t) == IF c.months > 0 THEN StepMonths(c, target, t) ELSE StepDays(c, t)

\* NextRunScheduledAdvance: step from the instant that was due until after t.
ScheduledAdvance(c, anchor, from, t) ==
  LET target == MonthlyTargetDom(c, anchor, from)
      at[i \in 0 .. LastInstant] == IF i = 0 THEN from ELSE StepOf(c, target, at[i - 1])
      i == CHOOSE k \in 1 .. LastInstant :
             /\ at[k] > t
             /\ \A j \in 1 .. k - 1 : at[j] <= t
  IN  at[i]

\* effectiveScheduleDayOfMonth
EffectiveDom(c, anchor) == IF c.months > 0 /\ c.dom = 0 THEN anchor ELSE c.dom

\* NextRunInitial
NextRunInitial(c, anchor, t) ==
  LET dom   == EffectiveDom(c, anchor)
      today == ApplyRunTime(t, c.rt)
      soon  == IF c.months > 0 THEN AlignDayOfMonth(today, dom)
               ELSE IF c.days % 7 = 0 THEN AlignDayOfWeek(today, c.dow)
               ELSE today
      late  == IF c.months > 0
               THEN AlignDayOfMonth(ApplyRunTime(AddMonthsClamped(t, c.months), c.rt), dom)
               ELSE StepDays(c, t)
  IN  IF soon > t THEN soon ELSE late

\* anchorDOMForMonthlyCreate
AnchorOnCreate(c, t) == IF c.dom # 0 THEN c.dom ELSE Dom(t)

\* anchorDOMForMonthlyUpdate: the anchor to write, or Unset.
AnchorOnUpdate(stored, c, dom, t) ==
  IF c.months = 0 THEN Unset
  ELSE IF stored.months = 0 THEN AnchorOnCreate(c, t)
  ELSE IF dom = Unset \/ dom = stored.dom THEN Unset
  ELSE IF c.dom = 0 /\ stored.anchor # 0 THEN stored.anchor
  ELSE AnchorOnCreate(c, t)

-----------------------------------------------------------------------------

Row(c, anchor) == [f \in Fields \cup {"anchor"} |-> IF f = "anchor" THEN anchor ELSE c[f]]
Anchored(c, t) == Row(c, IF c.months > 0 THEN AnchorOnCreate(c, t) ELSE 0)

NoUpdate == [pc |-> "free"]
CountUpdate == updates < MaxUpdates /\ updates' = updates + 1

\* CreateSchedule, a new row.
CadenceInit ==
  /\ time \in Clock
  /\ \E c \in {c \in Cadence : Valid(c)} :
       /\ cadence = Anchored(c, time)
       /\ next = NextRunInitial(c, cadence.anchor, time)
  /\ active = TRUE
  /\ last = Unset /\ window = Unset
  /\ upd = [u \in Update |-> NoUpdate]
  /\ updates = 0 /\ stale = FALSE

\* Time passes, also while the worker is down.  A request takes no time on this
\* scale: none is in flight then.
TimePasses ==
  /\ \A u \in Update : upd[u].pc = "free"
  /\ time' \in {t \in Clock : t > time}
  /\ UNCHANGED <<cadence, active, next, last, window, upd, updates, stale>>

\* CreateSchedule on a task that has a schedule: its row is used again, and active.
Recreate(c) ==
  /\ CountUpdate
  /\ Valid(c)
  /\ LET written == AnchorOnUpdate(cadence, c, c.dom, time)
         anchor  == IF written = Unset THEN cadence.anchor ELSE written
     IN  /\ cadence' = Row(c, IF c.months > 0 THEN anchor ELSE cadence.anchor)
         /\ next' = NextRunInitial(c, anchor, time)
  /\ active' = TRUE
  /\ stale' = FALSE
  /\ UNCHANGED <<time, last, window, upd>>

\* What an update makes of a stored cadence: a field that is not sent keeps its
\* value, unless the interval that is sent makes it meaningless.
Merge(stored, req) ==
  LET eff == [f \in Fields |-> IF req[f] = Unset THEN stored[f] ELSE req[f]]
      clearDow == \/ eff.months > 0
                  \/ eff.days > 0 /\ eff.days % 7 # 0
  IN  [eff EXCEPT !.dow = IF req.dow = Unset /\ clearDow THEN 0 ELSE @,
                  !.dom = IF req.dom = Unset /\ eff.days > 0 THEN 0 ELSE @]

\* UpdateSchedule up to its transaction, on the row as it is read, unlocked.
UpdateReads(u, req) ==
  /\ CountUpdate
  /\ upd[u].pc = "free"
  /\ LET c == Merge(cadence, req)
     IN  /\ Valid(c)
         /\ upd' = [upd EXCEPT ![u] = [pc |-> "read", req |-> req,
                      anchor |-> AnchorOnUpdate(cadence, c, req.dom, time)]]
  /\ UNCHANGED <<time, cadence, active, next, last, window, stale>>

\* The transaction: merge, validation, anchor and next run again, on the locked row.
\* Only the interval fields that were sent are written.  An anchor that the unlocked
\* pass put among the columns to write stays there when the locked one has none to write.
UpdateWrites(u) ==
  /\ upd[u].pc = "read"
  /\ upd' = [upd EXCEPT ![u] = NoUpdate]
  /\ LET req     == upd[u].req
         c       == Merge(cadence, req)
         locked  == AnchorOnUpdate(cadence, c, req.dom, time)
         anchor  == IF locked # Unset THEN locked ELSE cadence.anchor
         written == IF locked # Unset THEN locked
                    ELSE IF upd[u].anchor # Unset THEN upd[u].anchor ELSE cadence.anchor
         stored  == [f \in Fields |->
                       IF f \in {"dow", "dom"} THEN c[f]
                       ELSE IF req[f] = Unset THEN cadence[f] ELSE req[f]]
     IN  \/ /\ Valid(c)
            /\ cadence' = Row(stored, written)
            /\ next' = NextRunInitial(c, anchor, time)
            /\ stale' = (c.months > 0 /\ c.dom = 0 /\ written # anchor)
         \/ ~Valid(c) /\ UNCHANGED <<cadence, next, stale>>
  /\ UNCHANGED <<time, active, last, window, updates>>

\* ToggleSchedule
Deactivate ==
  /\ CountUpdate
  /\ active' = FALSE
  /\ UNCHANGED <<time, cadence, next, last, window, upd, stale>>

Activate ==
  /\ CountUpdate
  /\ active' = TRUE
  /\ IF active THEN UNCHANGED <<next, stale>>
     ELSE next' = NextRunInitial(cadence, cadence.anchor, time) /\ stale' = FALSE
  /\ UNCHANGED <<time, cadence, last, window, upd>>

\* ComputeTimeRange caps the range.
Capped(t) == MaxWindow > 0 /\ t + MaxWindow * Slots < time

\* cadenceWindowStart
WindowStart ==
  LET back == IF cadence.months > 0
              THEN LET m == MonthOf(time) - cadence.months
                   IN  IF m < 1 THEN 0 ELSE DayIn(m, Dom(time)) * Slots + Slot(time)
              ELSE IF time < cadence.days * Slots THEN 0 ELSE time - cadence.days * Slots
      start == IF last # Unset THEN last ELSE back
  IN  IF Capped(start) THEN time - MaxWindow * Slots ELSE start

\* Mutant: a round that is skipped counts as run.
SkippedIsRun == last' = time

SkippedIsNotRun == last' = last

\* claimAndRequeueScheduledTask, as far as the calendar goes: the round runs, or is
\* skipped because the last one has not ended or nobody has confirmed.
Claim ==
  /\ active /\ next <= time
  /\ next' = ScheduledAdvance(cadence, cadence.anchor, next, time)
  /\ stale' = FALSE
  /\ \/ last' = time /\ window' = [start |-> WindowStart, end |-> time]
     \/ SkippedIsNotRun /\ UNCHANGED window
  /\ UNCHANGED <<time, cadence, active, upd, updates>>

CadenceNext ==
  \/ TimePasses \/ Claim
  \/ \E c \in Cadence : Recreate(c)
  \/ \E u \in Update, req \in Patch : UpdateReads(u, req)
  \/ \E u \in Update : UpdateWrites(u)
  \/ Deactivate \/ Activate

CadenceSpec == CadenceInit /\ [][CadenceNext]_cadenceVars

-----------------------------------------------------------------------------
(* Properties                                                              *)

\* No drift: the next run has the wanted weekday, time, and day of the month, or the
\* month's last day when it has no such day, after any number of short months, late
\* claims, updates and pauses (service/schedule.go, "anchor" of NextRunScheduledAdvance).
\* Only the day of the month may be another one, after an update that computed the run
\* with one anchor and wrote another, and until the schedule is next claimed or changed.
NextIsOnCadence ==
  /\ cadence.rt # Unset => Slot(next) = cadence.rt
  /\ cadence.dow # 0 => Dow(next) = cadence.dow
  /\ cadence.months > 0 /\ ~stale =>
       Day(next) = DayIn(MonthOf(next), IF cadence.dom # 0 THEN cadence.dom ELSE cadence.anchor)

\* The instants a schedule runs at, given one of them: the reference the loop in
\* NextRunScheduledAdvance is checked against.
OnGrid(from, t) ==
  /\ Slot(t) = Slot(from)
  /\ IF cadence.months > 0
     THEN /\ (MonthOf(t) - MonthOf(from)) % cadence.months = 0
          /\ Day(t) = DayIn(MonthOf(t), IF cadence.dom # 0 THEN cadence.dom ELSE cadence.anchor)
     ELSE (Day(t) - Day(from)) % cadence.days = 0

\* A claim moves to the first instant of the grid after now: rounds missed while the
\* worker was down run once, and none that is still to come is skipped.  With a stale
\* anchor the instant that was due is not of the grid the claim steps on.
ClaimMovesToNextRun ==
  [][Claim => /\ next' > time
              /\ ~stale => /\ OnGrid(next, next')
                           /\ \A t \in time + 1 .. next' - 1 : ~OnGrid(next, t)]_cadenceVars

\* No time falls between two rounds: the window of a round starts where that of the last
\* round ended, also when instants were skipped in between, unless that is longer ago than
\* the cap (scheduler.go:116, 226).  last_run_at moves when a round is claimed: what a
\* round that fails was to summarise is in no later window.
WindowsAbut ==
  [][(window' # window /\ window # Unset) =>
       \/ window'.start = window.end
       \/ Capped(window.end) /\ window'.start = time - MaxWindow * Slots]_cadenceVars
=============================================================================
