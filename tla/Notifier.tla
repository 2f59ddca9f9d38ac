------------------------------ MODULE Notifier ------------------------------
(***************************************************************************)
(* The delivery of one terminal-state notification: the row of             *)
(* summary_notification for one (task, kind, recipient), the callbacks     *)
(* that claim it and the background sweep that recovers it                 *)
(* (internal/notify/notify.go).  Rows are independent of each other.       *)
(*                                                                         *)
(* A runner is a goroutine: an OnTaskTerminal callback, or a sweep (cron   *)
(* starts one every minute whether or not the last one has returned).      *)
(* Every statement on the row is a step; the delivery is a call to another *)
(* service.                                                                *)
(***************************************************************************)
EXTENDS Naturals

CONSTANTS
  Runner,
  MaxAttempts,   \* cfg.MaxAttempts
  MaxCalls,      \* bound: callbacks that report the same terminal status
  MaxRound,      \* bound: rounds of the task, each re-arming its notifications
  MaxFaults,     \* bound: faults of the kinds below, taken together
  Faults         \* subset of {"crash", "timeout", "writeError", "lookupError",
                 \*            "stall"}

ASSUME ConstantsAssumption ==
  /\ MaxAttempts \in Nat \ {0}
  /\ MaxCalls \in Nat
  /\ MaxRound \in Nat \ {0}
  /\ MaxFaults \in Nat

VARIABLES
  row,        \* the row's status, "none" when there is no row
  attempts,   \* attempt_count
  stale,      \* updated_at is older than PendingLease
  round,      \* how many times the task has been (re)generated
  owed,       \* per round: the callbacks about to be made
  pc,         \* each runner's next step
  of,         \* the round each runner reports
  \* What happened, for the properties.
  delivered,  \* messages of this round the recipient got
  lost,       \* deliveries of this round whose outcome was never recorded
  stalled,    \* a lease of this round expired under a runner still at work
  crossed,    \* a runner of an earlier round wrote this round's row
  faults      \* faults so far

history == <<delivered, lost, stalled, crossed>>
vars == <<row, attempts, stale, round, owed, pc, of, history, faults>>

Round == 1 .. MaxRound
RowStatus == {"none", "pending", "failed", "sent"}
Step == {"idle", "insert", "reread", "retry", "reclaim", "deliver",
         "markSent", "markFailed"}

TypeOK ==
  /\ row \in RowStatus
  /\ attempts \in Nat
  /\ stale \in BOOLEAN
  /\ round \in Round
  /\ owed \in [Round -> 0 .. MaxCalls]
  /\ pc \in [Runner -> Step]
  /\ of \in [Runner -> Round]
  /\ delivered \in Nat
  /\ lost \in Nat
  /\ stalled \in BOOLEAN /\ crossed \in BOOLEAN
  /\ faults \in 0 .. MaxFaults

Init ==
  /\ row = "none"
  /\ attempts = 0
  /\ stale = FALSE
  /\ round = 1
  /\ owed = [k \in Round |-> IF k = 1 THEN MaxCalls ELSE 0]
  /\ pc = [p \in Runner |-> "idle"]
  /\ of = [p \in Runner |-> 1]
  /\ delivered = 0
  /\ lost = 0
  /\ stalled = FALSE /\ crossed = FALSE
  /\ faults = 0

Fault(kind) == kind \in Faults /\ faults < MaxFaults /\ faults' = faults + 1

\* p reports this round; p won its row and has not recorded an outcome yet.
Current(p) == of[p] = round
Owns(p)    == Current(p) /\ pc[p] \in {"deliver", "markSent", "markFailed"}
Budget  == attempts < MaxAttempts

Goto(p, s) == pc' = [pc EXCEPT ![p] = s]
Touch(p)   == crossed' = (crossed \/ ~Current(p))

-----------------------------------------------------------------------------
(* OnTaskTerminal                                                          *)

\* The callback of round k starts: it resolves the recipients first, and returns
\* when the lookup fails.
OnTaskTerminal(p, k) ==
  /\ pc[p] = "idle"
  /\ owed[k] > 0
  /\ owed' = [owed EXCEPT ![k] = @ - 1]
  /\ \/ Goto(p, "insert") /\ of' = [of EXCEPT ![p] = k] /\ UNCHANGED faults
     \/ Fault("lookupError") /\ UNCHANGED <<pc, of>>
  /\ UNCHANGED <<row, attempts, stale, round, history>>

\* claim: the unique key lets one INSERT through.
Insert(p) ==
  /\ pc[p] = "insert"
  /\ \/ row = "none" /\ row' = "pending" /\ attempts' = 0 /\ stale' = FALSE
        /\ Goto(p, "deliver") /\ Touch(p)
     \/ row # "none" /\ Goto(p, "reread") /\ UNCHANGED <<row, attempts, stale, crossed>>
  /\ UNCHANGED <<round, owed, of, delivered, lost, stalled, faults>>

\* The duplicate key's row is read in a statement of its own.
Reread(p) ==
  /\ pc[p] = "reread"
  /\ Goto(p, IF row = "failed" /\ Budget THEN "retry" ELSE "idle")
  /\ UNCHANGED <<row, attempts, stale, round, owed, of, history, faults>>

-----------------------------------------------------------------------------
(* Claiming the row again: an UPDATE whose WHERE repeats what was read.    *)

\* Mutant: the UPDATE only asks for an unsent row.
RetryUnlessSent == row # "sent" /\ Budget

RetryGuard == row = "failed" /\ Budget

ClaimRetry(p) ==
  /\ pc[p] = "retry"
  /\ \/ RetryGuard /\ row' = "pending" /\ stale' = FALSE /\ Goto(p, "deliver") /\ Touch(p)
     \/ ~RetryGuard /\ Goto(p, "idle") /\ UNCHANGED <<row, stale, crossed>>
  /\ UNCHANGED <<attempts, round, owed, of, delivered, lost, stalled, faults>>

\* Mutant: the UPDATE does not repeat the age of the row.
AnyPending == row = "pending"

StaleGuard == row = "pending" /\ stale

ClaimStalePending(p) ==
  /\ pc[p] = "reclaim"
  /\ \/ StaleGuard /\ stale' = FALSE /\ Goto(p, "deliver") /\ Touch(p)
     \/ ~StaleGuard /\ Goto(p, "idle") /\ UNCHANGED <<stale, crossed>>
  /\ UNCHANGED <<row, attempts, round, owed, of, delivered, lost, stalled, faults>>

-----------------------------------------------------------------------------
(* Sweep lists the rows it may recover, then claims each one.              *)

\* Mutant: a failed row is never listed.
SweepNothing(p) == pc[p] = "idle" /\ row = "none" /\ UNCHANGED vars

SweepRetryFailed(p) ==
  /\ pc[p] = "idle"
  /\ row = "failed" /\ Budget
  /\ Goto(p, "retry")
  /\ of' = [of EXCEPT ![p] = round]
  /\ UNCHANGED <<row, attempts, stale, round, owed, history, faults>>

SweepStalePending(p) ==
  /\ pc[p] = "idle"
  /\ row = "pending" /\ stale /\ Budget
  /\ Goto(p, "reclaim")
  /\ of' = [of EXCEPT ![p] = round]
  /\ UNCHANGED <<row, attempts, stale, round, owed, history, faults>>

\* Five minutes pass on a pending row.  The call it waits for is cut off after
\* 15 seconds: whoever owned the row is dead, or waits for the database.
LeaseExpires ==
  /\ row = "pending" /\ ~stale
  /\ \A p \in Runner : ~Owns(p)
  /\ stale' = TRUE
  /\ UNCHANGED <<row, attempts, round, owed, pc, of, history, faults>>

Stall ==
  /\ row = "pending" /\ ~stale
  /\ \E p \in Runner : Owns(p)
  /\ Fault("stall")
  /\ stale' = TRUE
  /\ stalled' = TRUE
  /\ UNCHANGED <<row, attempts, round, owed, pc, of, delivered, lost, crossed>>

-----------------------------------------------------------------------------
(* Delivery and its record.                                                *)

Reach(p)  == delivered' = IF Current(p) THEN delivered + 1 ELSE delivered
Forget(p) == lost' = IF Current(p) THEN lost + 1 ELSE lost

\* deliver: the message arrives and is acknowledged; it does not arrive; or it
\* arrives and the call is cut off before the answer.
Deliver(p) ==
  /\ pc[p] = "deliver"
  /\ \/ Reach(p) /\ Goto(p, "markSent") /\ UNCHANGED <<lost, faults>>
     \/ Goto(p, "markFailed") /\ UNCHANGED <<delivered, lost, faults>>
     \/ Fault("timeout") /\ Reach(p) /\ Forget(p) /\ Goto(p, "markFailed")
  /\ UNCHANGED <<row, attempts, stale, round, owed, of, stalled, crossed>>

\* The status markSent and markFailed write: neither asks what the row holds, nor
\* whose round it is.
Record(p, s) == row' = IF row = "none" THEN "none" ELSE s

\* An UPDATE that fails is logged and forgotten.
Mark(p) ==
  /\ pc[p] \in {"markSent", "markFailed"}
  /\ \/ /\ Record(p, IF pc[p] = "markSent" THEN "sent" ELSE "failed")
        /\ attempts' = IF row = "none" THEN attempts ELSE attempts + 1
        /\ IF row = "none" THEN UNCHANGED crossed ELSE Touch(p)
        /\ UNCHANGED <<lost, faults>>
     \/ /\ Fault("writeError")
        /\ IF pc[p] = "markSent" THEN Forget(p) ELSE UNCHANGED lost
        /\ UNCHANGED <<row, attempts, crossed>>
  /\ Goto(p, "idle")
  /\ UNCHANGED <<stale, round, owed, of, delivered, stalled>>

\* The process a runner lives in dies.
Crash(p) ==
  /\ pc[p] # "idle"
  /\ Fault("crash")
  /\ IF pc[p] = "markSent" THEN Forget(p) ELSE UNCHANGED lost
  /\ Goto(p, "idle")
  /\ UNCHANGED <<row, attempts, stale, round, owed, of, delivered, stalled, crossed>>

-----------------------------------------------------------------------------
\* Mutant: the last round's rows are left alone.
KeepRows == UNCHANGED <<row, attempts, stale>>

ClearRows == row' = "none" /\ attempts' = 0 /\ stale' = FALSE

\* RegenerateSummary, or the scheduler's requeue, deletes the task's rows and
\* runs it again, whatever callback or sweep of the last round is still at work.
Rearm ==
  /\ round < MaxRound
  /\ ClearRows
  /\ round' = round + 1
  /\ owed' = [owed EXCEPT ![round'] = MaxCalls]
  /\ delivered' = 0
  /\ lost' = 0
  /\ stalled' = FALSE
  /\ crossed' = FALSE
  /\ UNCHANGED <<pc, of, faults>>

RunnerStep(p) ==
  \/ Insert(p) \/ Reread(p) \/ ClaimRetry(p) \/ ClaimStalePending(p)
  \/ Deliver(p) \/ Mark(p)

Next ==
  \/ \E p \in Runner :
       \/ \E k \in Round : OnTaskTerminal(p, k)
       \/ SweepRetryFailed(p) \/ SweepStalePending(p)
       \/ RunnerStep(p) \/ Crash(p)
  \/ LeaseExpires \/ Stall \/ Rearm

Spec == Init /\ [][Next]_vars

\* A goroutine that can go on does, the cron starts a sweep every minute, and
\* time passes.
Fairness ==
  /\ \A p \in Runner : /\ WF_vars(RunnerStep(p))
                       /\ WF_vars(SweepRetryFailed(p))
                       /\ WF_vars(SweepStalePending(p))
                       /\ WF_vars(\E k \in Round : OnTaskTerminal(p, k))
  /\ WF_vars(LeaseExpires)

FairSpec == Spec /\ Fairness

-----------------------------------------------------------------------------
(* Properties                                                              *)

\* The round's row is its own runners', each within its lease.
Undisturbed == ~stalled /\ ~crossed

\* Callbacks and sweeps of a round never deliver the same row at once
\* (notify.go:153-159, scheduler.go:39-40), and whoever delivers finds the row as it
\* was claimed: pending, within its lease and with budget.
OneOwner ==
  Undisturbed =>
    \A p \in Runner : Owns(p) =>
      /\ row = "pending" /\ ~stale /\ Budget
      /\ \A q \in Runner : Owns(q) => q = p

\* A recipient gets a second message only when the record of the first was lost:
\* a cut-off call, a failed write, a crash (notify.go:7-14).
DuplicateOnlyAfterLoss == Undisturbed => delivered <= 1 + lost

\* A row that says sent stays so for its round, and no message follows it.
SentIsFinal ==
  [][(row = "sent" /\ round' = round /\ Undisturbed') =>
       row' = "sent" /\ delivered' = delivered]_vars

\* A row that says sent is backed by a message of this very round (notify.go:12,
\* task.go:1553-1554, "re-arm notification delivery").  Regenerating under a delivery
\* breaks it, and nothing else does: not a lease taken over from a runner still
\* writing, nor a cut-off call, a lost record or a crash.
SentWasDelivered == row = "sent" => delivered > 0 \/ crossed

\* What makes them inductive: nobody reports a round that has not begun, a pending row
\* has budget for its delivery, an acknowledged delivery reached the recipient, and a
\* delivery is acknowledged, recorded or lost.
NotAhead ==
  /\ \A p \in Runner : of[p] <= round
  /\ \A k \in Round : k > round => owed[k] = 0
PendingHasBudget == row = "pending" => Budget
Acked(p) == Current(p) /\ pc[p] = "markSent"
AckedWasDelivered == \A p \in Runner : Acked(p) => delivered > 0
Settled == row = "sent" \/ \E p \in Runner : Acked(p)
DeliveriesAccounted == Undisturbed => delivered <= lost + (IF Settled THEN 1 ELSE 0)
IInv == /\ TypeOK
        /\ OneOwner
        /\ NotAhead
        /\ PendingHasBudget
        /\ AckedWasDelivered
        /\ SentWasDelivered
        /\ DeliveriesAccounted

\* A claimed row is not forgotten (notify.go:565-577): it ends up sent, or failed
\* with its whole budget spent, unless the task is run again.
Exhausted == row = "failed" /\ ~Budget
ClaimedSettles == (row # "none") ~> (row = "sent" \/ Exhausted \/ row = "none")
=============================================================================
