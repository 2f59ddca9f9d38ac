------------------------------ MODULE TaskRound ------------------------------
(***************************************************************************)
(* What everyone who writes summary_task.status together promise, whether  *)
(* they are personal runs, poll, pipeline jobs, scans or handlers: the     *)
(* life of a task, one compare-and-set at a time.                          *)
(***************************************************************************)
EXTENDS Naturals

CONSTANT MaxRetry

VARIABLES
  status,   \* summary_task.status
  tries     \* summary_task.retry_count

vars == <<status, tries>>

Init == status = "Pending" /\ tries = 0

\* Nobody completes, fails or puts back a round that is not Processing, whatever it was
\* when they began to work on it.
Take == status = "Pending" /\ status' = "Processing" /\ UNCHANGED tries

Complete == status = "Processing" /\ status' = "Completed" /\ UNCHANGED tries

\* The round is put back: the count says so and leaves a try.  It need not have grown: a
\* job may have loaded it long ago.
PutBack == status = "Processing" /\ status' = "Pending" /\ tries' \in 1 .. MaxRetry - 1

\* Out of tries, or failed by its only member's run.
Fail == status = "Processing" /\ status' = "Failed" /\ tries' \in {tries, MaxRetry}

Cancel ==
  status \in {"Pending", "Processing"} /\ status' = "Cancelled" /\ UNCHANGED tries

Revive == status = "Completed" /\ status' = "Processing" /\ UNCHANGED tries

\* Only a regeneration gives every try back.
Restart ==
  status \in {"Completed", "Failed", "Cancelled"} /\ status' = "Pending" /\ tries' = 0

Next == Take \/ Complete \/ PutBack \/ Fail \/ Cancel \/ Revive \/ Restart

Spec == Init /\ [][Next]_vars

=============================================================================
