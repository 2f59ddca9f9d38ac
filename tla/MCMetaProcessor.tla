--------------------------- MODULE MCMetaProcessor ---------------------------
(* MetaProcessor on small instances.                                       *)
EXTENDS MetaProcessor, FiniteSets, TLC

RunSymmetry == Permutations(Run) \cup Permutations(Mutex)

Active == Cardinality({r \in Run : pc[r] # "idle"}) + Cardinality({t \in Tail : at[t] # "idle"})

\* Bound: triggers on their way, and they, the runs and the personal tails at once
\* (one more is still checked).
OneTrigger == posts + armed <= 1
TwoAtOnce  == posts + armed + Active <= 2

\* The view leaves out what no step and no property tells apart: a failed task from a
\* cancelled one, a mark that every run clears before it could read it, and history about a
\* text that is not shown.
Ended == IF status = "Failed" THEN "Cancelled" ELSE status
Past == {"readSubmitted", "readAccepted", "decide", "check", "save", "isDirty"}
Mark == dirty /\ \E r \in Run : pc[r] \in Past

Present == <<rosterVars, Ended, result, IF status = "Completed" THEN raced ELSE {},
             posts, timerVars, lockMap, locked, Mark, runVars, tailVars>>
=============================================================================
