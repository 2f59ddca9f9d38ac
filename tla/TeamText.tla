------------------------------- MODULE TeamText -------------------------------
(***************************************************************************)
(* What MetaProcessor promises about the team text of a multi-person task, *)
(* with no runs, triggers, locks or timers: the text is published in one   *)
(* atomic step, from the submissions there are at that very moment, and    *)
(* only while the round is Processing.                                     *)
(***************************************************************************)
CONSTANT Member

VARIABLES
  status,   \* summary_task.status
  present,  \* the members with a personal result
  given,    \* those of them who have submitted it
  shown,    \* whose texts the current summary_result merges
  raced     \* the members about whom it was wrong when it was written, or since

vars == <<status, present, given, shown, raced>>

Stopped == {"Failed", "Cancelled"}

Init ==
  /\ status = "Processing"
  /\ present \subseteq Member
  /\ given = {}
  /\ shown = {}
  /\ raced = {}

Publish(text, wrong) ==
  /\ status = "Processing"
  /\ status' = "Completed"
  /\ shown' = text
  /\ raced' = wrong
  /\ UNCHANGED <<present, given>>

\* A merge: all submissions, and nothing else.
Merge == given # {} /\ Publish(given, {})

\* A task taken for a single-person one shows one member's text, or keeps the text it
\* had; that says of nobody but those it is wrong about that they are missing.
Sync ==
  \E text \in {{m} : m \in Member} \cup {shown} :
    Publish(text, (present \ text) \cup (text \ present))

\* Members come and go, submit and withdraw.  The task stays Completed only if its
\* text still has every submission and the same members; otherwise the round is
\* open again.
Change ==
  /\ present' \subseteq Member
  /\ given' \subseteq present'
  /\ \/ status # "Completed" /\ status' = status
     \/ status = "Completed" /\ status' = "Processing"
     \/ status = "Completed" /\ status' = status
        /\ given' \ raced \subseteq shown /\ present' = present
  /\ UNCHANGED <<shown, raced>>

\* A run that took the round for open submits for its member after the text is out.
Late ==
  /\ status = "Completed"
  /\ \E m \in present \ given : given' = given \cup {m} /\ raced' = raced \cup {m}
  /\ UNCHANGED <<status, present, shown>>

Start ==
  /\ status = "Pending"
  /\ status' = "Processing"
  /\ UNCHANGED <<present, given, shown, raced>>

Stop ==
  /\ \/ status = "Processing" /\ status' \in Stopped \cup {"Pending"}
     \/ status = "Pending" /\ status' = "Cancelled"
  /\ UNCHANGED <<present, given, shown, raced>>

\* The whole task is generated anew: submissions are withdrawn, the text is kept.
Restart ==
  /\ status \in Stopped \cup {"Completed"}
  /\ status' = "Pending"
  /\ given' \subseteq given
  /\ UNCHANGED <<present, shown, raced>>

Next == Merge \/ Sync \/ Change \/ Late \/ Start \/ Stop \/ Restart

Spec == Init /\ [][Next]_vars

=============================================================================
