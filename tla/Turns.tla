------------------------------- MODULE Turns --------------------------------
(***************************************************************************)
(* What the workspace promises about the requests of one session: one of   *)
(* them holds the session at a time; it may lose it when its lease lapses; *)
(* only the last attempt that took the session for a request answers it,   *)
(* and answers once.  Workspace is checked, and proved, to implement this. *)
(***************************************************************************)
EXTENDS Naturals

CONSTANTS Request, Attempt, None

VARIABLES
  holder,  \* <<request, attempt>> that took the session last, or None
  held,    \* its lease still runs
  answer   \* request -> attempt that answered it, 0: not answered

vars == <<holder, held, answer>>

Init == holder = None /\ held = FALSE /\ answer = [q \in Request |-> 0]

Take(q, n) ==
  /\ ~held /\ answer[q] = 0
  /\ holder' = <<q, n>> /\ held' = TRUE
  /\ UNCHANGED answer

Lapse == held /\ held' = FALSE /\ UNCHANGED <<holder, answer>>

Answer(q, n) ==
  /\ holder = <<q, n>> /\ answer[q] = 0
  /\ answer' = [answer EXCEPT ![q] = n]
  /\ holder' = None /\ held' = FALSE

GiveUp == holder' = None /\ held' = FALSE /\ UNCHANGED answer

\* The session is deleted after its retention, with all it remembers.
Forget ==
  /\ ~held
  /\ holder' = None /\ held' = FALSE
  /\ answer' = [q \in Request |-> 0]

Next ==
  \/ \E q \in Request, n \in Attempt : Take(q, n) \/ Answer(q, n)
  \/ Lapse \/ GiveUp \/ Forget

Spec == Init /\ [][Next]_vars
=============================================================================
