------------------------------ MODULE MCSchedule ------------------------------
\* Instances of Schedule for TLC.  Scanners, requests and schedules are interchangeable.
EXTENDS Schedule, TLC

Slots == Permutations(Scanner) \cup Permutations(Client) \cup Permutations(Sched)

\* The view: what no step and no property reads again is left out, that is a deleted
\* row but for its being so, and when a schedule that is off would have run.
Present ==
  <<[s \in Sched |-> IF ~Live(s) THEN [NoSched EXCEPT !.st = sched[s].st]
                     ELSE IF sched[s].active THEN sched[s] ELSE [sched[s] EXCEPT !.next = 0]],
    [t \in Task |-> IF task[t].st = "live" THEN <<task[t], left[t], overtaken[t]>>
                    ELSE <<[NoTask EXCEPT !.st = task[t].st], {}, FALSE>>],
    [s \in Sched |-> IF Live(s) THEN said[s] ELSE {}],
    now, scan, req, requests, fired>>
=============================================================================
