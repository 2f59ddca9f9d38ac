\* A team of two, two tasks that may change their schedules, two scans and two
\* requests at once.
SPECIFICATION Spec
CONSTANTS
  Member = {m}
  Creator = c
  Sched = {s1, s2}
  Task = {1, 2}
  Scanner = {w1, w2}
  Client = {r1, r2}
  Kind = {"create", "update", "leave", "add", "delete"}
  Team = {TRUE, FALSE}
  None = None
  MaxNow = 1
  MaxRequests = 4
SYMMETRY Slots
VIEW Present
INVARIANTS OncePerInstant NoOrphanSchedule ConfirmationsCount LeaversStayOut
CHECK_DEADLOCK FALSE
