\* The creator and one invited member, two runs at once, every fault: what is
\* written to the task and its team summary.
CONSTANTS
  Member = {c, m1}
  Creator = c
  Founder = {c}
  Run = {r1, r2}
  Tail = {t1}
  Mutex = {x1, x2}
  NoMutex = NoMutex
  AutoSubmit = {TRUE, FALSE}
  Faults = {"crash", "lostPost", "mergeError", "takeover"}
  MaxRosterRetries = 1
SPECIFICATION Spec
SYMMETRY RunSymmetry
CONSTRAINT OneTrigger TwoAtOnce
VIEW Present
INVARIANT CompletedMatchesRoster
PROPERTY ImplementsTeamText
CHECK_DEADLOCK FALSE
