\* A submission that arrives while a merge is ending is not folded in: no fault is needed.
CONSTANTS
  Member = {c, m1}
  Creator = c
  Founder = {c, m1}
  Run = {r1, r2}
  Tail = {t1}
  Mutex = {x1, x2}
  NoMutex = NoMutex
  AutoSubmit = {FALSE}
  Faults = {}
  MaxRosterRetries = 1
SPECIFICATION Spec
SYMMETRY RunSymmetry
INVARIANT NoMissedAggregation
CHECK_DEADLOCK FALSE
