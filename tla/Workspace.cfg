CONSTANTS
  Chat = {q1, q2}
  Key = {k1, k2}
  SaveKey = {s1, s2}
  None = None
  MaxAttempt = 2
  MaxBegin = 3
  MaxScope = 2
  MaxMsg = 3
SYMMETRY Symmetric
SPECIFICATION Spec
INVARIANTS WorkbenchAgrees OneTaskPerIntent SavedOnce CompletedTurnsRender
PROPERTY ImplementsTurns
CHECK_DEADLOCK FALSE
