\* One member, alone or in a team; a run and a slow request at once,
\* other requests in between.
SPECIFICATION Spec
CONSTANTS
  Client = {c1}
  Run = {r1}
  Keep = 2
  None = None
  MaxId = 4
INVARIANT CurrentVersionExists
PROPERTIES PruneKeepsUserData TextReachesHistory
CHECK_DEADLOCK FALSE
