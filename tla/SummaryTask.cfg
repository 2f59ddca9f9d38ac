\* A manual task whose creator may add and remove another member, and an invited
\* member of one: two runs at once, a regeneration, a fault.
SPECIFICATION Spec
CONSTANTS
  Run = {r1, r2}
  Job = {j1}
  MaxRetry = 2
  TriggerType = {"manual"}
  Kind = {"team", "invited"}
  Fault = {"crash", "wedge", "llmError", "fetchError", "persistError", "overlap"}
  MaxFaults = 1
  MaxRound = 1
SYMMETRY Slots
INVARIANTS  PendingIsPolled RunsAreAccounted
PROPERTIES ImplementsTaskRound
CHECK_DEADLOCK FALSE
