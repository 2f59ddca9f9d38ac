\* One round of a manual or a scheduled task, with a fault: it settles.
SPECIFICATION Spec
CONSTANTS
  Run = {r1, r2}
  Job = {j1}
  MaxRetry = 2
  TriggerType = {"manual", "scheduled"}
  Kind = {"team", "invited"}
  Fault = {"crash", "lostTrigger", "llmError", "fetchError", "persistError"}
  MaxFaults = 1
  MaxRound = 0
PROPERTIES TaskSettles
CHECK_DEADLOCK FALSE
