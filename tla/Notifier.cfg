\* Three runners, two callbacks per round, two rounds and two faults of any kind:
\* who may deliver, how often, and what the row ends up saying.
CONSTANTS
  Runner = {p1, p2, p3}
  MaxAttempts = 2
  MaxCalls = 2
  MaxRound = 2
  MaxFaults = 2
  Faults = {"crash", "timeout", "writeError", "lookupError", "stall"}
SPECIFICATION FairSpec
INVARIANTS
  OneOwner
  DuplicateOnlyAfterLoss
  SentWasDelivered
PROPERTY ClaimedSettles
CHECK_DEADLOCK FALSE
