\* Two places, and two functions that submit from inside the pool: it can fill up with
\* functions that wait for each other.
CONSTANTS
  Slot = {s1, s2}
  QueueCap = 1
  PollBatch = 2
  MaxDispatch = 2
  MaxTries = 2
  Tasks = 2
  PersonalPost = {p1, p2}
  MetaPost = {m1}
SPECIFICATION FairSpec
PROPERTIES
  DrainReturns
  TriggerIsAnswered
  AcceptedWorkIsRun
CHECK_DEADLOCK FALSE
