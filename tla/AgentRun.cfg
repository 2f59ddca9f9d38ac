SPECIFICATION Spec
CONSTANTS
    Channels = {c1, c2}
    Expected = {c1, c2}
    MaxSteps = 8
    MaxRounds = 1
    MaxHandles = 2
    MaxNudges = 1
    MaxCalls = 2
    MaxFaults = 1
INVARIANT AnswerIsReduced
INVARIANT FatalIsJudged
INVARIANT CompleteHasEvidence
INVARIANT ObedientIsDelivered
SYMMETRY Sym
CHECK_DEADLOCK FALSE
