CONSTANTS
    RunCount = 2
    Conns = {b1}
    SendBuffer = 1
    ClientBuffer = 1
    Kinds = {"document", "mixed"}
    ModelCount = 2
    MaxAttempts = 2
    Parts = 1
    ChannelSeq <- ChannelSeqOfThree
    LastSecond = 2
    BatchSize = 2
    MinWindow = 1
    Concurrency = 2
SPECIFICATION Spec
CONSTRAINT Bounds
INVARIANT EachSecondOnce NoTaskLeft OneAnswer DoneCarriesResult ConnectionIsServed RetiredStaysSilent
CHECK_DEADLOCK FALSE
