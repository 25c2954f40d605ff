SPECIFICATION Spec
CONSTANTS
    CkptCap = 9
    RasCap = 2
    AlignCap = 2
    CounterSpan = 8
    HistLen = 3
    Views <- TwoViews
    ReqCap = 3
    ImemCap = 3
    Latency = 2
    LineWords = 2
    NumBlocks = 2
    FqCap = 4
    IqCap = 2
    RobCap = 2
    CondSeenCap = 4
    MaxSquashes = 0
    MaxFetches = 11
    Codes <- StraightOnly
INVARIANT
    RefillsServed
