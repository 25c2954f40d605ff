SPECIFICATION Spec
CONSTANTS
    RobCap = 4
    RobSpan = 4
    RegCap = 2
    CkptCap = 4
    PrfSpan = 8
    FlushCap = 4
    HaltFindsRoom = TRUE
    Uops <- WrongPathUops
INVARIANTS
    RatReplaysRob
