SPECIFICATION Spec
CONSTANTS
    RobCap = 3
    RobSpan = 4
    RegCap = 2
    CkptCap = 3
    PrfSpan = 8
    FlushCap = 4
    HaltFindsRoom = TRUE
    Uops <- SquashUops
INVARIANTS
    TypeOK
    RobWindow
    RatReplaysRob
    CheckpointsReplay
    RegistersPartitioned
    RequestsServable
    WindowConsistent
