SPECIFICATION Spec
CONSTANTS
    RobCap = 2
    RobSpan = 2
    RegCap = 2
    CkptCap = 2
    PrfSpan = 4
    FlushCap = 4
    HaltFindsRoom = FALSE
    Uops <- HaltUops
PROPERTIES
    IssueFindsRoom
