SPECIFICATION Spec
CONSTANTS
    RobCap = 3
    RobSpan = 4
    RegCap = 2
    CkptCap = 3
    SqCap = 3
    LqCap = 3
    Addrs = {0, 1}
    Programs <- OneStoreOneLoad
INVARIANT
    LoadsCorrected
