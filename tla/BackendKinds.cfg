SPECIFICATION FairSpec
CONSTANTS
    RobCap = 2
    RobSpan = 2
    RegCap = 2
    CkptCap = 2
    PrfSpan = 4
    FlushCap = 4
    HaltFindsRoom = TRUE
    Uops <- MixedUops
INVARIANTS
    ReadyMeansProduced
PROPERTIES
    LeavesByCommitOrSquash
    HeadCommits
