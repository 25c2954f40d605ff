CONSTANTS
    LogW = 3
    RobCap = 2
    RobSpan = 2
    Work <- WorkDIV
    Later <- LaterDIV
SPECIFICATION Spec
INVARIANTS
    TypeOK
    ResidualBounded
    ResultCorrect
    OccupiedByJob
    DeliveredInTime
