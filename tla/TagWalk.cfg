\* The free-list ring at its real size: PRF_CAP = 48 slots in a 6-bit index field.
CONSTANTS
    Cap = 48
    Span = 64
SPECIFICATION Spec
INVARIANTS
    DistanceCountsSteps
    AgeWindow
CHECK_DEADLOCK FALSE
