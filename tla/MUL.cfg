CONSTANTS
    W = 4
    RobCap = 3
    RobSpan = 4
    MulCap = 2
    Work <- WorkMUL
SPECIFICATION Spec
INVARIANTS
    TypeOK
    ProductsCorrect
    HoldsExactlyTheJobs
    NeverTwoResults
