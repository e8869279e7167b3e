SPECIFICATION Spec
CONSTANTS
    Jobs <- SmallJobs
    Paths = {"in", "out"}
    MaxAttempts = 1
    MaxRuns = 2
    MaxOverlap = 2
    MaxOthers = 1
    StoreFaults = TRUE
INVARIANTS
    TypeOK
CHECK_DEADLOCK FALSE
