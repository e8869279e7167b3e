SPECIFICATION Spec
CONSTANTS
    Jobs <- SmallJobs
    Paths = {"in", "out"}
    MaxAttempts = 2
    MaxRuns = 3
    MaxOverlap = 1
    MaxOthers = 1
    StoreFaults = FALSE
PROPERTIES
    CompletedNotRerun
CHECK_DEADLOCK FALSE
