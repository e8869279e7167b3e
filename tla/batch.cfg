SPECIFICATION Spec
CONSTANTS
    Jobs <- SmallJobs
    Paths = {"in", "out"}
    MaxAttempts = 1
    MaxRuns = 2
    MaxOverlap = 2
    MaxOthers = 1
    StoreFaults = TRUE
INVARIANTS
    DependenciesFirst
    SettledRun
    ExecutionsAreCounted
PROPERTIES
    NoLostUpdate
CHECK_DEADLOCK FALSE
