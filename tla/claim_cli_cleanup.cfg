SPECIFICATION Spec
CONSTANTS
  MaxSafeInteger = 100
  MaxSliceCount = 10
  Total = 3
  SliceSize = 2
  Callers = {"desktop", "cli"}
  Contents = {"a", "b"}
  MaxRuns = 3
  MaxOthers = 2
  StoreFaults = TRUE
INVARIANTS
  CompletionMarker
CHECK_DEADLOCK FALSE
