SPECIFICATION Spec
CONSTANTS
  MaxSafeInteger = 100
  MaxSliceCount = 10
  Plans <- SmallPlans
  Callers = {"desktop", "cli"}
  MaxRuns = 3
  MaxOthers = 2
  StoreFaults = TRUE
INVARIANTS
  OutputWhole
  BoundaryHolds
  RefusedOnlyStranded
  PlanCutsFile
PROPERTIES
  MergeIsAtomic
CHECK_DEADLOCK FALSE
