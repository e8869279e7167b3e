SPECIFICATION Spec
CONSTANTS
  MaxSafeInteger = 100
  MaxSliceCount = 10
  Total = 3
  SliceSize = 2
  Contents = {"a", "b"}
  MaxOthers = 2
  RemoveFaults = TRUE
INVARIANTS TypeOK ManifestMeansWhole ChangedLeavesPartials
PROPERTIES ForeignUntouched
