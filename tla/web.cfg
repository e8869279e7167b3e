SPECIFICATION FairSpec
CONSTANTS
  Tasks = {1, 2}
  Slices <- OneAndTwo
  MaxClears = 1
  MaxIncidents = 2
  NoTask = NoTask
INVARIANTS
  ClearedStaysCleared
  NoOrphanRuns
  RecordsTellOutcome
PROPERTIES
  ClearEnds
CHECK_DEADLOCK FALSE
