SPECIFICATION Spec
CONSTANTS
  Tasks = {1, 2}
  Slices <- OneAndTwo
  MaxClears = 1
  MaxIncidents = 0
  NoTask = NoTask
INVARIANTS
  ClearStopsWorkers
CHECK_DEADLOCK FALSE
