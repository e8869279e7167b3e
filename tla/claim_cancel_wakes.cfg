SPECIFICATION FairSpec
CONSTANTS
  Callers = {ui}
  Operation = Operation
  Nobody = Nobody
  Spurious = {}
PROPERTIES
  CancelWakesPaused
CHECK_DEADLOCK FALSE
