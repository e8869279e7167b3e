SPECIFICATION FairSpec
CONSTANTS
  Callers = {ui, closer}
  Operation = Operation
  Nobody = Nobody
  Spurious = {ui, closer, Operation}
INVARIANTS
  PausedIsHolding
  AckMeansParked
PROPERTIES
  PauseAcknowledged
  CancelEndsParked
