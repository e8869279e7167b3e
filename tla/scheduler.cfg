SPECIFICATION Spec
CONSTANTS
  Tasks = {1, 2, 3}
  Window = 1
  Priorities = {0, 2}
  Commands = {"requeue", "setPriority", "move", "cancel", "remove"}
  OrderBound = 4
  NoTask = NoTask
INVARIANTS
  ArrivalOrder
  BoundedPassing
PROPERTIES
  FifoWithinPriority
CHECK_DEADLOCK FALSE
