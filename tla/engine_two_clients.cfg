SPECIFICATION Spec
CONSTANTS
  split1 = split1
  merge1 = merge1
  check1 = check1
  check2 = check2
  Tasks = {split1, merge1, check1, check2}
  Clients = {ui, tool}
  Splits = {split1}
  Merges = {merge1}
  Conflicts <- SplitAndMerge
  MaxNonterminal = 2
  MaxTerminalHistory = 1
  MaxCheckpointHistory = 1
  Commands <- AdmissionCommands
  MaxAttempts <- SplitTwice
  MaxClears = 1
  StoreFaults = FALSE
  Crashes = FALSE
  NoOne = NoOne
  Worker = Worker
  NoTask = NoTask
INVARIANTS
  CapacityBound
  NoConflictingTasks
  HistoryBounded
SYMMETRY Alike
CHECK_DEADLOCK FALSE
