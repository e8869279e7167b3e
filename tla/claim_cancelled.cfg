SPECIFICATION Spec
CONSTANTS
  split1 = split1
  merge1 = merge1
  check1 = check1
  check2 = check2
  Tasks = {split1}
  Clients = {ui}
  Splits = {split1}
  Merges = {}
  Conflicts = {}
  MaxNonterminal = 1
  MaxTerminalHistory = 1
  MaxCheckpointHistory = 1
  Commands <- AllCommands
  MaxAttempts <- Once
  MaxClears = 0
  StoreFaults = FALSE
  Crashes = FALSE
  NoOne = NoOne
  Worker = Worker
  NoTask = NoTask
INVARIANTS
  CancelledLeavesNoResult
CHECK_DEADLOCK FALSE
