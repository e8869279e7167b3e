SPECIFICATION Spec
CONSTANTS
  split1 = split1
  merge1 = merge1
  check1 = check1
  check2 = check2
  Tasks = {split1, check1}
  Clients = {ui}
  Splits = {split1}
  Merges = {}
  Conflicts = {}
  MaxNonterminal = 2
  MaxTerminalHistory = 2
  MaxCheckpointHistory = 2
  Commands <- AllCommands
  MaxAttempts <- SplitTwice
  MaxClears = 1
  StoreFaults = TRUE
  Crashes = TRUE
  NoOne = NoOne
  Worker = Worker
  NoTask = NoTask
INVARIANTS
  RunsOwnTheirRow
  CompletedIsPublished
  EpochFence
PROPERTIES
  LateResultsIgnored
  HistoryIsFinal
CHECK_DEADLOCK FALSE
