---------------------------- MODULE MCTaskEngine ----------------------------
(* Constants of TaskEngine for TLC. *)
EXTENDS TaskEngine, TLC

CONSTANTS split1, merge1, check1, check2

AllCommands ==
  {"enqueue", "requeue", "pause", "cancel", "interrupt", "remove", "clearHistory",
   "clearAll"}
AdmissionCommands == {"enqueue", "requeue", "remove", "clearHistory"}
ControlCommands ==
  {"enqueue", "requeue", "pause", "cancel", "interrupt", "clearAll"}

\* Splits may run twice, the other tasks once.
SplitTwice == [t \in Tasks |-> IF t \in Splits THEN 2 ELSE 1]
Once == [t \in Tasks |-> 1]

SplitAndMerge == {<<split1, merge1>>, <<merge1, split1>>}

\* Clients are alike, and so are the tasks that conflict with no other.
Alike == Permutations(Clients) \cup Permutations(Tasks \ (Splits \cup Merges))
=============================================================================
