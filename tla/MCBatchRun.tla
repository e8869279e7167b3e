----------------------------- MODULE MCBatchRun -----------------------------
(***************************************************************************)
(* Small jobs for BatchRun: a chain, one written against the order of its  *)
(* dependencies, two operations with one output, and a cycle.              *)
(***************************************************************************)
EXTENDS BatchRun

Operation(command, dependsOn, input, output) ==
    [command |-> command, dependsOn |-> dependsOn, input |-> input, output |-> output]

Chain ==
    [policy |-> "continue-independent",
     operations |-> <<Operation("split", {}, "in", "out"),
                      Operation("verify", {1}, "in", "in"),
                      Operation("inspect", {2}, "in", "in")>>]

Backwards ==
    [policy |-> "stop",
     operations |-> <<Operation("merge", {2}, "in", "out"),
                      Operation("verify", {}, "in", "in")>>]

Clash ==
    [policy |-> "stop",
     operations |-> <<Operation("merge", {}, "in", "out"),
                      Operation("merge", {}, "in", "out")>>]

Cycle ==
    [policy |-> "stop",
     operations |-> <<Operation("verify", {2}, "in", "in"),
                      Operation("verify", {1}, "in", "in")>>]

SmallJobs == {Chain, Backwards, Clash, Cycle}

=============================================================================
