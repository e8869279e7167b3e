----------------------------- MODULE MCWebTasks -----------------------------
(* Constants of WebTasks for TLC. *)
EXTENDS WebTasks

\* The first task has one slice, the second two.
OneAndTwo == [t \in Tasks |-> IF t = 1 THEN 1 ELSE 2]
=============================================================================
