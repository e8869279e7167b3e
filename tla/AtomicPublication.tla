-------------------------- MODULE AtomicPublication --------------------------
(***************************************************************************)
(* What a split promises about its package, and a merge about its output:  *)
(* the result appears whole in one step or not at all, success is reported *)
(* of a whole result only, a success is final, and a failure leaves the    *)
(* result as it is.  Others may interfere with the files at any time; only *)
(* then may a result be spoiled, or be reported that is not there.         *)
(***************************************************************************)
EXTENDS Naturals

VARIABLES
  result,  \* none, whole, or spoiled: there but not what was promised
  report,  \* of the task: pending, failed so far, or success
  others   \* how often others have changed a file

vars == <<result, report, others>>

Results == {"none", "whole", "spoiled"}

Init == result = "none" /\ report = "pending" /\ others = 0

Publish ==
  /\ result = "none" /\ report = "pending"
  /\ result' \in {"whole"} \cup (IF others > 0 THEN {"spoiled"} ELSE {})
  /\ UNCHANGED <<report, others>>

\* The last check, after the publication, finds the source changed.
Withdraw ==
  /\ result # "none" /\ report = "pending" /\ others > 0
  /\ result' = "none" /\ report' = "failed"
  /\ UNCHANGED others

Succeed ==
  /\ report = "pending"
  /\ result = "whole" \/ others > 0
  /\ report' = "success"
  /\ UNCHANGED <<result, others>>

Fail == report = "pending" /\ report' = "failed" /\ UNCHANGED <<result, others>>
Retry == report = "failed" /\ report' = "pending" /\ UNCHANGED <<result, others>>

Interfere ==
  /\ others' = others + 1
  /\ result' \in Results
  /\ UNCHANGED report

Next == Publish \/ Withdraw \/ Succeed \/ Fail \/ Retry \/ Interfere

Spec == Init /\ [][Next]_vars
=============================================================================
