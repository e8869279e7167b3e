------------------------------ MODULE BatchRun ------------------------------
(***************************************************************************)
(* One Batch Job of the command line: its run-state file and the           *)
(* invocations of `batch run` and `batch resume` that share it             *)
(* (crates/cakesplitter-cli/src/batch.rs).                                 *)
(*                                                                         *)
(* A run creates the run-state file, preflights every operation, and       *)
(* executes them one at a time in dependency order, writing the file       *)
(* before and after each one.  Every write takes the writer lock, re-reads *)
(* the file and gives up when the revision moved.  Invocations overlap:    *)
(* nothing keeps a second process from resuming a run that another process *)
(* still executes.  A crash, Ctrl+C, a storage error and changes by other  *)
(* programs may come between any two steps.                                *)
(*                                                                         *)
(* The effect of an operation is one publication that happens whole or not *)
(* at all: this is what AtomicPublication promises and what ResumableSplit *)
(* and ResumableMerge are shown to implement.  Event texts, receipts and   *)
(* result summaries are left out.                                          *)
(***************************************************************************)
EXTENDS Integers, Sequences, FiniteSets, FiniteSetsExt, SequencesExt

CONSTANTS Jobs,          \* the normalized Batch Jobs to try, see JobShape
          Paths,         \* names of inputs and outputs
          MaxAttempts,   \* MAX_OPERATION_ATTEMPTS
          MaxRuns,       \* bound: invocations of `batch run` and `batch resume`
          MaxOverlap,    \* bound: invocations at one time
          MaxOthers,     \* bound: changes by other programs
          StoreFaults    \* may the storage fail?

Kinds == {"split", "merge", "inspect", "verify"}
Policies == {"stop", "continue-independent"}

\* A job is a sequence of operations and a failure policy.  A split reads a
\* file and publishes a package, a merge reads a package and publishes a
\* file; inspect and verify read a package and name no output of their own.
\* No operation depends on itself or on an unknown one.
Operations == [command : Kinds, dependsOn : SUBSET Nat, input : Paths, output : Paths]

JobShape(j) ==
    /\ j.policy \in Policies
    /\ j.operations \in Seq(Operations)
    /\ \A i \in DOMAIN j.operations :
        LET operation == j.operations[i] IN
        /\ operation.dependsOn \subseteq DOMAIN j.operations \ {i}
        /\ operation.output # operation.input <=> operation.command \in {"split", "merge"}

ASSUME ConstantsAssumption ==
    /\ \A j \in Jobs : JobShape(j)
    /\ {MaxAttempts, MaxRuns, MaxOverlap, MaxOthers} \subseteq Nat
    /\ StoreFaults \in BOOLEAN

Invocations == 1 .. MaxRuns

VARIABLES
    job,        \* the loaded job: the digest check makes it the same for all
    stored,     \* the run-state file: "absent", "partial" or "whole"
    file,       \* the run state the file holds when whole
    lock,       \* the invocation that holds the writer lock, or 0
    disk,       \* what each path holds: Absent, an operation, Original or foreign
    invocation, \* the processes
    started,    \* history: how often each operation began to execute
    finished,   \* history: the operations ever recorded as completed
    others      \* bound: changes by other programs so far

vars == <<job, stored, file, lock, disk, invocation, started, finished, others>>

Ops == DOMAIN job.operations
Op(i) == job.operations[i]
Publishes(i) == Op(i).command \in {"split", "merge"}

\* The contents of a path.  An operation's result is its own number; what
\* another program wrote is a negative number, new each time.
Absent == 0
Original == Len(job.operations) + 1
Foreign == -(others + 1)

-----------------------------------------------------------------------------
(* The order of execution.                                                 *)

\* Kahn's algorithm with the ready list sorted by position in the
\* specification: each step takes the first operation whose dependencies
\* have all been taken.  It stops early exactly when there is a cycle.
OrderUpTo[n \in Nat] ==
    IF n = 0 THEN <<>>
    ELSE LET before == OrderUpTo[n - 1]
             taken == ToSet(before)
             ready == {i \in Ops \ taken : Op(i).dependsOn \subseteq taken}
         IN IF ready = {} THEN before ELSE Append(before, Min(ready))

Order == OrderUpTo[Len(job.operations)]

\* graph_order refuses a job with a cycle, before any file is written.
Accepted == Len(Order) = Len(job.operations)

-----------------------------------------------------------------------------
(* The run state.                                                          *)

Statuses == {"not-started", "running", "completed", "failed", "cancelled", "blocked"}
Terminals == {"running", "completed", "completed-with-failures", "failed", "cancelled"}

NoEvidence == <<>>

NewRunState ==
    [status    |-> [i \in Ops |-> "not-started"],
     attempts  |-> [i \in Ops |-> 0],
     retryable |-> [i \in Ops |-> FALSE],
     evidence  |-> [i \in Ops |-> NoEvidence],
     terminal  |-> "running",
     revision  |-> 0]

\* The status of an operation and whether its recorded error is retryable.
Recorded(s, i, status, retryable) ==
    [s EXCEPT !.status[i] = status, !.retryable[i] = retryable]

MarkCancelled(s) ==
    [s EXCEPT !.status = [i \in Ops |-> IF s.status[i] \in {"not-started", "running"}
                                        THEN "cancelled" ELSE s.status[i]]]

CancelledRun(s) == [MarkCancelled(s) EXCEPT !.terminal = "cancelled"]

\* What the stop policy leaves undone is blocked, once the loop is over.
StopRest(s) ==
    [s EXCEPT !.status = [i \in Ops |-> IF s.status[i] \in {"not-started", "running"}
                                        THEN "blocked" ELSE s.status[i]]]

\* The files whose identity an operation's evidence records: a merge binds
\* its output and its package, every other operation its input only.  The
\* identity of a split's output directory outlives the Slices in it.
Bound(i) == IF Op(i).command = "merge" THEN {Op(i).input, Op(i).output} ELSE {Op(i).input}

Evidence(i) == [p \in Bound(i) |-> disk[p]]

EvidenceHolds(s) ==
    \A i \in Ops : s.status[i] = "completed" => s.evidence[i] = Evidence(i)

\* prepare_resume_state, after the digest and the evidence were accepted.
Prepared(s, retryFailed, retryCancelled) ==
    LET again(i) == \/ s.status[i] = "running"
                    \/ s.status[i] = "failed" /\ retryFailed /\ s.retryable[i]
                    \/ s.status[i] = "cancelled" /\ retryCancelled
    IN [s EXCEPT !.status = [i \in Ops |-> IF again(i) THEN "not-started" ELSE s.status[i]],
                 !.terminal = "running"]

-----------------------------------------------------------------------------
(* Preflight.                                                              *)

\* plan_split, plan_merge and prepare_package: the input is there and the
\* output is not.
FilesReady(i) ==
    /\ disk[Op(i).input] # Absent
    /\ Publishes(i) => disk[Op(i).output] = Absent

\* plan_job, in dependency order.  `hit` is an operation that is not ready
\* for another reason, such as an error or too little space (0 if none).
Preflight(s, hit) ==
    LET ready[n \in DOMAIN Order] ==
            LET i == Order[n] IN
            \/ s.status[i] = "completed"
            \/ /\ Op(i).dependsOn \subseteq {Order[m] : m \in {m \in 1 .. n - 1 : ready[m]}}
               /\ FilesReady(i)
               /\ i # hit
        readyOps == {Order[n] : n \in {n \in DOMAIN Order : ready[n]}}
    IN [i \in Ops |-> IF i \in readyOps THEN "ready"
                     ELSE IF Op(i).dependsOn \subseteq readyOps THEN "not-ready"
                     ELSE "blocked"]

PlanReady(plan) == \A i \in Ops : plan[i] = "ready"

\* A preflight that is not ready fails every operation it does not block,
\* the ready and the completed ones too: each planned operation has an
\* "error" key, null or not, and the code asks only whether the key exists.
PreflightFailed(s, plan, retryable) ==
    [s EXCEPT !.status = [i \in Ops |-> IF plan[i] = "blocked" THEN "blocked" ELSE "failed"],
              !.retryable = [i \in Ops |-> IF plan[i] = "blocked" THEN s.retryable[i]
                                         ELSE i \in retryable],
              !.terminal = "failed"]

\* preflight_operation_safe turns every error into "not ready", a
\* cancellation as well.  The next operation's check notices Ctrl+C, but
\* nothing follows the last one: there a cancelled hash is a failed preflight.
Swallowed(p, i) ==
    /\ invocation[p].interrupted
    /\ i = Last(Order)
    /\ Op(i).command # "split"

\* The operations that storage errors or a cancelled hash can hit.
PreflightHits(p) ==
    {i \in Ops : /\ invocation[p].state.status[i] # "completed"
                 /\ StoreFaults \/ Swallowed(p, i)}

-----------------------------------------------------------------------------
(* The processes.                                                          *)

Phases == {"new", "creating", "begin", "plan", "loop", "execute", "capture",
           "finish", "final", "replace", "ended"}

NoOptions == [retryFailed |-> FALSE, retryCancelled |-> FALSE]

Idle(phase) ==
    [phase |-> phase, next |-> "ended", state |-> NewRunState, options |-> NoOptions,
     interrupted |-> FALSE, position |-> 1, failureSeen |-> FALSE, cancelled |-> FALSE]

At(p, phase) == invocation[p].phase = phase
Current(p) == Order[invocation[p].position]
CurrentStatus(p) == invocation[p].state.status[Current(p)]

Becomes(p, record) == invocation' = [invocation EXCEPT ![p] = record]
Goto(p, phase) == Becomes(p, [invocation[p] EXCEPT !.phase = phase])
Ends(p) == Becomes(p, Idle("ended"))

\* A faulty writer that does not look at the lock.
Unguarded(p) == TRUE

LockFree(p) == lock = 0

\* A faulty writer that does not compare revisions.
AnyRevision(s) == s.revision <= file.revision

RevisionCurrent(s) == s.revision = file.revision

\* persist_state, called with state s by the process of the record, to go on
\* at phase next.  It takes the lock and compares revisions; Replace is the
\* rest.  When another process is writing, or wrote since the state was
\* read, the invocation ends with an error.
Write(p, record, s, next) ==
    IF LockFree(p) /\ RevisionCurrent(s)
    THEN /\ lock' = p
         /\ Becomes(p, [record EXCEPT !.state = s, !.phase = "replace", !.next = next])
    ELSE UNCHANGED lock /\ Ends(p)

Save(p, s, next) == Write(p, invocation[p], s, next)

\* Invocations are numbered in the order in which they start.
Active == {p \in Invocations : invocation[p].phase \notin {"new", "ended"}}
Starts(p) ==
    /\ At(p, "new")
    /\ p > 1 => ~At(p - 1, "new")
    /\ Cardinality(Active) < MaxOverlap

Init ==
    /\ job \in Jobs
    /\ stored = "absent"
    /\ file = NewRunState
    /\ lock = 0
    /\ disk = [p \in Paths |-> IF \E i \in Ops : Op(i).input = p THEN Original ELSE Absent]
    /\ invocation = [p \in Invocations |-> Idle("new")]
    /\ started = [i \in Ops |-> 0]
    /\ finished = {}
    /\ others = 0

\* `batch run` opens the run-state file with create_new: it refuses a file
\* that exists, whatever it holds.
Run(p) ==
    /\ Starts(p)
    /\ Accepted
    /\ stored = "absent"
    /\ stored' = "partial"
    /\ Becomes(p, [Idle("creating") EXCEPT !.next = "begin"])
    /\ UNCHANGED <<job, file, lock, disk, started, finished, others>>

\* The first state is written in place, not through a temporary file.
Created(p) ==
    /\ At(p, "creating")
    /\ stored' = "whole"
    /\ file' = invocation[p].state
    /\ Goto(p, "begin")
    /\ UNCHANGED <<job, lock, disk, started, finished, others>>

CreateFails(p) ==
    /\ At(p, "creating")
    /\ StoreFaults
    /\ stored' = "absent"
    /\ Ends(p)
    /\ UNCHANGED <<job, file, lock, disk, started, finished, others>>

\* `batch resume` reads the file, and refuses one that is not whole.  It
\* also refuses when a completed operation's evidence no longer holds.
Resume(p) ==
    /\ Starts(p)
    /\ stored = "whole"
    /\ EvidenceHolds(file)
    /\ \E retryFailed, retryCancelled \in BOOLEAN :
        Becomes(p, [Idle("begin") EXCEPT
                    !.state = Prepared(file, retryFailed, retryCancelled),
                    !.options = [retryFailed |-> retryFailed,
                                 retryCancelled |-> retryCancelled]])
    /\ UNCHANGED <<job, stored, file, lock, disk, started, finished, others>>

\* Ctrl+C reaches the process at any time; it is looked at only at checks.
Interrupt(p) ==
    /\ invocation[p].phase \in {"begin", "plan", "loop", "execute"}
    /\ ~invocation[p].interrupted
    /\ Becomes(p, [invocation[p] EXCEPT !.interrupted = TRUE])
    /\ UNCHANGED <<job, stored, file, lock, disk, started, finished, others>>

Begin(p) ==
    /\ At(p, "begin")
    /\ IF invocation[p].interrupted
       THEN Save(p, CancelledRun(invocation[p].state), "ended")
       ELSE Goto(p, "plan") /\ UNCHANGED lock
    /\ UNCHANGED <<job, stored, file, disk, started, finished, others>>

\* The preflight, and the second look at Ctrl+C that follows it.
Plan(p) ==
    /\ At(p, "plan")
    /\ LET state == invocation[p].state IN
       \/ /\ invocation[p].interrupted
          /\ Save(p, CancelledRun(state), "ended")
       \/ \E hit \in {0} \cup PreflightHits(p) : \E retryable \in SUBSET {hit} :
            LET plan == Preflight(state, hit) IN
            /\ ~PlanReady(plan)
            /\ hit \in retryable \/ hit = 0 \/ StoreFaults
            /\ invocation[p].interrupted => hit # 0 /\ Swallowed(p, hit)
            /\ Save(p, PreflightFailed(state, plan, retryable), "ended")
       \/ /\ ~invocation[p].interrupted
          /\ PlanReady(Preflight(state, 0))
          /\ Goto(p, "loop")
          /\ UNCHANGED lock
    /\ UNCHANGED <<job, stored, file, disk, started, finished, others>>

-----------------------------------------------------------------------------
(* The loop over the operations.                                           *)

\* A faulty check: only a failed dependency keeps its dependents back.
NoDependencyFailed(s, i) == \A d \in Op(i).dependsOn : s.status[d] # "failed"

DependenciesMet(s, i) == \A d \in Op(i).dependsOn : s.status[d] = "completed"

Advanced(record) == [record EXCEPT !.position = @ + 1]
Stopped(record) == [record EXCEPT !.phase = "finish"]

LoopCancelled(p) ==
    /\ At(p, "loop")
    /\ invocation[p].position <= Len(Order)
    /\ invocation[p].interrupted
    /\ Becomes(p, Stopped([invocation[p] EXCEPT !.cancelled = TRUE,
                                                !.state = MarkCancelled(@)]))
    /\ UNCHANGED <<job, stored, file, lock, disk, started, finished, others>>

\* The loop looks at the operation at its position.
Visits(p) ==
    /\ At(p, "loop")
    /\ invocation[p].position <= Len(Order)
    /\ ~invocation[p].interrupted

SkipCompleted(p) ==
    /\ Visits(p)
    /\ CurrentStatus(p) = "completed"
    /\ Becomes(p, Advanced(invocation[p]))
    /\ UNCHANGED <<job, stored, file, lock, disk, started, finished, others>>

\* The operation at the position is not done and its dependencies are met.
Due(p) ==
    /\ Visits(p)
    /\ CurrentStatus(p) # "completed"
    /\ DependenciesMet(invocation[p].state, Current(p))

Block(p) ==
    /\ Visits(p)
    /\ CurrentStatus(p) # "completed"
    /\ ~DependenciesMet(invocation[p].state, Current(p))
    /\ LET blocked == Recorded(invocation[p].state, Current(p), "blocked", FALSE) IN
       Write(p, Advanced(invocation[p]), blocked, "loop")
    /\ UNCHANGED <<job, stored, file, disk, started, finished, others>>

\* Without --retry-failed a failed operation is passed over, and what
\* follows it is still visited, under the stop policy too.
SkipFailed(p) ==
    /\ Due(p)
    /\ CurrentStatus(p) = "failed"
    /\ ~invocation[p].options.retryFailed
    /\ Becomes(p, Advanced([invocation[p] EXCEPT !.failureSeen = TRUE]))
    /\ UNCHANGED <<job, stored, file, lock, disk, started, finished, others>>

StopAtCancelled(p) ==
    /\ Due(p)
    /\ CurrentStatus(p) = "cancelled"
    /\ ~invocation[p].options.retryCancelled
    /\ Becomes(p, Stopped([invocation[p] EXCEPT !.cancelled = TRUE]))
    /\ UNCHANGED <<job, stored, file, lock, disk, started, finished, others>>

\* Past the two skips.  With --retry-failed this admits a failed operation
\* whose error is not retryable: only the status decides here.
Admitted(p) ==
    /\ Due(p)
    /\ CurrentStatus(p) = "failed" => invocation[p].options.retryFailed
    /\ CurrentStatus(p) = "cancelled" => invocation[p].options.retryCancelled

\* A faulty limit: one attempt too many.
ExhaustedLate(s, i) == s.attempts[i] > MaxAttempts

Exhausted(s, i) == s.attempts[i] >= MaxAttempts

AttemptsExhausted(p) ==
    /\ Admitted(p)
    /\ Exhausted(invocation[p].state, Current(p))
    /\ Ends(p)
    /\ UNCHANGED <<job, stored, file, lock, disk, started, finished, others>>

\* The attempt is written before the operation begins.
Attempt(p) ==
    /\ Admitted(p)
    /\ ~Exhausted(invocation[p].state, Current(p))
    /\ Save(p, [invocation[p].state EXCEPT !.status[Current(p)] = "running",
                                           !.attempts[Current(p)] = @ + 1], "execute")
    /\ UNCHANGED <<job, stored, file, disk, started, finished, others>>

\* The command ran to its end: what it publishes is in place.
Succeed(p) ==
    /\ At(p, "execute")
    /\ FilesReady(Current(p))
    /\ disk' = IF Publishes(Current(p))
               THEN [disk EXCEPT ![Op(Current(p)).output] = Current(p)] ELSE disk
    /\ Goto(p, "capture")
    /\ UNCHANGED <<job, stored, file, lock, started, finished, others>>

\* The errors a command can return, by whether they are retryable: a missing
\* input is not, a collision is, the storage has errors of both kinds.
Errors(i) ==
    {retryable \in BOOLEAN : \/ StoreFaults
                             \/ ~FilesReady(i) /\ retryable = (disk[Op(i).input] # Absent)}

\* What a command that does not end well, or a process that dies in it, leaves:
\* nothing, or what it had published by then.  A failed split does not remove
\* its manifest, and the check of a published file, the identity of its
\* directory and the events passed on afterwards may all fail.
LeavesBehind(p) ==
    \/ UNCHANGED disk
    \/ /\ Publishes(Current(p))
       /\ FilesReady(Current(p))
       /\ disk' = [disk EXCEPT ![Op(Current(p)).output] = Current(p)]

Fail(p) ==
    /\ At(p, "execute")
    /\ \E retryable \in Errors(Current(p)) :
        LET failed == Recorded(invocation[p].state, Current(p), "failed", retryable)
            seen == [invocation[p] EXCEPT !.failureSeen = TRUE]
        IN IF job.policy = "stop" THEN Write(p, seen, failed, "finish")
           ELSE Write(p, Advanced(seen), failed, "loop")
    /\ LeavesBehind(p)
    /\ UNCHANGED <<job, stored, file, started, finished, others>>

CancelOperation(p) ==
    /\ At(p, "execute")
    /\ invocation[p].interrupted
    /\ Write(p, [invocation[p] EXCEPT !.cancelled = TRUE],
             Recorded(invocation[p].state, Current(p), "cancelled", TRUE), "finish")
    /\ LeavesBehind(p)
    /\ UNCHANGED <<job, stored, file, started, finished, others>>

\* capture_evidence reads the files again, after the operation.
Capture(p) ==
    /\ At(p, "capture")
    /\ \A path \in Bound(Current(p)) : disk[path] # Absent
    /\ LET completed == [Recorded(invocation[p].state, Current(p), "completed", FALSE)
                         EXCEPT !.evidence[Current(p)] = Evidence(Current(p))] IN
       Write(p, Advanced(invocation[p]), completed, "loop")
    /\ UNCHANGED <<job, stored, file, disk, started, finished, others>>

\* The error leaves the loop at once, with the operation recorded running.
CaptureFails(p) ==
    /\ At(p, "capture")
    /\ StoreFaults \/ \E path \in Bound(Current(p)) : disk[path] = Absent
    /\ Ends(p)
    /\ UNCHANGED <<job, stored, file, lock, disk, started, finished, others>>

-----------------------------------------------------------------------------
(* The end of an invocation.                                               *)

\* A faulty end: what the stop policy left undone stays not started.
Unstopped(s, failureSeen) == s

AfterPolicy(s, failureSeen) ==
    IF failureSeen /\ job.policy = "stop" THEN StopRest(s) ELSE s

Terminal(s, failureSeen) ==
    IF failureSeen \/ \E i \in Ops : s.status[i] \in {"failed", "blocked"}
    THEN IF job.policy = "stop" THEN "failed" ELSE "completed-with-failures"
    ELSE "completed"

Finish(p) ==
    /\ \/ At(p, "finish")
       \/ At(p, "loop") /\ invocation[p].position > Len(Order)
    /\ LET left == AfterPolicy(invocation[p].state, invocation[p].failureSeen) IN
       Save(p, IF invocation[p].cancelled THEN CancelledRun(left)
               ELSE [left EXCEPT !.terminal = Terminal(left, invocation[p].failureSeen)],
            "final")
    /\ UNCHANGED <<job, stored, file, disk, started, finished, others>>

\* The outcome of the receipt is recorded in a write of its own.
RecordReceipt(p) ==
    /\ At(p, "final")
    /\ Save(p, invocation[p].state, "ended")
    /\ UNCHANGED <<job, stored, file, disk, started, finished, others>>

-----------------------------------------------------------------------------
(* The second half of persist_state.                                       *)

\* The rename that makes the new state the file, and the return to where
\* the write was called: an attempt that is written begins to execute.
Replace(p) ==
    LET new == [invocation[p].state EXCEPT !.revision = @ + 1]
        next == invocation[p].next IN
    /\ At(p, "replace")
    /\ file' = new
    /\ lock' = 0
    /\ finished' = finished \cup {i \in Ops : new.status[i] = "completed"}
    /\ started' = IF next = "execute" THEN [started EXCEPT ![Current(p)] = @ + 1] ELSE started
    /\ Becomes(p, IF next = "ended" THEN Idle("ended")
                  ELSE [invocation[p] EXCEPT !.phase = next, !.next = "ended", !.state = new])
    /\ UNCHANGED <<job, stored, disk, others>>

ReplaceFails(p) ==
    /\ At(p, "replace")
    /\ StoreFaults
    /\ lock' = 0
    /\ Ends(p)
    /\ UNCHANGED <<job, stored, file, disk, started, finished, others>>

-----------------------------------------------------------------------------
(* Crashes and other programs.                                             *)

\* The process dies: its lock goes with it.
Crash(p) ==
    /\ invocation[p].phase \notin {"new", "ended"}
    /\ lock' = IF lock = p THEN 0 ELSE lock
    /\ IF At(p, "execute") THEN LeavesBehind(p) ELSE UNCHANGED disk
    /\ Ends(p)
    /\ UNCHANGED <<job, stored, file, started, finished, others>>

\* Another program writes or removes a file of the job.
OtherChanges(path) ==
    /\ others < MaxOthers
    /\ others' = others + 1
    /\ \E content \in {Absent, Foreign} :
        /\ content # disk[path]
        /\ disk' = [disk EXCEPT ![path] = content]
    /\ UNCHANGED <<job, stored, file, lock, invocation, started, finished>>

Next ==
    \/ \E p \in Invocations :
        \/ Run(p) \/ Created(p) \/ CreateFails(p) \/ Resume(p) \/ Interrupt(p)
        \/ Begin(p) \/ Plan(p)
        \/ LoopCancelled(p) \/ SkipCompleted(p) \/ Block(p)
        \/ SkipFailed(p) \/ StopAtCancelled(p) \/ AttemptsExhausted(p) \/ Attempt(p)
        \/ Succeed(p) \/ Fail(p) \/ CancelOperation(p)
        \/ Capture(p) \/ CaptureFails(p)
        \/ Finish(p) \/ RecordReceipt(p)
        \/ Replace(p) \/ ReplaceFails(p)
        \/ Crash(p)
    \/ \E path \in Paths : OtherChanges(path)

Spec == Init /\ [][Next]_vars

-----------------------------------------------------------------------------
(* Properties.                                                             *)

RunStateOK(s) ==
    /\ s.status \in [Ops -> Statuses]
    /\ s.attempts \in [Ops -> 0 .. MaxAttempts]
    /\ s.retryable \in [Ops -> BOOLEAN]
    /\ DOMAIN s.evidence = Ops
    /\ s.terminal \in Terminals
    /\ s.revision \in Nat

TypeOK ==
    /\ job \in Jobs
    /\ stored \in {"absent", "partial", "whole"}
    /\ RunStateOK(file)
    /\ lock \in {0} \cup Invocations
    /\ disk \in [Paths -> -MaxOthers .. Original]
    /\ \A p \in Invocations :
        /\ invocation[p].phase \in Phases
        /\ invocation[p].next \in Phases
        /\ RunStateOK(invocation[p].state)
        /\ invocation[p].options \in [retryFailed : BOOLEAN, retryCancelled : BOOLEAN]
        /\ invocation[p].position \in 1 .. Len(Order) + 1
        /\ {invocation[p].interrupted, invocation[p].failureSeen,
            invocation[p].cancelled} \subseteq BOOLEAN
    /\ started \in [Ops -> Nat]
    /\ finished \subseteq Ops
    /\ others \in 0 .. MaxOthers

\* No operation is recorded completed, or executes, before each operation
\* it depends on was recorded completed, whatever mix of runs, resumes,
\* retries and crashes led here (the dependency check in the loop of
\* execute_loaded_run looks at statuses a resume has rewritten).
DependenciesFirst ==
    \A i \in Ops :
        started[i] > 0 => Op(i).dependsOn \subseteq finished

\* A run whose terminal state is written leaves no operation running or not
\* started, and one recorded as completed has completed every operation:
\* status and resume rely on it (the end of execute_loaded_run).
SettledRun ==
    stored = "whole" /\ file.terminal # "running" =>
        /\ \A i \in Ops : file.status[i] \notin {"running", "not-started"}
        /\ file.terminal = "completed" => \A i \in Ops : file.status[i] = "completed"

\* Every execution was first counted in the run-state file, through every
\* crash and with any number of processes: so the limit on attempts bounds
\* the executions themselves (persist_state compares revisions).
ExecutionsAreCounted ==
    \A i \in Ops : started[i] <= file.attempts[i] /\ file.attempts[i] <= MaxAttempts

\* A write replaces the very revision its writer read: two processes never
\* both build on one revision, so no recorded step is lost (the writer lock
\* spans the comparison and the rename in persist_state).
NoLostUpdate ==
    [][stored = "whole" /\ file' # file => file'.revision = file.revision + 1]_vars

\* docs/batch-job-spec-v0.6.md:116-117: "Completed operations are not
\* rerun".  The code breaks it: a resume whose preflight is not ready
\* records every completed operation as failed, and the next resume with
\* --retry-failed executes it again.
CompletedNotRerun ==
    [][\A i \in finished : started'[i] = started[i]]_vars

=============================================================================
