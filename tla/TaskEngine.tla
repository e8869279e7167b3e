----------------------------- MODULE TaskEngine -----------------------------
(***************************************************************************)
(* The desktop task engine: the SQLite task table, the single execution    *)
(* worker, and the commands a client thread may call while the worker      *)
(* runs (engine.rs over store.rs, model.rs and the CancellationToken of    *)
(* cakesplitter-core).                                                     *)
(*                                                                         *)
(* One action is one access to shared state: one SQLite transaction, one   *)
(* operation on a control token, or the acquisition or release of a lock.  *)
(* Between two of them any other thread may run.  A call whose first guard *)
(* fails returns an error and changes nothing, so it is not represented.   *)
(*                                                                         *)
(* Abstracted here: which queued task is chosen (Scheduler), the slices    *)
(* and partial files of one run (ResumableSplit), the steps of one token   *)
(* operation (CancelToken), times, names and messages.                     *)
(***************************************************************************)
EXTENDS Integers, FiniteSets

CONSTANTS
  Tasks,                 \* task identifiers (UUIDs: one is never used twice)
  Clients,               \* threads that call the engine
  Splits, Merges,        \* what each task is; the others inspect or verify
  Conflicts,             \* pairs of tasks detect_conflicts refuses together
  MaxNonterminal,        \* MAX_NONTERMINAL_TASKS
  MaxTerminalHistory,    \* preferences.maximum_terminal_history
  MaxCheckpointHistory,  \* MAX_TASK_HISTORY, for rows that keep a checkpoint
  Commands,              \* the commands the clients call
  MaxAttempts,           \* bound: no requeue of t after MaxAttempts[t] runs
  MaxClears,             \* bound on the number of Clear All calls
  StoreFaults,           \* may a write to the store fail?
  Crashes,               \* may the process die and be restarted?
  NoOne, Worker, NoTask  \* nobody, the worker thread, no task

ASSUME ConstantsAssumption ==
  /\ IsFiniteSet(Tasks)
  /\ Splits \subseteq Tasks /\ Merges \subseteq Tasks
  /\ Splits \cap Merges = {}
  /\ Conflicts \subseteq Tasks \X Tasks
  /\ \A p \in Conflicts : <<p[2], p[1]>> \in Conflicts
  /\ MaxNonterminal \in Nat \ {0}
  /\ MaxTerminalHistory \in Nat \ {0} /\ MaxCheckpointHistory \in Nat
  /\ MaxAttempts \in [Tasks -> Nat] /\ MaxClears \in Nat
  /\ StoreFaults \in BOOLEAN /\ Crashes \in BOOLEAN
  /\ NoTask \notin Tasks
  /\ NoOne \notin Clients /\ Worker \notin Clients /\ NoOne # Worker

VARIABLES
  rows,       \* the task table
  epoch,      \* metadata.epoch
  admission,  \* holder of the admission mutex
  clearing,   \* the clearing flag
  controls,   \* tasks with a control token in the controls map
  token,      \* the worker's token, pristine while it has no task
  worker,     \* the worker thread
  call,       \* the command each client is executing
  output      \* what a task has left on disk: nothing, a partial, the result

vars == <<rows, epoch, admission, clearing, controls, token, worker, call, output>>

-----------------------------------------------------------------------------
(* Statuses and the transition relation.                                   *)

Active   == {"Running", "Pausing", "Paused", "Resuming", "Cancelling"}
Terminal == {"Cancelled", "Failed", "Completed"}
Waiting  == {"Interrupted", "PermissionRequired"}
Absent   == {"unborn", "deleted"}   \* no row: not yet inserted, or deleted
Statuses == {"Queued"} \cup Active \cup Terminal \cup Waiting \cup Absent

Moves ==
  { <<"Queued", "Running">>, <<"Queued", "Cancelled">>,
    <<"Running", "Pausing">>, <<"Pausing", "Paused">>,
    <<"Paused", "Resuming">>, <<"Resuming", "Running">>,
    <<"Running", "PermissionRequired">>, <<"Running", "Failed">>,
    <<"Running", "Completed">>,
    <<"Cancelling", "Cancelled">>, <<"Cancelling", "Failed">>,
    <<"Failed", "Queued">>, <<"Failed", "Cancelled">>,
    <<"Cancelled", "Queued">> }
  \cup (Active \X {"Interrupted"})
  \cup ((Active \ {"Cancelling"}) \X {"Cancelling"})
  \cup (Waiting \X {"Queued", "Cancelled"})

\* A faulty check: a late outcome may overwrite a task that waits again.
LetsLateOutcome(s, next) ==
  s = next \/ <<s, next>> \in Moves \/ (s \in Waiting \cup {"Queued"} /\ next \in Terminal)
\* A faulty check: completed work may be relabelled.
LetsRelabel(s, next) ==
  s = next \/ <<s, next>> \in Moves \/ (s \in Terminal /\ next \in Terminal)

CanTransition(s, next) == s = next \/ <<s, next>> \in Moves

-----------------------------------------------------------------------------
(* The store.                                                              *)

NoRow(s) ==
  [status |-> s, checkpoint |-> FALSE, result |-> FALSE, failure |-> "none",
   attempts |-> 0, epoch |-> 0]

Present == {t \in Tasks : rows[t].status \notin Absent}
Nonterminal == {t \in Present : rows[t].status \notin Terminal}
CheckpointedTerminal ==
  {t \in Tasks : rows[t].status \in Terminal /\ rows[t].checkpoint}

\* Terminal rows without a checkpoint: the only ones history pruning deletes.
Prunable(table) ==
  {t \in Tasks : table[t].status \in Terminal /\ ~table[t].checkpoint}

Delete(table, gone) ==
  [t \in Tasks |-> IF t \in gone THEN NoRow("deleted") ELSE table[t]]

\* The pruning that ends every transaction: rows past the retention age (any,
\* time being abstract) and the oldest rows in excess of the maximum.
Pruned(table) ==
  { Delete(table, gone) :
      gone \in { g \in SUBSET Prunable(table) :
                   Cardinality(Prunable(table) \ g) <= MaxTerminalHistory } }

RoomForNonterminal == Cardinality(Nonterminal) < MaxNonterminal

\* A faulty capacity check: only new tasks need room, not those that return.
ReturnsAnyway(t, next) == TRUE

\* A task that leaves history needs room among the nonterminal ones.
RoomToReturn(t, next) ==
  (rows[t].status \in Terminal /\ next \notin Terminal) => RoomForNonterminal

HoldsCheckpoint(r) == r.status \in Terminal /\ r.checkpoint

\* A faulty mutate(): it checks neither the record's shape nor the capacity of
\* checkpoint history.
AcceptsAnyShape(t, e, new) ==
  /\ t \in Present /\ e = epoch /\ rows[t].epoch = e
  /\ RoomToReturn(t, new.status)

\* mutate() accepts the new record for t from a caller that knows epoch e.
Accepts(t, e, new) ==
  /\ t \in Present /\ e = epoch /\ rows[t].epoch = e
  /\ RoomToReturn(t, new.status)
  /\ (HoldsCheckpoint(new) /\ ~HoldsCheckpoint(rows[t]))
       => Cardinality(CheckpointedTerminal) < MaxCheckpointHistory
  /\ (new.status = "Completed") => new.result
  /\ (new.status = "Failed") => (new.failure # "none")

Commit(t, new) == rows' \in Pruned([rows EXCEPT ![t] = new])

Moved(t, s) == [rows[t] EXCEPT !.status = s]
CanMove(t, e, s) ==
  CanTransition(rows[t].status, s) /\ Accepts(t, e, Moved(t, s))

\* cleanup_incomplete for the tasks in S: only a recorded partial is deleted.
Unlinked(S) ==
  [t \in Tasks |-> IF t \in S /\ output[t] = "partial" THEN "none" ELSE output[t]]

-----------------------------------------------------------------------------
(* Calls, the worker and its token.                                        *)

NoCall == [pc |-> "idle", task |-> NoTask, epoch |-> 0, live |-> FALSE,
           owned |-> FALSE]
NoWork == [pc |-> "idle", task |-> NoTask, epoch |-> 0, result |-> "none"]

\* wait: where the worker is in the pause loop of checkpoint().  It tests the
\* flags, is about to park when they told it to wait, and is parked.
NewToken ==
  [cancelled |-> FALSE, pauseRequested |-> FALSE, paused |-> FALSE, wait |-> "none"]

Init ==
  /\ rows = [t \in Tasks |-> NoRow("unborn")]
  /\ epoch = 1 /\ admission = NoOne /\ clearing = FALSE
  /\ controls = {} /\ token = NewToken /\ worker = NoWork
  /\ call = [c \in Clients |-> NoCall]
  /\ output = [t \in Tasks |-> "none"]

\* live: the call holds the token of the run in progress, not of an older one.
Begin(c, pc, t, live) ==
  call' = [call EXCEPT ![c] = [NoCall EXCEPT !.pc = pc, !.task = t,
                                             !.epoch = epoch, !.live = live]]
Goto(c, pc) == call' = [call EXCEPT ![c].pc = pc] /\ UNCHANGED admission
Return(c) ==
  /\ call' = [call EXCEPT ![c] = NoCall]
  /\ admission' = IF admission = c THEN NoOne ELSE admission

\* Where a call is about to write to the store.
WriteSteps ==
  {"enqueueCommit", "requeueCommit", "pauseMark", "pauseCommit", "resumeMark",
   "resumeCommit", "cancelMark", "cancelDirect", "interruptMark", "removeRow",
   "clearFailed", "clearRows"}

May(c, command) == call[c].pc = "idle" /\ command \in Commands
At(c, pc) == call[c].pc = pc

\* A faulty engine that admits tasks without serialising admission.
LockNothing(c) == UNCHANGED admission
LockAdmission(c) == admission = NoOne /\ admission' = c

\* update(): move the task of the call to s, then continue at pc; an illegal
\* transition or a refused record ends the call with an error.
UpdateThen(c, s, pc) ==
  LET t == call[c].task IN
  IF CanMove(t, call[c].epoch, s)
    THEN Commit(t, Moved(t, s)) /\ IF pc = "idle" THEN Return(c) ELSE Goto(c, pc)
    ELSE Return(c) /\ UNCHANGED rows

\* notify_all reaches a parked worker.  It is called without wait_lock, so one
\* that comes between the worker's test and its wait is lost.
Notified(tok) == [tok EXCEPT !.wait = IF @ = "parked" THEN "test" ELSE @]
CancelledToken == Notified([token EXCEPT !.cancelled = TRUE])

\* An operation on the token the call holds; no effect on a later run's token.
Signal(c, new) == token' = IF call[c].live THEN new ELSE token

-----------------------------------------------------------------------------
(* Admission: enqueue, resume of a stopped task, retry.                    *)

\* The engine half of a preflight: no nonterminal task conflicts with t, and
\* the output of a merge is absent.  Everything else a preflight examines
\* (identities, space) is the environment's and may fail at any time.
PreflightPasses(t) ==
  /\ \A u \in Nonterminal \ {t} : <<t, u>> \notin Conflicts
  /\ t \in Merges => output[t] # "final"

EnqueueBegin(c, t) ==
  /\ May(c, "enqueue") /\ LockAdmission(c) /\ ~clearing
  /\ rows[t].status = "unborn" /\ RoomForNonterminal /\ PreflightPasses(t)
  /\ Begin(c, "enqueueCommit", t, FALSE)
  /\ UNCHANGED <<rows, epoch, clearing, controls, token, worker, output>>

EnqueueCommit(c) ==
  LET t == call[c].task IN
  /\ At(c, "enqueueCommit") /\ Return(c)
  /\ IF call[c].epoch = epoch /\ RoomForNonterminal
       THEN Commit(t, [NoRow("Queued") EXCEPT !.epoch = epoch])
       ELSE UNCHANGED rows
  /\ UNCHANGED <<epoch, clearing, controls, token, worker, output>>

Requeueable(r) ==
  \/ r.status \in {"Interrupted", "PermissionRequired", "Cancelled"}
  \/ r.status = "Failed" /\ r.failure = "retryable"

RequeueBegin(c, t) ==
  /\ May(c, "requeue") /\ LockAdmission(c) /\ ~clearing
  /\ Requeueable(rows[t]) /\ rows[t].attempts < MaxAttempts[t]
  /\ RoomToReturn(t, "Queued") /\ PreflightPasses(t)
  /\ Begin(c, "requeueCommit", t, FALSE)
  /\ UNCHANGED <<rows, epoch, clearing, controls, token, worker, output>>

RequeueCommit(c) ==
  LET t == call[c].task
      new == [Moved(t, "Queued") EXCEPT !.failure = "none"]
  IN
  /\ At(c, "requeueCommit")
  /\ IF CanTransition(rows[t].status, "Queued") /\ Accepts(t, call[c].epoch, new)
       THEN Commit(t, new)
       ELSE UNCHANGED rows
  /\ Return(c)
  /\ UNCHANGED <<epoch, clearing, controls, token, worker, output>>

-----------------------------------------------------------------------------
(* Pause and resume of a running task.                                     *)

PauseBegin(c, t) ==
  /\ May(c, "pause") /\ t \in controls \cap Present
  /\ Begin(c, "pauseMark", t, TRUE)
  /\ UNCHANGED <<rows, epoch, admission, clearing, controls, token, worker, output>>

PauseMark(c) ==
  /\ At(c, "pauseMark") /\ UpdateThen(c, "Pausing", "pauseSignal")
  /\ UNCHANGED <<epoch, clearing, controls, token, worker, output>>

PauseSignal(c) ==
  /\ At(c, "pauseSignal") /\ Signal(c, [token EXCEPT !.pauseRequested = TRUE])
  /\ Goto(c, "pauseWait")
  /\ UNCHANGED <<rows, epoch, clearing, controls, worker, output>>

\* A faulty wait: it returns without looking at the acknowledgement.
SeesAnything(c) == TRUE
SeesPaused(c) == call[c].live /\ token.paused

PauseAcknowledged(c) ==
  /\ At(c, "pauseWait") /\ SeesPaused(c) /\ Goto(c, "pauseCommit")
  /\ UNCHANGED <<rows, epoch, clearing, controls, token, worker, output>>

\* Ten seconds passed, or the token was cancelled: PauseTimeout, and the row
\* and the request stay as they are.
PauseTimeout(c) ==
  /\ At(c, "pauseWait") /\ ~SeesPaused(c) /\ Return(c)
  /\ UNCHANGED <<rows, epoch, clearing, controls, token, worker, output>>

PauseCommit(c) ==
  /\ At(c, "pauseCommit") /\ UpdateThen(c, "Paused", "idle")
  /\ UNCHANGED <<epoch, clearing, controls, token, worker, output>>

ResumeBegin(c, t) ==
  /\ May(c, "pause") /\ rows[t].status = "Paused" /\ t \in controls
  /\ LockAdmission(c) /\ Begin(c, "resumeMark", t, TRUE)
  /\ UNCHANGED <<rows, epoch, clearing, controls, token, worker, output>>

ResumeMark(c) ==
  /\ At(c, "resumeMark") /\ UpdateThen(c, "Resuming", "resumeSignal")
  /\ UNCHANGED <<epoch, clearing, controls, token, worker, output>>

ResumeSignal(c) ==
  /\ At(c, "resumeSignal") /\ Signal(c, Notified([token EXCEPT !.pauseRequested = FALSE]))
  /\ Goto(c, "resumeCommit")
  /\ UNCHANGED <<rows, epoch, clearing, controls, worker, output>>

ResumeCommit(c) ==
  /\ At(c, "resumeCommit") /\ UpdateThen(c, "Running", "idle")
  /\ UNCHANGED <<epoch, clearing, controls, token, worker, output>>

-----------------------------------------------------------------------------
(* Cancel, and interruption of the active task before the window closes.   *)

CancelBegin(c, t) ==
  /\ May(c, "cancel") /\ t \in Present
  /\ \/ t \in controls /\ Begin(c, "cancelMark", t, TRUE)
     \/ t \notin controls /\ Begin(c, "cancelDirect", t, FALSE)
  /\ UNCHANGED <<rows, epoch, admission, clearing, controls, token, worker, output>>

CancelMark(c) ==
  /\ At(c, "cancelMark") /\ UpdateThen(c, "Cancelling", "cancelSignal")
  /\ UNCHANGED <<epoch, clearing, controls, token, worker, output>>

CancelSignal(c) ==
  /\ At(c, "cancelSignal") /\ Signal(c, CancelledToken) /\ Return(c)
  /\ UNCHANGED <<rows, epoch, clearing, controls, worker, output>>

CancelDirect(c) ==
  /\ At(c, "cancelDirect") /\ UpdateThen(c, "Cancelled", "idle")
  /\ UNCHANGED <<epoch, clearing, controls, token, worker, output>>

\* interrupt_all over its snapshot of the controls map, which never holds more
\* than one task.
InterruptBegin(c, t) ==
  /\ May(c, "interrupt") /\ t \in controls
  /\ Begin(c, "interruptMark", t, TRUE)
  /\ UNCHANGED <<rows, epoch, admission, clearing, controls, token, worker, output>>

InterruptMark(c) ==
  LET t == call[c].task IN
  /\ At(c, "interruptMark")
  /\ \/ rows[t].status \in Active /\ UpdateThen(c, "Interrupted", "interruptSignal")
     \/ t \in Present /\ rows[t].status \notin Active
          /\ Goto(c, "interruptSignal") /\ UNCHANGED rows
     \/ t \notin Present /\ Return(c) /\ UNCHANGED rows
  /\ UNCHANGED <<epoch, clearing, controls, token, worker, output>>

InterruptSignal(c) ==
  /\ At(c, "interruptSignal") /\ Signal(c, CancelledToken) /\ Return(c)
  /\ UNCHANGED <<rows, epoch, clearing, controls, worker, output>>

-----------------------------------------------------------------------------
(* Removing rows.  Cleanup of the owned partial comes before the row goes; *)
(* it fails, and ends the call, when the file is not the recorded one.     *)

RemoveBegin(c, t) ==
  /\ May(c, "remove") /\ rows[t].status \in Terminal
  /\ call' = [call EXCEPT ![c] = [NoCall EXCEPT !.pc = "removeFiles", !.task = t,
                                                !.owned = rows[t].checkpoint]]
  /\ UNCHANGED <<rows, epoch, admission, clearing, controls, token, worker, output>>

RemoveFiles(c) ==
  /\ At(c, "removeFiles")
  /\ \/ /\ output' = Unlinked(IF call[c].owned THEN {call[c].task} ELSE {})
        /\ Goto(c, "removeRow")
     \/ call[c].owned /\ Return(c) /\ UNCHANGED output
  /\ UNCHANGED <<rows, epoch, clearing, controls, token, worker>>

RemoveRow(c) ==
  /\ At(c, "removeRow") /\ Return(c)
  /\ rows' = IF rows[call[c].task].status \in Terminal
               THEN Delete(rows, {call[c].task}) ELSE rows
  /\ UNCHANGED <<epoch, clearing, controls, token, worker, output>>

WithStatus(s) == {t \in Tasks : rows[t].status = s}

ClearCompleted(c) ==
  /\ May(c, "clearHistory") /\ WithStatus("Completed") # {}
  /\ rows' = Delete(rows, WithStatus("Completed"))
  /\ UNCHANGED <<epoch, admission, clearing, controls, token, worker, call, output>>

Checkpointed(S) == {t \in S : rows[t].checkpoint}

\* Files are removed one by one; the first that cannot be removed ends the call.
ClearFailedBegin(c) ==
  /\ May(c, "clearHistory") /\ admission = NoOne
  /\ \/ /\ output' = Unlinked(Checkpointed(WithStatus("Failed")))
        /\ LockAdmission(c) /\ Begin(c, "clearFailed", NoTask, FALSE)
     \/ /\ \E S \in SUBSET Checkpointed(WithStatus("Failed")) :
             S # Checkpointed(WithStatus("Failed")) /\ output' = Unlinked(S)
        /\ UNCHANGED <<admission, call>>
  /\ UNCHANGED <<rows, epoch, clearing, controls, token, worker>>

ClearFailedDelete(c) ==
  /\ At(c, "clearFailed") /\ Return(c)
  /\ rows' = Delete(rows, WithStatus("Failed"))
  /\ UNCHANGED <<epoch, clearing, controls, token, worker, output>>

ClearAllBegin(c) ==
  /\ May(c, "clearAll") /\ epoch <= MaxClears /\ LockAdmission(c)
  /\ clearing' = TRUE
  /\ token' = IF controls # {} THEN CancelledToken ELSE token
  /\ Begin(c, "clearWait", NoTask, FALSE)
  /\ UNCHANGED <<rows, epoch, controls, worker, output>>

\* A faulty Clear All: it does not wait for the active task to stop.
DrainedAnyway == TRUE
Drained == controls = {}

Incomplete == Checkpointed(Present \ WithStatus("Completed"))

ClearAllFiles(c) ==
  /\ At(c, "clearWait") /\ Drained
  /\ output' = Unlinked(Incomplete) /\ Goto(c, "clearRows")
  /\ UNCHANGED <<rows, epoch, clearing, controls, token, worker>>

\* A faulty Clear All: when it gives up it leaves the engine in clearing mode.
ClearAllFailsClearing(c) ==
  /\ At(c, "clearWait")
  /\ \/ ~Drained /\ UNCHANGED output
     \/ Drained /\ \E S \in SUBSET Incomplete : S # Incomplete /\ output' = Unlinked(S)
  /\ Return(c)
  /\ UNCHANGED <<rows, epoch, clearing, controls, token, worker>>

\* TasksStopping, or a file that cannot be removed: no row is deleted.
ClearAllFails(c) ==
  /\ At(c, "clearWait")
  /\ \/ ~Drained /\ UNCHANGED output
     \/ Drained /\ \E S \in SUBSET Incomplete : S # Incomplete /\ output' = Unlinked(S)
  /\ clearing' = FALSE /\ Return(c)
  /\ UNCHANGED <<rows, epoch, controls, token, worker>>

\* A faulty Clear All that keeps completed history.
AllButCompleted == Present \ WithStatus("Completed")
Everything == Present

ClearAllRows(c) ==
  /\ At(c, "clearRows")
  /\ rows' = Delete(rows, Everything) /\ epoch' = epoch + 1
  /\ clearing' = FALSE /\ Return(c)
  /\ UNCHANGED <<controls, token, worker, output>>

\* The write a call is about to make fails: the call returns the error.
StoreFails(c) ==
  /\ StoreFaults /\ call[c].pc \in WriteSteps /\ Return(c)
  /\ clearing' = IF At(c, "clearRows") THEN FALSE ELSE clearing
  /\ UNCHANGED <<rows, epoch, controls, token, worker, output>>

-----------------------------------------------------------------------------
(* The worker thread.                                                      *)

Works(pc) == worker.pc = pc
WorkAt(pc) == worker' = [worker EXCEPT !.pc = pc]
Finish(result) == worker' = [worker EXCEPT !.pc = "release", !.result = result]

WorkerPick ==
  /\ Works("idle") /\ ~clearing /\ admission = NoOne
  /\ \E t \in WithStatus("Queued") :
       worker' = [NoWork EXCEPT !.pc = "picked", !.task = t]
  /\ UNCHANGED <<rows, epoch, admission, clearing, controls, token, call, output>>

\* The picked row is read again under the admission lock.
StillQueued(t) == rows[t].status = "Queued"

WorkerClaim ==
  LET t == worker.task IN
  /\ Works("picked") /\ admission = NoOne /\ ~clearing /\ StillQueued(t)
  /\ admission' = Worker /\ controls' = controls \cup {t}
  /\ worker' = [worker EXCEPT !.pc = "claimed", !.epoch = rows[t].epoch]
  /\ UNCHANGED <<rows, epoch, clearing, token, call, output>>

WorkerSkips ==
  /\ Works("picked") /\ admission = NoOne
  /\ clearing \/ ~StillQueued(worker.task)
  /\ worker' = NoWork
  /\ UNCHANGED <<rows, epoch, admission, clearing, controls, token, call, output>>

WorkerStarts ==
  LET t == worker.task
      new == [Moved(t, "Running") EXCEPT !.attempts = @ + 1]
      legal == CanTransition(rows[t].status, "Running") /\ Accepts(t, worker.epoch, new)
  IN
  /\ Works("claimed") /\ admission' = NoOne
  /\ \/ legal /\ Commit(t, new) /\ WorkAt("preflight")
     \/ (StoreFaults \/ ~legal) /\ Finish("final") /\ UNCHANGED rows
  /\ UNCHANGED <<epoch, clearing, controls, token, call, output>>

FirstCheck(t) == IF t \in Splits \cup Merges THEN "checkStage" ELSE "checkVerify"

\* preflight_runtime passes and its result is persisted.
WorkerPreflight ==
  LET t == worker.task IN
  /\ Works("preflight") /\ PreflightPasses(t) /\ Accepts(t, worker.epoch, rows[t])
  /\ Commit(t, rows[t]) /\ WorkAt(FirstCheck(t))
  /\ UNCHANGED <<epoch, admission, clearing, controls, token, call, output>>

\* CancellationToken::checkpoint between two units of work.
NextStep == [checkStage |-> "stage", checkPublish |-> "publish", checkVerify |-> "persist"]
Checking == worker.pc \in DOMAIN NextStep

\* The worker reads the flags at the head of checkpoint() or in its pause loop.
Tests == Checking /\ token.wait \in {"none", "test"}
Leaves == token' = [token EXCEPT !.paused = FALSE, !.wait = "none"]

WorkerContinues ==
  /\ Tests /\ ~token.cancelled /\ ~token.pauseRequested
  /\ Leaves /\ WorkAt(NextStep[worker.pc])
  /\ UNCHANGED <<rows, epoch, admission, clearing, controls, call, output>>

WorkerPauses ==
  /\ Tests /\ token.wait = "none" /\ ~token.cancelled /\ token.pauseRequested
  /\ token' = [token EXCEPT !.paused = TRUE, !.wait = "test"]
  /\ UNCHANGED <<rows, epoch, admission, clearing, controls, worker, call, output>>

\* A faulty pause loop: a paused worker does not look at the cancellation.
WaitsWhilePaused == token.pauseRequested
MustWait == token.pauseRequested /\ ~token.cancelled

WorkerWaits ==
  /\ Checking
  /\ \/ token.wait = "test" /\ MustWait /\ token' = [token EXCEPT !.wait = "park"]
     \/ token.wait = "park" /\ token' = [token EXCEPT !.wait = "parked"]
  /\ UNCHANGED <<rows, epoch, admission, clearing, controls, worker, call, output>>

\* Condvar::wait may return without a notification; nothing makes it.
SpuriousWakeUp ==
  /\ token.wait = "parked" /\ token' = Notified(token)
  /\ UNCHANGED <<rows, epoch, admission, clearing, controls, worker, call, output>>

WorkerStops ==
  /\ Tests /\ token.cancelled /\ Leaves /\ Finish("cancelled")
  /\ UNCHANGED <<rows, epoch, admission, clearing, controls, call, output>>

\* A write of the running task: it lands, or it fails (a store fault, or the
\* row is gone) and the caller does what Otherwise says.
Persist(new) == Accepts(worker.task, worker.epoch, new) /\ Commit(worker.task, new)
PersistFails(new) ==
  /\ StoreFaults \/ ~Accepts(worker.task, worker.epoch, new)
  /\ UNCHANGED rows

\* The partial is created and its checkpoint persisted; a checkpoint that
\* cannot be persisted cancels the run.
WorkerStages ==
  LET t == worker.task
      new == [rows[t] EXCEPT !.checkpoint = TRUE]
  IN
  /\ Works("stage") /\ WorkAt("checkPublish")
  /\ output' = [output EXCEPT ![t] = IF @ = "final" THEN @ ELSE "partial"]
  /\ \/ Persist(new) /\ UNCHANGED token
     \/ PersistFails(new) /\ token' = [token EXCEPT !.cancelled = TRUE]
  /\ UNCHANGED <<epoch, admission, clearing, controls, call>>

\* The atomic rename to the final name; a verification of what was published,
\* interrupted by a cancellation, follows.
WorkerPublishes ==
  /\ Works("publish") /\ WorkAt("checkVerify")
  /\ output' = [output EXCEPT ![worker.task] = "final"]
  /\ UNCHANGED <<rows, epoch, admission, clearing, controls, token, call>>

\* The result is persisted with the last checkpoint event.  A split does not
\* notice that this failed; a merge and an inspection return a store error.
WorkerPersistsResult ==
  LET t == worker.task
      new == [rows[t] EXCEPT !.result = TRUE]
  IN
  /\ Works("persist")
  /\ \/ Persist(new) /\ Finish("ok") /\ UNCHANGED token
     \/ /\ PersistFails(new)
        /\ Finish(IF t \in Splits THEN "ok" ELSE "final")
        /\ token' = IF t \in Splits THEN [token EXCEPT !.cancelled = TRUE] ELSE token
  /\ UNCHANGED <<epoch, admission, clearing, controls, call, output>>

Failures == {"retryable", "final", "permission"}

\* Preflight, the filesystem or a verification reports an error.
WorkerFails ==
  /\ worker.pc \in {"preflight", "stage", "publish"} \cup DOMAIN NextStep
  /\ ~token.paused
  /\ \E f \in Failures : Finish(f)
  /\ UNCHANGED <<rows, epoch, admission, clearing, controls, token, call, output>>

WorkerReleases ==
  /\ Works("release") /\ controls' = controls \ {worker.task} /\ WorkAt("settle")
  /\ UNCHANGED <<rows, epoch, admission, clearing, token, call, output>>

\* The record the worker wants to leave.
Settled(t) ==
  CASE worker.result = "ok" ->
         [Moved(t, "Completed") EXCEPT !.failure = "none"]
    [] worker.result = "cancelled" -> Moved(t, "Cancelled")
    [] worker.result = "permission" ->
         [Moved(t, "PermissionRequired") EXCEPT !.failure = "retryable"]
    [] OTHER -> [Moved(t, "Failed") EXCEPT !.failure = worker.result]

\* A cancelled run passes through Cancelling in the same update.
MaySettle(t) ==
  IF worker.result = "cancelled"
    THEN CanTransition(rows[t].status, "Cancelling")
    ELSE CanTransition(rows[t].status, Settled(t).status)

\* The worker has let go of its token: what calls still do to it is lost.
DropToken ==
  /\ token' = NewToken
  /\ call' = [c \in Clients |-> [call[c] EXCEPT !.live = FALSE]]

\* The outcome is written; a refused or failed update is ignored and the row
\* stays as it is.
WorkerSettles ==
  LET t == worker.task
      legal == MaySettle(t) /\ Accepts(t, rows[t].epoch, Settled(t))
  IN
  /\ Works("settle") /\ worker' = NoWork /\ DropToken
  /\ \/ legal /\ Commit(t, Settled(t))
     \/ (StoreFaults \/ ~legal) /\ UNCHANGED rows
  /\ UNCHANGED <<epoch, admission, clearing, controls, output>>

-----------------------------------------------------------------------------
(* The process dies at any point; recover_after_restart runs before the    *)
(* engine accepts anything.                                                *)

Recovered(t) == IF rows[t].status \in Active THEN Moved(t, "Interrupted") ELSE rows[t]

Restart ==
  /\ Crashes
  /\ rows' \in Pruned([t \in Tasks |-> Recovered(t)])
  /\ admission' = NoOne /\ clearing' = FALSE /\ controls' = {} /\ token' = NewToken
  /\ worker' = NoWork /\ call' = [c \in Clients |-> NoCall]
  /\ UNCHANGED <<epoch, output>>

-----------------------------------------------------------------------------
BeginCall(c) ==
  \/ \E t \in Tasks : \/ EnqueueBegin(c, t) \/ RequeueBegin(c, t) \/ PauseBegin(c, t)
                      \/ ResumeBegin(c, t) \/ CancelBegin(c, t)
                      \/ InterruptBegin(c, t) \/ RemoveBegin(c, t)
  \/ ClearCompleted(c) \/ ClearFailedBegin(c) \/ ClearAllBegin(c)

ContinueCall(c) ==
  \/ EnqueueCommit(c) \/ RequeueCommit(c)
  \/ PauseMark(c) \/ PauseSignal(c) \/ PauseAcknowledged(c) \/ PauseTimeout(c)
  \/ PauseCommit(c)
  \/ ResumeMark(c) \/ ResumeSignal(c) \/ ResumeCommit(c)
  \/ CancelMark(c) \/ CancelSignal(c) \/ CancelDirect(c)
  \/ InterruptMark(c) \/ InterruptSignal(c)
  \/ RemoveFiles(c) \/ RemoveRow(c) \/ ClearFailedDelete(c)
  \/ ClearAllFiles(c) \/ ClearAllFails(c) \/ ClearAllRows(c)
  \/ StoreFails(c)

WorkerStep ==
  \/ WorkerPick \/ WorkerClaim \/ WorkerSkips \/ WorkerStarts \/ WorkerPreflight
  \/ WorkerContinues \/ WorkerPauses \/ WorkerWaits \/ WorkerStops
  \/ WorkerStages \/ WorkerPublishes \/ WorkerPersistsResult \/ WorkerFails \/ WorkerReleases
  \/ WorkerSettles

Next ==
  \/ \E c \in Clients : BeginCall(c) \/ ContinueCall(c)
  \/ WorkerStep \/ SpuriousWakeUp
  \/ Restart

Spec == Init /\ [][Next]_vars

\* Threads that can run are scheduled, and the worker gets the admission mutex
\* if it is free again and again: it polls at least once a second, and calls
\* come at the pace of a user.  Users need not call anything.
FairSpec ==
  Spec /\ SF_vars(WorkerStep) /\ \A c \in Clients : WF_vars(ContinueCall(c))

-----------------------------------------------------------------------------
(* Properties.                                                             *)

\* The worker is between the start of a run and its outcome: it may be reading
\* and writing the files of t.
Executing(t) ==
  /\ worker.task = t
  /\ worker.pc \in {"preflight", "stage", "publish", "persist"} \cup DOMAIN NextStep

Record ==
  [status: Statuses, checkpoint: BOOLEAN, result: BOOLEAN,
   failure: {"none", "retryable", "final"}, attempts: Nat, epoch: Nat]

Token ==
  [cancelled: BOOLEAN, pauseRequested: BOOLEAN, paused: BOOLEAN,
   wait: {"none", "test", "park", "parked"}]

CallSteps ==
  {"idle", "enqueueCommit", "requeueCommit", "pauseMark", "pauseSignal", "pauseWait", "pauseCommit",
   "resumeMark", "resumeSignal", "resumeCommit", "cancelMark", "cancelSignal",
   "cancelDirect", "interruptMark", "interruptSignal", "removeFiles", "removeRow",
   "clearFailed", "clearWait", "clearRows"}

\* Calls that act on one task, and the calls that hold the admission mutex.
TaskSteps == CallSteps \ {"idle", "clearFailed", "clearWait", "clearRows"}
AdmissionSteps ==
  {"enqueueCommit", "requeueCommit", "resumeMark", "resumeSignal", "resumeCommit", "clearFailed",
   "clearWait", "clearRows"}

WorkSteps ==
  {"idle", "picked", "claimed", "preflight", "stage", "publish", "persist",
   "release", "settle"} \cup DOMAIN NextStep

\* Every variable has its type; calls and the worker name a task while they
\* work on one.
TypeOK ==
  /\ rows \in [Tasks -> Record]
  /\ epoch \in Nat
  /\ admission \in Clients \cup {Worker, NoOne}
  /\ clearing \in BOOLEAN
  /\ controls \in SUBSET Tasks
  /\ token \in Token
  /\ worker \in [pc: WorkSteps, task: Tasks \cup {NoTask}, epoch: Nat,
                 result: {"none", "ok", "cancelled"} \cup Failures]
  /\ worker.pc # "idle" => worker.task \in Tasks
  /\ call \in [Clients -> [pc: CallSteps, task: Tasks \cup {NoTask}, epoch: Nat,
                           live: BOOLEAN, owned: BOOLEAN]]
  /\ \A c \in Clients : call[c].pc \in TaskSteps => call[c].task \in Tasks
  /\ output \in [Tasks -> {"none", "partial", "final"}]

\* The store never holds more nonterminal tasks than its capacity, however
\* enqueues, requeues and the worker interleave (MAX_NONTERMINAL_TASKS).
CapacityBound == Cardinality(Nonterminal) <= MaxNonterminal

\* Two tasks that detect_conflicts refuses together are never both
\* nonterminal: the list read by a preflight is still right when its task is
\* inserted or queued again.
NoConflictingTasks ==
  \A t, u \in Nonterminal : t # u => <<t, u>> \notin Conflicts

\* While the worker may be writing a task's files its row exists and is not
\* terminal, so nobody may remove it, clean up after it or queue it again
\* (controls, cancel_task, clear_all).
RunsOwnTheirRow == \A t \in Tasks : Executing(t) => t \in Nonterminal

\* A task reported Completed has its result and its published output, also
\* after interruptions, requeues and writes that failed half-way.
CompletedIsPublished ==
  \A t \in Tasks : rows[t].status = "Completed" =>
    rows[t].result /\ (t \in Splits \cup Merges => output[t] = "final")

\* Terminal history stays within its two limits, whichever mixture of
\* checkpoint-bearing and plain rows the outcomes produce.
HistoryBounded ==
  /\ Cardinality(CheckpointedTerminal) <= MaxCheckpointHistory
  /\ Cardinality(Prunable(rows)) <= MaxTerminalHistory

\* Every row belongs to the current epoch: after Clear All nothing written on
\* behalf of an earlier epoch is left or comes back.
EpochFence == \A t \in Present : rows[t].epoch = epoch

\* A row shown as Paused belongs to the run in progress, which has
\* acknowledged the pause or been cancelled since (pause_task writes Paused
\* only after wait_until_paused).
PausedMeansHeld ==
  \A t \in Tasks : rows[t].status = "Paused" =>
    worker.task = t /\ (token.paused \/ token.cancelled)

SettlesActiveOnly ==
  \A t \in Tasks :
    (Works("settle") /\ worker' = NoWork /\ worker.task = t
       /\ rows'[t].status # rows[t].status /\ rows'[t].status # "deleted")
    => rows[t].status \in Active

\* The outcome of a run changes its task's status only while the task is in
\* an active status: a row that was interrupted, queued again, cancelled or
\* deleted meanwhile is not overwritten (worker_loop's last update).
LateResultsIgnored == [][SettlesActiveOnly]_vars

KeepsHistory ==
  \A t \in Tasks :
    /\ rows[t].status = "Completed" => rows'[t].status \in {"Completed", "deleted"}
    /\ rows[t].status = "deleted" => rows'[t].status = "deleted"

\* Completed work is never run again or relabelled, and a deleted task never
\* comes back (mutate and insert after remove, prune and clear_all).
HistoryIsFinal == [][KeepsHistory]_vars

\* The worker sleeps although it was told to stop or to go on: a notification
\* fell between its test of the flags and its wait.
WakeUpLost == token.wait = "parked" /\ (token.cancelled \/ ~token.pauseRequested)

\* With one task in the table, a queued task is started, cancelled or cleared
\* in the end, unless the worker misses its wake-up: no command leaves the
\* admission mutex or the clearing flag behind.
QueuedTaskStarts ==
  \A t \in Tasks :
    rows[t].status = "Queued" ~> (rows[t].status # "Queued" \/ WakeUpLost)

\* A cancelled run ends, whether the cancellation found the worker at work,
\* entering the pause or asleep in it.  What it does not say: a worker between
\* its last test and its wait may miss the cancellation and sleep on, until
\* another notification comes (CancelToken, CancelWakes).
CancelledRunEnds ==
  (\E t \in Tasks : Executing(t) /\ token.cancelled
                      /\ token.wait \notin {"park", "parked"}) ~> Works("idle")

\* What one may expect and the code does not give: a row in an active status is
\* the worker's.  A run that ends while its row is Pausing or Resuming has its
\* outcome refused, and the row stays as it is (claim_nonterminal).
NonterminalAccounted ==
  \A t \in Tasks : rows[t].status \in Active => ~Works("idle") /\ worker.task = t

\* Claim: a cancelled task leaves no final output.
CancelledLeavesNoResult ==
  \A t \in Tasks : rows[t].status = "Cancelled" => output[t] # "final"

\* Claim: Clear Failed History removes an owned partial before its row.
ClearFailedCleans ==
  [][ \A t \in Tasks :
        rows[t].status = "Failed" /\ rows'[t].status = "deleted"
          => ~(rows[t].checkpoint /\ output[t] = "partial") ]_vars
=============================================================================
