# A TLA+ verification of CakeSplitter

CakeSplitter cuts a file into slices, described by a manifest, and merges them
again. The desktop application runs splits, merges, inspections and
verifications as recoverable tasks; the command line runs them once or in
batches; the web application runs them in a browser worker. The modules here
describe the parts of that program where several actors, failures or restarts
meet. Every definition is read from the source; `PROJECT.json` gives the lines.

Contents: 1 the system, 2 the plan, 3 the modules, 4 the runs, 5 fairness,
6 what is proved, 7 what the runs found, 8 what is not modelled.

## 1. The system

| Component | State it keeps | Operations | Correct when |
|---|---|---|---|
| Task engine (`desktop-runtime/engine.rs`) | admission mutex, clearing flag, map of control tokens, one worker thread | enqueue, pause, resume, retry, cancel, remove, clear completed / failed / all, interrupt all; the worker loop | capacity and conflicts hold under concurrent admission; a run never loses its row or its partial; late outcomes overwrite nothing |
| Task store (`store.rs`) | SQLite rows with status, epoch, revision, checksum; metadata epoch; quarantine | insert, mutate, remove, clear, prune, recover after restart, schedule | nothing of an earlier epoch survives Clear All; history is bounded; completed work is final; a waiting task is passed a bounded number of times |
| Task lifecycle (`model.rs`) | a record: status, checkpoint, result, failure, attempts | transition | only the transitions of the table |
| Cancellation token (`core/lib.rs`) | three atomic flags, a mutex, a condition variable | pause, resume, cancel, wait until paused, checkpoint | an acknowledgement is current; a pause or a cancellation is answered |
| Resumable split and merge (`core/resumable.rs`) | partial file, final files, checkpoint events | split, merge, resume, validate what is there | after any crash a resume produces the same output and removes only its own files |
| Split and merge without recovery (`core/lib.rs`) | staged outputs | split, merge, inspect, rollback | all outputs or none; foreign files untouched |
| Slice planning, manifest (`format`, `resumable.rs`) | none | planned ranges, validation | the slices partition the file |
| Package binding (`core/package_binding.rs`) | identities of manifest and slices | capture, revalidate | what was admitted is what is read |
| Batches (`cli/batch.rs`) | a checksummed state file, one active batch | plan, run, resume, retry | a resume repeats or skips only what the policy says; dependencies first |
| Desktop shell (`src-tauri`) | selection tokens with expiry | IPC commands, window close | a token names what was selected, for its lifetime |
| Web worker control (`web/worker-control.ts`) | cancelled, paused, waiters | start, pause, resume, cancel, checkpoint | a waiting task is released by resume or cancel |
| Web task store (`web/task-store.ts`) | records in the origin private file system, a serial queue, a generation | save, discard, clear all, mark interrupted | nothing written for an earlier generation comes back |
| Web page (`web/App.tsx`) | the active worker and its context, a second queue in front of the store's, the Clear All in progress | start, control, messages of workers, discard, clear, reload | records tell what became of their tasks; Clear All ends |

How they interact. A client (the shell's command thread) calls the engine. The
engine changes the table in SQLite transactions and talks to the worker in two
ways only: through the table, where a queued row asks to be run, and through
the control token of the running task. The worker runs the core's split or
merge, which polls the token at every chunk and reports checkpoint events
through a callback that writes them into the row. Restarting the program means
that only the table and the files are left.

What is hard: a command is several transactions, and the worker may finish,
fail or be restarted between any two of them; commands hold the admission mutex
for some of their steps and the worker's last update takes no mutex; the pause
handshake crosses a timeout, a cancellation and the end of the run; files and
rows cannot be changed together, so every crash leaves one ahead of the other.
The command line's batches share their run-state file between processes that
know nothing of each other. In the browser everything that waits gives others
their turn: two clicks, two queues, a page and its workers.
`PROJECT.json` lists these places as hazards, each with its line.

## 2. The plan

Done, in this order:

1. `TaskEngine`: admission, control and execution of tasks.
2. `CancelToken`: the handshake that `TaskEngine` uses as if it were atomic.
3. `Scheduler`: priorities, queue order and the fairness window.
4. `SlicePlan`, `AtomicPublication`, `ResumableSplit`, `ResumableMerge`: what a
   task writes, what a crash leaves of it and what a resume makes of that. They
   refine the one staging step of `TaskEngine`, and implement
   `AtomicPublication`.
5. `BatchRun`: jobs of several such operations. It takes from
   `AtomicPublication` that an operation's effect happens whole or not at all.
6. `WebTasks`: the browser version.
7. `PlainSplit`: the split that keeps no checkpoint.
8. Proofs of every safety property of these modules (section 6).

Still worth doing:

9. The store's quarantine and migration (rows of schema 2 all get place 1 in
    the queue), and startup recovery over capacity.

## 3. The modules

### TaskEngine

| Variable | In the code |
|---|---|
| `rows` | the `tasks` table; status, presence of a checkpoint and of a result, kind of failure, attempts, epoch. `unborn` and `deleted` stand for "no row" |
| `epoch` | `metadata.epoch` |
| `admission`, `clearing`, `controls` | the fields of `EngineInner` |
| `token` | the token of the run in progress (flags only) |
| `worker` | where `worker_loop` is, its task, the epoch it read, the outcome of the run |
| `call` | where each client is inside a command, with the locals that survive between its steps; `live` says that the call's token is that of the run in progress |
| `output` | what a task has on disk: nothing, a partial file, the published result |

One action is one access to shared state. `PauseBegin`, `PauseMark`,
`PauseSignal`, `PauseAcknowledged` or `PauseTimeout`, and `PauseCommit`, for
example, are `pause_task` line by line: look up the token, write Pausing, set
the request, wait, write Paused. A call whose first test fails returns an error
and changes nothing and has no action; a later failure ends the call (`Return`)
and leaves behind what it had already done, which is where many hazards lie.

`Accepts` is `TaskStore::mutate`: epoch, capacity when a terminal row becomes
nonterminal, capacity of checkpoint history, shape of a completed or failed
record. `Pruned` is the pruning at the end of every transaction; time is
abstract, so rows without a checkpoint may reach their retention age at any
point. `StoreFails` and the second disjuncts of the worker's writes are failing
SQLite writes. `Restart` is a crash followed by `recover_after_restart`.

Constants: `Conflicts` stands for the geometry of paths that
`detect_conflicts` computes; it is symmetric, which is an assumption.
`MaxAttempts` and `MaxClears` are bounds of the model, not of the code.

The worker's side of the pause is `WorkerPauses`, `WorkerWaits` and
`WorkerContinues` or `WorkerStops`: it tests the flags, is about to park, and is
parked (`token.wait`). `cancel` and `resume` store their flag and notify in one
step here (`Notified`), without the mutex, as in the code: a notification between
the test and the wait is lost. Their store and notification are two steps in
`CancelToken`.

`MCTaskEngine` gives the constants their values.

### CancelToken

The token at the grain of single atomic accesses, notifications and mutex
operations. `Park` is `Condvar::wait`, which releases the mutex and parks in one
step; `Spurious` says whose waits may end by themselves. `TaskEngine` assumes of
the token that `WorkerPauses`, `WorkerContinues` and `WorkerStops` are atomic,
which `PausedIsHolding` and `AckMeansParked` justify. It does not assume that
wake-ups arrive: `claim_cancel_wakes` shows that one may be lost, and the engine's
model loses it too.

A pause is acknowledged at the next checkpoint of the stream, which is every
buffer (`split_file_resumable_with_progress` and the merge poll the token within
a slice). `docs/desktop-task-recovery.md` (lines 26-27) and
`docs/architecture.md` (line 70) speak of a verified slice boundary; what is true
at such a boundary only is that the row's checkpoint is up to date.

### Scheduler

`TaskEngine` lets its worker take any queued task; `Scheduler` says which. A row
keeps its status, the rank of its priority and its `queue_order`. `NextQueueOrder`, `EffectivePriority`, `RunsBefore` and
`Neighbour` are the four computations of the store; `Pick`, `Claim` and `Skip`
are the worker's two acquisitions of the admission mutex. Ids are numbers
because the code compares them, and `Admit` takes any unused one, as they are
random. Capacity, files and tokens are left to `TaskEngine`; an active row whose
outcome was refused there does not queue and is left out here.

Two history variables serve the properties. `before[t]` is what the table held
when `t` was admitted (tasks that exchange places exchange their arrivals too); `passed[t]` is the later tasks picked over `t` in its
present wait that are still in the table and were not moved by hand.
`OrderBound` is a bound of the model.

### SlicePlan

The arithmetic of a plan: `ExpectedSliceCount`, `PlannedSliceRange` and the part
of `CakeManifest::validate` that concerns sizes. `PlanCuts` is the reference
definition: the ranges partition the bytes of the file, and the manifest a split
writes is one a merge accepts. There are no RECURSIVE operators.

### AtomicPublication

The abstract specification of a split and of a merge, in three variables: the
result, the report, and how often others have interfered. Both detailed modules
give it a refinement mapping (`Package`, `Output`, `Report`).

### ResumableSplit

| Variable | In the code |
|---|---|
| `disk` | the file at each final and partial name; the identity of a file is the number of the run that created it, 0 for others' |
| `source`, `place` | content and stamp (identity, length, time) of the source; identity of the directory |
| `record` | `SplitResumeData` in the task's row, or the tracker in the memory of a command |
| `run` | where `split_file_resumable_with_progress` is, and what it remembers |
| `outcome` | how the last run ended |

A program counter follows the function from one access to a file or one
checkpoint event to the next. `Event` is the callback: for the desktop it writes
the row and, when the write fails, cancels the token. `Adoptable`, `AdoptSlice`
and `AdoptManifest` are the recovery of a published file whose event was lost.
`CleanUpCompare`, `CleanUpRemove` and `CleanUpDone` are the command's tracker,
file by file; `RemoveTask`, `RemoveOwned` and `RemoveRow` are `remove_task`, in
which the file goes before the row and either step may fail. Two changes by
others may come anywhere: to a file, to the source (also without a change of its
time), to the directory.

The code compares a file's identity through a handle, drops the handle, and
removes the file by its name; it checks a staged file and then renames it by its
name. Each is two steps here: `ComparePartial` and `RemovePartial`,
`CheckStaged` and `Rename`, `DisownManifest` and `WithdrawManifest`, and so on.

Four history variables: `sullied` names the finals that others touched after
their last validation (a file published after others changed it between the
check and the renaming is one of them), `raced` says that others changed the file
that was just compared, `others` counts their changes, `stranded` says that the
present run began where recovery is impossible: a partial without a record, or a
record of a partial that is gone.

### ResumableMerge

The same for `merge_package_resumable_inner` over a bound package
(`package_binding.rs`). Byte k of the original is the number k, so that a
misplaced or missing byte is seen; a buffer is one byte. `Reopen` cuts the
partial at the recorded boundary, `CutBack` after a failed slice. A slice or the
manifest may be replaced, or changed behind its identity and time ("forged",
"edited"). `Preflight` is that of the engine, which a desktop task passes when it
is queued again and when it runs; it refuses an output that exists. Checks and
the steps by name that follow them are separate, and so are the steps of a
removal, as in the split. `MCResumableMerge` chooses the plans.

### PlainSplit

`split_file_with_progress` of `core/lib.rs`, the split without recovery: one
call that stages all outputs, publishes them and, if the source has changed
meanwhile, takes them back.

| Variable | In the code |
|---|---|
| `disk` | the file at each final and partial name; its identity is 1 for a file of this call, 0 for others' |
| `source` | content and stamp of the source |
| `run` | where the call is, the slices it has staged and published, the hash and the stamp it compares with |
| `outcome` | what the call returned |
| `others`, `sullied`, `kept`, `raced` | history: what others did, and when |

The comparison of a file's identity and its removal are two steps, as in the
code: others may exchange the file between them (`raced`).

### BatchRun

| Variable | In the code |
|---|---|
| `stored`, `file` | the run-state file: absent, created but not yet written, or a `RunState` |
| `lock` | the writer lock, held within `persist_state` |
| `invocation` | the processes: where each is in `execute_loaded_run`, its copy of the state, its options, Ctrl+C |
| `disk` | what each path of the job holds |
| `started`, `finished` | history: executions begun, operations ever recorded completed |

A command that fails or is cancelled may have published its output before
(`LeavesBehind`): a failed split leaves its manifest, and the check after the
renaming, the directory's identity and the events passed on afterwards may fail
or be cancelled. `persist_state` is two steps, `Write` (lock, reread, compare) and `Replace`
(rename, unlock), and every caller goes through both. `Preflight` is `plan_job`
with its propagation from dependencies. `MCBatchRun` has four jobs: a chain, one
whose specification order is against its dependencies, two operations with the
same output, and a cycle that must be refused.

Behaviour worth knowing that the model shows and no document denies, or that a
document describes only in part: `--retry-failed` also admits failed operations
whose error is not retryable (the documentation says they must be); under `stop`
a resume without `--retry-failed` passes over the failed operation and runs the
ones after it; a second process may execute the operation that the first is
executing, and the one that writes second ends as stale; an operation on a file
made inside the same job never passes the preflight of a run; the evidence of a
split does not cover its slices. The status `interrupted` is never written.

### WebTasks

| Variable | In the code |
|---|---|
| `store`, `queue`, `generation`, `clearing` | `TaskStore`: the records, `operationQueue`, and the two fields of the fence |
| `persisting` | `persistenceRef`, the page's own queue in front of the store's |
| `active`, `context` | `workerRef` with `activeRef`, and what the listeners of each worker close over |
| `worker` | each worker: loading, running, ended, crashed or terminated, its `WorkerTaskControl`, and its messages in both directions |
| `clear`, `barrierFailed` | `clearTasksRef` and the refusal to start after a failed Clear All |
| `marked`, `cleared`, `expected` | history for the properties |

An action is one event with the promise reactions that run before the next one
(`Reactions` come before any other event of the page); an await of storage or of
a worker is a boundary between actions. Messages are neither lost nor reordered,
as the browser promises. A record is reduced to its status. `Reload` loses
everything but the records and may cut short the write or the removal under way.

### Mutants

A definition that is introduced as *faulty* (`LockNothing`, `DrainedAnyway`...)
is a plausible bug. It is used by no action; putting it in place of the
definition that follows it must break the property named in `PROJECT.json`.

## 4. The runs

| Run | Instance | Shows |
|---|---|---|
| `engine_one_client` | 1 client, every command, a split (2 attempts) and a verification, store faults, crashes, 1 Clear All | `RunsOwnTheirRow`: a run's row is there and nonterminal; `CompletedIsPublished`; `EpochFence`; `LateResultsIgnored`; `HistoryIsFinal` |
| `engine_two_clients` | 2 clients, admission, removal and clearing of history; 4 tasks, 2 of them in conflict; capacity 2, histories 1; the split may run twice; clients and the two other tasks are symmetric | `CapacityBound`, between enqueues and retries; `NoConflictingTasks`; `HistoryBounded`: outcomes with and without a checkpoint stay within their limits |
| `engine_controls` | 1 client, 1 split with 2 attempts, fair, lost wake-ups | `PausedMeansHeld`, `CancelledRunEnds`, `QueuedTaskStarts` |
| `token` | 2 callers and the operation, spurious wake-ups, fair | `PausedIsHolding`, `AckMeansParked`, `PauseAcknowledged`, `CancelEndsParked` |
| `scheduler` | 3 ids used again after removal, priorities 0 and 2, window 1, places up to 4; moves, changes of priority, cancel, retry, removal, restart | `ArrivalOrder`; `FifoWithinPriority`; `BoundedPassing` |
| `split` | 3 bytes in slices of 2, both callers, 2 contents, 3 runs, 2 changes by others, failing checkpoint writes | `ManifestMeansWhole`; `RecordedSurvives`; `RefusedOnlyStranded`; `ForeignUntouched`; `SplitIsAtomic` (refinement) |
| `merge` | lengths 0 to 3 in slices of 1 to 3, both callers, 3 runs, 2 changes by others, failing checkpoint writes | `OutputWhole`; `BoundaryHolds`; `RefusedOnlyStranded`; `PlanCutsFile`; `MergeIsAtomic` (refinement) |
| `plain_split` | 2 slices and the manifest, 2 contents, 2 changes by others at any point, cancellation, failures and a crash anywhere, failing removals | `TypeOK`; `ManifestMeansWhole`; `ChangedLeavesPartials`: a source that changed under the call leaves partial files and what could not be removed, no package; `ForeignUntouched` |
| `batch` | 4 jobs of 2 or 3 operations, 2 invocations that may overlap, 1 attempt, 1 change by others, storage errors | `DependenciesFirst`, `SettledRun`, `ExecutionsAreCounted`, `NoLostUpdate` |
| `web` | 2 tasks of 1 and 2 slices, 1 Clear All, 2 incidents (a control, a discard, a failure, a crash or a reload), fair | `ClearedStaysCleared`, `NoOrphanRuns`, `RecordsTellOutcome`, `ClearEnds` |
| `claim_*` | small instances | see 7 |

Further configurations are kept beside them, each with one property and outside
the list of `PROJECT.json`: `batch_types` (`TypeOK` of `BatchRun`, holds),
`claim_cancelled`, `claim_cancel_wakes`, `claim_web_clear`, `claim_cli_cleanup`
and `claim_continues`, which reproduce findings of section 7, and
`claim_nonterminal`, which shows a behaviour described there. The type invariants
of the engine, the token, the scheduler, the split, the merge, the batches and the
web version are proved and in no run of the list, and so is `SuccessMeansWhole` of
the split without recovery.

Why the bounds are enough. The engine has one worker, so at most one task is in
execution; a second task is needed for pruning and for admissions beside it, and
two more for a pair in conflict beside a capacity that can be exhausted without it. A
second attempt of a task is what a late outcome, a stale token or an old
partial needs to do harm, and `SplitTwice` allows it. One Clear All gives two
epochs; the comparison of epochs does not look further. The commands of the
shipped shell are synchronous functions (`src-tauri/src/lib.rs:329-754`), which
run one at a time on its main thread; so the properties of a run's row and files
are checked for one client. With two, `RunsOwnTheirRow` is false: the first
client's `cancel_task` finds no token and is about to write Cancelled; the worker
claims the task and starts; the second client's `cancel_task` finds the token and
writes Cancelling; from there the first one's write is legal, and the row is
Cancelled while its run goes on. The engine's type is shared between threads, and
what admission promises is checked for two. `MaxNonterminal` and the two history
limits are small so that they are reached. `engine_one_client` has its limits
equal to the number of tasks, so that they never refuse an outcome there.

In the scheduler's run the window is one admission, so that a task can be
promoted twice, over the whole range of priorities, by three later ones; a
larger window needs more tasks for the same effect. Two windows of later tasks
beside the one that waits are its three tasks. `BoundedPassing` does not count
later tasks that were removed or moved by hand: the place of a removed one is
given again (7), and a move is the user's decision.

Two slices and a manifest are the first slice, the last and shorter one, and the
completion marker; a third would repeat the first. A first run that crashes, a
second that crashes while it recovers, and a third that meets what both left are
the deepest recovery with a state of its own. Two changes by others are a change
and its undoing, such as a source that is changed and changed back. The merge's
plans have an empty file, one slice, even and uneven cuts.

Two invocations are what a race for the run-state file needs, or a run and its
resume; one attempt is enough to exceed the limit. `claim_batch_completed` has
two attempts and three invocations, one after the other. Chain and Backwards
have operations that depend on each other in both orders of the specification.

In the web run the second task starts after the first, or together with it by a
second click; its two slices give a progress message that writes a record
between two others. One Clear All gives two generations. Two incidents combine
a pause with a crash, a failed write with a reload, a cancellation with a late
control.

Deadlock is not an error in these runs: when every task has been deleted and its
attempts are spent, when a bound on runs or clicks is reached, or when the work
is done, nothing is left to do. The token's run checks deadlock.

## 5. Fairness

`TaskEngine!FairSpec`: weak fairness of every client's call once it has begun (a
command's thread is scheduled), and strong fairness of the worker, because it
needs the admission mutex and competes for it with commands that come at the
pace of a user; it polls at least once a second. Nothing makes a user call
anything: a paused run may stay paused for ever. Nor does anything wake a worker
that is parked: `SpuriousWakeUp` is not fair. `CancelledRunEnds` is therefore
stated of a cancellation that finds the worker anywhere but between its last test
and its wait, or that has woken it, and `QueuedTaskStarts` excepts a worker that
missed its wake-up (`WakeUpLost`). `CancelToken!FairSpec` is
strong fairness of each thread's steps, for the same reason: `wait_lock` is free
again and again, and a thread that waits for it gets it.

`WebTasks!FairSpec`: weak fairness of the page's event loop and of each worker's.
A task that has been posted to an event loop is run, and a promise of the
browser's storage is settled one way or the other; both are what a browser
promises for a page that stays open. No user action, no failure and no crash is
fair: `ClearEnds` holds although nobody resumes the paused task.

`ResumableSplit`, `ResumableMerge`, `PlainSplit`, `Scheduler` and `BatchRun` state
no fairness:
their properties are safety properties, and nothing makes a user start the task
again.

## 6. What is proved

TLAPS proves, for all values of the constants that satisfy each module's
`ConstantsAssumption` (finite sets of tasks, any number of clients, callers,
operations, slices, runs, crashes and changes by others, any limits):

| Module | Invariants of `Spec` | Action properties and refinements |
|---|---|---|
| `TaskEngineProofs` | `TypeOK`, `CapacityBound`, `NoConflictingTasks`, `EpochFence`, `CompletedIsPublished`, `HistoryBounded`; with one client `RunsOwnTheirRow`; with one client, while writes succeed, `PausedMeansHeld` | `HistoryIsFinal`, `LateResultsIgnored` |
| `CancelTokenProofs` | `TypeOK`, `PausedIsHolding`, `AckMeansParked` | |
| `SchedulerProofs` | `TypeOK`, `ArrivalOrder`, `BoundedPassing` | `FifoWithinPriority` |
| `ResumableSplitProofs` | `TypeOK`, `ManifestMeansWhole`, `RecordedSurvives`, `RefusedOnlyStranded` | `ForeignUntouched`, `SplitIsAtomic` |
| `ResumableMergeProofs` | `PlanCuts` for every accepted length and slice size, and that a valid manifest is a planned one; `TypeOK`, `OutputWhole`, `BoundaryHolds`, `RefusedOnlyStranded`, `PlanCutsFile` | `MergeIsAtomic` |
| `PlainSplitProofs` | `TypeOK`, `ManifestMeansWhole`, `ChangedLeavesPartials`, `SuccessMeansWhole` | `ForeignUntouched` |
| `BatchRunProofs` | that the order is topological and the loader accepts exactly the jobs without a cycle; `TypeOK`, `DependenciesFirst`, `SettledRun`, `ExecutionsAreCounted` | `NoLostUpdate` |
| `WebTasksProofs` | `TypeOK`, `ClearedStaysCleared`, `NoOrphanRuns`, `RecordsTellOutcome` | |

Each module has one inductive invariant `IInv`, the theorem that it holds, and
then the properties, which follow from it or from it and one step. The bounds
of the models (`MaxRuns`, `MaxOthers`, `MaxAttempts`, `MaxClears`, `OrderBound`)
are constants like the others, so they may be as large as one likes.

**The engine: admission.** Neither `NoConflictingTasks` nor `CapacityBound` is
inductive: an admission consists of a preflight and a later commit, and in
between the table changes. `IInv` adds two facts. `LockInv`: who is inside an
admission section holds the mutex. `NewcomerClear`: what a preflight found of
the task about to be admitted still holds. Every other step is `Quiet`: it makes
no row nonterminal, creates none and moves none to another epoch (`KeptKeeps`
then gives the whole invariant). The only steps that are not quiet are the
commits of admissions, which hold the mutex, so the preflight's answer is
current (`AdmissionCommits`), and which test the capacity in the same
transaction. `NewcomerUnborn` says of an insertion under way that its task has
never had a row, which with `Quiet` gives `HistoryIsFinal`: only commits of
admissions may take a row out of a terminal status, and the transition table
has none out of Completed. `LateResultsIgnored` needs types and the transition
table only: from the statuses that wait it has no step to an outcome. Symmetry
of `Conflicts` is needed there, and `IsFiniteSet(Tasks)` for cardinalities.

**The engine: the run in progress.** `CommitRows`, `UpdateRows`, `CallRows` and
`RunRows` say once what every write can do to a row; three invariants rest on
them.

- `PublishedInv`: who has a result has its output, and so has a run that comes
  to write one. It is inductive for any clients, because no command takes a
  published output away and because nothing but such a run writes a result.
- `OwnInv`: the controls map names exactly the task that the worker holds, and
  Clear All deletes the table only when the map is empty. With it a run's row can
  be taken out of its nonterminal status only by a cancellation that saw no
  token; `StalledCancel` says that such a call, if the task was started
  meanwhile, finds it Running, which may not be cancelled directly. That is where
  `OneClient` is needed: a second client may have made it Cancelling (section 4).
- `HeldInv`: a Paused row is that of a run that stands in a checkpoint, or that
  was cancelled there and has yet to be settled. The call that writes Paused
  holds the token of the run (`PauseInv`, `LiveInv`), and the call that takes the
  request back has first written Resuming (`ResumeInv`). Three hypotheses are
  needed, and each has its reason in the code. With two clients one may resume
  what the other is pausing. With `StoreFaults` the worker's last write may fail,
  which leaves the row Paused without a run. And if the history of checkpointed
  outcomes is full, `mutate` refuses the Cancelled of a paused run, with the same
  effect; `HistoryHasRoom` says that it is not. `engine_controls` has all three.

**The engine: history.** `HistoryBounded` is inductive beside `IInv`. Deletions
shrink both kinds of history (`ShrinkingKeepsHistory`). The pruning that ends a
transaction leaves at most `MaxTerminalHistory` of the rows it may delete
(`PrunedIsBounded`). It may not delete a terminal row with a checkpoint, so these
are bounded from the other side: a transaction adds at most one, and `mutate`
accepts that one only below the limit, which it reads in the same transaction
(`CommitKeepsHistory`). The other writes leave no
outcome: an insertion's row is Queued, a recovered one is Interrupted.

**The token.** The flags are read and written without the mutex, so what a
caller may conclude from `paused` depends on who holds `wait_lock`: the inductive
invariant is `TypeOK`, `PausedIsHolding` and `MutexHeld`.

**The scheduler.** `ArrivalOrder` is inductive with three facts: types, that
places have a bound, so that their maximum exists, and that `before` names rows
of the table only. `OrderBound` is that bound, any natural number; the code has
the range of a 64-bit integer. Two facts about a pick follow without induction:
the earlier of two queued tasks has been promoted at least as often, so what
passes it has a higher priority (`PassingNeedsPriority`), and a task that is two
windows behind finds it at the highest priority (`PassingIsNear`).
`BoundedPassing` is not inductive; `PassedNear` keeps, for each task that passed,
its distance, and `ArrivalTotal` says that of two rows one came first, so that
places differ. The tasks that passed then have different distances among
1 to 2 * Window - 1 (`NearAreFew`). Removal and moves keep it because the tasks
they take out of `passed` are those whose distance they may change.

**The plan.** `PlanCutsTheorem` is arithmetic, except for the offsets, which the
manifest's validation sums up one by one: that the sum is the product is an
induction. The induction theorems of the library cannot be used (their
parameter is an operator), so it is written with the least counterexample;
`LeastElement` comes from the well-foundedness of inclusion among finite sets.
`ValidIsPlanned` is the converse of the acceptance, for any manifest reduced to
natural numbers: what `ManifestValid` lets pass is, entry by entry, the manifest
of the plan for its length and slice size. The module of
the merge may therefore take its ranges from the plan, where the code takes them
from the validated manifest, whoever wrote that. The sizes of a manifest are
arbitrary, so that their sums exist is an induction too (`SumsOfSizes`).

**Split and merge.** The disk and the checkpoint cannot change together, so the
invariants say what each may be at every program counter. For the split `RunOK`
and `RecordOK` tie the run's memory to the checkpoint, `DiskOK` says that the
manifest is not there while slices are made, and `SlicesSurvive` that recorded
slices are. `ManifestMeansWhole` then holds when the manifest is published because
the slices were compared with the baseline just before, whatever the source is
by then. `ForeignUntouched` needs `ComparedOK`: what a comparison
found still holds when the removal or the renaming comes, unless others changed
that very file in between (`raced`); and `CommandOK`, since a command trusts what
it remembers. For the merge `ReadOK` says that what lies behind the recorded boundary
is what the run has read, so that a slice that verifies extends the prefix of the
original (`BoundaryHolds`). `Undisturbed` describes the exact files of a desktop
task while nobody else has touched one: only such precision shows that a refusal
needs `stranded`. For the merge it says that the output's name is free from the
preflight on, so that a refusal needs an output of an earlier run. `EndWhole`
says of the checked partial that it is the original or that others have changed
it since, in which case the output it becomes is excepted. The refinement proofs go step by step: `Publication!Init` from
`Init`, and for each action of the detailed module either nothing that
`AtomicPublication` sees, or the named step of it.

**The split without recovery.** Nothing it remembers survives a crash, so what may
be at the final names is said of each place of the call: `IsOut` names the items
that it may have published there, `IsWhole` those that still hold what it staged
unless others touched them. `ManifestMeansWhole` needs both: while the call is
under way the manifest is out only where every item is whole (`OutIsWhole`), and
a call that ends changes no file. It is itself a part of `IInv`, because after a
failure or a crash nothing but the disk says how far the call had come.
`MemoryOK` says that from the comparison of the stream on all items have the
baseline's content. Others never make a file of the call's identity
(`ChangeFileEffects`), which is why the rollback may trust it; `ComparedOK` gives
up what they exchange after the comparison (`raced`). For an empty file, where
the manifest is the only item, there is no run: the proof covers it.
`SuccessMeansWhole` says of a call that returned success that every item is there
with the content it hashed, but for what others have touched since.

**Batches.** Processes that know nothing of each other are tied by revisions:
`Behind` says that each copy of the state is an older revision of the file or has
the attempts of the file, and that under the writer lock it is the file. That
gives `NoLostUpdate`, and that an execution was counted first. `Progress` says what the
loop of a process leaves behind it. The order of execution is the fold of a
round of Kahn's algorithm; that it has no repetitions is again shown with
least counterexamples, and that it is complete is what the loader tests
(`Accepted`). `OrderIsTopological` says that this test is the right one: the
rounds put every operation after those it depends on and go on until nothing is
left or nothing can be taken (`RoundsGoOn`), and in a job whose operations can be
ranked (`Acyclic`) the one of lowest rank among those left can be taken.

**The web version.** A record passes two queues, and Clear All may overtake it in
either. `SaveOK` ties them: the store's queue holds at most one save, that of
the page's first request. `WritingOK` says that a write that has begun is of no
removed generation: the removal stands behind it in the queue, so it can be
removed with the rest, or undone. That gives `ClearedStaysCleared`; `OrphanOK` is
`NoOrphanRuns` with the generation of the request, since the request that stands
behind a record may end without starting its task only when its generation does.
For `RecordsTellOutcome` the invariant says what each task's *last* request asks
for, or else its record (`LastOK`), and that the context of the task listened to
says what was heard last (`ExpectOK`), because a progress message writes the
context's status again. `ExpectOK` also bounds the exception: an expectation is
left of a listened-to task only if the page listens to no other worker. Most
steps are one of four: a request ends (`ResolveKeeps`), a worker moves
(`WorkerMoves`), the page takes a message (`PageMoves`), Clear All ends
(`StopKeeps`).

**Only model-checked.** What is temporal under fairness is out of the prover's
reach and stays with TLC: `CancelledRunEnds`, `QueuedTaskStarts`,
`PauseAcknowledged`, `CancelEndsParked` and `ClearEnds`. Every other property of
the passing runs is proved.

## 7. What the runs found

- `claim_cancelled`: `docs/architecture.md` says that a cancelled task leaves no
  final manifest. A cancellation between the rename and the verification that
  follows it leaves one.
- `claim_clear_failed`: `docs/task-history.md` says that clearing failed history
  removes an owned partial before its row. A task that fails between the listing
  and the deletion loses its row and keeps its partial.
  This run is one of the two violations in `PROJECT.json`.
- `claim_cancel_wakes`: a test says that cancellation wakes a paused operation.
  `cancel` and `resume` notify without holding `wait_lock`, so the notification
  may fall between the operation's test and its wait, and be lost.
- Promotion after eight admissions (`docs/task-queue.md`): an admission after the
  removal of the last place gets that place again and does not count. A task may
  be passed without end by tasks that are removed as soon as they have run;
  `BoundedPassing` says what does hold.
- `claim_batch_completed`: `docs/batch-job-spec-v0.6.md` says that completed
  operations are not rerun. When the preflight of a resume is not ready, the code
  asks of every planned operation whether it has an `error` key, and each has
  one, often null; completed operations are recorded as failed, and the next
  resume with `--retry-failed` runs them again. The same code turns Ctrl+C during
  the last operation's preflight into a failed run.
- `claim_web_clear`: `docs/task-recovery.md` says that Clear All cancels an active
  worker and waits for it. `startWorker` tests for an active task before it waits
  for its record and remembers the worker after it, so two quick clicks start two
  workers, of which the page knows only the second. Clear All leaves the first
  one running, and what it reports is written into the record of the second, or
  of the task that is active by then: with three tasks `RecordsTellOutcome` holds
  of a later task only if no earlier worker is listened to any more.
- `claim_cli_cleanup`: the manifest is called the completion marker of a package;
  a command that fails after it published the manifest removes its slices only.
- `claim_continues`: interrupted work "can continue safely at verified Slice
  boundaries"; a crash between the creation of a partial and the write of its
  record, or between its removal and that record, makes every resume of the task
  refuse, and so does a removal of the task that took the partial and left the
  row. `RefusedOnlyStranded` shows that there is no other such window for a
  split. A merge has the first and the last, and a third: a desktop merge that
  published its output and crashed, or could not write its result, is refused by
  `ensure_output_absent` in the preflight of every retry, although
  `merge_package_resumable_inner` would recognise its own complete output.

Behaviour of the engine worth knowing that no document denies:

- A run that ends while its row is Pausing, Resuming or Cancelling may have its
  outcome refused by the transition table, and the refusal is ignored: the row
  stays in an active status without a worker. It can be neither resumed nor
  cancelled and counts against the capacity until Clear All or a restart
  (`claim_nonterminal`).

## 8. What is not modelled

- The shutdown flag of the engine: when the last handle is dropped the worker
  ends after its current task, which for the table is a crash.
- Decoding, checksums, quarantine and migration of the store, and startup
  recovery over capacity (planned).
- Export of receipts and diagnostics, redaction, the desktop user interface,
  argument parsing and output: input and output over a snapshot, without shared
  state.
- The selection registry of the desktop shell: each operation holds its mutex
  from the test to the change, and the path is validated again when it is used.
- The merge and the inspection without recovery in `core/lib.rs`: neither
  application calls the merge; what it shares with the resumable one is
  modelled there.
- SHA-256: equal contents have equal hashes and others do not.
- Names, versions and JSON of manifests, package enumeration limits, reparse
  points: conditions on data that refuse before anything is written.
- Batches: validation of the specification, events and receipts, and two limits,
  on persisted events and on retained runs. (The latter looks at the first 33
  entries of the directory only, whatever they are.)
- Web: a second tab shares the records and not the generation, so a Clear All in
  one does not fence the other; the list the page shows, which a late answer of
  `markInterrupted` may replace; a discarded record that a queued save writes
  again; the answers `worker_busy` and `duplicate_task_id`, which this page cannot
  provoke; the service worker's cache.
- Preferences: they change the maximum of terminal history between two
  transactions; the model has it as a constant.
