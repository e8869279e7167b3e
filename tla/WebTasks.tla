------------------------------ MODULE WebTasks ------------------------------
(***************************************************************************)
(* The browser version: one page, a dedicated worker for every task it     *)
(* starts, and the records of tasks in the origin private file system      *)
(* (App.tsx, worker.ts, worker-control.ts, task-store.ts).                 *)
(*                                                                         *)
(* The page and each worker are event loops joined by two FIFO channels.   *)
(* An action is what one event does with the promise reactions that run    *)
(* before the next event.  The page writes records through two queues, one *)
(* behind the other: its own (persistenceRef), which hands the store one   *)
(* save at a time, and the store's (operationQueue), which also carries    *)
(* Clear All, Discard and the marking of interrupted tasks.                *)
(*                                                                         *)
(* A record is reduced to its status; "completed" and "failed" stand for   *)
(* the other outcomes as well.  What is read and downloaded is left out.   *)
(***************************************************************************)
EXTENDS Integers, Sequences, FiniteSets

CONSTANTS
  Tasks,        \* ids of tasks; random in the code, here taken in order
  Slices,       \* how many slices the file of a task has
  MaxClears,    \* bound: Clear All clicks on a page
  MaxIncidents, \* bound: other clicks, failures and reloads
  NoTask

ASSUME ConstantsAssumption ==
  /\ Tasks \subseteq Nat /\ IsFiniteSet(Tasks) /\ NoTask \notin Tasks
  /\ Slices \in [Tasks -> Nat \ {0}]
  /\ {MaxClears, MaxIncidents} \subseteq Nat

VARIABLES
  store,        \* the record of each task; its generation is history
  queue,        \* operationQueue: the head is being carried out
  generation,   \* TaskStore.generation
  clearing,     \* TaskStore.clearing
  persisting,   \* persistenceRef: the head is being carried out
  active,       \* activeRef and workerRef
  context,      \* the context of each start
  worker,       \* each worker with its two channels
  clear,        \* clearTasksRef
  barrierFailed, \* taskStorageBarrierFailedRef
  marked,       \* history: markInterrupted has gone through the records
  cleared,      \* history: the generation of the last removal of all records
  expected,     \* history: what the record of a task should come to say
  incidents     \* how many there have been, for the bound

pageVars    == <<active, context, worker>>
storeVars   == <<store, queue, generation, clearing>>
clearVars   == <<clear, barrierFailed>>
historyVars == <<marked, cleared, expected>>
vars == <<storeVars, persisting, pageVars, clearVars, historyVars, incidents>>

-----------------------------------------------------------------------------
NoRecord  == [status |-> "none", generation |-> 0]
NoContext == [status |-> "none", generation |-> 0, clearing |-> FALSE,
              acknowledge |-> FALSE]
NoWorker  == [state |-> "none", paused |-> FALSE, cancelled |-> FALSE, slice |-> 0,
              inbox |-> <<>>, outbox |-> <<>>]
NoClear   == [phase |-> "none", task |-> NoTask, outcome |-> "none"]

Operation(kind, t, status, g) ==
  [kind |-> kind, task |-> t, status |-> status, generation |-> g, stage |-> "queued"]
MarkInterrupted == Operation("mark", NoTask, "interrupted", 0)
Persist(t, status, g, starts) ==
  [task |-> t, status |-> status, generation |-> g, starts |-> starts, stage |-> "queued"]
Message(type, status) == [type |-> type, status |-> status]

Ended == {"completed", "failed", "cancelled"}
\* A faulty test for work that was cut short.
OnlyRunning == {"running"}
\* What markInterrupted changes.
Unfinished == {"running", "paused"}

\* A faulty fence: it only looks whether Clear All is running.
NotClearing(g) == ~clearing
\* isCurrentGeneration.
IsCurrent(g) == g = generation /\ ~clearing

Init ==
  /\ store = [t \in Tasks |-> NoRecord]
  /\ queue = <<MarkInterrupted>>
  /\ generation = 0 /\ clearing = FALSE
  /\ persisting = <<>>
  /\ active = NoTask
  /\ context = [t \in Tasks |-> NoContext]
  /\ worker = [t \in Tasks |-> NoWorker]
  /\ clear = NoClear /\ barrierFailed = FALSE
  /\ marked = FALSE /\ cleared = 0
  /\ expected = [t \in Tasks |-> "none"]
  /\ incidents = 0

\* Nothing is expected once a write has failed, starts have overlapped or the
\* generation is over.
Unknown(tasks) ==
  [t \in Tasks |-> IF t \in tasks /\ expected[t] # "none" THEN "any" ELSE expected[t]]

Incident == incidents < MaxIncidents /\ incidents' = incidents + 1

-----------------------------------------------------------------------------
(* The page: starting a task.                                              *)

Fresh(t) ==
  /\ context[t] = NoContext /\ store[t] = NoRecord /\ expected[t] = "none"
  /\ \A i \in DOMAIN persisting : persisting[i].task # t

\* startWorker up to its await: nothing tells a second click that the first
\* start waits for its record.
StartClick(t) ==
  /\ Fresh(t) /\ \A u \in Tasks : Fresh(u) => t <= u
  /\ ~barrierFailed /\ clear.phase = "none" /\ active = NoTask
  /\ persisting' = Append(persisting, Persist(t, "running", generation, TRUE))
  /\ UNCHANGED <<storeVars, pageVars, clearVars, historyVars, incidents>>

\* A task whose worker is still listened to.
Live(t) == context[t].status \notin {"none", "finished"}

\* startWorker after it.
Launch(t, g, written) ==
  /\ active' = t
  /\ context' = [context EXCEPT ![t] = [NoContext EXCEPT !.status = "running",
                                                         !.generation = g]]
  /\ worker' = [worker EXCEPT ![t] = [NoWorker EXCEPT !.state = "loading",
                                                      !.inbox = <<"start">>]]
  /\ expected' = IF \E u \in Tasks \ {t} : Live(u)
                 THEN [Unknown(Tasks) EXCEPT ![t] = "any"]
                 ELSE [expected EXCEPT ![t] = IF written THEN "running" ELSE "any"]

\* A call of persistTask ends, and the start that waits for it goes on.
Resolve(valid, written) ==
  LET request == Head(persisting)
  IN /\ persisting' = Tail(persisting)
     /\ IF request.starts /\ valid
        THEN Launch(request.task, request.generation, written)
        ELSE /\ expected' = IF request.starts \/ ~written
                            THEN [expected EXCEPT ![request.task] = "any"]
                            ELSE expected
             /\ UNCHANGED pageVars

PersistBegins ==
  /\ persisting # <<>> /\ Head(persisting).stage = "queued"
  /\ LET request == Head(persisting)
     IN IF IsCurrent(request.generation)
        THEN /\ persisting' = [persisting EXCEPT ![1].stage = "saving"]
             /\ queue' = Append(queue, Operation("save", request.task, request.status,
                                                 request.generation))
             /\ UNCHANGED <<pageVars, expected>>
        ELSE Resolve(FALSE, TRUE) /\ UNCHANGED queue
  /\ UNCHANGED <<store, generation, clearing, clearVars, marked, cleared, incidents>>

\* The storage estimate is back; the generation is read again.
PersistEnds ==
  /\ persisting # <<>> /\ Head(persisting).stage = "estimating"
  /\ Resolve(IsCurrent(Head(persisting).generation), TRUE)
  /\ UNCHANGED <<storeVars, clearVars, marked, cleared, incidents>>

-----------------------------------------------------------------------------
(* The store: the head of its queue.                                       *)

Serving(kind, stage) ==
  queue # <<>> /\ Head(queue).kind = kind /\ Head(queue).stage = stage

SaveBegins ==
  /\ Serving("save", "queued")
  /\ IF IsCurrent(Head(queue).generation)
     THEN /\ queue' = [queue EXCEPT ![1].stage = "writing"]
          /\ UNCHANGED <<persisting, pageVars, expected>>
     ELSE queue' = Tail(queue) /\ Resolve(FALSE, TRUE)
  /\ UNCHANGED <<store, generation, clearing, clearVars, marked, cleared, incidents>>

\* The file is closed; a Clear All that was asked for meanwhile undoes it.
SaveWrites ==
  /\ Serving("save", "writing")
  /\ LET save == Head(queue)
     IN /\ store' = [store EXCEPT ![save.task] = [status |-> save.status,
                                                  generation |-> save.generation]]
        /\ IF IsCurrent(save.generation)
           THEN /\ queue' = Tail(queue)
                /\ persisting' = [persisting EXCEPT ![1].stage = "estimating"]
           ELSE /\ queue' = [queue EXCEPT ![1].stage = "undoing"]
                /\ UNCHANGED persisting
  /\ UNCHANGED <<generation, clearing, pageVars, clearVars, historyVars, incidents>>

SaveIsUndone ==
  /\ Serving("save", "undoing")
  /\ store' = [store EXCEPT ![Head(queue).task] = NoRecord]
  /\ queue' = Tail(queue)
  /\ Resolve(FALSE, TRUE)
  /\ UNCHANGED <<generation, clearing, clearVars, marked, cleared, incidents>>

\* persistTask reports a failure to write, and a start goes on without it.
SaveFails ==
  /\ Incident
  /\ Serving("save", "writing") \/ Serving("save", "undoing")
  /\ queue' = Tail(queue)
  /\ Resolve(IsCurrent(Head(queue).generation), FALSE)
  /\ UNCHANGED <<store, generation, clearing, clearVars, marked, cleared>>

ClearRemoves ==
  /\ Serving("clear", "queued")
  /\ store' = [t \in Tasks |-> NoRecord]
  /\ queue' = Tail(queue)
  /\ clearing' = FALSE
  /\ clear' = [clear EXCEPT !.outcome = "removed"]
  /\ cleared' = Head(queue).generation
  /\ UNCHANGED <<generation, persisting, pageVars, barrierFailed, marked, expected,
                 incidents>>

ClearCannotRemove ==
  /\ Incident
  /\ Serving("clear", "queued")
  /\ queue' = Tail(queue)
  /\ clearing' = FALSE
  /\ clear' = [clear EXCEPT !.outcome = "failed"]
  /\ UNCHANGED <<store, generation, persisting, pageVars, barrierFailed, historyVars>>

DiscardRemoves ==
  /\ Serving("discard", "queued")
  /\ store' = [store EXCEPT ![Head(queue).task] = NoRecord]
  /\ queue' = Tail(queue)
  /\ UNCHANGED <<generation, clearing, persisting, pageVars, clearVars, historyVars, incidents>>

Interrupted == {t \in Tasks : store[t].status \in Unfinished}

\* markInterrupted writes one record after the other.
MarkWrites(t) ==
  /\ Serving("mark", "queued") /\ IsCurrent(Head(queue).generation)
  /\ t \in Interrupted
  /\ store' = [store EXCEPT ![t].status = "interrupted"]
  /\ UNCHANGED <<queue, generation, clearing, persisting, pageVars, clearVars, historyVars,
                 incidents>>

MarkEnds ==
  /\ Serving("mark", "queued")
  /\ IF Interrupted = {} \/ ~IsCurrent(Head(queue).generation)
     THEN UNCHANGED incidents
     ELSE Incident
  /\ queue' = Tail(queue)
  /\ marked' = (Interrupted = {})
  /\ UNCHANGED <<store, generation, clearing, persisting, pageVars, clearVars, cleared,
                 expected>>

Storage ==
  \/ SaveWrites \/ SaveIsUndone \/ SaveFails
  \/ ClearRemoves \/ ClearCannotRemove \/ DiscardRemoves
  \/ (\E t \in Tasks : MarkWrites(t)) \/ MarkEnds

-----------------------------------------------------------------------------
(* A worker.                                                               *)

Post(w, message) == [w EXCEPT !.outbox = Append(@, message)]

\* What is left of a task that has ended (control.release) or crashed.
Over(w, state) == [w EXCEPT !.state = state, !.paused = FALSE, !.cancelled = TRUE,
                            !.slice = 0]

\* A faulty cancellation: a paused task stays where it is.
CancelOnly(w) == [w EXCEPT !.cancelled = TRUE]
\* A cancellation releases a paused task, and is not answered by itself.
ApplyCancel(w) == [w EXCEPT !.cancelled = TRUE, !.paused = FALSE]

\* WorkerTaskControl.apply: a command that changes nothing is not answered.
Apply(w, command) ==
  CASE command = "cancel" -> ApplyCancel(w)
    [] command = "pause" /\ ~w.paused /\ ~w.cancelled ->
         Post([w EXCEPT !.paused = TRUE], Message("state", "paused"))
    [] command = "resume" /\ w.paused /\ ~w.cancelled ->
         Post([w EXCEPT !.paused = FALSE], Message("state", "running"))
    [] OTHER -> w

\* The worker takes a message from the page; once its task has ended a command
\* is answered as one that belongs to no task.
WorkerReceives(t) ==
  LET w == worker[t]
      rest == [w EXCEPT !.inbox = Tail(@)]
  IN /\ w.inbox # <<>> /\ w.state # "crashed"
     /\ worker' = [worker EXCEPT ![t] =
          CASE w.state = "loading" -> Post([rest EXCEPT !.state = "running"],
                                           Message("state", "running"))
            [] w.state = "running" -> Apply(rest, Head(w.inbox))
            [] w.state = "ended"   -> Post(rest, Message("stale", "failed"))]
     /\ UNCHANGED <<storeVars, persisting, active, context, clearVars, historyVars, incidents>>

\* A chunk, here a slice, is read between two checkpoints.  Progress in the
\* first slice changes no record.  Nothing is awaited between the last
\* checkpoint and the result.
WorkerReads(t) ==
  LET w == worker[t]
      read == [w EXCEPT !.slice = @ + 1]
      next == IF w.slice = 0 THEN read ELSE Post(read, Message("progress", "running"))
  IN /\ w.state = "running" /\ ~w.paused /\ ~w.cancelled
     /\ \/ /\ next.slice < Slices[t]
           /\ worker' = [worker EXCEPT ![t] = next]
        \/ /\ next.slice = Slices[t]
           /\ worker' = [worker EXCEPT ![t] = Post(Over(next, "ended"),
                                                   Message("result", "completed"))]
     /\ UNCHANGED <<storeVars, persisting, active, context, clearVars, historyVars, incidents>>

WorkerThrows(t, status) ==
  /\ worker' = [worker EXCEPT ![t] = Post(Over(@, "ended"),
                                          Message("error", status))]
  /\ UNCHANGED <<storeVars, persisting, active, context, clearVars, historyVars>>

\* A checkpoint finds the cancellation.
WorkerStops(t) ==
  /\ worker[t].state = "running" /\ worker[t].cancelled /\ ~worker[t].paused
  /\ WorkerThrows(t, "cancelled")
  /\ UNCHANGED incidents

\* A read, perhaps one that was in flight when the task was paused, or a check
\* of the package fails.
WorkerFails(t) ==
  /\ Incident
  /\ worker[t].state = "running"
  /\ WorkerThrows(t, IF worker[t].cancelled THEN "cancelled" ELSE "failed")

\* Its script cannot be loaded, or it ends with an error event.
WorkerCrashes(t) ==
  /\ Incident
  /\ worker[t].state \in {"loading", "running"}
  /\ worker' = [worker EXCEPT ![t] = Post([Over(@, "crashed") EXCEPT !.inbox = <<>>],
                                          Message("crash", "failed"))]
  /\ UNCHANGED <<storeVars, persisting, active, context, clearVars, historyVars>>

-----------------------------------------------------------------------------
(* The page: messages of the workers.                                      *)

\* Where updateActiveTask does anything.
Updates == active # NoTask /\ IsCurrent(context[active].generation)

\* A faulty record: the one from before the patch.
PersistedUnpatched(status) ==
  IF Updates
  THEN Append(persisting, Persist(active, context[active].status,
                                  context[active].generation, FALSE))
  ELSE persisting
\* updateActiveTask: the record that is written is the active task's, whoever
\* sent the message.
Persisted(status) ==
  IF Updates
  THEN Append(persisting, Persist(active, status, context[active].generation, FALSE))
  ELSE persisting
Updated(status) ==
  IF Updates THEN [context EXCEPT ![active].status = status] ELSE context

Received(t) == [worker EXCEPT ![t].outbox = Tail(@)]

\* A context nobody looks at any more.
Finished(c) == [NoContext EXCEPT !.status = "finished", !.generation = c.generation]

\* finish(): the listener's own worker and context.
Finish(t, contexts) ==
  /\ worker' = [worker EXCEPT ![t] = [NoWorker EXCEPT !.state = "terminated"]]
  /\ active' = IF active = t THEN NoTask ELSE active
  /\ context' = [contexts EXCEPT ![t] = Finished(contexts[t])]

\* The generation is over, or is being cleared away.
Fenced(t) == context[t].clearing \/ ~IsCurrent(context[t].generation)

\* Nothing but the acknowledgement that Clear All waits for.
HandleFenced(t, message) ==
  /\ Fenced(t)
  /\ message.type # "stale"
  /\ IF message.type = "crash"
     THEN Finish(t, context)
     ELSE /\ context' = IF message.type \in {"result", "error"}
                        THEN [context EXCEPT ![t].acknowledge = FALSE] ELSE context
          /\ worker' = Received(t)
          /\ UNCHANGED active
  /\ UNCHANGED <<persisting, expected>>

Heard(t, status) == [expected EXCEPT ![t] = IF @ = "any" THEN "any" ELSE status]

HandleState(t, message) ==
  /\ ~Fenced(t)
  /\ message.type \in {"state", "progress"}
  /\ LET status == IF message.type = "state" THEN message.status
                   ELSE IF Updates THEN context[active].status ELSE "none"
     IN /\ persisting' = Persisted(status)
        /\ context' = Updated(status)
  /\ expected' = IF message.type = "state" THEN Heard(t, message.status) ELSE expected
  /\ worker' = Received(t)
  /\ UNCHANGED active

\* The last message of a task, or one that is not its own.
HandleEnd(t, message) ==
  /\ message.type = "stale" \/ (~Fenced(t) /\ message.type \in {"result", "error", "crash"})
  /\ persisting' = Persisted(message.status)
  /\ Finish(t, Updated(message.status))
  /\ expected' = Heard(t, message.status)

PageReceives(t) ==
  /\ worker[t].outbox # <<>>
  /\ LET message == Head(worker[t].outbox)
     IN HandleFenced(t, message) \/ HandleState(t, message) \/ HandleEnd(t, message)
  /\ UNCHANGED <<storeVars, clearVars, marked, cleared, incidents>>

-----------------------------------------------------------------------------
(* The page: the user's other commands.                                    *)

Control(command) ==
  /\ active # NoTask
  /\ worker' = [worker EXCEPT ![active].inbox = Append(@, command)]
  /\ Incident
  /\ UNCHANGED <<storeVars, persisting, active, context, clearVars, historyVars>>

\* discardTask: the button of the active task is disabled.
DiscardClick(t) ==
  /\ Incident
  /\ store[t] # NoRecord /\ active # t
  /\ \A i \in DOMAIN queue : queue[i].kind # "discard"
  /\ queue' = Append(queue, Operation("discard", t, "none", generation))
  /\ UNCHANGED <<store, generation, clearing, persisting, pageVars, clearVars, historyVars>>

\* clearTasks, with the synchronous part of TaskStore.clear.
ClearClick ==
  /\ clear.phase = "none" /\ generation < MaxClears
  /\ generation' = generation + 1
  /\ clearing' = TRUE
  /\ queue' = Append(queue, Operation("clear", NoTask, "none", generation + 1))
  /\ clear' = [phase |-> "waiting", task |-> active, outcome |-> "none"]
  /\ IF active = NoTask
     THEN UNCHANGED <<context, worker>>
     ELSE /\ context' = [context EXCEPT ![active].clearing = TRUE,
                                        ![active].acknowledge = TRUE]
          /\ worker' = [worker EXCEPT ![active].inbox = Append(@, "cancel")]
  /\ expected' = Unknown(Tasks)
  /\ UNCHANGED <<store, persisting, active, barrierFailed, marked, cleared, incidents>>

Acknowledged == clear.task \in Tasks => ~context[clear.task].acknowledge

\* The worker of the task that was active is terminated in any case.
Stop(t) == IF t = NoTask THEN UNCHANGED pageVars ELSE Finish(t, context)

\* Every barrier has been passed.
ClearSucceeds ==
  /\ clear.phase = "waiting" /\ clear.outcome = "removed"
  /\ Acknowledged /\ persisting = <<>>
  /\ Stop(clear.task)
  /\ clear' = NoClear
  /\ barrierFailed' = FALSE
  /\ UNCHANGED <<storeVars, persisting, historyVars, incidents>>

\* The records could not be removed: the acknowledgement is not waited for.
ClearFails ==
  /\ clear.phase = "waiting" /\ clear.outcome = "failed"
  /\ Stop(clear.task)
  /\ clear' = [clear EXCEPT !.phase = "failing"]
  /\ UNCHANGED <<storeVars, persisting, barrierFailed, historyVars, incidents>>

ClearGivesUp ==
  /\ clear.phase = "failing" /\ persisting = <<>>
  /\ clear' = NoClear
  /\ barrierFailed' = TRUE
  /\ UNCHANGED <<storeVars, persisting, pageVars, historyVars, incidents>>

-----------------------------------------------------------------------------
(* The page is closed, and opened again.                                   *)

\* What an operation that is cut short may leave.
CutShort ==
  IF Serving("save", "writing")
  THEN {store, [store EXCEPT ![Head(queue).task] = [status |-> Head(queue).status,
                                                    generation |-> 0]]}
  ELSE IF Serving("save", "undoing") \/ Serving("discard", "queued")
  THEN {store, [store EXCEPT ![Head(queue).task] = NoRecord]}
  ELSE IF Serving("clear", "queued")
  THEN {[t \in Tasks |-> IF t \in gone THEN NoRecord ELSE store[t]] : gone \in SUBSET Tasks}
  ELSE {store}

\* Everything but the records is lost, the generation included.
Reload ==
  /\ Incident
  /\ \E left \in CutShort :
       store' = [t \in Tasks |-> [left[t] EXCEPT !.generation = 0]]
  /\ queue' = <<MarkInterrupted>>
  /\ generation' = 0 /\ clearing' = FALSE
  /\ persisting' = <<>>
  /\ active' = NoTask
  /\ context' = [t \in Tasks |-> NoContext]
  /\ worker' = [t \in Tasks |-> NoWorker]
  /\ clear' = NoClear /\ barrierFailed' = FALSE
  /\ marked' = FALSE /\ cleared' = 0
  /\ expected' = [t \in Tasks |-> IF Fresh(t) THEN "none" ELSE "any"]

User ==
  \/ \E t \in Tasks : StartClick(t) \/ DiscardClick(t)
  \/ \E command \in {"pause", "resume", "cancel"} : Control(command)
  \/ ClearClick

\* Promise reactions run before the page takes its next event.
Reactions == PersistBegins \/ SaveBegins
ReactionsPending ==
  (persisting # <<>> /\ Head(persisting).stage = "queued") \/ Serving("save", "queued")

\* What the event loop of the page does without a click.
Page ==
  \/ Reactions
  \/ /\ ~ReactionsPending
     /\ \/ Storage \/ PersistEnds
        \/ \E t \in Tasks : PageReceives(t)
        \/ ClearSucceeds \/ ClearFails \/ ClearGivesUp

WorkerRuns(t) == WorkerReceives(t) \/ WorkerReads(t) \/ WorkerStops(t)

Next ==
  \/ Page
  \/ ~ReactionsPending /\ (User \/ Reload)
  \/ \E t \in Tasks : WorkerRuns(t) \/ WorkerFails(t) \/ WorkerCrashes(t)

Spec == Init /\ [][Next]_vars

\* The event loops turn, and what the browser is asked to do ends one way or
\* the other.  Nobody has to click, and no worker has to fail.
Fairness == WF_vars(Page) /\ \A t \in Tasks : WF_vars(WorkerRuns(t))

FairSpec == Spec /\ Fairness

-----------------------------------------------------------------------------
(* Properties.                                                             *)

\* What the records and the messages can say.
Spoken == {"running", "paused"} \cup Ended
RecordType == [status : {"none", "interrupted"} \cup Spoken, generation : Nat]
ContextType ==
  [status : {"none", "finished"} \cup Spoken, generation : Nat,
   clearing : BOOLEAN, acknowledge : BOOLEAN]
OperationType ==
  [kind : {"mark", "save", "clear", "discard"}, task : Tasks \cup {NoTask},
   status : {"none", "interrupted"} \cup Spoken, generation : Nat,
   stage : {"queued", "writing", "undoing"}]
RequestType ==
  [task : Tasks, status : Spoken, generation : Nat, starts : BOOLEAN,
   stage : {"queued", "saving", "estimating"}]
MessageType ==
  [type : {"state", "progress", "result", "error", "crash", "stale"}, status : Spoken]
Commands == {"start", "pause", "resume", "cancel"}
WorkerType ==
  [state : {"none", "loading", "running", "ended", "crashed", "terminated"},
   paused : BOOLEAN, cancelled : BOOLEAN, slice : Nat,
   inbox : Seq(Commands), outbox : Seq(MessageType)]

StoreTypes ==
  /\ store \in [Tasks -> RecordType]
  /\ queue \in Seq(OperationType)
  /\ generation \in Nat /\ clearing \in BOOLEAN
  /\ persisting \in Seq(RequestType)

PageTypes ==
  /\ active \in Tasks \cup {NoTask}
  /\ context \in [Tasks -> ContextType]
  /\ worker \in [Tasks -> WorkerType]
  /\ clear \in [phase : {"none", "waiting", "failing"}, task : Tasks \cup {NoTask},
                outcome : {"none", "removed", "failed"}]
  /\ barrierFailed \in BOOLEAN /\ marked \in BOOLEAN /\ cleared \in Nat
  /\ expected \in [Tasks -> {"none", "any"} \cup Spoken]
  /\ incidents \in Nat

\* Every variable has its type.
TypeOK == StoreTypes /\ PageTypes

\* Clear All is a barrier: once the records have been removed, no record that
\* a start of before it wrote, or had still to write, is in the store again,
\* through whatever queue it came.
ClearedStaysCleared ==
  \A t \in Tasks : store[t] # NoRecord => store[t].generation >= cleared

\* On startup, tasks recorded as running or paused become interrupted
\* (docs/task-recovery.md): after that only a task of this page says so.
NoOrphanRuns ==
  (generation = cleared /\ (marked \/ cleared > 0)) =>
    \A t \in Tasks :
      store[t].status \in {"running", "paused"} =>
        \/ context[t] # NoContext
        \/ \E i \in DOMAIN persisting : persisting[i].task = t

\* Once both queues are empty, the record of a task of this page says what the
\* page last heard from its worker, unless a write has failed, Clear All has
\* been asked for since, or the page was listening to the worker of another
\* start (two starts that overlapped, and those that follow while the first
\* worker of the two goes on).
RecordsTellOutcome ==
  (persisting = <<>> /\ queue = <<>>) =>
    \A t \in Tasks :
      (store[t] # NoRecord /\ expected[t] # "any") => store[t].status = expected[t]

\* Clear All ends, whatever its task was doing: running, paused, not loaded
\* yet, finished or crashed, and whatever storage does.
ClearEnds == clear.phase # "none" ~> clear.phase = "none"

\* Claimed by docs/task-recovery.md: Clear All cancels the active worker and
\* waits for it; when it is over, no worker of before it goes on.
ClearStopsWorkers ==
  (clear.phase = "none" /\ ~barrierFailed) =>
    \A t \in Tasks : worker[t].state \in {"loading", "running"}
                       => context[t].generation = generation
=============================================================================
