------------------------------ MODULE Scheduler ------------------------------
(***************************************************************************)
(* Which queued task the engine runs next: the places rows get in the      *)
(* queue, their promotion by waiting, the user's changes of priority and   *)
(* place, and the worker that picks a task and claims it under two         *)
(* separate acquisitions of the admission mutex (store.rs, engine.rs).     *)
(*                                                                         *)
(* TaskEngine models the rest of the engine and leaves the choice open.    *)
(* Here a row is reduced to what the choice depends on.  Its statuses are  *)
(* "queued", "running" (every active one), "waiting" (interrupted, or in   *)
(* need of a permission), "ended" (failed or cancelled) and "completed".   *)
(* An id that is absent stands for one that was never used: a task that is *)
(* admitted after a removal is another task.                               *)
(***************************************************************************)
EXTENDS Integers, FiniteSets, FiniteSetsExt

CONSTANTS
  Tasks,       \* ids; random in the code, so their order is arbitrary
  Window,      \* FAIRNESS_ADMISSION_WINDOW
  Priorities,  \* ranks given to tasks, of 0 (high), 1 (normal), 2 (low)
  Commands,    \* what the user may do besides admitting tasks
  OrderBound,  \* bound: no admission at a later place than this
  NoTask

ASSUME ConstantsAssumption ==
  /\ Tasks \subseteq Nat /\ IsFiniteSet(Tasks)
  /\ Window \in Nat \ {0} /\ OrderBound \in Nat
  /\ Priorities \subseteq 0..2 /\ Priorities # {}
  /\ NoTask \notin Tasks

VARIABLES
  rows,    \* status, rank of the priority, queue_order
  worker,  \* idle, or the task it picked or runs
  before,  \* history: the tasks that were in the table when t was admitted
  passed   \* history: later tasks picked while t waited, in its current wait,
           \* but for those that have been removed or moved by hand

vars == <<rows, worker, before, passed>>

Statuses == {"absent", "queued", "running", "waiting", "ended", "completed"}
NoRow == [status |-> "absent", rank |-> 0, order |-> 0]

Present == {t \in Tasks : rows[t].status # "absent"}
Queued  == {t \in Tasks : rows[t].status = "queued"}

-----------------------------------------------------------------------------
(* The order of the queue.                                                 *)

\* A faulty next place: it counts rows.
CountedOrder == Cardinality(Present) + 1
\* A faulty next place: it looks at queued rows only.
QueuedOrder == 1 + Max({0} \cup {rows[t].order : t \in Queued})

\* One more than the largest place of any row that is left.
NextQueueOrder == 1 + Max({0} \cup {rows[t].order : t \in Present})

SaturatingSub(a, b) == IF a > b THEN a - b ELSE 0

MaximumOrder == Max({0} \cup {rows[t].order : t \in Queued})

\* A faulty promotion: never to the highest priority.
PromotedToNormal(t) ==
  LET waited == SaturatingSub(MaximumOrder, rows[t].order)
      least == IF rows[t].rank = 0 THEN 0 ELSE 1
  IN Max({least, SaturatingSub(rows[t].rank, waited \div Window)})

\* The priority after one promotion for every Window admissions waited.
EffectivePriority(t) ==
  LET waited == SaturatingSub(MaximumOrder, rows[t].order)
  IN SaturatingSub(rows[t].rank, waited \div Window)

ComesFirst(a, b) == a.order < b.order \/ (a.order = b.order /\ a.id < b.id)
Place(t) == [id |-> t, order |-> rows[t].order]

\* The scheduler's order: effective priority, place, id.
RunsBefore(t, u) ==
  \/ EffectivePriority(t) < EffectivePriority(u)
  \/ /\ EffectivePriority(t) = EffectivePriority(u)
     /\ ComesFirst(Place(t), Place(u))

NextScheduled == {t \in Queued : \A u \in Queued \ {t} : RunsBefore(t, u)}

\* Those among which t may be moved.
Peers(t) == {u \in Queued : rows[u].rank = rows[t].rank}

\* u is next to t among its peers, on the side of the direction.
Neighbour(t, u, direction) ==
  LET first  == IF direction = "earlier" THEN u ELSE t
      second == IF direction = "earlier" THEN t ELSE u
  IN /\ u \in Peers(t) \ {t}
     /\ ComesFirst(Place(first), Place(second))
     /\ ~\E v \in Peers(t) : /\ ComesFirst(Place(first), Place(v))
                             /\ ComesFirst(Place(v), Place(second))

-----------------------------------------------------------------------------
Idle == [pc |-> "idle", task |-> NoTask]

TypeOK ==
  /\ rows \in [Tasks -> [status : Statuses, rank : 0..2, order : Nat]]
  /\ worker \in {Idle} \cup [pc : {"picked", "running"}, task : Tasks]
  /\ before \in [Tasks -> SUBSET Tasks]
  /\ passed \in [Tasks -> SUBSET Tasks]
  /\ \A t \in Tasks : rows[t].status = "running" => worker = [pc |-> "running", task |-> t]
  /\ worker.pc = "running" => rows[worker.task].status = "running"

Init ==
  /\ rows = [t \in Tasks |-> NoRow]
  /\ worker = Idle
  /\ before = [t \in Tasks |-> {}]
  /\ passed = [t \in Tasks |-> {}]

\* enqueue: the insert gives the row its place.
Admit(t, rank) ==
  /\ rows[t].status = "absent"
  /\ NextQueueOrder <= OrderBound
  /\ rows' = [rows EXCEPT ![t] = [status |-> "queued", rank |-> rank,
                                  order |-> NextQueueOrder]]
  /\ before' = [before EXCEPT ![t] = Present]
  /\ UNCHANGED <<worker, passed>>

\* retry and resume of a task that did not complete: it keeps its place.
Requeue(t) ==
  /\ "requeue" \in Commands
  /\ rows[t].status \in {"waiting", "ended"}
  /\ rows' = [rows EXCEPT ![t].status = "queued"]
  /\ passed' = [passed EXCEPT ![t] = {}]
  /\ UNCHANGED <<worker, before>>

SetPriority(t, rank) ==
  /\ "setPriority" \in Commands
  /\ rows[t].status = "queued"
  /\ rows' = [rows EXCEPT ![t].rank = rank]
  /\ UNCHANGED <<worker, before, passed>>

\* reorder_task: two neighbours exchange places, and count as having arrived
\* in each other's place.
MoveQueued(t, direction) ==
  /\ "move" \in Commands
  /\ rows[t].status = "queued"
  /\ \E u \in Tasks :
       LET other(v) == IF v = t THEN u ELSE IF v = u THEN t ELSE v
       IN /\ Neighbour(t, u, direction)
          /\ rows' = [rows EXCEPT ![t].order = rows[u].order,
                                  ![u].order = rows[t].order]
          /\ before' = [v \in Tasks |-> {other(w) : w \in before[other(v)]}]
          /\ passed' = [v \in Tasks |-> IF v \in {t, u} THEN {} ELSE passed[v] \ {t, u}]
  /\ UNCHANGED worker

\* cancel_task of a task without a token; the worker may have picked it.
CancelInactive(t) ==
  /\ "cancel" \in Commands
  /\ rows[t].status \in {"queued", "waiting"}
  /\ rows' = [rows EXCEPT ![t].status = "ended"]
  /\ passed' = [passed EXCEPT ![t] = {}]
  /\ UNCHANGED <<worker, before>>

\* remove_task, the clearing of history and pruning: a finished row goes.
Remove(t) ==
  /\ "remove" \in Commands
  /\ rows[t].status \in {"ended", "completed"}
  /\ rows' = [rows EXCEPT ![t] = NoRow]
  /\ before' = [u \in Tasks |-> IF u = t THEN {} ELSE before[u] \ {t}]
  /\ passed' = [u \in Tasks |-> IF u = t THEN {} ELSE passed[u] \ {t}]
  /\ UNCHANGED worker

\* The worker chooses under the admission mutex, and lets it go.
Pick(u) ==
  /\ worker = Idle
  /\ u \in NextScheduled
  /\ worker' = [pc |-> "picked", task |-> u]
  /\ passed' = [t \in Tasks |-> IF t \in Queued \ {u} /\ t \in before[u]
                                THEN passed[t] \cup {u} ELSE passed[t]]
  /\ UNCHANGED <<rows, before>>

\* It takes the mutex again and reads the row again.
Claim ==
  /\ worker.pc = "picked"
  /\ rows[worker.task].status = "queued"
  /\ rows' = [rows EXCEPT ![worker.task].status = "running"]
  /\ worker' = [worker EXCEPT !.pc = "running"]
  /\ passed' = [passed EXCEPT ![worker.task] = {}]
  /\ UNCHANGED before

Skip ==
  /\ worker.pc = "picked"
  /\ rows[worker.task].status # "queued"
  /\ worker' = Idle
  /\ UNCHANGED <<rows, before, passed>>

\* The run ends, or is cancelled: its outcome is written.
Finish(status) ==
  /\ worker.pc = "running"
  /\ rows' = [rows EXCEPT ![worker.task].status = status]
  /\ worker' = Idle
  /\ UNCHANGED <<before, passed>>

\* The process ends and is started again: a running row is interrupted, the
\* queue is read from the table.
Restart ==
  /\ worker # Idle
  /\ rows' = [t \in Tasks |-> IF rows[t].status = "running"
                              THEN [rows[t] EXCEPT !.status = "waiting"] ELSE rows[t]]
  /\ worker' = Idle
  /\ UNCHANGED <<before, passed>>

User(t) ==
  \/ \E rank \in Priorities : Admit(t, rank) \/ SetPriority(t, rank)
  \/ \E direction \in {"earlier", "later"} : MoveQueued(t, direction)
  \/ Requeue(t) \/ CancelInactive(t) \/ Remove(t)

Next ==
  \/ \E t \in Tasks : User(t) \/ Pick(t)
  \/ Claim \/ Skip \/ Restart
  \/ \E status \in {"waiting", "ended", "completed"} : Finish(status)

Spec == Init /\ [][Next]_vars

-----------------------------------------------------------------------------
(* Properties.                                                             *)

\* Places follow arrival, whatever has been removed, retried, cancelled or
\* moved in between: a task has a later place than every row that was in the
\* table when it was admitted.
ArrivalOrder ==
  \A u \in Present : \A t \in before[u] : rows[t].order < rows[u].order

\* FIFO within a priority (docs/task-queue.md): the worker picks a task over
\* one that was there before it only if that one has a lower priority.
FifoWithinPriority ==
  [][\A u \in Tasks :
       (worker.task # u /\ worker'.task = u)
         => \A t \in Queued \cap before[u] : rows[u].rank < rows[t].rank]_vars

\* Promotion is bounded (docs/task-queue.md): fewer than two windows of later
\* tasks are picked over a task while it waits, of those that are still in the
\* table and that the user did not move, nor the task itself, whatever
\* priorities the user gives and however often tasks are cancelled and retried.
\* A removed task no longer counts: its place is given again.
BoundedPassing == \A t \in Tasks : Cardinality(passed[t]) < 2 * Window
=============================================================================
