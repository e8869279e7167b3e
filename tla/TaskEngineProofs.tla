-------------------------- MODULE TaskEngineProofs --------------------------
(***************************************************************************)
(* Proofs about TaskEngine for every set of tasks, any number of client    *)
(* threads and every limit.                                                *)
(*                                                                         *)
(* NoConflictingTasks and CapacityBound are not inductive: between the     *)
(* preflight of an enqueue or a requeue and its commit the table may       *)
(* change.  What saves them is the admission mutex (LockInv) and that no   *)
(* step taken without it makes a task nonterminal (Quiet), so what the     *)
(* preflight found is still true at the commit (NewcomerClear).            *)
(*                                                                         *)
(* The later sections are about the run in progress.  PublishedInv: what   *)
(* is Completed has its output, for any number of clients.  OwnInv: a run  *)
(* keeps its row, if commands come from one client (OneClient).  HeldInv:  *)
(* a Paused row is that of a run that holds, if writes succeed too.  And   *)
(* HistoryBounded: the two kinds of terminal rows keep to their limits.    *)
(* CommitRows, UpdateRows, CallRows and RunRows say once what the writes   *)
(* do to the table; the invariants are then proved from them.              *)
(***************************************************************************)
EXTENDS TaskEngine, FiniteSetTheorems, TLAPS

-----------------------------------------------------------------------------
(* The inductive invariant.                                                *)

RowsOK == rows \in [Tasks -> Record]

\* The part of TypeOK that is not about the table.
EngineOK ==
  /\ epoch \in Nat
  /\ admission \in Clients \cup {Worker, NoOne}
  /\ clearing \in BOOLEAN
  /\ controls \in SUBSET Tasks
  /\ token \in Token

WorkerOK ==
  /\ worker \in [pc: WorkSteps, task: Tasks \cup {NoTask}, epoch: Nat,
                 result: {"none", "ok", "cancelled"} \cup Failures]
  /\ worker.pc # "idle" => worker.task \in Tasks

CallsOK ==
  /\ call \in [Clients -> [pc: CallSteps, task: Tasks \cup {NoTask}, epoch: Nat,
                           live: BOOLEAN, owned: BOOLEAN]]
  /\ \A c \in Clients : call[c].pc \in TaskSteps => call[c].task \in Tasks

OutputOK == output \in [Tasks -> {"none", "partial", "final"}]

ControlOK == EngineOK /\ WorkerOK /\ CallsOK /\ OutputOK

\* Who is inside an admission section holds the admission mutex.
LockInv ==
  /\ \A c \in Clients : call[c].pc \in AdmissionSteps => admission = c
  /\ worker.pc = "claimed" => admission = Worker

Committing(c) == call[c].pc \in {"enqueueCommit", "requeueCommit"}

\* What the preflight found for the task about to be admitted still holds.
NewcomerClear ==
  \A c \in Clients : Committing(c) =>
    \A u \in Nonterminal \ {call[c].task} : <<call[c].task, u>> \notin Conflicts

\* The task about to be inserted has no row, and never had one.
NewcomerUnborn ==
  \A c \in Clients : call[c].pc = "enqueueCommit" => rows[call[c].task].status = "unborn"

IInv ==
  /\ RowsOK /\ ControlOK /\ LockInv /\ NewcomerClear /\ NewcomerUnborn
  /\ NoConflictingTasks /\ CapacityBound /\ EpochFence

LEMMA TypeSplit == TypeOK <=> RowsOK /\ ControlOK
BY DEF TypeOK, RowsOK, ControlOK, EngineOK, WorkerOK, CallsOK, OutputOK

-----------------------------------------------------------------------------
(* What a step does to the table.                                          *)

\* The step admits nobody: no row becomes nonterminal, none appears, no row
\* changes its epoch, and a completed one is kept or deleted.
Quiet ==
  /\ RowsOK'
  /\ \A t \in Tasks :
       /\ t \in Nonterminal' => t \in Nonterminal
       /\ t \in Present' => t \in Present /\ rows'[t].epoch = rows[t].epoch
       /\ t \notin Present => rows'[t].status = rows[t].status
       /\ rows[t].status = "Completed" => rows'[t].status \in {"Completed", "deleted"}

LEMMA NoRowType == \A s \in Statuses : NoRow(s) \in Record
BY DEF NoRow, Record

LEMMA DeleteType ==
  ASSUME NEW table \in [Tasks -> Record], NEW gone
  PROVE  /\ Delete(table, gone) \in [Tasks -> Record]
         /\ \A t \in Tasks \ gone : Delete(table, gone)[t] = table[t]
         /\ \A t \in Tasks \cap gone : Delete(table, gone)[t] = NoRow("deleted")
BY NoRowType DEF Delete, Statuses, Absent

\* The row was deleted by pruning.
PrunedAway(table, pruned, t) ==
  pruned[t] = NoRow("deleted") /\ table[t].status \in Terminal

LEMMA PrunedType ==
  ASSUME NEW table \in [Tasks -> Record], NEW pruned \in Pruned(table)
  PROVE  /\ pruned \in [Tasks -> Record]
         /\ \A t \in Tasks : pruned[t] = table[t] \/ PrunedAway(table, pruned, t)
<1>1. PICK gone \in SUBSET Prunable(table) : pruned = Delete(table, gone)
  BY DEF Pruned
<1>2. \A t \in gone : table[t].status \in Terminal
  BY <1>1 DEF Prunable
<1> QED
  BY <1>1, <1>2, DeleteType DEF PrunedAway

LEMMA UnchangedQuiet == RowsOK /\ UNCHANGED rows => Quiet
BY DEF Quiet, RowsOK, Nonterminal, Present

\* Deleting rows admits nobody.
LEMMA DeleteQuiet ==
  ASSUME RowsOK, NEW gone \in SUBSET Present, rows' = Delete(rows, gone) PROVE Quiet
BY DeleteType DEF Quiet, RowsOK, Nonterminal, Present, NoRow, Absent

\* Neither does a transaction that rewrites a row unless it takes the row from
\* a terminal status to another.
LEMMA CommitQuiet ==
  ASSUME RowsOK, NEW t \in Present, NEW new \in Record, Commit(t, new),
         new.epoch = rows[t].epoch,
         new.status \in Terminal \/ t \in Nonterminal,
         rows[t].status = "Completed" => new.status = "Completed"
  PROVE  Quiet
<1> DEFINE table == [rows EXCEPT ![t] = new]
<1>1. t \in Tasks /\ table \in [Tasks -> Record]
  BY DEF RowsOK, Present
<1>2. RowsOK' /\ \A u \in Tasks : rows'[u] = table[u] \/ PrunedAway(table, rows', u)
  BY <1>1, PrunedType DEF Commit, RowsOK
<1> QED
  BY <1>1, <1>2 DEF Quiet, RowsOK, Nonterminal, Present, NoRow, Absent, PrunedAway, Terminal

LEMMA MovedType ==
  ASSUME RowsOK, NEW t \in Tasks, NEW s \in Statuses
  PROVE  Moved(t, s) \in Record /\ Moved(t, s).status = s /\ Moved(t, s).epoch = rows[t].epoch
BY DEF RowsOK, Record, Moved

\* An update through the transition table to anything but Queued admits nobody.
LEMMA MoveQuiet ==
  ASSUME RowsOK, NEW t \in Tasks, NEW e, NEW s \in Active \cup Waiting \cup {"Cancelled"},
         CanMove(t, e, s), Commit(t, Moved(t, s))
  PROVE  Quiet
<1>1. t \in Present /\ s \in Statuses
  BY DEF CanMove, Accepts, RoomToReturn, Statuses, Active, Waiting, Terminal
<1>2. s \in Terminal \/ t \in Nonterminal
  BY <1>1 DEF CanMove, CanTransition, Moves, Nonterminal, Terminal, Active, Waiting
<1>3. rows[t].status # "Completed"
  BY DEF CanMove, CanTransition, Moves, Terminal, Active, Waiting
<1> QED
  BY <1>1, <1>2, <1>3, MovedType, CommitQuiet DEF Present

LEMMA UpdateQuiet ==
  ASSUME RowsOK, NEW c \in Clients, call[c].task \in Tasks,
         NEW s \in Active \cup Waiting \cup {"Cancelled"}, NEW pc, UpdateThen(c, s, pc)
  PROVE  Quiet
BY MoveQuiet, UnchangedQuiet DEF UpdateThen

-----------------------------------------------------------------------------
(* What a step does to the calls, the locks and the worker.                *)

CallsKept ==
  \A c \in Clients : Committing(c)' =>
    Committing(c) /\ call'[c].task = call[c].task /\ call'[c].pc = call[c].pc

\* The step is no part of an admission.
Kept ==
  /\ Quiet /\ ControlOK' /\ LockInv' /\ CallsKept
  /\ epoch' = epoch \/ Present' = {}

\* Such a step preserves the whole invariant.
LEMMA KeptKeeps == ASSUME IInv, Kept PROVE IInv'
<1>1. Nonterminal' \subseteq Nonterminal
  BY DEF Kept, Quiet, Nonterminal, Present
<1>2. NewcomerClear'
  BY <1>1 DEF IInv, NewcomerClear, Kept, CallsKept, Committing
<1>3. NoConflictingTasks'
  BY <1>1 DEF IInv, NoConflictingTasks
<1>4. CapacityBound'
  <2>1. IsFiniteSet(Tasks) /\ Nonterminal \subseteq Tasks /\ MaxNonterminal \in Nat
    BY ConstantsAssumption DEF Nonterminal, Present
  <2>2. IsFiniteSet(Nonterminal)
    BY <2>1, FS_Subset
  <2>3. Cardinality(Nonterminal') <= Cardinality(Nonterminal)
    BY <2>2, <1>1, FS_Subset
  <2>4. Cardinality(Nonterminal) \in Nat /\ Cardinality(Nonterminal') \in Nat
    BY <2>2, <1>1, FS_Subset, FS_CardinalityType
  <2> QED
    BY <2>1, <2>3, <2>4 DEF IInv, CapacityBound
<1>5. EpochFence'
  BY DEF IInv, EpochFence, Kept, Quiet, Present
<1>6. NewcomerUnborn'
  <2>1. ASSUME NEW c \in Clients, call'[c].pc = "enqueueCommit"
        PROVE  rows'[call'[c].task].status = "unborn"
    <3>1. call[c].pc = "enqueueCommit" /\ call'[c].task = call[c].task
      BY <2>1 DEF Kept, CallsKept, Committing
    <3>2. call[c].task \in Tasks
      BY <3>1 DEF IInv, ControlOK, CallsOK, TaskSteps, CallSteps
    <3>3. call[c].task \notin Present /\ rows[call[c].task].status = "unborn"
      BY <3>1 DEF IInv, NewcomerUnborn, Present, Absent
    <3> QED
      BY <3>1, <3>2, <3>3 DEF Kept, Quiet
  <2> QED
    BY <2>1 DEF NewcomerUnborn
<1> QED
  BY <1>2, <1>3, <1>4, <1>5, <1>6 DEF IInv, Kept, Quiet

LEMMA QuietKeepsHistory == Quiet => KeepsHistory
BY DEF Quiet, KeepsHistory, Present, Absent

\* Calls: the steps that are no part of an admission.

\* A client moves on in its call, and the worker stands still.
Moving ==
  /\ CallsOK' /\ LockInv' /\ CallsKept
  /\ admission' \in Clients \cup {Worker, NoOne} /\ UNCHANGED worker

LEMMA GotoMoves ==
  ASSUME ControlOK, LockInv, NEW c \in Clients,
         NEW pc \in CallSteps \ {"enqueueCommit", "requeueCommit"},
         pc \in AdmissionSteps => call[c].pc \in AdmissionSteps,
         pc \in TaskSteps => call[c].task \in Tasks,
         Goto(c, pc), UNCHANGED worker
  PROVE  Moving
<1>1. CallsOK'
  BY DEF ControlOK, CallsOK, Goto
<1>2. LockInv' /\ CallsKept
  BY DEF ControlOK, CallsOK, LockInv, CallsKept, Committing, Goto
<1> QED
  BY <1>1, <1>2 DEF Moving, Goto, ControlOK, EngineOK

LEMMA ReturnMoves ==
  ASSUME ControlOK, LockInv, NEW c \in Clients, Return(c), UNCHANGED worker
  PROVE  Moving
<1>1. CallsOK'
  BY DEF ControlOK, CallsOK, Return, NoCall, CallSteps, TaskSteps
<1>2. LockInv'
  BY ConstantsAssumption
  DEF ControlOK, CallsOK, LockInv, Return, NoCall, AdmissionSteps
<1>3. CallsKept
  BY DEF ControlOK, CallsOK, CallsKept, Committing, Return, NoCall
<1> QED
  BY <1>1, <1>2, <1>3 DEF Moving, Return, ControlOK, EngineOK

LEMMA BeginMoves ==
  ASSUME ControlOK, LockInv, NEW c \in Clients,
         NEW pc \in CallSteps \ {"enqueueCommit", "requeueCommit"},
         NEW t \in Tasks \cup {NoTask}, NEW live \in BOOLEAN,
         pc \in TaskSteps => t \in Tasks,
         Begin(c, pc, t, live), UNCHANGED worker,
         LockAdmission(c) \/ (pc \notin AdmissionSteps /\ UNCHANGED admission)
  PROVE  Moving
<1>1. CallsOK'
  BY DEF ControlOK, CallsOK, EngineOK, Begin, NoCall
<1>2. LockInv'
  BY ConstantsAssumption
  DEF ControlOK, CallsOK, LockInv, Begin, LockAdmission, NoCall
<1>3. CallsKept
  BY DEF ControlOK, CallsOK, CallsKept, Committing, Begin, NoCall
<1> QED
  BY <1>1, <1>2, <1>3 DEF Moving, LockAdmission, ControlOK, EngineOK

LEMMA RemoveMoves ==
  ASSUME ControlOK, LockInv, NEW c \in Clients, NEW t \in Tasks, RemoveBegin(c, t), RowsOK
  PROVE  Moving
<1>1. CallsOK'
  BY DEF ControlOK, CallsOK, RemoveBegin, RowsOK, Record, NoCall, CallSteps, TaskSteps
<1>2. LockInv'
  BY DEF ControlOK, CallsOK, LockInv, RemoveBegin, NoCall, AdmissionSteps
<1>3. CallsKept
  BY DEF ControlOK, CallsOK, CallsKept, Committing, RemoveBegin, NoCall
<1> QED
  BY <1>1, <1>2, <1>3 DEF Moving, RemoveBegin, ControlOK, EngineOK

\* A call of a single step.
LEMMA IdleMoves ==
  ASSUME ControlOK, LockInv, UNCHANGED <<call, admission, worker>> PROVE Moving
<1>1. CallsOK'
  BY DEF ControlOK, CallsOK
<1>2. LockInv' /\ CallsKept
  BY DEF LockInv, CallsKept, Committing
<1> QED
  BY <1>1, <1>2 DEF Moving, ControlOK, EngineOK

LEMMA UpdateMoves ==
  ASSUME ControlOK, LockInv, NEW c \in Clients, call[c].task \in Tasks,
         NEW s, NEW pc \in CallSteps \ {"enqueueCommit", "requeueCommit"},
         pc \in AdmissionSteps => call[c].pc \in AdmissionSteps,
         UpdateThen(c, s, pc), UNCHANGED worker
  PROVE  Moving
BY GotoMoves, ReturnMoves DEF UpdateThen

\* A notification and a cancellation keep the token's type and its other flags.
LEMMA NotifiedToken ==
  ASSUME NEW tok \in Token
  PROVE  /\ Notified(tok) \in Token
         /\ Notified(tok).cancelled = tok.cancelled /\ Notified(tok).paused = tok.paused
         /\ Notified(tok).pauseRequested = tok.pauseRequested
BY DEF Notified, Token

LEMMA CancellingToken ==
  ASSUME token \in Token
  PROVE  /\ CancelledToken \in Token
         /\ CancelledToken.cancelled /\ CancelledToken.paused = token.paused
         /\ CancelledToken.pauseRequested = token.pauseRequested
<1> DEFINE tok == [token EXCEPT !.cancelled = TRUE]
<1>1. /\ tok \in Token /\ tok.cancelled /\ tok.paused = token.paused
      /\ tok.pauseRequested = token.pauseRequested
  BY DEF Token
<1> HIDE DEF tok
<1>2. CancelledToken = Notified(tok)
  BY DEF CancelledToken, tok
<1> QED
  BY <1>1, <1>2, NotifiedToken

LEMMA RequestingToken ==
  ASSUME token \in Token, NEW b \in BOOLEAN
  PROVE  /\ [token EXCEPT !.pauseRequested = b] \in Token
         /\ Notified([token EXCEPT !.pauseRequested = b]) \in Token
BY NotifiedToken DEF Token

LEMMA MovingKept ==
  ASSUME ControlOK, Moving, Quiet, UNCHANGED <<epoch, controls>>,
         clearing' \in BOOLEAN,
         token' \in Token,
         OutputOK'
  PROVE  Kept
BY DEF Kept, Moving, ControlOK, EngineOK, WorkerOK

LEMMA UnlinkedType ==
  ASSUME OutputOK, NEW S PROVE Unlinked(S) \in [Tasks -> {"none", "partial", "final"}]
BY DEF OutputOK, Unlinked

LEMMA CallsKeep ==
  ASSUME IInv, NEW c \in Clients,
         \/ \E t \in Tasks : \/ PauseBegin(c, t) \/ ResumeBegin(c, t) \/ CancelBegin(c, t)
                             \/ InterruptBegin(c, t) \/ RemoveBegin(c, t)
         \/ ClearCompleted(c) \/ ClearFailedBegin(c) \/ ClearAllBegin(c)
         \/ PauseMark(c) \/ PauseSignal(c) \/ PauseAcknowledged(c) \/ PauseTimeout(c)
         \/ PauseCommit(c)
         \/ ResumeMark(c) \/ ResumeSignal(c) \/ ResumeCommit(c)
         \/ CancelMark(c) \/ CancelSignal(c) \/ CancelDirect(c)
         \/ InterruptMark(c) \/ InterruptSignal(c)
         \/ RemoveFiles(c) \/ RemoveRow(c) \/ ClearFailedDelete(c)
         \/ ClearAllFiles(c) \/ ClearAllFails(c) \/ ClearAllRows(c)
         \/ StoreFails(c)
  PROVE  Kept
<1> RowsOK /\ ControlOK /\ LockInv /\ OutputOK /\ CallsOK /\ EngineOK /\ WorkerOK
  BY DEF IInv, ControlOK
<1> USE DEF CallSteps, TaskSteps, AdmissionSteps, At
<1>1. ASSUME NEW t \in Tasks, PauseBegin(c, t) PROVE Kept
  <2>1. Moving
    BY <1>1, BeginMoves DEF PauseBegin, CallsOK
  <2>2. Quiet
    BY <1>1, UnchangedQuiet DEF PauseBegin
  <2> QED
    BY <1>1, <2>1, <2>2, MovingKept, UnlinkedType DEF PauseBegin, EngineOK, OutputOK
<1>2. ASSUME NEW t \in Tasks, ResumeBegin(c, t) PROVE Kept
  <2>1. Moving
    BY <1>2, BeginMoves DEF ResumeBegin, CallsOK
  <2>2. Quiet
    BY <1>2, UnchangedQuiet DEF ResumeBegin
  <2> QED
    BY <1>2, <2>1, <2>2, MovingKept, UnlinkedType DEF ResumeBegin, EngineOK, OutputOK
<1>3. ASSUME NEW t \in Tasks, CancelBegin(c, t) PROVE Kept
  <2>1. Moving
    BY <1>3, BeginMoves DEF CancelBegin, CallsOK
  <2>2. Quiet
    BY <1>3, UnchangedQuiet DEF CancelBegin
  <2> QED
    BY <1>3, <2>1, <2>2, MovingKept, UnlinkedType DEF CancelBegin, EngineOK, OutputOK
<1>4. ASSUME NEW t \in Tasks, InterruptBegin(c, t) PROVE Kept
  <2>1. Moving
    BY <1>4, BeginMoves DEF InterruptBegin, CallsOK
  <2>2. Quiet
    BY <1>4, UnchangedQuiet DEF InterruptBegin
  <2> QED
    BY <1>4, <2>1, <2>2, MovingKept, UnlinkedType DEF InterruptBegin, EngineOK, OutputOK
<1>5. ASSUME NEW t \in Tasks, RemoveBegin(c, t) PROVE Kept
  <2>1. Moving
    BY <1>5, RemoveMoves DEF RemoveBegin, CallsOK
  <2>2. Quiet
    BY <1>5, UnchangedQuiet DEF RemoveBegin
  <2> QED
    BY <1>5, <2>1, <2>2, MovingKept, UnlinkedType DEF RemoveBegin, EngineOK, OutputOK
<1>6. CASE ClearCompleted(c)
  <2>1. Moving
    BY <1>6, IdleMoves DEF ClearCompleted, CallsOK
  <2>2. Quiet
    BY <1>6, DeleteQuiet DEF ClearCompleted, WithStatus, Present, Absent
  <2> QED
    BY <1>6, <2>1, <2>2, MovingKept, UnlinkedType DEF ClearCompleted, EngineOK, OutputOK
<1>7. CASE ClearFailedBegin(c)
  <2>1. Moving
    BY <1>7, BeginMoves, IdleMoves DEF ClearFailedBegin, CallsOK
  <2>2. Quiet
    BY <1>7, UnchangedQuiet DEF ClearFailedBegin
  <2> QED
    BY <1>7, <2>1, <2>2, MovingKept, UnlinkedType DEF ClearFailedBegin, EngineOK, OutputOK
<1>8. CASE ClearAllBegin(c)
  <2>1. Moving
    BY <1>8, BeginMoves DEF ClearAllBegin, CallsOK
  <2>2. Quiet
    BY <1>8, UnchangedQuiet DEF ClearAllBegin
  <2> QED
    BY <1>8, <2>1, <2>2, MovingKept, CancellingToken DEF ClearAllBegin, EngineOK, OutputOK
<1>9. CASE PauseMark(c)
  <2>1. Moving
    BY <1>9, UpdateMoves DEF PauseMark, CallsOK
  <2>2. Quiet
    BY <1>9, UpdateQuiet DEF PauseMark, Active, Waiting, CallsOK
  <2> QED
    BY <1>9, <2>1, <2>2, MovingKept, UnlinkedType DEF PauseMark, EngineOK, OutputOK
<1>10. CASE PauseSignal(c)
  <2>1. Moving
    BY <1>10, GotoMoves DEF PauseSignal, CallsOK
  <2>2. Quiet
    BY <1>10, UnchangedQuiet DEF PauseSignal
  <2> QED
    BY <1>10, <2>1, <2>2, MovingKept, RequestingToken DEF PauseSignal, EngineOK, OutputOK, Signal
<1>11. CASE PauseAcknowledged(c)
  <2>1. Moving
    BY <1>11, GotoMoves DEF PauseAcknowledged, CallsOK
  <2>2. Quiet
    BY <1>11, UnchangedQuiet DEF PauseAcknowledged
  <2> QED
    BY <1>11, <2>1, <2>2, MovingKept, UnlinkedType DEF PauseAcknowledged, EngineOK, OutputOK
<1>12. CASE PauseTimeout(c)
  <2>1. Moving
    BY <1>12, ReturnMoves DEF PauseTimeout, CallsOK
  <2>2. Quiet
    BY <1>12, UnchangedQuiet DEF PauseTimeout
  <2> QED
    BY <1>12, <2>1, <2>2, MovingKept, UnlinkedType DEF PauseTimeout, EngineOK, OutputOK
<1>13. CASE PauseCommit(c)
  <2>1. Moving
    BY <1>13, UpdateMoves DEF PauseCommit, CallsOK
  <2>2. Quiet
    BY <1>13, UpdateQuiet DEF PauseCommit, Active, Waiting, CallsOK
  <2> QED
    BY <1>13, <2>1, <2>2, MovingKept, UnlinkedType DEF PauseCommit, EngineOK, OutputOK
<1>14. CASE ResumeMark(c)
  <2>1. Moving
    BY <1>14, UpdateMoves DEF ResumeMark, CallsOK
  <2>2. Quiet
    BY <1>14, UpdateQuiet DEF ResumeMark, Active, Waiting, CallsOK
  <2> QED
    BY <1>14, <2>1, <2>2, MovingKept, UnlinkedType DEF ResumeMark, EngineOK, OutputOK
<1>15. CASE ResumeSignal(c)
  <2>1. Moving
    BY <1>15, GotoMoves DEF ResumeSignal, CallsOK
  <2>2. Quiet
    BY <1>15, UnchangedQuiet DEF ResumeSignal
  <2> QED
    BY <1>15, <2>1, <2>2, MovingKept, RequestingToken DEF ResumeSignal, EngineOK, OutputOK, Signal
<1>16. CASE ResumeCommit(c)
  <2>1. Moving
    BY <1>16, UpdateMoves DEF ResumeCommit, CallsOK
  <2>2. Quiet
    BY <1>16, UpdateQuiet DEF ResumeCommit, Active, Waiting, CallsOK
  <2> QED
    BY <1>16, <2>1, <2>2, MovingKept, UnlinkedType DEF ResumeCommit, EngineOK, OutputOK
<1>17. CASE CancelMark(c)
  <2>1. Moving
    BY <1>17, UpdateMoves DEF CancelMark, CallsOK
  <2>2. Quiet
    BY <1>17, UpdateQuiet DEF CancelMark, Active, Waiting, CallsOK
  <2> QED
    BY <1>17, <2>1, <2>2, MovingKept, UnlinkedType DEF CancelMark, EngineOK, OutputOK
<1>18. CASE CancelSignal(c)
  <2>1. Moving
    BY <1>18, ReturnMoves DEF CancelSignal, CallsOK
  <2>2. Quiet
    BY <1>18, UnchangedQuiet DEF CancelSignal
  <2> QED
    BY <1>18, <2>1, <2>2, MovingKept, CancellingToken DEF CancelSignal, EngineOK, OutputOK, Signal
<1>19. CASE CancelDirect(c)
  <2>1. Moving
    BY <1>19, UpdateMoves DEF CancelDirect, CallsOK
  <2>2. Quiet
    BY <1>19, UpdateQuiet DEF CancelDirect, Active, Waiting, CallsOK
  <2> QED
    BY <1>19, <2>1, <2>2, MovingKept, UnlinkedType DEF CancelDirect, EngineOK, OutputOK
<1>20. CASE InterruptMark(c)
  <2>1. Moving
    BY <1>20, UpdateMoves, GotoMoves, ReturnMoves DEF InterruptMark, CallsOK
  <2>2. Quiet
    BY <1>20, UpdateQuiet, UnchangedQuiet DEF InterruptMark, Active, Waiting, CallsOK
  <2> QED
    BY <1>20, <2>1, <2>2, MovingKept, UnlinkedType DEF InterruptMark, EngineOK, OutputOK
<1>21. CASE InterruptSignal(c)
  <2>1. Moving
    BY <1>21, ReturnMoves DEF InterruptSignal, CallsOK
  <2>2. Quiet
    BY <1>21, UnchangedQuiet DEF InterruptSignal
  <2> QED
    BY <1>21, <2>1, <2>2, MovingKept, CancellingToken
    DEF InterruptSignal, EngineOK, OutputOK, Signal
<1>22. CASE RemoveFiles(c)
  <2>1. Moving
    BY <1>22, GotoMoves, ReturnMoves DEF RemoveFiles, CallsOK
  <2>2. Quiet
    BY <1>22, UnchangedQuiet DEF RemoveFiles
  <2> QED
    BY <1>22, <2>1, <2>2, MovingKept, UnlinkedType DEF RemoveFiles, EngineOK, OutputOK
<1>23. CASE RemoveRow(c)
  <2>1. Moving
    BY <1>23, ReturnMoves DEF RemoveRow, CallsOK
  <2>2. Quiet
    <3>1. CASE UNCHANGED rows
      BY <3>1, UnchangedQuiet
    <3>2. CASE ~UNCHANGED rows
      <4>1. rows' = Delete(rows, {call[c].task}) /\ rows[call[c].task].status \in Terminal
        BY <1>23, <3>2 DEF RemoveRow
      <4>2. {call[c].task} \in SUBSET Present
        BY <1>23, <4>1 DEF RemoveRow, CallsOK, Present, Absent, Terminal
      <4> QED
        BY <4>1, <4>2, DeleteQuiet
    <3> QED
      BY <3>1, <3>2
  <2> QED
    BY <1>23, <2>1, <2>2, MovingKept, UnlinkedType DEF RemoveRow, EngineOK, OutputOK
<1>24. CASE ClearFailedDelete(c)
  <2>1. Moving
    BY <1>24, ReturnMoves DEF ClearFailedDelete, CallsOK
  <2>2. Quiet
    BY <1>24, DeleteQuiet DEF ClearFailedDelete, WithStatus, Present, Absent
  <2> QED
    BY <1>24, <2>1, <2>2, MovingKept, UnlinkedType DEF ClearFailedDelete, EngineOK, OutputOK
<1>25. CASE ClearAllFiles(c)
  <2>1. Moving
    BY <1>25, GotoMoves DEF ClearAllFiles, CallsOK
  <2>2. Quiet
    BY <1>25, UnchangedQuiet DEF ClearAllFiles
  <2> QED
    BY <1>25, <2>1, <2>2, MovingKept, UnlinkedType DEF ClearAllFiles, EngineOK, OutputOK
<1>26. CASE ClearAllFails(c)
  <2>1. Moving
    BY <1>26, ReturnMoves DEF ClearAllFails, CallsOK
  <2>2. Quiet
    BY <1>26, UnchangedQuiet DEF ClearAllFails
  <2> QED
    BY <1>26, <2>1, <2>2, MovingKept, UnlinkedType DEF ClearAllFails, EngineOK, OutputOK
<1>27. CASE ClearAllRows(c)
  <2>1. Moving
    BY <1>27, ReturnMoves DEF ClearAllRows
  <2>2. Quiet
    BY <1>27, DeleteQuiet DEF ClearAllRows, Everything
  <2>3. Present' = {}
    BY <1>27 DEF ClearAllRows, Delete, Everything, Present, NoRow, Absent
  <2>4. EngineOK'
    <3>1. epoch' \in Nat
      BY <1>27 DEF ClearAllRows, EngineOK
    <3>2. clearing' \in BOOLEAN /\ controls' \in SUBSET Tasks /\ UNCHANGED token
      BY <1>27 DEF ClearAllRows, EngineOK
    <3> QED
      BY <2>1, <3>1, <3>2 DEF Moving, EngineOK
  <2>5. WorkerOK' /\ OutputOK'
    BY <1>27 DEF ClearAllRows, WorkerOK, OutputOK
  <2> QED
    BY <2>1, <2>2, <2>3, <2>4, <2>5 DEF Kept, Moving, ControlOK
<1>28. CASE StoreFails(c)
  <2>1. Moving
    BY <1>28, ReturnMoves DEF StoreFails, CallsOK
  <2>2. Quiet
    BY <1>28, UnchangedQuiet DEF StoreFails
  <2> QED
    BY <1>28, <2>1, <2>2, MovingKept, UnlinkedType DEF StoreFails, EngineOK, OutputOK
<1> QED
  BY <1>1, <1>2, <1>3, <1>4, <1>5, <1>6, <1>7, <1>8, <1>9, <1>10, <1>11,
     <1>12, <1>13, <1>14, <1>15, <1>16, <1>17, <1>18, <1>19, <1>20, <1>21,
     <1>22, <1>23, <1>24, <1>25, <1>26, <1>27, <1>28

-----------------------------------------------------------------------------
(* The steps of the worker, and a restart.                                 *)

\* The worker takes a step that no call takes part in.
LEMMA WorkerKept ==
  ASSUME ControlOK, LockInv, Quiet, WorkerOK', OutputOK', UNCHANGED <<epoch, clearing, call>>,
         controls' \in SUBSET Tasks,
         token' \in Token,
         \/ admission' = admission /\ (worker'.pc # "claimed" \/ worker.pc = "claimed")
         \/ admission = NoOne /\ admission' = Worker
         \/ worker.pc = "claimed" /\ admission' = NoOne /\ worker'.pc # "claimed"
  PROVE  Kept
<1>1. NoOne \notin Clients /\ Worker \notin Clients /\ NoOne # Worker
  BY ConstantsAssumption
<1>2. CallsOK' /\ CallsKept
  BY DEF ControlOK, CallsOK, CallsKept, Committing
<1>3. EngineOK'
  BY DEF ControlOK, EngineOK
<1>4. LockInv'
  BY <1>1 DEF LockInv, ControlOK, WorkerOK, CallsOK
<1> QED
  BY <1>2, <1>3, <1>4 DEF Kept, ControlOK

\* What a run notes in its row besides a status.
LEMMA MarkedType ==
  ASSUME RowsOK, NEW t \in Tasks
  PROVE  /\ \A new \in {[rows[t] EXCEPT !.checkpoint = TRUE], [rows[t] EXCEPT !.result = TRUE]} :
              new \in Record /\ new.epoch = rows[t].epoch /\ new.status = rows[t].status
         /\ [rows[t] EXCEPT !.checkpoint = TRUE].result = rows[t].result
<1>1. rows[t] \in Record
  BY DEF RowsOK
<1>2. ASSUME NEW r \in Record
      PROVE  LET new == [r EXCEPT !.checkpoint = TRUE]
             IN  /\ new \in Record /\ new.epoch = r.epoch /\ new.status = r.status
                 /\ new.result = r.result
  BY DEF Record
<1>3. ASSUME NEW r \in Record
      PROVE  LET new == [r EXCEPT !.result = TRUE]
             IN  new \in Record /\ new.epoch = r.epoch /\ new.status = r.status
  BY DEF Record
<1> QED
  BY <1>1, <1>2, <1>3

\* Rewriting a row without changing its status admits nobody.
LEMMA RewriteQuiet ==
  ASSUME RowsOK, NEW t \in Present, NEW new \in Record, Commit(t, new),
         new.epoch = rows[t].epoch, new.status = rows[t].status
  PROVE  Quiet
BY CommitQuiet DEF Nonterminal

LEMMA WorkerPersists ==
  ASSUME RowsOK, worker.task \in Tasks, NEW new \in Record,
         new.epoch = rows[worker.task].epoch, new.status = rows[worker.task].status,
         Persist(new) \/ PersistFails(new)
  PROVE  Quiet
<1>1. CASE Persist(new)
  BY <1>1, RewriteQuiet DEF Persist, Accepts
<1>2. CASE PersistFails(new)
  BY <1>2, UnchangedQuiet DEF PersistFails
<1> QED
  BY <1>1, <1>2

LEMMA StartedType ==
  ASSUME RowsOK, NEW t \in Tasks
  PROVE  LET new == [Moved(t, "Running") EXCEPT !.attempts = @ + 1]
         IN  /\ new \in Record /\ new.status = "Running" /\ new.epoch = rows[t].epoch
             /\ new.result = rows[t].result
<1>1. /\ Moved(t, "Running") \in Record /\ Moved(t, "Running").status = "Running"
      /\ Moved(t, "Running").epoch = rows[t].epoch
      /\ Moved(t, "Running").result = rows[t].result
  BY MovedType DEF Statuses, Active, Moved, RowsOK, Record
<1>2. ASSUME NEW r \in Record, NEW n \in Nat
      PROVE  LET new == [r EXCEPT !.attempts = n]
             IN  /\ new \in Record /\ new.status = r.status /\ new.epoch = r.epoch
                 /\ new.result = r.result
  BY DEF Record
<1>3. Moved(t, "Running").attempts + 1 \in Nat
  BY <1>1 DEF Record
<1>4. [Moved(t, "Running") EXCEPT !.attempts = @ + 1]
        = [Moved(t, "Running") EXCEPT !.attempts = Moved(t, "Running").attempts + 1]
  OBVIOUS
<1> QED
  BY <1>1, <1>2, <1>3, <1>4

LEMMA StartQuiet == ASSUME RowsOK, ControlOK, WorkerStarts PROVE Quiet
<1> DEFINE t == worker.task
           new == [Moved(t, "Running") EXCEPT !.attempts = @ + 1]
<1>1. t \in Tasks
  BY DEF WorkerStarts, Works, ControlOK, WorkerOK
<1>2. new \in Record /\ new.status = "Running" /\ new.epoch = rows[t].epoch
  BY <1>1, StartedType
<1>3. ASSUME CanTransition(rows[t].status, "Running"), Accepts(t, worker.epoch, new)
      PROVE  t \in Present /\ t \in Nonterminal /\ rows[t].status # "Completed"
  BY <1>3 DEF CanTransition, Moves, Accepts, RoomToReturn, Nonterminal, Terminal, Active, Waiting
<1> QED
  BY <1>2, <1>3, CommitQuiet, UnchangedQuiet DEF WorkerStarts

LEMMA SettledType ==
  ASSUME RowsOK, ControlOK, WorkerSettles
  PROVE  /\ Settled(worker.task) \in Record
         /\ Settled(worker.task).epoch = rows[worker.task].epoch
         /\ Settled(worker.task).status \in Terminal
              \/ Settled(worker.task).status = "PermissionRequired"
         /\ Settled(worker.task).status = "PermissionRequired" => worker.result # "cancelled"
<1> DEFINE t == worker.task
<1>1. t \in Tasks /\ worker.result \in {"none", "ok", "cancelled"} \cup Failures
  BY DEF WorkerSettles, Works, ControlOK, WorkerOK
<1>2. /\ Settled(t) \in Record /\ Settled(t).epoch = rows[t].epoch
      /\ Settled(t).status \in Terminal \/ Settled(t).status = "PermissionRequired"
      /\ Settled(t).status = "PermissionRequired" => worker.result # "cancelled"
  <2>1. \A s \in Terminal \cup Waiting :
          Moved(t, s) \in Record /\ Moved(t, s).status = s
          /\ Moved(t, s).epoch = rows[t].epoch
    BY <1>1, MovedType DEF Statuses
  <2>2. ASSUME NEW s \in Terminal \cup Waiting, NEW f \in {"none", "retryable", "final"},
               Settled(t) = [Moved(t, s) EXCEPT !.failure = f]
        PROVE  Settled(t) \in Record /\ Settled(t).epoch = rows[t].epoch
               /\ Settled(t).status = s
    BY <2>1, <2>2 DEF Record
  <2>3. CASE worker.result = "ok"
    <3>1. Settled(t) = [Moved(t, "Completed") EXCEPT !.failure = "none"]
      BY <2>3 DEF Settled
    <3> QED
      BY <2>2, <2>3, <3>1 DEF Terminal
  <2>4. CASE worker.result = "cancelled"
    BY <2>1, <2>4 DEF Settled, Terminal
  <2>5. CASE worker.result = "permission"
    <3>1. Settled(t) = [Moved(t, "PermissionRequired") EXCEPT !.failure = "retryable"]
      BY <2>5 DEF Settled
    <3> QED
      BY <2>2, <2>5, <3>1 DEF Waiting
  <2>6. CASE worker.result \in {"none", "retryable", "final"}
    <3>1. Settled(t) = [Moved(t, "Failed") EXCEPT !.failure = worker.result]
      BY <2>6 DEF Settled
    <3> QED
      BY <2>2, <2>6, <3>1 DEF Terminal
  <2> QED
    BY <1>1, <2>3, <2>4, <2>5, <2>6 DEF Failures
<1> QED
  BY <1>2

LEMMA SettleQuiet == ASSUME RowsOK, ControlOK, WorkerSettles PROVE Quiet
<1> DEFINE t == worker.task
<1>1. t \in Tasks /\ worker.result \in {"none", "ok", "cancelled"} \cup Failures
  BY DEF WorkerSettles, Works, ControlOK, WorkerOK
<1>2. /\ Settled(t) \in Record /\ Settled(t).epoch = rows[t].epoch
      /\ Settled(t).status \in Terminal \/ Settled(t).status = "PermissionRequired"
      /\ Settled(t).status = "PermissionRequired" => worker.result # "cancelled"
  BY SettledType
<1>3. ASSUME MaySettle(t), Accepts(t, rows[t].epoch, Settled(t))
      PROVE  t \in Present /\ (Settled(t).status \in Terminal \/ t \in Nonterminal)
  <2>1. t \in Present
    BY <1>3 DEF Accepts, RoomToReturn
  <2>2. CASE Settled(t).status = "PermissionRequired"
    BY <1>2, <1>3, <2>1, <2>2
    DEF MaySettle, CanTransition, Moves, Nonterminal, Terminal, Active, Waiting
  <2> QED
    BY <1>2, <2>1, <2>2
<1>4. CASE UNCHANGED rows
  BY <1>4, UnchangedQuiet
<1>5. CASE MaySettle(t) /\ Accepts(t, rows[t].epoch, Settled(t)) /\ Commit(t, Settled(t))
  <2>1. ASSUME rows[t].status = "Completed" PROVE Settled(t).status = "Completed"
    BY <1>5, <2>1 DEF MaySettle, CanTransition, Moves, Terminal, Active, Waiting
  <2> QED
    BY <1>2, <1>3, <1>5, <2>1, CommitQuiet
<1> QED
  BY <1>4, <1>5 DEF WorkerSettles

LEMMA RestartQuiet == ASSUME RowsOK, Restart PROVE Quiet
<1> DEFINE table == [t \in Tasks |-> Recovered(t)]
<1>1. table \in [Tasks -> Record]
  BY MovedType DEF RowsOK, Recovered, Statuses, Waiting
<1>2. RowsOK' /\ \A t \in Tasks : rows'[t] = table[t] \/ PrunedAway(table, rows', t)
  BY <1>1, PrunedType DEF Restart, RowsOK
<1>3. ASSUME NEW t \in Tasks
      PROVE  /\ table[t].epoch = rows[t].epoch
             /\ \/ table[t].status = rows[t].status
                \/ rows[t].status \in Active /\ table[t].status = "Interrupted"
  BY DEF Recovered, RowsOK, Record, Moved
<1> QED
  BY <1>2, <1>3
  DEF Quiet, Nonterminal, Present, NoRow, Absent, Active, Terminal, PrunedAway

LEMMA WorkerKeeps == ASSUME IInv, WorkerStep PROVE Kept
<1> RowsOK /\ ControlOK /\ LockInv /\ WorkerOK /\ OutputOK /\ EngineOK
  BY DEF IInv, ControlOK
<1> USE DEF Works, WorkAt, Finish, WorkSteps, NextStep
<1>1. CASE WorkerPick
  <2>1. Quiet
    BY <1>1, UnchangedQuiet DEF WorkerPick
  <2>2. PICK t \in Tasks : worker' = [NoWork EXCEPT !.pc = "picked", !.task = t]
    BY <1>1 DEF WorkerPick, WithStatus
  <2>3. WorkerOK'
    BY <2>2 DEF WorkerOK, NoWork
  <2>4. OutputOK'
    BY <1>1 DEF WorkerPick, OutputOK
  <2> QED
    BY <1>1, <2>1, <2>2, <2>3, <2>4, WorkerKept DEF WorkerPick, EngineOK, NoWork
<1>2. CASE WorkerClaim
  <2>1. Quiet
    BY <1>2, UnchangedQuiet DEF WorkerClaim
  <2>2. WorkerOK' /\ OutputOK'
    BY <1>2 DEF WorkerClaim, WorkerOK, OutputOK, RowsOK, Record
  <2> QED
    BY <1>2, <2>1, <2>2, WorkerKept DEF WorkerClaim, EngineOK, WorkerOK
<1>3. CASE WorkerSkips
  <2>1. Quiet
    BY <1>3, UnchangedQuiet DEF WorkerSkips
  <2>2. WorkerOK' /\ OutputOK'
    BY <1>3 DEF WorkerSkips, WorkerOK, OutputOK, NoWork
  <2> QED
    BY <1>3, <2>1, <2>2, WorkerKept DEF WorkerSkips, EngineOK, WorkerOK, NoWork
<1>4. CASE WorkerStarts
  <2>1. Quiet
    BY <1>4, StartQuiet DEF WorkerStarts
  <2>2. WorkerOK' /\ OutputOK'
    BY <1>4 DEF WorkerStarts, WorkerOK, OutputOK, Failures
  <2> QED
    BY <1>4, <2>1, <2>2, WorkerKept DEF WorkerStarts, EngineOK, WorkerOK
<1>5. CASE WorkerPreflight
  <2>1. Quiet
    BY <1>5, RewriteQuiet DEF WorkerPreflight, Accepts, RoomToReturn, RowsOK, WorkerOK
  <2>2. WorkerOK' /\ OutputOK'
    BY <1>5 DEF WorkerPreflight, WorkerOK, OutputOK, FirstCheck
  <2> QED
    BY <1>5, <2>1, <2>2, WorkerKept DEF WorkerPreflight, EngineOK, WorkerOK, FirstCheck
<1>6. CASE WorkerContinues
  <2>1. Quiet
    BY <1>6, UnchangedQuiet DEF WorkerContinues
  <2>2. PICK pc \in {"stage", "publish", "persist"} : worker' = [worker EXCEPT !.pc = pc]
    BY <1>6 DEF WorkerContinues, Tests, Checking
  <2>3. worker.pc # "idle"
    BY <1>6 DEF WorkerContinues, Tests, Checking
  <2>4. WorkerOK'
    BY <2>2, <2>3 DEF WorkerOK
  <2>5. OutputOK' /\ worker'.pc # "claimed"
    BY <1>6, <2>2 DEF WorkerContinues, OutputOK, WorkerOK
  <2>6. token' \in Token
    BY <1>6 DEF WorkerContinues, Leaves, EngineOK, Token
  <2> QED
    BY <1>6, <2>1, <2>4, <2>5, <2>6, WorkerKept DEF WorkerContinues, EngineOK
<1>7. CASE WorkerPauses \/ WorkerWaits
  <2>1. Quiet
    BY <1>7, UnchangedQuiet DEF WorkerPauses, WorkerWaits
  <2>2. WorkerOK' /\ OutputOK'
    BY <1>7 DEF WorkerPauses, WorkerWaits, WorkerOK, OutputOK
  <2>3. token' \in Token
    BY <1>7 DEF WorkerPauses, WorkerWaits, EngineOK, Token
  <2> QED
    BY <1>7, <2>1, <2>2, <2>3, WorkerKept DEF WorkerPauses, WorkerWaits, EngineOK
<1>8. CASE WorkerStops
  <2>1. Quiet
    BY <1>8, UnchangedQuiet DEF WorkerStops
  <2>2. WorkerOK' /\ OutputOK'
    BY <1>8 DEF WorkerStops, WorkerOK, OutputOK, Tests, Checking
  <2>3. token' \in Token
    BY <1>8 DEF WorkerStops, Leaves, EngineOK, Token
  <2> QED
    BY <1>8, <2>1, <2>2, <2>3, WorkerKept DEF WorkerStops, EngineOK, WorkerOK
<1>9. CASE WorkerStages
  <2>1. Quiet
    <3> DEFINE t == worker.task
               new == [rows[t] EXCEPT !.checkpoint = TRUE]
    <3>1. t \in Tasks
      BY <1>9 DEF WorkerStages, WorkerOK
    <3>2. new \in Record /\ new.epoch = rows[t].epoch /\ new.status = rows[t].status
      BY <3>1, MarkedType
    <3>3. Persist(new) \/ PersistFails(new)
      BY <1>9 DEF WorkerStages
    <3> QED
      BY <3>1, <3>2, <3>3, WorkerPersists
  <2>2. WorkerOK' /\ OutputOK'
    BY <1>9 DEF WorkerStages, WorkerOK, OutputOK
  <2> QED
    BY <1>9, <2>1, <2>2, WorkerKept DEF WorkerStages, EngineOK, WorkerOK, Token
<1>10. CASE WorkerPublishes
  <2>1. Quiet
    BY <1>10, UnchangedQuiet DEF WorkerPublishes
  <2>2. WorkerOK' /\ OutputOK'
    BY <1>10 DEF WorkerPublishes, WorkerOK, OutputOK
  <2> QED
    BY <1>10, <2>1, <2>2, WorkerKept DEF WorkerPublishes, EngineOK, WorkerOK
<1>11. CASE WorkerPersistsResult
  <2>1. Quiet
    <3> DEFINE t == worker.task
               new == [rows[t] EXCEPT !.result = TRUE]
    <3>1. t \in Tasks
      BY <1>11 DEF WorkerPersistsResult, WorkerOK
    <3>2. new \in Record /\ new.epoch = rows[t].epoch /\ new.status = rows[t].status
      BY <3>1, MarkedType
    <3>3. Persist(new) \/ PersistFails(new)
      BY <1>11 DEF WorkerPersistsResult
    <3> QED
      BY <3>1, <3>2, <3>3, WorkerPersists
  <2>2. WorkerOK' /\ OutputOK'
    BY <1>11 DEF WorkerPersistsResult, WorkerOK, OutputOK, Failures
  <2> QED
    BY <1>11, <2>1, <2>2, WorkerKept DEF WorkerPersistsResult, EngineOK, WorkerOK, Token
<1>12. CASE WorkerFails
  <2>1. Quiet
    BY <1>12, UnchangedQuiet DEF WorkerFails
  <2>2. WorkerOK' /\ OutputOK'
    BY <1>12 DEF WorkerFails, WorkerOK, OutputOK
  <2> QED
    BY <1>12, <2>1, <2>2, WorkerKept DEF WorkerFails, EngineOK, WorkerOK
<1>13. CASE WorkerReleases
  <2>1. Quiet
    BY <1>13, UnchangedQuiet DEF WorkerReleases
  <2>2. WorkerOK' /\ OutputOK'
    BY <1>13 DEF WorkerReleases, WorkerOK, OutputOK
  <2> QED
    BY <1>13, <2>1, <2>2, WorkerKept DEF WorkerReleases, EngineOK, WorkerOK
<1>14. CASE WorkerSettles
  <2>1. Quiet
    BY <1>14, SettleQuiet
  <2>2. CallsOK' /\ CallsKept
    BY <1>14 DEF WorkerSettles, DropToken, ControlOK, CallsOK, CallsKept, Committing
  <2>3. LockInv'
    BY <1>14 DEF WorkerSettles, DropToken, ControlOK, CallsOK, LockInv, NoWork
  <2>4. WorkerOK' /\ OutputOK' /\ EngineOK'
    BY <1>14 DEF WorkerSettles, DropToken, WorkerOK, OutputOK, EngineOK, NoWork, NewToken, Token
  <2> QED
    BY <1>14, <2>1, <2>2, <2>3, <2>4 DEF Kept, ControlOK, WorkerSettles
<1> QED
  BY <1>1, <1>2, <1>3, <1>4, <1>5, <1>6, <1>7, <1>8, <1>9, <1>10, <1>11,
     <1>12, <1>13, <1>14
  DEF WorkerStep

LEMMA WakeUpKeeps == ASSUME IInv, SpuriousWakeUp PROVE Kept
<1>1. Quiet
  BY UnchangedQuiet DEF SpuriousWakeUp, IInv
<1>2. token' \in Token /\ controls' \in SUBSET Tasks
  BY NotifiedToken DEF SpuriousWakeUp, IInv, ControlOK, EngineOK
<1>3. WorkerOK' /\ OutputOK'
  BY DEF SpuriousWakeUp, IInv, ControlOK, WorkerOK, OutputOK
<1> QED
  BY <1>1, <1>2, <1>3, WorkerKept DEF SpuriousWakeUp, IInv

LEMMA RestartKeeps == ASSUME IInv, Restart PROVE Kept
<1>1. Quiet
  BY RestartQuiet DEF IInv
<1>2. EngineOK' /\ WorkerOK' /\ OutputOK'
  BY DEF IInv, ControlOK, Restart, EngineOK, WorkerOK, OutputOK, NewToken, Token, NoWork,
     WorkSteps
<1>3. CallsOK' /\ CallsKept
  BY DEF Restart, CallsOK, CallsKept, Committing, NoCall, CallSteps, TaskSteps
<1>4. LockInv'
  BY DEF Restart, LockInv, NoCall, NoWork, AdmissionSteps
<1> QED
  BY <1>1, <1>2, <1>3, <1>4 DEF Kept, ControlOK, Restart

-----------------------------------------------------------------------------
(* Admission.                                                              *)

LEMMA AdmissionBegins ==
  ASSUME IInv, NEW c \in Clients, NEW t \in Tasks, EnqueueBegin(c, t) \/ RequeueBegin(c, t)
  PROVE  IInv'
<1> RowsOK /\ EngineOK /\ WorkerOK /\ CallsOK /\ OutputOK /\ LockInv /\ NewcomerClear
  BY DEF IInv, ControlOK
<1>1. PICK pc \in {"enqueueCommit", "requeueCommit"} : Begin(c, pc, t, FALSE)
  BY DEF EnqueueBegin, RequeueBegin
<1>2. LockAdmission(c) /\ PreflightPasses(t)
      /\ UNCHANGED <<rows, epoch, clearing, controls, token, worker, output>>
  BY DEF EnqueueBegin, RequeueBegin
<1>3. CallsOK'
  BY <1>1, <1>2 DEF CallsOK, EngineOK, Begin, NoCall, CallSteps, TaskSteps
<1>4. EngineOK' /\ WorkerOK' /\ OutputOK' /\ RowsOK'
  BY <1>2 DEF EngineOK, WorkerOK, OutputOK, RowsOK, LockAdmission
<1>5. LockInv'
  <2>1. NoOne \notin Clients /\ NoOne # Worker
    BY ConstantsAssumption
  <2> QED
    BY <1>1, <1>2, <2>1 DEF CallsOK, LockInv, LockAdmission, Begin, NoCall
<1>6. NewcomerClear'
  <2>1. ASSUME NEW d \in Clients, Committing(d)'
        PROVE  \A u \in Nonterminal' \ {call'[d].task} : <<call'[d].task, u>> \notin Conflicts
    <3>1. Nonterminal' = Nonterminal
      BY <1>2 DEF Nonterminal, Present
    <3>2. CASE d = c
      BY <1>1, <1>2, <3>1, <3>2 DEF CallsOK, Begin, NoCall, PreflightPasses
    <3>3. CASE d # c
      <4>1. call'[d] = call[d]
        BY <1>1, <3>3 DEF CallsOK, Begin
      <4> QED
        BY <2>1, <3>1, <4>1 DEF NewcomerClear, Committing
    <3> QED
      BY <3>2, <3>3
  <2> QED
    BY <2>1 DEF NewcomerClear
<1>7. (NoConflictingTasks /\ CapacityBound /\ EpochFence)'
  BY <1>2 DEF IInv, NoConflictingTasks, CapacityBound, EpochFence, Nonterminal, Present
<1>8. NewcomerUnborn'
  <2>1. ASSUME NEW d \in Clients, call'[d].pc = "enqueueCommit"
        PROVE  rows'[call'[d].task].status = "unborn"
    <3>1. CASE d # c
      BY <1>1, <1>2, <2>1, <3>1 DEF IInv, NewcomerUnborn, Begin, CallsOK
    <3>2. CASE d = c /\ EnqueueBegin(c, t)
      BY <1>1, <1>2, <3>2 DEF EnqueueBegin, Begin, CallsOK, NoCall
    <3>3. CASE d = c /\ RequeueBegin(c, t)
      BY <2>1, <3>3 DEF RequeueBegin, Begin, CallsOK, NoCall
    <3> QED
      BY <3>1, <3>2, <3>3
  <2> QED
    BY <2>1 DEF NewcomerUnborn
<1> QED
  BY <1>3, <1>4, <1>5, <1>6, <1>7, <1>8 DEF IInv, ControlOK

\* The commit of an admission: the preflight's answer still stands, and the
\* capacity is checked in the same transaction.
LEMMA AdmissionCommits ==
  ASSUME IInv, NEW c \in Clients, Committing(c), NEW new \in Record, new.epoch = epoch,
         Commit(call[c].task, new), call[c].task \in Nonterminal \/ RoomForNonterminal,
         rows[call[c].task].status \notin {"Completed", "deleted"},
         Return(c), UNCHANGED <<epoch, clearing, controls, token, worker, output>>
  PROVE  IInv' /\ KeepsHistory
<1> RowsOK /\ ControlOK /\ EngineOK /\ WorkerOK /\ CallsOK /\ OutputOK /\ LockInv
  BY DEF IInv, ControlOK
<1> DEFINE t == call[c].task
           table == [rows EXCEPT ![t] = new]
<1>1. t \in Tasks /\ admission = c
  BY DEF CallsOK, LockInv, Committing, TaskSteps, CallSteps, AdmissionSteps
<1>2. table \in [Tasks -> Record]
  BY <1>1 DEF RowsOK
<1>3. RowsOK' /\ \A u \in Tasks : rows'[u] = table[u] \/ PrunedAway(table, rows', u)
  BY <1>2, PrunedType DEF Commit, RowsOK
<1>4. Nonterminal' \subseteq Nonterminal \cup {t}
  BY <1>1, <1>3 DEF RowsOK, Nonterminal, Present, NoRow, Absent, PrunedAway
<1>5. Moving
  BY ReturnMoves
<1>6. ControlOK'
  BY <1>5 DEF Moving, ControlOK, EngineOK, WorkerOK, OutputOK
<1>7. NewcomerClear' /\ NewcomerUnborn'
  <2>1. ASSUME NEW d \in Clients PROVE ~Committing(d)'
    <3>1. CASE d = c
      BY <3>1 DEF Return, NoCall, Committing, CallsOK
    <3>2. CASE d # c
      BY <1>1, <3>2 DEF Return, CallsOK, Committing, LockInv, AdmissionSteps
    <3> QED
      BY <3>1, <3>2
  <2> QED
    BY <2>1 DEF NewcomerClear, NewcomerUnborn, Committing
<1>8. NoConflictingTasks'
  <2>1. \A u \in Nonterminal \ {t} : <<t, u>> \notin Conflicts
    BY DEF IInv, NewcomerClear
  <2>2. \A u \in Nonterminal \ {t} : <<u, t>> \notin Conflicts
    <3>1. ASSUME NEW u, <<u, t>> \in Conflicts PROVE <<t, u>> \in Conflicts
      BY <3>1, ConstantsAssumption
    <3> QED
      BY <2>1, <3>1
  <2> QED
    BY <1>4, <2>1, <2>2 DEF IInv, NoConflictingTasks
<1>9. CapacityBound'
  <2>1. IsFiniteSet(Nonterminal) /\ MaxNonterminal \in Nat
    BY ConstantsAssumption, FS_Subset DEF Nonterminal, Present
  <2>2. Cardinality(Nonterminal) \in Nat
    BY <2>1, FS_CardinalityType
  <2>3. IsFiniteSet(Nonterminal \cup {t})
    BY <2>1, FS_AddElement
  <2>4. Cardinality(Nonterminal \cup {t}) <= MaxNonterminal
    <3>1. CASE t \in Nonterminal
      <4>1. Nonterminal \cup {t} = Nonterminal
        BY <3>1
      <4> QED
        BY <4>1 DEF IInv, CapacityBound
    <3>2. CASE t \notin Nonterminal
      <4>1. Cardinality(Nonterminal \cup {t}) = Cardinality(Nonterminal) + 1
        BY <2>1, <3>2, FS_AddElement
      <4>2. Cardinality(Nonterminal) < MaxNonterminal
        BY <3>2 DEF RoomForNonterminal
      <4> QED
        BY <2>1, <2>2, <4>1, <4>2
    <3> QED
      BY <3>1, <3>2
  <2>5. Cardinality(Nonterminal') <= Cardinality(Nonterminal \cup {t})
    BY <1>4, <2>3, FS_Subset
  <2>6. Cardinality(Nonterminal') \in Nat /\ Cardinality(Nonterminal \cup {t}) \in Nat
    BY <1>4, <2>3, FS_Subset, FS_CardinalityType
  <2> QED
    BY <2>1, <2>4, <2>5, <2>6 DEF CapacityBound
<1>10. EpochFence'
  BY <1>1, <1>3 DEF IInv, EpochFence, RowsOK, Present, NoRow, Absent, PrunedAway
<1>11. KeepsHistory
  BY <1>1, <1>3 DEF KeepsHistory, RowsOK, NoRow, PrunedAway, Terminal
<1> QED
  BY <1>3, <1>5, <1>6, <1>7, <1>8, <1>9, <1>10, <1>11 DEF IInv, Moving

LEMMA AdmissionKeeps ==
  ASSUME IInv, NEW c \in Clients, EnqueueCommit(c) \/ RequeueCommit(c)
  PROVE  IInv' /\ KeepsHistory
<1> RowsOK /\ ControlOK /\ EngineOK /\ CallsOK /\ OutputOK /\ LockInv
  BY DEF IInv, ControlOK
<1> DEFINE t == call[c].task
<1>1. Committing(c) /\ Return(c)
      /\ UNCHANGED <<epoch, clearing, controls, token, worker, output>>
  BY DEF EnqueueCommit, RequeueCommit, At, Committing
<1>2. t \in Tasks
  BY <1>1 DEF CallsOK, Committing, TaskSteps, CallSteps
<1>3. CASE UNCHANGED rows
  <2>1. Moving
    BY <1>1, ReturnMoves
  <2>2. Quiet
    BY <1>3, UnchangedQuiet
  <2>3. Kept
    BY <1>1, <2>1, <2>2, MovingKept DEF EngineOK, OutputOK
  <2> QED
    BY <2>2, <2>3, KeptKeeps, QuietKeepsHistory
<1>4. CASE EnqueueCommit(c) /\ ~UNCHANGED rows
  <2> DEFINE new == [NoRow("Queued") EXCEPT !.epoch = epoch]
  <2>1. RoomForNonterminal /\ Commit(t, new)
    BY <1>4 DEF EnqueueCommit
  <2>2. new \in Record /\ new.epoch = epoch
    BY DEF NoRow, Record, Statuses, EngineOK
  <2>3. rows[t].status = "unborn"
    BY <1>4 DEF EnqueueCommit, At, IInv, NewcomerUnborn
  <2> QED
    BY <1>1, <2>1, <2>2, <2>3, AdmissionCommits
<1>5. CASE RequeueCommit(c) /\ ~UNCHANGED rows
  <2> DEFINE new == [Moved(t, "Queued") EXCEPT !.failure = "none"]
  <2>1. Accepts(t, call[c].epoch, new) /\ Commit(t, new)
    BY <1>5 DEF RequeueCommit
  <2>2. Moved(t, "Queued") \in Record /\ Moved(t, "Queued").status = "Queued"
        /\ Moved(t, "Queued").epoch = rows[t].epoch
    BY <1>2, MovedType DEF Statuses
  <2>3. new \in Record /\ new.epoch = rows[t].epoch /\ new.status = "Queued"
    BY <2>2 DEF Record
  <2>4. t \in Present /\ rows[t].epoch = epoch
    BY <2>1 DEF Accepts, RoomToReturn
  <2>5. t \in Nonterminal \/ RoomForNonterminal
    BY <2>1, <2>3, <2>4 DEF Accepts, RoomToReturn, Nonterminal, Terminal
  <2>6. CanTransition(rows[t].status, "Queued")
    BY <1>5 DEF RequeueCommit
  <2>7. rows[t].status \notin {"Completed", "deleted"}
    BY <2>6 DEF CanTransition, Moves, Active, Waiting
  <2> QED
    BY <1>1, <2>1, <2>3, <2>4, <2>5, <2>7, AdmissionCommits
<1> QED
  BY <1>3, <1>4, <1>5

-----------------------------------------------------------------------------
(* The theorems.                                                           *)

LEMMA InitHolds == Init => IInv
<1> SUFFICES ASSUME Init PROVE IInv
  OBVIOUS
<1>1. RowsOK
  BY NoRowType DEF Init, RowsOK, Statuses, Absent
<1>2. EngineOK /\ WorkerOK /\ CallsOK /\ OutputOK
  BY DEF Init, EngineOK, WorkerOK, CallsOK, OutputOK, NewToken, Token, NoWork, NoCall, WorkSteps,
         CallSteps, TaskSteps
<1>3. LockInv /\ NewcomerClear /\ NewcomerUnborn
  BY DEF Init, LockInv, NewcomerClear, NewcomerUnborn, Committing, NoCall, NoWork, AdmissionSteps
<1>4. Present = {} /\ Nonterminal = {}
  BY DEF Init, Present, Nonterminal, NoRow, Absent
<1>5. CapacityBound
  BY <1>4, FS_EmptySet, ConstantsAssumption DEF CapacityBound
<1> QED
  BY <1>1, <1>2, <1>3, <1>4, <1>5 DEF IInv, ControlOK, NoConflictingTasks, EpochFence

LEMMA StepKeeps == IInv /\ [Next]_vars => IInv' /\ [KeepsHistory]_vars
<1> SUFFICES ASSUME IInv, [Next]_vars PROVE IInv' /\ [KeepsHistory]_vars
  OBVIOUS
<1>1. ASSUME Kept PROVE IInv' /\ KeepsHistory
  BY <1>1, KeptKeeps, QuietKeepsHistory DEF Kept
<1>2. ASSUME NEW c \in Clients, NEW t \in Tasks, EnqueueBegin(c, t) \/ RequeueBegin(c, t)
      PROVE  IInv' /\ KeepsHistory
  <2>1. Quiet
    BY <1>2, UnchangedQuiet DEF EnqueueBegin, RequeueBegin, IInv
  <2> QED
    BY <1>2, <2>1, AdmissionBegins, QuietKeepsHistory
<1>3. ASSUME NEW c \in Clients, BeginCall(c) \/ ContinueCall(c) PROVE IInv' /\ KeepsHistory
  BY <1>1, <1>2, <1>3, CallsKeep, AdmissionKeeps DEF BeginCall, ContinueCall
<1>4. CASE WorkerStep \/ SpuriousWakeUp
  BY <1>1, <1>4, WorkerKeeps, WakeUpKeeps
<1>5. CASE Restart
  BY <1>1, <1>5, RestartKeeps
<1>6. CASE UNCHANGED vars
  BY <1>6 DEF vars, IInv, RowsOK, ControlOK, EngineOK, WorkerOK, CallsOK, OutputOK, LockInv,
              NewcomerClear, NewcomerUnborn, Committing, NoConflictingTasks, CapacityBound,
              EpochFence, Nonterminal, Present
<1> QED
  BY <1>3, <1>4, <1>5, <1>6 DEF Next

LEMMA Inductive == Spec => []IInv
BY InitHolds, StepKeeps, PTL DEF Spec

\* Every variable keeps its type, for any number of tasks and clients.
THEOREM TypeCorrect == Spec => []TypeOK
<1>1. IInv => TypeOK
  BY TypeSplit DEF IInv
<1> QED
  BY <1>1, Inductive, PTL

\* However many clients enqueue, resume, retry and remove tasks while the
\* worker runs, crashes and restarts, the store never holds more nonterminal
\* tasks than its capacity (insert and mutate in store.rs).
THEOREM CapacityIsKept == Spec => []CapacityBound
<1>1. IInv => CapacityBound
  BY DEF IInv
<1> QED
  BY <1>1, Inductive, PTL

\* Two tasks that detect_conflicts refuses together are never both admitted:
\* the admission mutex makes a preflight's answer last until its commit.
THEOREM ConflictsAreExcluded == Spec => []NoConflictingTasks
<1>1. IInv => NoConflictingTasks
  BY DEF IInv
<1> QED
  BY <1>1, Inductive, PTL

\* No row of an earlier epoch survives Clear All or is written after it.
THEOREM EpochsAreFenced == Spec => []EpochFence
<1>1. IInv => EpochFence
  BY DEF IInv
<1> QED
  BY <1>1, Inductive, PTL

\* Completed work is never run again or relabelled, and a deleted task never
\* comes back, in whatever order updates, removals, pruning, Clear All and
\* late insertions fall (mutate and insert).
THEOREM FinishedIsFinal == Spec => HistoryIsFinal
BY Inductive, StepKeeps, PTL DEF Spec, HistoryIsFinal

-----------------------------------------------------------------------------
(* The outcome of a run.                                                   *)

LEMMA CallsLeaveWorker ==
  ASSUME NEW c \in Clients, BeginCall(c) \/ ContinueCall(c) PROVE UNCHANGED worker
<1>1. CASE BeginCall(c)
  BY <1>1 DEF BeginCall, EnqueueBegin, RequeueBegin, PauseBegin, ResumeBegin, CancelBegin,
     InterruptBegin, RemoveBegin, ClearCompleted, ClearFailedBegin, ClearAllBegin
<1>2. CASE ContinueCall(c)
  BY <1>2 DEF ContinueCall, EnqueueCommit, RequeueCommit, PauseMark, PauseSignal,
     PauseAcknowledged, PauseTimeout, PauseCommit, ResumeMark, ResumeSignal, ResumeCommit,
     CancelMark, CancelSignal, CancelDirect, InterruptMark, InterruptSignal, RemoveFiles,
     RemoveRow, ClearFailedDelete, ClearAllFiles, ClearAllFails, ClearAllRows, StoreFails
<1> QED
  BY <1>1, <1>2

\* A legal outcome that changes the status finds it active.
LEMMA OutcomeIsCurrent ==
  ASSUME RowsOK, NEW t \in Tasks, t = worker.task, MaySettle(t),
         Settled(t).status # rows[t].status
  PROVE  rows[t].status \in Active
<1>1. CASE worker.result = "cancelled"
  BY <1>1 DEF MaySettle, CanTransition, Moves, Active, Waiting
<1>2. CASE worker.result # "cancelled"
  <2>1. <<rows[t].status, Settled(t).status>> \in Moves
    BY <1>2 DEF MaySettle, CanTransition
  <2>2. Settled(t).status \in {"Completed", "PermissionRequired", "Failed"}
    <3>1. CASE worker.result = "ok"
      BY <3>1 DEF Settled, Moved, RowsOK, Record
    <3>2. CASE worker.result = "permission"
      BY <3>2 DEF Settled, Moved, RowsOK, Record
    <3>3. CASE worker.result \notin {"ok", "permission"}
      BY <1>2, <3>3 DEF Settled, Moved, RowsOK, Record
    <3> QED
      BY <3>1, <3>2, <3>3
  <2> QED
    BY <2>1, <2>2 DEF Moves, Active, Waiting
<1> QED
  BY <1>1, <1>2

LEMMA OutcomesKeep == IInv /\ [Next]_vars => [SettlesActiveOnly]_vars
<1> SUFFICES ASSUME IInv, Next, NEW t \in Tasks,
                    Works("settle"), worker' = NoWork, worker.task = t,
                    rows'[t].status # rows[t].status, rows'[t].status # "deleted"
             PROVE  rows[t].status \in Active
  BY DEF SettlesActiveOnly
<1> RowsOK
  BY DEF IInv
<1>1. worker' # worker
  BY DEF Works, NoWork
<1>2. CASE WorkerSettles
  <2>1. MaySettle(t) /\ Commit(t, Settled(t))
    BY <1>2 DEF WorkerSettles
  <2>2. Settled(t) \in Record
    BY <1>2, SettledType DEF IInv
  <2>3. [rows EXCEPT ![t] = Settled(t)] \in [Tasks -> Record]
    BY <2>2 DEF RowsOK
  <2>4. rows'[t] = Settled(t) \/ rows'[t] = NoRow("deleted")
    BY <2>1, <2>3, PrunedType DEF Commit, PrunedAway, RowsOK
  <2>5. Settled(t).status # rows[t].status
    BY <2>4 DEF NoRow
  <2> QED
    BY <2>1, <2>5, OutcomeIsCurrent
<1>3. CASE Restart
  <2>1. [u \in Tasks |-> Recovered(u)] \in [Tasks -> Record]
    BY MovedType DEF RowsOK, Recovered, Statuses, Waiting
  <2>2. rows'[t] = Recovered(t) \/ rows'[t] = NoRow("deleted")
    BY <1>3, <2>1, PrunedType DEF Restart, PrunedAway
  <2> QED
    BY <2>2 DEF Recovered, NoRow
<1>4. CASE WorkerStep /\ ~WorkerSettles
  BY <1>4 DEF WorkerStep, Works, WorkerPick, WorkerClaim, WorkerSkips, WorkerStarts,
     WorkerPreflight, WorkerContinues, WorkerPauses, WorkerWaits, WorkerStops, WorkerStages,
     WorkerPublishes, WorkerPersistsResult, WorkerFails, WorkerReleases, Tests, Checking, NextStep
<1>5. CASE SpuriousWakeUp
  BY <1>1, <1>5 DEF SpuriousWakeUp
<1> QED
  BY <1>1, <1>2, <1>3, <1>4, <1>5, CallsLeaveWorker DEF Next

\* A run that ends after its row was interrupted, queued again, cancelled or
\* deleted does not overwrite what it finds (worker_loop's last update).
THEOREM LateOutcomesAreIgnored == Spec => LateResultsIgnored
BY Inductive, OutcomesKeep, PTL DEF Spec, LateResultsIgnored

-----------------------------------------------------------------------------
(* What a call does to the table and to the files.                         *)

\* The status each step of a call writes into the row of its task.
Writes ==
  [requeueCommit |-> "Queued", pauseMark |-> "Pausing", pauseCommit |-> "Paused",
   resumeMark |-> "Resuming", resumeCommit |-> "Running", cancelMark |-> "Cancelling",
   cancelDirect |-> "Cancelled", interruptMark |-> "Interrupted"]

\* A call leaves a row alone, deletes it, inserts it, or moves it to what its
\* step writes; it gives no row a result.
RowStep(c, t) ==
  \/ rows'[t] = rows[t]
  \/ rows'[t] = NoRow("deleted") /\ (rows[t].status \in Terminal \/ At(c, "clearRows"))
  \/ /\ t = call[c].task /\ At(c, "enqueueCommit") /\ rows[t].status = "unborn"
     /\ rows'[t].status = "Queued" /\ ~rows'[t].result
  \/ /\ t = call[c].task /\ call[c].pc \in DOMAIN Writes
     /\ CanTransition(rows[t].status, Writes[call[c].pc])
     /\ \/ rows'[t].status = Writes[call[c].pc] /\ rows'[t].result = rows[t].result
        \/ At(c, "cancelDirect") /\ rows'[t] = NoRow("deleted")

\* What a transaction on one row does to the whole table.
LEMMA CommitRows ==
  ASSUME RowsOK, NEW t \in Tasks, NEW new \in Record, Commit(t, new)
  PROVE  /\ RowsOK'
         /\ rows'[t] = new \/ (rows'[t] = NoRow("deleted") /\ new.status \in Terminal)
         /\ \A u \in Tasks \ {t} :
              \/ rows'[u] = rows[u]
              \/ rows'[u] = NoRow("deleted") /\ rows[u].status \in Terminal
<1> DEFINE table == [rows EXCEPT ![t] = new]
<1>1. table \in [Tasks -> Record] /\ table[t] = new /\ \A u \in Tasks \ {t} : table[u] = rows[u]
  BY DEF RowsOK
<1>2. rows' \in Pruned(table)
  BY DEF Commit
<1> HIDE DEF table
<1> QED
  BY <1>1, <1>2, PrunedType DEF RowsOK, PrunedAway

LEMMA UpdateRows ==
  ASSUME RowsOK, NEW c \in Clients, call[c].task \in Tasks, call[c].pc \in DOMAIN Writes,
         NEW pc, UpdateThen(c, Writes[call[c].pc], pc),
         NEW t \in Tasks
  PROVE  RowStep(c, t)
<1> DEFINE u == call[c].task
           s == Writes[call[c].pc]
<1>1. CASE UNCHANGED rows
  BY <1>1 DEF RowStep
<1>2. CASE ~UNCHANGED rows
  <2>1. CanMove(u, call[c].epoch, s) /\ Commit(u, Moved(u, s))
    BY <1>2 DEF UpdateThen
  <2>2. s \in Statuses /\ (s \in Terminal => At(c, "cancelDirect"))
    BY DEF Writes, Statuses, Active, Terminal, Waiting, At
  <2>3. Moved(u, s) \in Record /\ Moved(u, s).status = s /\ Moved(u, s).result = rows[u].result
    BY <2>2, MovedType DEF Moved, RowsOK, Record
  <2>4. CanTransition(rows[u].status, s)
    BY <2>1 DEF CanMove
  <2>5. CASE t = u
    BY <2>1, <2>2, <2>3, <2>4, <2>5, CommitRows DEF RowStep
  <2>6. CASE t # u
    BY <2>1, <2>3, <2>6, CommitRows DEF RowStep
  <2> QED
    BY <2>5, <2>6
<1> QED
  BY <1>1, <1>2

LEMMA CallRows ==
  ASSUME IInv, NEW c \in Clients, BeginCall(c) \/ ContinueCall(c), NEW t \in Tasks
  PROVE  RowStep(c, t)
<1> RowsOK /\ CallsOK
  BY DEF IInv, ControlOK
<1>1. call[c].pc \in TaskSteps => call[c].task \in Tasks
  BY DEF CallsOK
<1>2. CASE UNCHANGED rows
  BY <1>2 DEF RowStep
<1>3. CASE ClearCompleted(c) \/ ClearFailedDelete(c)
  <2>1. PICK s \in {"Completed", "Failed"} : rows' = Delete(rows, WithStatus(s))
    BY <1>3 DEF ClearCompleted, ClearFailedDelete
  <2> QED
    BY <2>1, DeleteType DEF RowStep, RowsOK, WithStatus, Terminal
<1>4. CASE RemoveRow(c)
  BY <1>4, DeleteType DEF RowStep, RowsOK, RemoveRow
<1>5. CASE ClearAllRows(c)
  BY <1>5, DeleteType DEF RowStep, RowsOK, ClearAllRows, Everything
<1>6. CASE EnqueueCommit(c) /\ ~UNCHANGED rows
  <2> DEFINE u == call[c].task
             new == [NoRow("Queued") EXCEPT !.epoch = epoch]
  <2>1. Commit(u, new) /\ At(c, "enqueueCommit") /\ u \in Tasks
    BY <1>1, <1>6 DEF EnqueueCommit, At, TaskSteps, CallSteps
  <2>2. rows[u].status = "unborn"
    BY <2>1 DEF IInv, NewcomerUnborn, At
  <2>3. new \in Record /\ new.status = "Queued" /\ new.result = FALSE
    BY DEF NoRow, Record, Statuses, IInv, ControlOK, EngineOK
  <2>4. "Queued" \notin Terminal
    BY DEF Terminal
  <2> HIDE DEF new
  <2>5. CASE t = u
    BY <2>1, <2>2, <2>3, <2>4, <2>5, CommitRows DEF RowStep
  <2>6. CASE t # u
    BY <2>1, <2>3, <2>6, CommitRows DEF RowStep
  <2> QED
    BY <2>5, <2>6
<1>7. CASE RequeueCommit(c) /\ ~UNCHANGED rows
  <2> DEFINE u == call[c].task
             new == [Moved(u, "Queued") EXCEPT !.failure = "none"]
  <2>1. /\ Commit(u, new) /\ At(c, "requeueCommit") /\ u \in Tasks
        /\ CanTransition(rows[u].status, "Queued")
    BY <1>1, <1>7 DEF RequeueCommit, At, TaskSteps, CallSteps
  <2>2. new \in Record /\ new.status = "Queued" /\ new.result = rows[u].result
    <3>1. Moved(u, "Queued") \in Record /\ Moved(u, "Queued").status = "Queued"
          /\ Moved(u, "Queued").result = rows[u].result
      BY <2>1, MovedType DEF Moved, RowsOK, Record, Statuses
    <3> QED
      BY <3>1 DEF Record
  <2>3. "Queued" \notin Terminal /\ "requeueCommit" \in DOMAIN Writes
        /\ Writes["requeueCommit"] = "Queued"
    BY DEF Terminal, Writes
  <2> HIDE DEF new
  <2>4. CASE t = u
    BY <2>1, <2>2, <2>3, <2>4, CommitRows DEF RowStep, At
  <2>5. CASE t # u
    BY <2>1, <2>2, <2>5, CommitRows DEF RowStep
  <2> QED
    BY <2>4, <2>5
<1>8. ASSUME call[c].pc \in DOMAIN Writes \ {"requeueCommit"},
             NEW pc, UpdateThen(c, Writes[call[c].pc], pc)
      PROVE  RowStep(c, t)
  BY <1>1, <1>8, UpdateRows DEF Writes, TaskSteps, CallSteps
<1>9. CASE BeginCall(c) /\ ~ClearCompleted(c)
  BY <1>2, <1>9 DEF BeginCall, EnqueueBegin, RequeueBegin, PauseBegin, ResumeBegin, CancelBegin,
     InterruptBegin, RemoveBegin, ClearFailedBegin, ClearAllBegin
<1>10. CASE PauseMark(c) \/ PauseCommit(c) \/ ResumeMark(c) \/ ResumeCommit(c)
            \/ CancelMark(c) \/ CancelDirect(c)
  BY <1>8, <1>10 DEF PauseMark, PauseCommit, ResumeMark, ResumeCommit, CancelMark, CancelDirect,
     At, Writes
<1>11. CASE InterruptMark(c)
  BY <1>2, <1>8, <1>11 DEF InterruptMark, At, Writes
<1>12. CASE PauseSignal(c) \/ PauseAcknowledged(c) \/ PauseTimeout(c) \/ ResumeSignal(c)
            \/ CancelSignal(c) \/ InterruptSignal(c) \/ RemoveFiles(c) \/ ClearAllFiles(c)
            \/ ClearAllFails(c) \/ StoreFails(c)
  BY <1>2, <1>12 DEF PauseSignal, PauseAcknowledged, PauseTimeout, ResumeSignal, CancelSignal,
     InterruptSignal, RemoveFiles, ClearAllFiles, ClearAllFails, StoreFails
<1> QED
  BY <1>2, <1>3, <1>4, <1>5, <1>6, <1>7, <1>9, <1>10, <1>11, <1>12 DEF ContinueCall

\* A call deletes partial files and nothing else.
LEMMA CallOutput ==
  ASSUME IInv, NEW c \in Clients, BeginCall(c) \/ ContinueCall(c), NEW t \in Tasks
  PROVE  output'[t] = output[t] \/ output[t] = "partial"
<1>1. ASSUME NEW S, output' = Unlinked(S)
      PROVE  output'[t] = output[t] \/ output[t] = "partial"
  BY <1>1 DEF Unlinked
<1>2. CASE BeginCall(c)
  BY <1>1, <1>2 DEF BeginCall, EnqueueBegin, RequeueBegin, PauseBegin, ResumeBegin, CancelBegin,
     InterruptBegin, RemoveBegin, ClearCompleted, ClearFailedBegin, ClearAllBegin
<1>3. CASE ContinueCall(c)
  BY <1>1, <1>3 DEF ContinueCall, EnqueueCommit, RequeueCommit, PauseMark, PauseSignal,
     PauseAcknowledged, PauseTimeout, PauseCommit, ResumeMark, ResumeSignal, ResumeCommit,
     CancelMark, CancelSignal, CancelDirect, InterruptMark, InterruptSignal, RemoveFiles,
     RemoveRow, ClearFailedDelete, ClearAllFiles, ClearAllFails, ClearAllRows, StoreFails
<1> QED
  BY <1>2, <1>3

-----------------------------------------------------------------------------
(* What is reported Completed has been published.                          *)

\* A split or a merge has a result only after its output was renamed to the
\* final name, and nothing takes a final output away.
PublishedInv ==
  /\ \A t \in Tasks : rows[t].status = "Completed" => rows[t].result
  /\ \A t \in Splits \cup Merges : rows[t].result => output[t] = "final"
  /\ worker.pc \in {"checkVerify", "persist"} /\ worker.task \in Splits \cup Merges
       => output[worker.task] = "final"

\* A step that gives no result: results and completions are old ones, and
\* final outputs stay.
AddsNoResult ==
  \A t \in Tasks :
    /\ rows'[t].result => rows[t].result
    /\ rows'[t].status = "Completed" => rows'[t].result
    /\ output[t] = "final" => output'[t] = "final"

LEMMA NoResultKeeps ==
  ASSUME PublishedInv, AddsNoResult,
         worker'.pc \in {"checkVerify", "persist"} /\ worker'.task \in Splits \cup Merges
           => output'[worker'.task] = "final"
  PROVE  PublishedInv'
BY ConstantsAssumption DEF PublishedInv, AddsNoResult

LEMMA CallsPublishNothing ==
  ASSUME IInv, PublishedInv, NEW c \in Clients, BeginCall(c) \/ ContinueCall(c)
  PROVE  AddsNoResult /\ UNCHANGED worker
<1>1. ASSUME NEW t \in Tasks
      PROVE  /\ rows'[t].result => rows[t].result
             /\ rows'[t].status = "Completed" => rows'[t].result
  <2>1. RowStep(c, t)
    BY CallRows
  <2> QED
    BY <2>1 DEF RowStep, NoRow, PublishedInv, Writes
<1>2. UNCHANGED worker
  BY CallsLeaveWorker
<1> QED
  BY <1>1, <1>2, CallOutput DEF AddsNoResult

\* A transaction of the worker that gives its task no result.
LEMMA WorkerCommits ==
  ASSUME RowsOK, PublishedInv, NEW t \in Tasks, NEW new \in Record, Commit(t, new),
         new.result = rows[t].result, new.status = "Completed" => new.result,
         UNCHANGED output
  PROVE  AddsNoResult
BY CommitRows DEF AddsNoResult, PublishedInv, NoRow

LEMMA WorkerPublished ==
  ASSUME IInv, PublishedInv, WorkerStep PROVE PublishedInv'
<1> DEFINE t == worker.task
<1> RowsOK /\ WorkerOK /\ OutputOK
  BY DEF IInv, ControlOK
<1>1. worker.pc # "idle" => t \in Tasks
  BY DEF WorkerOK
<1>2. ASSUME UNCHANGED <<rows, output>> PROVE AddsNoResult
  BY <1>2 DEF AddsNoResult, PublishedInv
<1>3. ASSUME worker'.pc \notin {"checkVerify", "persist"}, AddsNoResult PROVE PublishedInv'
  BY <1>3, NoResultKeeps
<1>4. CASE \/ WorkerPick \/ WorkerClaim \/ WorkerSkips \/ WorkerStops \/ WorkerFails
           \/ WorkerReleases
  <2>1. worker'.pc \notin {"checkVerify", "persist"}
    <3>1. CASE WorkerPick
      <4>1. PICK u \in Tasks : worker' = [NoWork EXCEPT !.pc = "picked", !.task = u]
        BY <3>1 DEF WorkerPick, WithStatus
      <4> QED
        BY <4>1 DEF NoWork
    <3>2. CASE WorkerClaim
      BY <3>2 DEF WorkerClaim, WorkerOK
    <3>3. CASE WorkerSkips
      BY <3>3 DEF WorkerSkips, NoWork
    <3>4. CASE WorkerStops \/ WorkerFails
      <4>1. PICK result : Finish(result)
        BY <3>4 DEF WorkerStops, WorkerFails
      <4> QED
        BY <4>1 DEF Finish, WorkerOK
    <3>5. CASE WorkerReleases
      BY <3>5 DEF WorkerReleases, WorkAt, WorkerOK
    <3> QED
      BY <1>4, <3>1, <3>2, <3>3, <3>4, <3>5
  <2>2. UNCHANGED <<rows, output>>
    BY <1>4 DEF WorkerPick, WorkerClaim, WorkerSkips, WorkerStops, WorkerFails, WorkerReleases
  <2> QED
    BY <1>2, <1>3, <2>1, <2>2
<1>5. CASE WorkerPauses \/ WorkerWaits
  BY <1>2, <1>5, NoResultKeeps DEF WorkerPauses, WorkerWaits, PublishedInv
<1>6. CASE WorkerStarts
  <2> DEFINE new == [Moved(t, "Running") EXCEPT !.attempts = @ + 1]
  <2>1. worker'.pc \in {"preflight", "release"} /\ UNCHANGED output
    BY <1>6 DEF WorkerStarts, WorkAt, Finish, WorkerOK
  <2>2. CASE UNCHANGED rows
    BY <1>2, <1>3, <2>1, <2>2
  <2>3. CASE Commit(t, new)
    <3>1. new \in Record /\ new.status = "Running" /\ new.result = rows[t].result
      BY <1>1, <1>6, StartedType DEF WorkerStarts, Works
    <3> HIDE DEF new
    <3>2. AddsNoResult
      BY <1>1, <1>6, <2>1, <2>3, <3>1, WorkerCommits DEF WorkerStarts, Works
    <3> QED
      BY <1>3, <2>1, <3>2
  <2> QED
    BY <1>6, <2>2, <2>3 DEF WorkerStarts
<1>7. CASE WorkerPreflight
  <2>1. AddsNoResult /\ t \in Tasks
    BY <1>1, <1>7, WorkerCommits DEF WorkerPreflight, Works, RowsOK, PublishedInv
  <2>2. worker'.task = t /\ worker'.pc = FirstCheck(t)
    BY <1>7 DEF WorkerPreflight, WorkAt, WorkerOK
  <2> QED
    BY <2>1, <2>2, NoResultKeeps DEF FirstCheck
<1>8. CASE WorkerContinues
  <2>1. worker'.task = t /\ worker'.pc \in {"stage", "publish", "persist"}
        /\ (worker'.pc = "persist" => worker.pc = "checkVerify")
    BY <1>8 DEF WorkerContinues, WorkAt, WorkerOK, Tests, Checking, NextStep
  <2>2. UNCHANGED <<rows, output>>
    BY <1>8 DEF WorkerContinues
  <2> QED
    BY <1>2, <2>1, <2>2, NoResultKeeps DEF PublishedInv
<1>9. CASE WorkerStages
  <2> DEFINE new == [rows[t] EXCEPT !.checkpoint = TRUE]
  <2>1. worker'.pc = "checkPublish" /\ t \in Tasks
    BY <1>1, <1>9 DEF WorkerStages, WorkAt, Works, WorkerOK
  <2>2. \A u \in Tasks : output[u] = "final" => output'[u] = "final"
    BY <1>9 DEF WorkerStages, OutputOK
  <2>3. new \in Record /\ new.status = rows[t].status /\ new.result = rows[t].result
    BY <2>1, MarkedType
  <2>4. Commit(t, new) \/ UNCHANGED rows
    BY <1>9 DEF WorkerStages, Persist, PersistFails
  <2> HIDE DEF new
  <2>5. AddsNoResult
    BY <2>1, <2>2, <2>3, <2>4, CommitRows DEF AddsNoResult, PublishedInv, NoRow
  <2> QED
    BY <1>3, <2>1, <2>5
<1>10. CASE WorkerPublishes
  <2>1. t \in Tasks /\ worker'.task = t /\ output'[t] = "final" /\ UNCHANGED rows
    BY <1>1, <1>10 DEF WorkerPublishes, Works, WorkAt, OutputOK, WorkerOK
  <2>2. \A u \in Tasks : output[u] = "final" => output'[u] = "final"
    BY <1>10 DEF WorkerPublishes, OutputOK
  <2>3. AddsNoResult
    BY <2>1, <2>2 DEF AddsNoResult, PublishedInv
  <2> QED
    BY <2>1, <2>3, NoResultKeeps
<1>11. CASE WorkerPersistsResult
  <2> DEFINE new == [rows[t] EXCEPT !.result = TRUE]
  <2>1. /\ worker.pc = "persist" /\ t \in Tasks /\ UNCHANGED output
        /\ worker'.pc = "release"
    BY <1>1, <1>11 DEF WorkerPersistsResult, Works, Finish, WorkerOK
  <2>2. CASE UNCHANGED rows
    BY <1>2, <1>3, <2>1, <2>2
  <2>3. CASE Commit(t, new)
    <3>1. new \in Record /\ new.status = rows[t].status /\ new.result
      <4>1. ASSUME NEW r \in Record
            PROVE  /\ [r EXCEPT !.result = TRUE] \in Record
                   /\ [r EXCEPT !.result = TRUE].status = r.status
                   /\ [r EXCEPT !.result = TRUE].result
        <5>1. "result" \in DOMAIN r
          BY DEF Record
        <5>2. [r EXCEPT !.result = TRUE].result
          BY <5>1, Zenon
        <5> QED
          BY <5>2 DEF Record
      <4>2. rows[t] \in Record
        BY <2>1 DEF RowsOK
      <4> QED
        BY <4>1, <4>2
    <3> HIDE DEF new
    <3>2. t \in Splits \cup Merges => output[t] = "final"
      BY <2>1 DEF PublishedInv
    <3>3. ASSUME NEW u \in Tasks
          PROVE  /\ rows'[u].status = "Completed" => rows'[u].result
                 /\ u \in Splits \cup Merges /\ rows'[u].result => output'[u] = "final"
      BY <2>1, <2>3, <3>1, <3>2, CommitRows DEF PublishedInv, NoRow
    <3> QED
      BY <2>1, <3>3, ConstantsAssumption DEF PublishedInv
  <2> QED
    BY <1>11, <2>2, <2>3 DEF WorkerPersistsResult, Persist, PersistFails
<1>12. CASE WorkerSettles
  <2>1. worker'.pc = "idle" /\ t \in Tasks /\ UNCHANGED output
    BY <1>1, <1>12 DEF WorkerSettles, Works, NoWork
  <2>2. CASE UNCHANGED rows
    BY <1>2, <1>3, <2>1, <2>2
  <2>3. CASE Accepts(t, rows[t].epoch, Settled(t)) /\ Commit(t, Settled(t))
    <3>1. Settled(t) \in Record
      BY <1>12, SettledType DEF IInv
    <3>2. Settled(t).status = "Completed" => Settled(t).result
      BY <2>3 DEF Accepts, RoomToReturn
    <3>3. Settled(t).result = rows[t].result
      BY <2>1 DEF Settled, Moved, RowsOK, Record
    <3>4. AddsNoResult
      BY <2>1, <2>3, <3>1, <3>2, <3>3, WorkerCommits
    <3> QED
      BY <1>3, <2>1, <3>4
  <2> QED
    BY <1>12, <2>2, <2>3 DEF WorkerSettles
<1> QED
  BY <1>4, <1>5, <1>6, <1>7, <1>8, <1>9, <1>10, <1>11, <1>12 DEF WorkerStep

\* What recover_after_restart leaves of the table: active rows are interrupted.
LEMMA RestartRows ==
  ASSUME RowsOK, Restart, NEW t \in Tasks
  PROVE  \/ rows'[t] = NoRow("deleted") /\ rows[t].status \in Terminal
         \/ rows'[t] = rows[t] /\ rows[t].status \notin Active
         \/ rows'[t].status = "Interrupted" /\ rows'[t].result = rows[t].result
<1> DEFINE table == [u \in Tasks |-> Recovered(u)]
<1>1. table \in [Tasks -> Record]
  BY MovedType DEF RowsOK, Recovered, Statuses, Waiting
<1>2. rows'[t] = table[t] \/ PrunedAway(table, rows', t)
  BY <1>1, PrunedType DEF Restart
<1>3. \/ table[t] = rows[t] /\ rows[t].status \notin Active
      \/ table[t].status = "Interrupted" /\ table[t].result = rows[t].result
  BY DEF Recovered, RowsOK, Record, Moved
<1> QED
  BY <1>2, <1>3 DEF PrunedAway, Terminal

LEMMA PublishedStays == IInv /\ PublishedInv /\ [Next]_vars => PublishedInv'
<1> SUFFICES ASSUME IInv, PublishedInv, [Next]_vars PROVE PublishedInv'
  OBVIOUS
<1>1. ASSUME NEW c \in Clients, BeginCall(c) \/ ContinueCall(c) PROVE PublishedInv'
  <2>1. AddsNoResult /\ UNCHANGED worker
    BY <1>1, CallsPublishNothing
  <2>2. worker.task \in Splits \cup Merges => worker.task \in Tasks
    BY ConstantsAssumption
  <2>3. worker'.pc \in {"checkVerify", "persist"} /\ worker'.task \in Splits \cup Merges
          => output'[worker'.task] = "final"
    BY <2>1, <2>2 DEF AddsNoResult, PublishedInv
  <2> QED
    BY <2>1, <2>3, NoResultKeeps
<1>2. CASE WorkerStep
  BY <1>2, WorkerPublished
<1>3. CASE Restart
  <2>1. AddsNoResult
    <3>1. ASSUME NEW t \in Tasks
          PROVE  /\ rows'[t].result => rows[t].result
                 /\ rows'[t].status = "Completed" => rows'[t].result
      <4>1. \/ rows'[t] = NoRow("deleted")
            \/ rows'[t] = rows[t]
            \/ rows'[t].status = "Interrupted" /\ rows'[t].result = rows[t].result
        BY <1>3, RestartRows DEF IInv
      <4> QED
        BY <4>1 DEF PublishedInv, NoRow
    <3> QED
      BY <1>3, <3>1 DEF AddsNoResult, Restart
  <2>2. worker'.pc = "idle"
    BY <1>3 DEF Restart, NoWork
  <2> QED
    BY <2>1, <2>2, NoResultKeeps
<1>4. CASE SpuriousWakeUp \/ UNCHANGED vars
  BY <1>4 DEF vars, SpuriousWakeUp, PublishedInv
<1> QED
  BY <1>1, <1>2, <1>3, <1>4 DEF Next

\* A task reported Completed has its result and, if it is a split or a merge,
\* its published output, for any number of clients and through crashes, failed
\* writes, requeues and Clear All (worker_loop, mutate).
THEOREM CompletionIsReal == Spec => []CompletedIsPublished
<1>1. Init => PublishedInv
  BY ConstantsAssumption DEF Init, PublishedInv, NoRow, NoWork
<1>2. PublishedInv => CompletedIsPublished
  BY DEF PublishedInv, CompletedIsPublished
<1> QED
  BY <1>1, <1>2, Inductive, PublishedStays, PTL DEF Spec

-----------------------------------------------------------------------------
(* A run owns its row.                                                     *)

\* The worker has a token in the controls map from its claim to its release.
Holding ==
  {"claimed", "preflight", "stage", "publish", "persist", "release"} \cup DOMAIN NextStep

ControlsInv == controls = IF worker.pc \in Holding THEN {worker.task} ELSE {}

\* Clear All deletes the table when no run is in progress.
ClearInv == \A c \in Clients : call[c].pc = "clearRows" => controls = {}

OwnInv == ControlsInv /\ ClearInv

LEMMA CallsLeaveControls ==
  ASSUME NEW c \in Clients, BeginCall(c) \/ ContinueCall(c) PROVE UNCHANGED controls
<1>1. CASE BeginCall(c)
  BY <1>1 DEF BeginCall, EnqueueBegin, RequeueBegin, PauseBegin, ResumeBegin, CancelBegin,
     InterruptBegin, RemoveBegin, ClearCompleted, ClearFailedBegin, ClearAllBegin
<1>2. CASE ContinueCall(c)
  BY <1>2 DEF ContinueCall, EnqueueCommit, RequeueCommit, PauseMark, PauseSignal,
     PauseAcknowledged, PauseTimeout, PauseCommit, ResumeMark, ResumeSignal, ResumeCommit,
     CancelMark, CancelSignal, CancelDirect, InterruptMark, InterruptSignal, RemoveFiles,
     RemoveRow, ClearFailedDelete, ClearAllFiles, ClearAllFails, ClearAllRows, StoreFails
<1> QED
  BY <1>1, <1>2

\* Where a call goes when it continues, and where it can begin.
Hop(from, to) ==
  \/ from = "pauseMark" /\ to = "pauseSignal"
  \/ from = "pauseSignal" /\ to = "pauseWait"
  \/ from = "pauseWait" /\ to = "pauseCommit"
  \/ from = "resumeMark" /\ to = "resumeSignal"
  \/ from = "resumeSignal" /\ to = "resumeCommit"
  \/ from = "cancelMark" /\ to = "cancelSignal"
  \/ from = "interruptMark" /\ to = "interruptSignal"
  \/ from = "removeFiles" /\ to = "removeRow"
  \/ from = "clearWait" /\ to = "clearRows" /\ controls = {}

FirstSteps ==
  {"enqueueCommit", "requeueCommit", "pauseMark", "resumeMark", "cancelMark", "cancelDirect",
   "interruptMark", "removeFiles", "clearFailed", "clearWait"}

\* A call has just begun: it cancels a task without a token directly, and holds
\* the token of a task only if there is one.
Begun(c) ==
  /\ call'[c].pc \in FirstSteps
  /\ call'[c].pc = "cancelDirect" => call'[c].task \notin controls
  /\ call'[c].live => call'[c].task \in controls

LEMMA BegunCall ==
  ASSUME CallsOK, NEW c \in Clients, BeginCall(c), NEW d \in Clients
  PROVE  call'[d] = call[d] \/ (d = c /\ Begun(c))
<1> DEFINE G == call'[d] = call[d] \/ (d = c /\ Begun(c))
<1>1. ASSUME NEW pc \in FirstSteps, NEW t, NEW live \in BOOLEAN, Begin(c, pc, t, live),
             pc = "cancelDirect" => t \notin controls, live => t \in controls
      PROVE  G
  <2>1. call'[c].pc = pc /\ call'[c].task = t /\ call'[c].live = live
        /\ (d # c => call'[d] = call[d])
    BY <1>1 DEF Begin, CallsOK, NoCall
  <2> QED
    BY <1>1, <2>1 DEF Begun
<1>2. ASSUME UNCHANGED call PROVE G
  BY <1>2
<1> SUFFICES G
  OBVIOUS
<1> HIDE DEF G
<1> USE DEF FirstSteps
<1>3. ASSUME NEW t \in Tasks, EnqueueBegin(c, t) \/ RequeueBegin(c, t) PROVE G
  BY <1>1, <1>3 DEF EnqueueBegin, RequeueBegin
<1>4. ASSUME NEW t \in Tasks, PauseBegin(c, t) \/ ResumeBegin(c, t) \/ InterruptBegin(c, t)
      PROVE  G
  BY <1>1, <1>4 DEF PauseBegin, ResumeBegin, InterruptBegin
<1>5. ASSUME NEW t \in Tasks, CancelBegin(c, t) PROVE G
  BY <1>1, <1>5 DEF CancelBegin
<1>6. ASSUME NEW t \in Tasks, RemoveBegin(c, t) PROVE G
  <2>1. /\ call'[c].pc = "removeFiles" /\ call'[c].live = FALSE
        /\ d # c => call'[d] = call[d]
    BY <1>6 DEF RemoveBegin, CallsOK, NoCall
  <2> QED
    BY <2>1 DEF G, Begun
<1>7. CASE ClearCompleted(c)
  BY <1>2, <1>7 DEF ClearCompleted
<1>8. CASE ClearFailedBegin(c)
  <2>1. UNCHANGED call \/ Begin(c, "clearFailed", NoTask, FALSE)
    BY <1>8 DEF ClearFailedBegin
  <2> QED
    BY <1>1, <1>2, <2>1
<1>9. CASE ClearAllBegin(c)
  BY <1>1, <1>9 DEF ClearAllBegin
<1> QED
  BY <1>3, <1>4, <1>5, <1>6, <1>7, <1>8, <1>9 DEF BeginCall

LEMMA ContinuedCall ==
  ASSUME CallsOK, NEW c \in Clients, ContinueCall(c), NEW d \in Clients
  PROVE  /\ d # c => call'[d] = call[d]
         /\ \/ call'[c] = NoCall
            \/ /\ Hop(call[c].pc, call'[c].pc)
               /\ call'[c] = [call[c] EXCEPT !.pc = call'[c].pc]
<1> DEFINE G == /\ d # c => call'[d] = call[d]
                /\ \/ call'[c] = NoCall
                   \/ /\ Hop(call[c].pc, call'[c].pc)
                      /\ call'[c] = [call[c] EXCEPT !.pc = call'[c].pc]
<1>1. ASSUME Return(c) PROVE G
  BY <1>1 DEF Return, CallsOK
<1>2. ASSUME NEW pc, Hop(call[c].pc, pc), Goto(c, pc) PROVE G
  <2>1. call'[c] = [call[c] EXCEPT !.pc = pc] /\ (d # c => call'[d] = call[d])
    BY <1>2 DEF Goto, CallsOK
  <2>2. call'[c].pc = pc
    BY <2>1 DEF CallsOK
  <2> QED
    BY <1>2, <2>1, <2>2
<1>3. ASSUME NEW s, NEW pc, UpdateThen(c, s, pc), pc = "idle" \/ Hop(call[c].pc, pc) PROVE G
  BY <1>1, <1>2, <1>3 DEF UpdateThen
<1> SUFFICES G
  OBVIOUS
<1> HIDE DEF G
<1> USE DEF At, Hop
<1>4. CASE PauseMark(c)
  BY <1>3, <1>4 DEF PauseMark
<1>5. CASE ResumeMark(c)
  BY <1>3, <1>5 DEF ResumeMark
<1>6. CASE CancelMark(c)
  BY <1>3, <1>6 DEF CancelMark
<1>7. CASE PauseCommit(c) \/ ResumeCommit(c) \/ CancelDirect(c)
  BY <1>3, <1>7 DEF PauseCommit, ResumeCommit, CancelDirect
<1>8. CASE PauseSignal(c)
  BY <1>2, <1>8 DEF PauseSignal
<1>9. CASE PauseAcknowledged(c)
  BY <1>2, <1>9 DEF PauseAcknowledged
<1>10. CASE ResumeSignal(c)
  BY <1>2, <1>10 DEF ResumeSignal
<1>11. CASE InterruptMark(c)
  BY <1>1, <1>2, <1>3, <1>11 DEF InterruptMark
<1>12. CASE RemoveFiles(c)
  BY <1>1, <1>2, <1>12 DEF RemoveFiles
<1>13. CASE ClearAllFiles(c)
  BY <1>2, <1>13 DEF ClearAllFiles, Drained
<1>14. CASE EnqueueCommit(c) \/ RequeueCommit(c) \/ PauseTimeout(c) \/ CancelSignal(c)
            \/ InterruptSignal(c) \/ RemoveRow(c) \/ ClearFailedDelete(c) \/ ClearAllFails(c)
            \/ ClearAllRows(c) \/ StoreFails(c)
  BY <1>1, <1>14 DEF EnqueueCommit, RequeueCommit, PauseTimeout, CancelSignal, InterruptSignal,
     RemoveRow, ClearFailedDelete, ClearAllFails, ClearAllRows, StoreFails
<1> QED
  BY <1>4, <1>5, <1>6, <1>7, <1>8, <1>9, <1>10, <1>11, <1>12, <1>13, <1>14 DEF ContinueCall

\* What the steps of a run do to the table: they move no row.
LEMMA RunRows ==
  ASSUME IInv, WorkerStep, ~WorkerStarts, ~WorkerSettles, NEW t \in Tasks
  PROVE  \/ rows'[t].status = rows[t].status
         \/ rows'[t] = NoRow("deleted") /\ rows[t].status \in Terminal
<1> DEFINE u == worker.task
           G == \/ rows'[t].status = rows[t].status
                \/ rows'[t] = NoRow("deleted") /\ rows[t].status \in Terminal
<1> SUFFICES G
  OBVIOUS
<1> RowsOK /\ WorkerOK
  BY DEF IInv, ControlOK
<1>1. ASSUME u \in Tasks, NEW new \in Record, new.status = rows[u].status, Commit(u, new)
      PROVE  G
  BY <1>1, CommitRows
<1>2. ASSUME UNCHANGED rows PROVE G
  BY <1>2
<1>3. worker.pc # "idle" => u \in Tasks
  BY DEF WorkerOK
<1> HIDE DEF G
<1>4. CASE WorkerPreflight
  BY <1>1, <1>3, <1>4 DEF WorkerPreflight, Works, RowsOK
<1>5. CASE WorkerStages
  <2> DEFINE new == [rows[u] EXCEPT !.checkpoint = TRUE]
  <2>1. u \in Tasks
    BY <1>3, <1>5 DEF WorkerStages, Works
  <2>2. new \in Record /\ new.status = rows[u].status
    BY <2>1, MarkedType
  <2>3. Commit(u, new) \/ UNCHANGED rows
    BY <1>5 DEF WorkerStages, Persist, PersistFails
  <2> HIDE DEF new
  <2> QED
    BY <1>1, <1>2, <2>1, <2>2, <2>3
<1>6. CASE WorkerPersistsResult
  <2> DEFINE new == [rows[u] EXCEPT !.result = TRUE]
  <2>1. u \in Tasks
    BY <1>3, <1>6 DEF WorkerPersistsResult, Works
  <2>2. new \in Record /\ new.status = rows[u].status
    BY <2>1, MarkedType
  <2>3. Commit(u, new) \/ UNCHANGED rows
    BY <1>6 DEF WorkerPersistsResult, Persist, PersistFails
  <2> HIDE DEF new
  <2> QED
    BY <1>1, <1>2, <2>1, <2>2, <2>3
<1>7. CASE \/ WorkerPick \/ WorkerClaim \/ WorkerSkips \/ WorkerContinues \/ WorkerPauses
           \/ WorkerWaits \/ WorkerStops \/ WorkerPublishes \/ WorkerFails \/ WorkerReleases
  BY <1>2, <1>7 DEF WorkerPick, WorkerClaim, WorkerSkips, WorkerContinues, WorkerPauses,
     WorkerWaits, WorkerStops, WorkerPublishes, WorkerFails, WorkerReleases
<1> QED
  BY <1>4, <1>5, <1>6, <1>7 DEF WorkerStep

\* A start that succeeds leaves the row Running.
LEMMA StartRows ==
  ASSUME IInv, WorkerStarts
  PROVE  /\ worker'.task = worker.task /\ worker.task \in Tasks
         /\ \/ worker'.pc = "preflight" /\ rows'[worker.task].status = "Running"
            \/ worker'.pc = "release" /\ worker'.result = "final" /\ UNCHANGED rows
         /\ \A t \in Tasks \ {worker.task} :
              \/ rows'[t] = rows[t]
              \/ rows'[t] = NoRow("deleted") /\ rows[t].status \in Terminal
<1> DEFINE u == worker.task
           new == [Moved(u, "Running") EXCEPT !.attempts = @ + 1]
<1> RowsOK /\ WorkerOK
  BY DEF IInv, ControlOK
<1>1. u \in Tasks
  BY DEF WorkerStarts, Works, WorkerOK
<1>2. CASE Commit(u, new) /\ WorkAt("preflight")
  <2>1. new \in Record /\ new.status = "Running" /\ "Running" \notin Terminal
    BY <1>1, StartedType DEF Terminal
  <2> HIDE DEF new
  <2>2. worker'.task = u /\ worker'.pc = "preflight"
    BY <1>2 DEF WorkAt, WorkerOK
  <2> QED
    BY <1>1, <1>2, <2>1, <2>2, CommitRows
<1>3. CASE Finish("final") /\ UNCHANGED rows
  BY <1>1, <1>3 DEF Finish, WorkerOK
<1> QED
  BY <1>2, <1>3 DEF WorkerStarts

\* How the worker moves: it keeps its task while it runs, and starts a run only
\* with WorkerStarts.
LEMMA WorkerMoves ==
  ASSUME IInv, WorkerStep
  PROVE  /\ \A t \in Tasks : Executing(t)' => Executing(t) \/ WorkerStarts
         /\ WorkerSettles => worker' = NoWork
         /\ ControlsInv => ControlsInv'
         /\ \/ controls' \subseteq controls
            \/ admission = NoOne /\ WorkerClaim
<1> WorkerOK
  BY DEF IInv, ControlOK
<1> USE DEF Works, WorkAt, Finish, Executing, ControlsInv, Holding, NextStep, WorkerOK
<1>1. CASE WorkerPick
  <2>1. PICK t \in Tasks : worker' = [NoWork EXCEPT !.pc = "picked", !.task = t]
    BY <1>1 DEF WorkerPick, WithStatus
  <2>2. worker'.pc = "picked" /\ worker.pc = "idle" /\ UNCHANGED controls
    BY <1>1, <2>1 DEF WorkerPick, NoWork
  <2> QED
    BY <1>1, <2>2 DEF WorkerPick, WorkerSettles
<1>2. CASE WorkerClaim
  BY <1>2 DEF WorkerClaim, WorkerSettles
<1>3. CASE WorkerSkips
  BY <1>3 DEF WorkerSkips, WorkerSettles, NoWork
<1>4. CASE WorkerStarts
  <2>1. worker'.task = worker.task /\ worker'.pc \in {"preflight", "release"}
        /\ worker.pc = "claimed" /\ UNCHANGED controls
    BY <1>4 DEF WorkerStarts
  <2> QED
    BY <1>4, <2>1 DEF WorkerSettles
<1>5. CASE WorkerPreflight
  BY <1>5 DEF WorkerPreflight, WorkerSettles, FirstCheck
<1>6. CASE WorkerContinues
  <2>1. worker'.task = worker.task /\ worker'.pc \in {"stage", "publish", "persist"}
        /\ worker.pc \in DOMAIN NextStep /\ UNCHANGED controls
    BY <1>6 DEF WorkerContinues, Tests, Checking
  <2> QED
    BY <1>6, <2>1 DEF WorkerSettles
<1>7. CASE WorkerPauses \/ WorkerWaits
  BY <1>7 DEF WorkerPauses, WorkerWaits, WorkerSettles, Tests, Checking
<1>8. CASE WorkerStops
  BY <1>8 DEF WorkerStops, WorkerSettles, Tests, Checking
<1>9. CASE WorkerStages
  BY <1>9 DEF WorkerStages, WorkerSettles
<1>10. CASE WorkerPublishes
  BY <1>10 DEF WorkerPublishes, WorkerSettles
<1>11. CASE WorkerPersistsResult
  <2>1. worker'.task = worker.task /\ worker'.pc = "release"
        /\ worker.pc = "persist" /\ UNCHANGED controls
    BY <1>11 DEF WorkerPersistsResult
  <2> QED
    BY <1>11, <2>1 DEF WorkerSettles
<1>12. CASE WorkerFails
  <2>1. worker'.task = worker.task /\ worker'.pc = "release" /\ UNCHANGED controls
        /\ worker.pc \in {"preflight", "stage", "publish"} \cup DOMAIN NextStep
    BY <1>12 DEF WorkerFails
  <2> QED
    BY <1>12, <2>1 DEF WorkerSettles
<1>13. CASE WorkerReleases
  BY <1>13 DEF WorkerReleases, WorkerSettles
<1>14. CASE WorkerSettles
  BY <1>14 DEF WorkerSettles, NoWork
<1> QED
  BY <1>1, <1>2, <1>3, <1>4, <1>5, <1>6, <1>7, <1>8, <1>9, <1>10, <1>11, <1>12, <1>13, <1>14
  DEF WorkerStep

\* The controls map holds the task of the run and nothing else, and Clear All
\* deletes rows only when it is empty, for any number of clients.
LEMMA OwnStays == IInv /\ OwnInv /\ [Next]_vars => OwnInv'
<1> SUFFICES ASSUME IInv, OwnInv, [Next]_vars PROVE OwnInv'
  OBVIOUS
<1> CallsOK /\ LockInv
  BY DEF IInv, ControlOK
<1>1. ASSUME NEW c \in Clients, BeginCall(c) \/ ContinueCall(c) PROVE OwnInv'
  <2>1. UNCHANGED <<worker, controls>>
    BY <1>1, CallsLeaveWorker, CallsLeaveControls
  <2>2. ASSUME NEW d \in Clients, call'[d].pc = "clearRows" PROVE controls = {}
    <3>1. CASE BeginCall(c)
      <4>1. call'[d] = call[d]
        BY <2>2, <3>1, BegunCall DEF Begun, FirstSteps
      <4> QED
        BY <2>2, <4>1 DEF OwnInv, ClearInv
    <3>2. CASE ContinueCall(c)
      <4>1. CASE d = c
        <5>1. call'[c] = NoCall \/ Hop(call[c].pc, call'[c].pc)
          BY <3>2, ContinuedCall
        <5> QED
          BY <2>2, <4>1, <5>1 DEF Hop, NoCall
      <4>2. CASE d # c
        <5>1. call'[d] = call[d]
          BY <3>2, <4>2, ContinuedCall
        <5> QED
          BY <2>2, <5>1 DEF OwnInv, ClearInv
      <4> QED
        BY <4>1, <4>2
    <3> QED
      BY <1>1, <3>1, <3>2
  <2> QED
    BY <2>1, <2>2 DEF OwnInv, ControlsInv, ClearInv
<1>2. CASE WorkerStep
  <2>1. ControlsInv'
    BY <1>2, WorkerMoves DEF OwnInv
  <2>2. ASSUME NEW c \in Clients, call'[c].pc = "clearRows" PROVE controls' = {}
    <3>1. call[c].pc = "clearRows"
      <4>1. UNCHANGED call \/ call' = [d \in Clients |-> [call[d] EXCEPT !.live = FALSE]]
        BY <1>2 DEF WorkerStep, WorkerPick, WorkerClaim, WorkerSkips, WorkerStarts,
           WorkerPreflight, WorkerContinues, WorkerPauses, WorkerWaits, WorkerStops, WorkerStages,
           WorkerPublishes, WorkerPersistsResult, WorkerFails, WorkerReleases, WorkerSettles,
           DropToken
      <4> QED
        BY <2>2, <4>1 DEF CallsOK
    <3>2. admission = c /\ controls = {}
      BY <3>1 DEF LockInv, AdmissionSteps, OwnInv, ClearInv
    <3> QED
      BY <1>2, <3>2, WorkerMoves, ConstantsAssumption
  <2> QED
    BY <2>1, <2>2 DEF OwnInv, ClearInv
<1>3. CASE Restart
  BY <1>3 DEF Restart, OwnInv, ControlsInv, ClearInv, Holding, NextStep, NoWork
<1>4. CASE SpuriousWakeUp \/ UNCHANGED vars
  BY <1>4 DEF vars, SpuriousWakeUp, OwnInv, ControlsInv, ClearInv
<1> QED
  BY <1>1, <1>2, <1>3, <1>4 DEF Next

\* There is one client thread.  The desktop shell's commands are synchronous
\* and run on its main thread, one at a time (src-tauri/src/lib.rs); of two
\* clients one may cancel directly, on a token it did not see, what the other
\* is cancelling through the token.
OneClient == \A c, d \in Clients : c = d

\* A cancel that saw no token finds, if the task was started meanwhile, a row
\* that may not be cancelled directly.
StalledCancel ==
  \A c \in Clients : call[c].pc = "cancelDirect" /\ Executing(call[c].task)
    => rows[call[c].task].status = "Running"

RunInv == RunsOwnTheirRow /\ StalledCancel

LEMMA ExecutingHolds ==
  ASSUME OwnInv, NEW t \in Tasks, Executing(t) PROVE controls = {t}
BY DEF OwnInv, ControlsInv, Executing, Holding

LEMMA RunStays ==
  ASSUME OneClient PROVE IInv /\ OwnInv /\ RunInv /\ [Next]_vars => RunInv'
<1> SUFFICES ASSUME IInv, OwnInv, RunInv, [Next]_vars PROVE RunInv'
  OBVIOUS
<1> RowsOK /\ CallsOK /\ WorkerOK
  BY DEF IInv, ControlOK
<1>1. ASSUME NEW c \in Clients, BeginCall(c) \/ ContinueCall(c) PROVE RunInv'
  <2>1. UNCHANGED worker
    BY <1>1, CallsLeaveWorker
  <2>2. ASSUME NEW t \in Tasks, Executing(t) PROVE t \in Nonterminal'
    <3>1. t \in Nonterminal /\ controls = {t}
      BY <2>2, ExecutingHolds DEF RunInv, RunsOwnTheirRow
    <3>2. ~At(c, "clearRows")
      BY <3>1 DEF OwnInv, ClearInv, At
    <3>3. t = call[c].task /\ call[c].pc = "cancelDirect"
            => ~CanTransition(rows[t].status, "Cancelled")
      BY <2>2
      DEF RunInv, StalledCancel, CanTransition, Moves, Active, Waiting
    <3>4. \/ rows'[t] = rows[t]
          \/ /\ rows'[t].status \in {"Queued", "Pausing", "Paused", "Resuming", "Running",
                                     "Cancelling", "Interrupted"}
      <4>1. RowStep(c, t)
        BY <1>1, CallRows
      <4>2. rows[t].status # "unborn" /\ rows[t].status \notin Terminal
        BY <3>1 DEF Nonterminal, Present, Absent
      <4> QED
        BY <3>2, <3>3, <4>1, <4>2 DEF RowStep, Writes, At
    <3> QED
      BY <3>1, <3>4 DEF Nonterminal, Present, Absent, Terminal
  <2>3. ASSUME NEW d \in Clients, call'[d].pc = "cancelDirect"
        PROVE  ~Executing(call'[d].task)
    <3>1. d = c
      BY <1>1 DEF OneClient
    <3>2. CASE call'[d].task \notin controls
      BY <3>2, ExecutingHolds, <2>1 DEF Executing, OwnInv, ControlsInv, Holding
    <3>3. CASE BeginCall(c) /\ call'[d] = call[d]
      <4>1. call[c].pc = "cancelDirect"
        BY <2>3, <3>1, <3>3
      <4> QED
        BY <3>3, <4>1 DEF BeginCall, EnqueueBegin, RequeueBegin, PauseBegin, ResumeBegin,
           CancelBegin, InterruptBegin, RemoveBegin, ClearCompleted, ClearFailedBegin,
           ClearAllBegin, May
    <3>4. CASE BeginCall(c) /\ call'[d] # call[d]
      BY <2>3, <3>1, <3>2, <3>4, BegunCall DEF Begun
    <3>5. CASE ContinueCall(c)
      <4>1. call'[c] = NoCall \/ Hop(call[c].pc, call'[c].pc)
        BY <3>5, ContinuedCall
      <4> QED
        BY <2>3, <3>1, <4>1 DEF Hop, NoCall
    <3> QED
      BY <1>1, <3>3, <3>4, <3>5
  <2>4. StalledCancel'
    BY <2>1, <2>3 DEF StalledCancel, Executing
  <2> QED
    BY <2>1, <2>2, <2>4 DEF RunInv, RunsOwnTheirRow, Executing
<1>2. CASE WorkerStep /\ ~WorkerSettles
  <2>1. UNCHANGED call
    BY <1>2 DEF WorkerStep, WorkerPick, WorkerClaim, WorkerSkips, WorkerStarts,
       WorkerPreflight, WorkerContinues, WorkerPauses, WorkerWaits, WorkerStops, WorkerStages,
       WorkerPublishes, WorkerPersistsResult, WorkerFails, WorkerReleases
  <2>2. ASSUME NEW t \in Tasks, Executing(t)'
        PROVE  \/ rows'[t].status = "Running"
               \/ Executing(t) /\ rows'[t].status = rows[t].status /\ t \in Nonterminal
    <3>1. CASE WorkerStarts
      <4>1. worker'.pc = "preflight" /\ worker'.task = worker.task
            /\ rows'[worker.task].status = "Running"
        BY <2>2, <3>1, StartRows DEF Executing, NextStep
      <4> QED
        BY <2>2, <4>1 DEF Executing
    <3>2. CASE ~WorkerStarts
      <4>1. Executing(t)
        BY <1>2, <2>2, <3>2, WorkerMoves
      <4>2. t \in Nonterminal
        BY <4>1 DEF RunInv, RunsOwnTheirRow
      <4> QED
        BY <1>2, <3>2, <4>1, <4>2, RunRows DEF Nonterminal
    <3> QED
      BY <3>1, <3>2
  <2>3. RunsOwnTheirRow'
    BY <2>2 DEF RunsOwnTheirRow, Nonterminal, Present, Absent, Terminal
  <2>4. ASSUME NEW c \in Clients, NEW t \in Tasks, call[c].task = t,
               call[c].pc = "cancelDirect", Executing(t)'
        PROVE  rows'[t].status = "Running"
    BY <2>2, <2>4 DEF RunInv, StalledCancel
  <2>5. \A c \in Clients : call[c].pc = "cancelDirect" => call[c].task \in Tasks
    BY DEF CallsOK, TaskSteps, CallSteps
  <2>6. StalledCancel'
    BY <2>1, <2>4, <2>5 DEF StalledCancel, Executing
  <2> QED
    BY <2>3, <2>6 DEF RunInv
<1>3. CASE WorkerSettles \/ Restart
  <2>1. worker'.pc = "idle"
    BY <1>3 DEF WorkerSettles, Restart, NoWork
  <2> QED
    BY <2>1 DEF RunInv, RunsOwnTheirRow, StalledCancel, Executing, NextStep
<1>4. CASE SpuriousWakeUp \/ UNCHANGED vars
  BY <1>4
  DEF vars, SpuriousWakeUp, RunInv, RunsOwnTheirRow, StalledCancel, Executing, Nonterminal, Present
<1> QED
  BY <1>1, <1>2, <1>3, <1>4 DEF Next

LEMMA OwnHolds == Spec => []OwnInv
<1>1. Init => OwnInv
  BY DEF Init, OwnInv, ControlsInv, ClearInv, Holding, NextStep, NoWork, NoCall
<1> QED
  BY <1>1, OwnStays, Inductive, PTL DEF Spec

LEMMA RunHolds == ASSUME OneClient PROVE Spec => []RunInv
<1>1. Init => RunInv
  BY DEF Init, RunInv, RunsOwnTheirRow, StalledCancel, Executing, NextStep, NoWork
<1> QED
  BY <1>1, RunStays, OwnHolds, Inductive, PTL DEF Spec

\* With one client, the row of the task whose files the worker may be writing
\* exists and is not terminal: nobody removes it, cleans up after it or queues
\* it again while it runs (controls, cancel_task, remove_task, clear_all).
THEOREM RunsKeepTheirRow == ASSUME OneClient PROVE Spec => []RunsOwnTheirRow
<1>1. RunInv => RunsOwnTheirRow
  BY DEF RunInv
<1> QED
  BY <1>1, RunHolds, PTL

-----------------------------------------------------------------------------
(* Paused means held.                                                      *)

\* The worker stands in a checkpoint of t with the pause acknowledged, or it
\* was cancelled there and has not settled t yet.
Held(t) ==
  /\ worker.task = t
  /\ \/ Checking /\ token.paused /\ (token.pauseRequested \/ token.cancelled)
     \/ worker.pc \in {"release", "settle"} /\ worker.result = "cancelled" /\ token.cancelled

PausedIsHeld == \A t \in Tasks : rows[t].status = "Paused" => Held(t)

\* What a call that resumes knows: it alone could have another task paused.
ResumeInv ==
  \A c \in Clients : \A t \in Tasks : rows[t].status = "Paused" =>
    /\ call[c].pc = "resumeMark" => t = call[c].task
    /\ call[c].pc # "resumeSignal"

\* What a call that pauses knows when it comes to write Paused: the run is held,
\* or it is over and the row shows its outcome.
PauseInv ==
  \A c \in Clients :
    /\ call[c].pc = "pauseCommit" =>
         IF call[c].live
           THEN Held(call[c].task)
           ELSE rows[call[c].task].status \notin {"Pausing", "Paused"}
    /\ call[c].pc \in {"pauseWait", "pauseCommit"} /\ call[c].live => token.pauseRequested

\* The token is paused only inside a checkpoint, and who holds a live token
\* holds that of the run in progress.
LiveInv ==
  /\ token.paused => Checking
  /\ \A c \in Clients : call[c].live =>
       call[c].task = worker.task /\ worker.pc \notin {"idle", "picked"}

HeldInv == PausedIsHeld /\ ResumeInv /\ PauseInv /\ LiveInv

\* What a call does to the token.
LEMMA BegunToken ==
  ASSUME EngineOK, NEW c \in Clients, BeginCall(c)
  PROVE  token' = token \/ token' = CancelledToken
BY DEF BeginCall, EnqueueBegin, RequeueBegin, PauseBegin, ResumeBegin, CancelBegin,
   InterruptBegin, RemoveBegin, ClearCompleted, ClearFailedBegin, ClearAllBegin

LEMMA ContinuedToken ==
  ASSUME NEW c \in Clients, ContinueCall(c)
  PROVE  \/ token' = token /\ (At(c, "pauseSignal") => ~call[c].live)
         \/ At(c, "pauseSignal") /\ token' = [token EXCEPT !.pauseRequested = TRUE]
         \/ /\ At(c, "resumeSignal")
            /\ token' = Notified([token EXCEPT !.pauseRequested = FALSE])
         \/ token' = CancelledToken /\ (At(c, "pauseSignal") => ~call[c].live)
<1> USE DEF At, Signal
<1>1. CASE PauseSignal(c)
  BY <1>1 DEF PauseSignal
<1>2. CASE ResumeSignal(c)
  BY <1>2 DEF ResumeSignal
<1>3. CASE CancelSignal(c) \/ InterruptSignal(c)
  BY <1>3 DEF CancelSignal, InterruptSignal
<1>4. CASE \/ EnqueueCommit(c) \/ RequeueCommit(c) \/ PauseMark(c) \/ PauseAcknowledged(c)
           \/ PauseTimeout(c) \/ PauseCommit(c) \/ ResumeMark(c) \/ ResumeCommit(c)
           \/ CancelMark(c) \/ CancelDirect(c) \/ InterruptMark(c) \/ RemoveFiles(c)
           \/ RemoveRow(c) \/ ClearFailedDelete(c) \/ ClearAllFiles(c) \/ ClearAllFails(c)
           \/ ClearAllRows(c) \/ StoreFails(c)
  BY <1>4 DEF EnqueueCommit, RequeueCommit, PauseMark, PauseAcknowledged, PauseTimeout,
     PauseCommit, ResumeMark, ResumeCommit, CancelMark, CancelDirect, InterruptMark, RemoveFiles,
     RemoveRow, ClearFailedDelete, ClearAllFiles, ClearAllFails, ClearAllRows, StoreFails,
     WriteSteps
<1> QED
  BY <1>1, <1>2, <1>3, <1>4 DEF ContinueCall

\* What a call has seen or written when it reaches two of its steps.
LEMMA ContinuedFacts ==
  ASSUME IInv, NEW c \in Clients, ContinueCall(c)
  PROVE  /\ call'[c].pc = "pauseCommit" => SeesPaused(c)
         /\ call'[c].pc = "resumeSignal" => rows'[call[c].task].status # "Paused"
<1> RowsOK /\ CallsOK
  BY DEF IInv, ControlOK
<1>1. call'[c] = NoCall \/ Hop(call[c].pc, call'[c].pc)
  BY ContinuedCall
<1>2. ASSUME call'[c].pc = "pauseCommit" PROVE SeesPaused(c)
  <2>1. call[c].pc = "pauseWait" /\ call'[c] # NoCall
    BY <1>1, <1>2 DEF Hop, NoCall
  <2>2. PauseAcknowledged(c) \/ PauseTimeout(c)
    BY <2>1 DEF ContinueCall, At, EnqueueCommit, RequeueCommit, PauseMark, PauseSignal,
       PauseCommit, ResumeMark, ResumeSignal, ResumeCommit, CancelMark, CancelSignal,
       CancelDirect, InterruptMark, InterruptSignal, RemoveFiles, RemoveRow, ClearFailedDelete,
       ClearAllFiles, ClearAllFails, ClearAllRows, StoreFails, WriteSteps
  <2> QED
    BY <2>1, <2>2 DEF PauseAcknowledged, PauseTimeout, Return, CallsOK
<1>3. ASSUME call'[c].pc = "resumeSignal" PROVE rows'[call[c].task].status # "Paused"
  <2> DEFINE t == call[c].task
  <2>1. call[c].pc = "resumeMark" /\ call'[c] # NoCall
    BY <1>1, <1>3 DEF Hop, NoCall
  <2>2. ResumeMark(c) \/ StoreFails(c)
    BY <2>1 DEF ContinueCall, At, EnqueueCommit, RequeueCommit, PauseMark, PauseSignal,
       PauseAcknowledged, PauseTimeout, PauseCommit, ResumeSignal, ResumeCommit, CancelMark,
       CancelSignal, CancelDirect, InterruptMark, InterruptSignal, RemoveFiles, RemoveRow,
       ClearFailedDelete, ClearAllFiles, ClearAllFails, ClearAllRows
  <2>3. t \in Tasks
    BY <2>1 DEF CallsOK, TaskSteps, CallSteps
  <2>4. ~Return(c)
    BY <2>1 DEF Return, CallsOK
  <2>5. Commit(t, Moved(t, "Resuming"))
    BY <2>2, <2>4 DEF ResumeMark, StoreFails, UpdateThen
  <2>6. Moved(t, "Resuming") \in Record /\ Moved(t, "Resuming").status = "Resuming"
    BY <2>3, MovedType DEF Statuses, Active
  <2> QED
    BY <2>3, <2>5, <2>6, CommitRows DEF NoRow
<1> QED
  BY <1>2, <1>3

\* A run is held until it settles.
LEMMA HeldKept ==
  ASSUME IInv, WorkerStep, ~WorkerSettles, NEW t, Held(t) PROVE Held(t)'
<1> WorkerOK /\ EngineOK
  BY DEF IInv, ControlOK
<1>1. worker.pc \in {"release", "settle"} \cup DOMAIN NextStep
  BY DEF Held, Checking
<1>2. \/ WorkerPauses \/ WorkerWaits \/ WorkerContinues
      \/ WorkerStops \/ WorkerFails \/ WorkerReleases
  BY <1>1
  DEF WorkerStep, Works, WorkerPick, WorkerClaim, WorkerSkips, WorkerStarts, WorkerPreflight,
      WorkerStages, WorkerPublishes, WorkerPersistsResult, NextStep
<1>3. CASE WorkerReleases
  BY <1>3 DEF WorkerReleases, Works, WorkAt, WorkerOK, Held, Checking, NextStep
<1>4. CASE WorkerStops
  BY <1>4 DEF WorkerStops, Leaves, Finish, WorkerOK, EngineOK, Token, Held, Tests, Checking
<1>5. CASE WorkerPauses \/ WorkerWaits \/ WorkerContinues \/ WorkerFails
  BY <1>5 DEF WorkerPauses, WorkerWaits, WorkerContinues, WorkerFails, EngineOK, Token, Held,
     Tests, Checking, NextStep
<1> QED
  BY <1>2, <1>3, <1>4, <1>5

LEMMA HeldBegins ==
  ASSUME OneClient, IInv, OwnInv, HeldInv, NEW c \in Clients, BeginCall(c)
  PROVE  HeldInv'
<1> RowsOK /\ CallsOK /\ EngineOK
  BY DEF IInv, ControlOK
<1>1. call[c].pc = "idle"
  BY DEF BeginCall, EnqueueBegin, RequeueBegin, PauseBegin, ResumeBegin, CancelBegin,
     InterruptBegin, RemoveBegin, ClearCompleted, ClearFailedBegin, ClearAllBegin, May
<1>2. UNCHANGED <<worker, controls>>
  BY CallsLeaveWorker, CallsLeaveControls
<1>3. /\ token'.paused = token.paused /\ token'.pauseRequested = token.pauseRequested
      /\ token.cancelled => token'.cancelled
  BY BegunToken, CancellingToken DEF EngineOK
<1>4. \A t : Held(t) => Held(t)'
  BY <1>2, <1>3 DEF Held, Checking
<1>5. ASSUME NEW t \in Tasks, rows'[t].status = "Paused" PROVE rows[t].status = "Paused"
  <2>1. RowStep(c, t)
    BY CallRows
  <2> QED
    BY <1>1, <1>5, <2>1 DEF RowStep, At, NoRow, Writes
<1>6. ASSUME NEW d \in Clients
      PROVE  /\ call'[d].pc \in {"idle"} \cup FirstSteps
             /\ call'[d].pc = "resumeMark" => rows[call'[d].task].status = "Paused"
             /\ call'[d].live => call'[d].task \in controls \/ call[d].live
             /\ call'[d].live /\ call'[d].task \notin controls => call'[d] = call[d]
  <2>1. d = c
    BY DEF OneClient
  <2>2. CASE call'[d] = call[d]
    BY <1>1, <2>1, <2>2 DEF FirstSteps
  <2>3. CASE call'[d] # call[d]
    <3>1. Begun(c)
      BY <2>3, BegunCall
    <3>2. ASSUME call'[c].pc = "resumeMark" PROVE rows[call'[c].task].status = "Paused"
      <4>1. ASSUME NEW pc, NEW t, NEW live, Begin(c, pc, t, live) PROVE call'[c].pc = pc
        BY <4>1 DEF Begin, CallsOK, NoCall
      <4>2. PICK t \in Tasks : ResumeBegin(c, t)
        <5>1. ASSUME NEW t \in Tasks, RemoveBegin(c, t) PROVE FALSE
          <6>1. call'[c].pc = "removeFiles"
            BY <5>1 DEF RemoveBegin, CallsOK, NoCall
          <6> QED
            BY <3>2, <6>1
        <5>2. \A t \in Tasks : ~(EnqueueBegin(c, t) \/ RequeueBegin(c, t) \/ PauseBegin(c, t)
                                 \/ CancelBegin(c, t) \/ InterruptBegin(c, t))
          BY <3>2, <4>1
          DEF EnqueueBegin, RequeueBegin, PauseBegin, CancelBegin, InterruptBegin
        <5>3. ~(ClearCompleted(c) \/ ClearFailedBegin(c) \/ ClearAllBegin(c))
          BY <1>1, <3>2, <4>1 DEF ClearCompleted, ClearFailedBegin, ClearAllBegin
        <5> QED
          BY <5>1, <5>2, <5>3 DEF BeginCall
      <4> QED
        BY <4>2 DEF ResumeBegin, Begin, CallsOK, NoCall
    <3> QED
      BY <2>1, <2>3, <3>1, <3>2 DEF Begun
  <2> QED
    BY <2>2, <2>3
<1>7. PausedIsHeld'
  BY <1>4, <1>5 DEF HeldInv, PausedIsHeld
<1>8. ResumeInv'
  <2>1. ASSUME NEW d \in Clients, NEW t \in Tasks, rows'[t].status = "Paused",
               call'[d].pc = "resumeMark"
        PROVE  t = call'[d].task
    <3>1. rows[t].status = "Paused" /\ worker.task = t
      BY <1>5, <2>1 DEF HeldInv, PausedIsHeld, Held
    <3>2. call'[d].task \in Tasks
      <4>1. CallsOK'
        BY CallsKeep, StepKeeps DEF Next, IInv, ControlOK
      <4> QED
        BY <2>1, <4>1 DEF CallsOK, TaskSteps, CallSteps
    <3>3. worker.task = call'[d].task
      BY <1>6, <2>1, <3>2 DEF HeldInv, PausedIsHeld, Held
    <3> QED
      BY <3>1, <3>3
  <2> QED
    BY <1>6, <2>1 DEF ResumeInv, FirstSteps
<1>9. PauseInv'
  BY <1>6 DEF PauseInv, FirstSteps
<1>10. LiveInv'
  BY <1>2, <1>3, <1>6
  DEF HeldInv, LiveInv, Checking, OwnInv, ControlsInv, Holding, NextStep
<1> QED
  BY <1>7, <1>8, <1>9, <1>10 DEF HeldInv

LEMMA HeldContinues ==
  ASSUME OneClient, IInv, OwnInv, HeldInv, NEW c \in Clients, ContinueCall(c)
  PROVE  HeldInv'
<1> DEFINE u == call[c].task
<1> RowsOK /\ CallsOK /\ EngineOK
  BY DEF IInv, ControlOK
<1>1. UNCHANGED worker
  BY CallsLeaveWorker
<1>2. /\ token'.paused = token.paused
      /\ token.cancelled => token'.cancelled
      /\ token.pauseRequested /\ ~At(c, "resumeSignal") => token'.pauseRequested
      /\ At(c, "pauseSignal") /\ call[c].live => token'.pauseRequested
  <2>1. CASE token' = token /\ (At(c, "pauseSignal") => ~call[c].live)
    BY <2>1
  <2>2. CASE At(c, "pauseSignal") /\ token' = [token EXCEPT !.pauseRequested = TRUE]
    BY <2>2 DEF EngineOK, Token
  <2>3. CASE /\ At(c, "resumeSignal")
             /\ token' = Notified([token EXCEPT !.pauseRequested = FALSE])
    <3> DEFINE tok == [token EXCEPT !.pauseRequested = FALSE]
    <3>1. tok \in Token /\ tok.paused = token.paused /\ tok.cancelled = token.cancelled
      BY DEF EngineOK, Token
    <3>2. ~At(c, "pauseSignal")
      BY <2>3 DEF At
    <3> HIDE DEF tok
    <3> QED
      BY <2>3, <3>1, <3>2, NotifiedToken DEF tok
  <2>4. CASE token' = CancelledToken /\ (At(c, "pauseSignal") => ~call[c].live)
    BY <2>4, CancellingToken DEF EngineOK
  <2> QED
    BY <2>1, <2>2, <2>3, <2>4, ContinuedToken
<1>3. ASSUME NEW t, Held(t), ~At(c, "resumeSignal") PROVE Held(t)'
  BY <1>1, <1>2, <1>3 DEF Held, Checking
<1>4. ASSUME NEW t \in Tasks, rows'[t].status = "Paused"
      PROVE  \/ rows[t].status = "Paused"
             \/ At(c, "pauseCommit") /\ t = u /\ rows[t].status = "Pausing"
  <2>1. RowStep(c, t)
    BY CallRows
  <2> QED
    BY <1>4, <2>1 DEF RowStep, NoRow, Writes, At, CanTransition, Moves, Active, Waiting
<1>5. \A d \in Clients : d = c
  BY DEF OneClient
<1>6. call'[c] = NoCall
      \/ (Hop(call[c].pc, call'[c].pc) /\ call'[c] = [call[c] EXCEPT !.pc = call'[c].pc])
  BY ContinuedCall
<1>7. call'[c].live => call[c].live /\ call'[c].task = u
  BY <1>6 DEF NoCall, CallsOK
<1>8. PausedIsHeld'
  <2>1. ASSUME NEW t \in Tasks, rows'[t].status = "Paused" PROVE Held(t)'
    <3>1. CASE rows[t].status = "Paused"
      <4>1. ~At(c, "resumeSignal")
        BY <3>1 DEF HeldInv, ResumeInv, At
      <4> QED
        BY <1>3, <3>1, <4>1 DEF HeldInv, PausedIsHeld
    <3>2. CASE At(c, "pauseCommit") /\ t = u /\ rows[t].status = "Pausing"
      <4>1. Held(t)
        BY <3>2 DEF HeldInv, PauseInv, At
      <4> QED
        BY <1>3, <3>2, <4>1 DEF At
    <3> QED
      BY <1>4, <2>1, <3>1, <3>2
  <2> QED
    BY <2>1 DEF PausedIsHeld
<1>9. ResumeInv'
  <2>1. ASSUME NEW t \in Tasks, rows'[t].status = "Paused", call'[c].pc = "resumeSignal"
        PROVE  FALSE
    <3>1. call[c].pc = "resumeMark"
      BY <1>6, <2>1 DEF Hop, NoCall
    <3>2. rows[t].status = "Paused"
      BY <1>4, <2>1, <3>1 DEF At
    <3>3. t = u
      BY <3>1, <3>2 DEF HeldInv, ResumeInv
    <3> QED
      BY <2>1, <3>3, ContinuedFacts
  <2>2. call'[c].pc # "resumeMark"
    BY <1>6 DEF Hop, NoCall
  <2> QED
    BY <1>5, <2>1, <2>2 DEF ResumeInv
<1>10. PauseInv'
  <2>1. ASSUME call'[c].pc = "pauseCommit"
        PROVE  call'[c].live /\ call'[c].task = u /\ Held(u)' /\ token'.pauseRequested
    <3>1. call[c].pc = "pauseWait" /\ call[c].live /\ token.paused
      BY <1>6, <2>1, ContinuedFacts DEF Hop, NoCall, SeesPaused
    <3>2. call'[c].live /\ call'[c].task = u
      BY <1>6, <2>1, <3>1 DEF NoCall, CallsOK
    <3>3. worker.task = u /\ Checking /\ token.pauseRequested
      BY <3>1 DEF HeldInv, LiveInv, PauseInv
    <3>4. token'.paused /\ token'.pauseRequested
      BY <1>2, <3>1, <3>3 DEF At
    <3> QED
      BY <1>1, <3>2, <3>3, <3>4 DEF Held, Checking
  <2>2. ASSUME call'[c].pc = "pauseWait", call'[c].live PROVE token'.pauseRequested
    <3>1. call[c].pc = "pauseSignal"
      BY <1>6, <2>2 DEF Hop, NoCall
    <3> QED
      BY <1>2, <1>7, <2>2, <3>1 DEF At
  <2> QED
    BY <1>5, <2>1, <2>2 DEF PauseInv, Held, Checking
<1>11. LiveInv'
  <2>1. token'.paused => Checking'
    BY <1>1, <1>2 DEF HeldInv, LiveInv, Checking
  <2> QED
    BY <1>1, <1>5, <1>7, <2>1 DEF HeldInv, LiveInv
<1> QED
  BY <1>8, <1>9, <1>10, <1>11 DEF HeldInv

\* A step of a run pauses no row.
LEMMA RunPausesNothing ==
  ASSUME IInv, WorkerStep, ~WorkerSettles, NEW t \in Tasks,
         NEW s \in {"Pausing", "Paused"}, rows'[t].status = s
  PROVE  rows[t].status = s
<1>1. CASE WorkerStarts
  BY <1>1, StartRows DEF NoRow
<1>2. CASE ~WorkerStarts
  BY <1>2, RunRows DEF NoRow
<1> QED
  BY <1>1, <1>2

LEMMA HeldRuns ==
  ASSUME IInv, HeldInv, WorkerStep, ~WorkerSettles PROVE HeldInv'
<1> WorkerOK /\ EngineOK /\ CallsOK
  BY DEF IInv, ControlOK
<1>1. UNCHANGED call
  BY DEF WorkerStep, WorkerPick, WorkerClaim, WorkerSkips, WorkerStarts, WorkerPreflight,
     WorkerContinues, WorkerPauses, WorkerWaits, WorkerStops, WorkerStages, WorkerPublishes,
     WorkerPersistsResult, WorkerFails, WorkerReleases
<1>2. \A c \in Clients : call[c].pc = "pauseCommit" => call[c].task \in Tasks
  BY DEF CallsOK, TaskSteps, CallSteps
<1>3. token.pauseRequested => token'.pauseRequested
  BY DEF WorkerStep, WorkerPick, WorkerClaim, WorkerSkips, WorkerStarts, WorkerPreflight,
     WorkerContinues, WorkerPauses, WorkerWaits, WorkerStops, WorkerStages, WorkerPublishes,
     WorkerPersistsResult, WorkerFails, WorkerReleases, Leaves, EngineOK, Token
<1>4. PausedIsHeld'
  <2>1. ASSUME NEW t \in Tasks, rows'[t].status = "Paused" PROVE Held(t)'
    BY <2>1, RunPausesNothing, HeldKept DEF HeldInv, PausedIsHeld
  <2> QED
    BY <2>1 DEF PausedIsHeld
<1>5. ResumeInv'
  BY <1>1, RunPausesNothing DEF HeldInv, ResumeInv
<1>6. PauseInv'
  <2>1. ASSUME NEW c \in Clients, NEW t \in Tasks, t = call[c].task, call[c].pc = "pauseCommit"
        PROVE  IF call[c].live THEN Held(t)' ELSE rows'[t].status \notin {"Pausing", "Paused"}
    BY <2>1, HeldKept, RunPausesNothing DEF HeldInv, PauseInv
  <2> QED
    BY <1>1, <1>2, <1>3, <2>1 DEF HeldInv, PauseInv, Held, Checking
<1>7. LiveInv'
  <2>1. worker.pc \notin {"idle", "picked"}
          => worker'.task = worker.task /\ worker'.pc \notin {"idle", "picked"}
    <3>1. CASE WorkerPick \/ WorkerSkips
      BY <3>1 DEF WorkerPick, WorkerSkips, Works
    <3>2. CASE WorkerStarts
      BY <3>2, StartRows
    <3>3. CASE WorkerClaim \/ WorkerPauses \/ WorkerWaits
      BY <3>3 DEF WorkerClaim, WorkerPauses, WorkerWaits, WorkerOK
    <3>4. CASE WorkerPreflight \/ WorkerContinues \/ WorkerReleases
      <4>1. PICK pc \in {"checkStage", "checkVerify", "stage", "publish", "persist", "settle"} :
              WorkAt(pc)
        BY <3>4 DEF WorkerPreflight, WorkerContinues, WorkerReleases, FirstCheck, NextStep,
           Tests, Checking
      <4> QED
        BY <4>1 DEF WorkAt, WorkerOK
    <3>5. CASE WorkerStages \/ WorkerPublishes
      BY <3>5 DEF WorkerStages, WorkerPublishes, WorkAt, WorkerOK
    <3>6. CASE WorkerStops \/ WorkerPersistsResult \/ WorkerFails
      <4>1. PICK result : Finish(result)
        BY <3>6 DEF WorkerStops, WorkerPersistsResult, WorkerFails
      <4> QED
        BY <4>1 DEF Finish, WorkerOK
    <3> QED
      BY <3>1, <3>2, <3>3, <3>4, <3>5, <3>6 DEF WorkerStep
  <2>2. token'.paused => Checking'
    <3>1. CASE WorkerPauses \/ WorkerWaits \/ WorkerContinues \/ WorkerStops
      BY <3>1 DEF WorkerPauses, WorkerWaits, WorkerContinues, WorkerStops, Leaves, EngineOK, Token,
         Tests, Checking
    <3>2. CASE ~(WorkerPauses \/ WorkerWaits \/ WorkerContinues \/ WorkerStops)
      <4>1. token'.paused = token.paused
        BY <3>2 DEF WorkerStep, WorkerPick, WorkerClaim, WorkerSkips, WorkerStarts,
           WorkerPreflight, WorkerStages, WorkerPublishes, WorkerPersistsResult, WorkerFails,
           WorkerReleases, EngineOK, Token
      <4>2. token.paused => ~Checking
        BY <3>2 DEF WorkerStep, Checking, NextStep, Works, WorkerPick, WorkerClaim, WorkerSkips,
           WorkerStarts, WorkerPreflight, WorkerStages, WorkerPublishes, WorkerPersistsResult,
           WorkerFails, WorkerReleases
      <4> QED
        BY <4>1, <4>2 DEF HeldInv, LiveInv
    <3> QED
      BY <3>1, <3>2
  <2> QED
    BY <1>1, <2>1, <2>2 DEF HeldInv, LiveInv
<1> QED
  BY <1>4, <1>5, <1>6, <1>7 DEF HeldInv

\* Checkpoint history can take one more row (MAX_TASK_HISTORY).
HistoryHasRoom == Cardinality(CheckpointedTerminal) < MaxCheckpointHistory

\* The outcome of a cancelled run lands on a row that is pausing or paused.
LEMMA CancelledLands ==
  ASSUME IInv, HistoryHasRoom, ~StoreFaults, WorkerSettles, worker.result = "cancelled",
         rows[worker.task].status \in {"Pausing", "Paused"}
  PROVE  rows'[worker.task].status \in {"Cancelled", "deleted"}
<1> DEFINE t == worker.task
<1> RowsOK /\ WorkerOK
  BY DEF IInv, ControlOK
<1>1. t \in Tasks
  BY DEF WorkerSettles, Works, WorkerOK
<1>2. t \in Present /\ rows[t].epoch = epoch
  BY <1>1 DEF Present, Absent, IInv, EpochFence
<1>3. Settled(t) = Moved(t, "Cancelled") /\ MaySettle(t)
  BY DEF Settled, MaySettle, CanTransition, Moves, Active
<1>4. Moved(t, "Cancelled") \in Record /\ Moved(t, "Cancelled").status = "Cancelled"
  BY <1>1, MovedType DEF Statuses, Terminal
<1>5. Accepts(t, rows[t].epoch, Settled(t))
  BY <1>2, <1>3, <1>4 DEF Accepts, RoomToReturn, Terminal, HistoryHasRoom
<1>6. Commit(t, Settled(t))
  BY <1>3, <1>5 DEF WorkerSettles
<1> QED
  BY <1>1, <1>3, <1>4, <1>6, CommitRows DEF NoRow

LEMMA HeldSettles ==
  ASSUME IInv, HeldInv, HistoryHasRoom, ~StoreFaults, WorkerSettles PROVE HeldInv'
<1> DEFINE t == worker.task
<1> RowsOK /\ WorkerOK /\ CallsOK
  BY DEF IInv, ControlOK
<1>1. t \in Tasks /\ worker.pc = "settle"
  BY DEF WorkerSettles, Works, WorkerOK
<1>2. /\ Settled(t) \in Record
      /\ Settled(t).status \notin {"Pausing", "Paused"}
  BY SettledType DEF IInv, Terminal
<1>3. ASSUME NEW u \in Tasks, NEW s \in {"Pausing", "Paused"}, rows'[u].status = s
      PROVE  rows[u].status = s
  <2>1. UNCHANGED rows \/ Commit(t, Settled(t))
    BY DEF WorkerSettles
  <2> QED
    BY <1>1, <1>2, <1>3, <2>1, CommitRows DEF NoRow
<1>4. Held(t) /\ rows[t].status \in {"Pausing", "Paused"}
        => rows'[t].status \notin {"Pausing", "Paused"}
  <2>1. Held(t) => worker.result = "cancelled"
    BY <1>1 DEF Held, Checking, NextStep
  <2> QED
    BY <2>1, CancelledLands
<1>5. \A u \in Tasks : rows'[u].status # "Paused"
  <2>1. ASSUME NEW u \in Tasks, rows'[u].status = "Paused" PROVE FALSE
    <3>1. Held(u) /\ u = t /\ rows[u].status = "Paused"
      BY <1>3, <2>1 DEF HeldInv, PausedIsHeld, Held
    <3> QED
      BY <1>4, <2>1, <3>1
  <2> QED
    BY <2>1
<1>6. ASSUME NEW c \in Clients
      PROVE  /\ call'[c].live = FALSE
             /\ call'[c].pc = "pauseCommit"
                  => rows'[call'[c].task].status \notin {"Pausing", "Paused"}
  <2>1. call'[c] = [call[c] EXCEPT !.live = FALSE]
    BY DEF WorkerSettles, DropToken
  <2>2. call'[c].live = FALSE /\ call'[c].pc = call[c].pc /\ call'[c].task = call[c].task
    BY <2>1 DEF CallsOK
  <2>3. ASSUME call[c].pc = "pauseCommit"
        PROVE  rows'[call[c].task].status \notin {"Pausing", "Paused"}
    <3>1. call[c].task \in Tasks
      BY <2>3 DEF CallsOK, TaskSteps, CallSteps
    <3>2. CASE call[c].live
      <4>1. Held(call[c].task) /\ call[c].task = t
        BY <2>3, <3>2 DEF HeldInv, PauseInv, Held
      <4> QED
        BY <1>3, <1>4, <3>1, <4>1
    <3>3. CASE ~call[c].live
      BY <1>3, <2>3, <3>1, <3>3 DEF HeldInv, PauseInv
    <3> QED
      BY <3>2, <3>3
  <2> QED
    BY <2>2, <2>3
<1>7. token'.paused = FALSE
  BY DEF WorkerSettles, DropToken, NewToken
<1> QED
  BY <1>5, <1>6, <1>7 DEF HeldInv, PausedIsHeld, ResumeInv, PauseInv, LiveInv

LEMMA HeldStays ==
  ASSUME OneClient, ~StoreFaults
  PROVE  IInv /\ OwnInv /\ HeldInv /\ HistoryHasRoom /\ [Next]_vars => HeldInv'
<1> SUFFICES ASSUME IInv, OwnInv, HeldInv, HistoryHasRoom, [Next]_vars PROVE HeldInv'
  OBVIOUS
<1>1. ASSUME NEW c \in Clients, BeginCall(c) \/ ContinueCall(c) PROVE HeldInv'
  BY <1>1, HeldBegins, HeldContinues
<1>2. CASE WorkerStep
  BY <1>2, HeldRuns, HeldSettles
<1>3. CASE Restart
  <2>1. \A t \in Tasks : rows'[t].status # "Paused"
    BY <1>3, RestartRows DEF IInv, NoRow, Active
  <2> QED
    BY <1>3, <2>1
    DEF HeldInv, PausedIsHeld, ResumeInv, PauseInv, LiveInv, Restart, NoCall, NewToken
<1>4. CASE UNCHANGED vars
  BY <1>4 DEF vars, HeldInv, PausedIsHeld, ResumeInv, PauseInv, LiveInv, Held, Checking
<1>5. CASE SpuriousWakeUp
  <2>1. /\ token'.paused = token.paused /\ token'.cancelled = token.cancelled
        /\ token'.pauseRequested = token.pauseRequested
        /\ UNCHANGED <<rows, worker, call>>
    BY <1>5, NotifiedToken DEF SpuriousWakeUp, IInv, ControlOK, EngineOK
  <2> QED
    BY <2>1 DEF HeldInv, PausedIsHeld, ResumeInv, PauseInv, LiveInv, Held, Checking
<1> QED
  BY <1>1, <1>2, <1>3, <1>4, <1>5 DEF Next

\* With one client, a store whose writes succeed and checkpoint history that is
\* not full, a row shown as Paused belongs to the run in progress, which stands
\* still or has been cancelled: Paused is written only after the acknowledgement
\* (pause_task), and the outcome replaces it before the token is given up
\* (worker_loop).  A refused outcome would leave the row Paused for ever.
THEOREM PausedRowsAreHeld ==
  ASSUME OneClient, ~StoreFaults
  PROVE  Spec /\ []HistoryHasRoom => []PausedMeansHeld
<1>1. Init => HeldInv
  BY DEF Init, HeldInv, PausedIsHeld, ResumeInv, PauseInv, LiveInv, NoRow, NoCall, NewToken
<1>2. HeldInv => PausedMeansHeld
  BY DEF HeldInv, PausedIsHeld, Held, PausedMeansHeld
<1> QED
  BY <1>1, <1>2, HeldStays, OwnHolds, Inductive, PTL DEF Spec
-----------------------------------------------------------------------------
(* Terminal history stays within its limits.                               *)
(*                                                                         *)
(* HistoryBounded is inductive next to IInv.  Deletions only shrink both   *)
(* kinds of history.  A transaction ends with pruning, which leaves at     *)
(* most MaxTerminalHistory rows it could have deleted; the rows it cannot  *)
(* delete grow only where mutate() has found room for one more.            *)

\* A step that only deletes rows.
LEMMA ShrinkingKeepsHistory ==
  ASSUME RowsOK, HistoryBounded,
         \A t \in Tasks : rows'[t] = rows[t] \/ rows'[t] = NoRow("deleted")
  PROVE  HistoryBounded'
<1>1. "deleted" \notin Terminal
  BY DEF Terminal
<1>2. IsFiniteSet(CheckpointedTerminal) /\ IsFiniteSet(Prunable(rows))
  BY ConstantsAssumption, FS_Subset DEF CheckpointedTerminal, Prunable
<1>3. CheckpointedTerminal' \subseteq CheckpointedTerminal
  BY <1>1 DEF CheckpointedTerminal, NoRow
<1>4. Prunable(rows') \subseteq Prunable(rows)
  BY <1>1 DEF Prunable, NoRow
<1>5. /\ Cardinality(CheckpointedTerminal') <= Cardinality(CheckpointedTerminal)
      /\ Cardinality(Prunable(rows')) <= Cardinality(Prunable(rows))
      /\ Cardinality(CheckpointedTerminal) \in Nat /\ Cardinality(CheckpointedTerminal') \in Nat
      /\ Cardinality(Prunable(rows)) \in Nat /\ Cardinality(Prunable(rows')) \in Nat
  BY <1>2, <1>3, <1>4, FS_Subset, FS_CardinalityType
<1>6. (Cardinality(CheckpointedTerminal))' = Cardinality(CheckpointedTerminal')
  OBVIOUS
<1> QED
  BY <1>5, <1>6, ConstantsAssumption DEF HistoryBounded

\* After pruning the rows it may delete are at most MaxTerminalHistory.
LEMMA PrunedIsBounded ==
  ASSUME NEW table \in [Tasks -> Record], NEW pruned \in Pruned(table)
  PROVE  Cardinality(Prunable(pruned)) <= MaxTerminalHistory
<1>1. PICK gone \in SUBSET Prunable(table) :
        /\ Cardinality(Prunable(table) \ gone) <= MaxTerminalHistory
        /\ pruned = Delete(table, gone)
  BY DEF Pruned
<1>2. gone \subseteq Tasks /\ "deleted" \notin Terminal
  BY DEF Prunable, Terminal
<1>3. /\ \A t \in Tasks \ gone : pruned[t] = table[t]
      /\ \A t \in gone : pruned[t].status = "deleted"
  BY <1>1, <1>2, DeleteType DEF NoRow
<1>4. Prunable(pruned) = Prunable(table) \ gone
  BY <1>2, <1>3 DEF Prunable
<1> QED
  BY <1>1, <1>4

\* A transaction that gives a row a checkpoint-bearing outcome only where there
\* is room for one keeps both limits.
LEMMA CommitKeepsHistory ==
  ASSUME RowsOK, HistoryBounded, NEW t \in Tasks, NEW new \in Record, Commit(t, new),
         (HoldsCheckpoint(new) /\ ~HoldsCheckpoint(rows[t]))
           => Cardinality(CheckpointedTerminal) < MaxCheckpointHistory
  PROVE  HistoryBounded'
<1> DEFINE old == CheckpointedTerminal
           now == CheckpointedTerminal'
           table == [rows EXCEPT ![t] = new]
<1>1. table \in [Tasks -> Record] /\ rows' \in Pruned(table)
  BY DEF RowsOK, Commit
<1>2. Cardinality(Prunable(rows')) <= MaxTerminalHistory
  BY <1>1, PrunedIsBounded
<1>3. "deleted" \notin Terminal
  BY DEF Terminal
<1>4. /\ rows'[t] = new \/ rows'[t] = NoRow("deleted")
      /\ \A u \in Tasks \ {t} : rows'[u] = rows[u] \/ rows'[u] = NoRow("deleted")
  BY CommitRows
<1>5. \A u \in now : u \in old \/ (u = t /\ HoldsCheckpoint(new))
  BY <1>3, <1>4 DEF CheckpointedTerminal, HoldsCheckpoint, NoRow
<1>6. HoldsCheckpoint(rows[t]) <=> t \in old
  BY DEF CheckpointedTerminal, HoldsCheckpoint
<1>7. IsFiniteSet(old) /\ Cardinality(old) \in Nat /\ Cardinality(old) <= MaxCheckpointHistory
  BY ConstantsAssumption, FS_Subset, FS_CardinalityType DEF CheckpointedTerminal, HistoryBounded
<1> HIDE DEF old, now, table
<1>8. CASE now \subseteq old
  <2>1. Cardinality(now) <= Cardinality(old) /\ IsFiniteSet(now)
    BY <1>7, <1>8, FS_Subset
  <2>2. Cardinality(now) <= MaxCheckpointHistory
    BY <1>7, <2>1, FS_CardinalityType, ConstantsAssumption
  <2> QED
    BY <1>2, <2>2 DEF HistoryBounded, now
<1>9. CASE ~(now \subseteq old)
  <2>1. HoldsCheckpoint(new) /\ t \notin old /\ now \subseteq old \cup {t}
    BY <1>5, <1>9
  <2>2. Cardinality(old) < MaxCheckpointHistory
    BY <1>6, <2>1 DEF old
  <2>3. IsFiniteSet(old \cup {t}) /\ Cardinality(old \cup {t}) = Cardinality(old) + 1
    BY <1>7, <2>1, FS_AddElement
  <2>4. Cardinality(now) <= Cardinality(old \cup {t}) /\ IsFiniteSet(now)
    BY <2>1, <2>3, FS_Subset
  <2>5. Cardinality(now) \in Nat
    BY <2>4, FS_CardinalityType
  <2>6. Cardinality(now) <= MaxCheckpointHistory
    BY <1>7, <2>2, <2>3, <2>4, <2>5, ConstantsAssumption
  <2> QED
    BY <1>2, <2>6 DEF HistoryBounded, now
<1> QED
  BY <1>8, <1>9

\* mutate() accepts no record that would overfill the history.
LEMMA AcceptedKeepsHistory ==
  ASSUME RowsOK, HistoryBounded, NEW t, NEW e, NEW new \in Record, Accepts(t, e, new),
         Commit(t, new)
  PROVE  HistoryBounded'
BY CommitKeepsHistory DEF Accepts, RoomToReturn, Present

LEMMA CallsKeepHistory ==
  ASSUME IInv, HistoryBounded, NEW c \in Clients, BeginCall(c) \/ ContinueCall(c)
  PROVE  HistoryBounded'
<1> DEFINE t == call[c].task
<1> RowsOK /\ CallsOK
  BY DEF IInv, ControlOK
<1>1. call[c].pc \in TaskSteps => t \in Tasks
  BY DEF CallsOK
<1>2. CASE UNCHANGED rows
  BY <1>2, ShrinkingKeepsHistory
<1>3. ASSUME NEW gone, rows' = Delete(rows, gone) PROVE HistoryBounded'
  <2>1. \A u \in Tasks : rows'[u] = rows[u] \/ rows'[u] = NoRow("deleted")
    BY <1>3 DEF Delete
  <2> QED
    BY <2>1, ShrinkingKeepsHistory
<1>4. CASE ClearCompleted(c) \/ ClearFailedDelete(c) \/ RemoveRow(c) \/ ClearAllRows(c)
  BY <1>2, <1>3, <1>4 DEF ClearCompleted, ClearFailedDelete, RemoveRow, ClearAllRows
<1>5. CASE EnqueueCommit(c) /\ ~UNCHANGED rows
  <2> DEFINE new == [NoRow("Queued") EXCEPT !.epoch = epoch]
  <2>1. Commit(t, new) /\ t \in Tasks
    BY <1>1, <1>5 DEF EnqueueCommit, At, TaskSteps, CallSteps
  <2>2. new \in Record /\ ~HoldsCheckpoint(new)
    BY DEF NoRow, Record, Statuses, IInv, ControlOK, EngineOK, HoldsCheckpoint
  <2> HIDE DEF new
  <2> QED
    BY <2>1, <2>2, CommitKeepsHistory
<1>6. CASE RequeueCommit(c) /\ ~UNCHANGED rows
  <2> DEFINE new == [Moved(t, "Queued") EXCEPT !.failure = "none"]
  <2>1. Commit(t, new) /\ Accepts(t, call[c].epoch, new) /\ t \in Tasks
    BY <1>1, <1>6 DEF RequeueCommit, At, TaskSteps, CallSteps
  <2>2. new \in Record
    <3>1. Moved(t, "Queued") \in Record
      BY <2>1, MovedType DEF Statuses
    <3> QED
      BY <3>1 DEF Record
  <2> HIDE DEF new
  <2> QED
    BY <2>1, <2>2, AcceptedKeepsHistory
<1>7. ASSUME t \in Tasks, NEW s \in Statuses, NEW pc, UpdateThen(c, s, pc)
      PROVE  HistoryBounded'
  <2>1. CASE CanMove(t, call[c].epoch, s)
    <3>1. Accepts(t, call[c].epoch, Moved(t, s)) /\ Commit(t, Moved(t, s))
      BY <1>7, <2>1 DEF UpdateThen, CanMove
    <3>2. Moved(t, s) \in Record
      BY <1>7, MovedType
    <3> QED
      BY <3>1, <3>2, AcceptedKeepsHistory
  <2>2. CASE ~CanMove(t, call[c].epoch, s)
    BY <1>2, <1>7, <2>2 DEF UpdateThen
  <2> QED
    BY <2>1, <2>2
<1>8. CASE BeginCall(c) /\ ~ClearCompleted(c)
  BY <1>2, <1>8 DEF BeginCall, EnqueueBegin, RequeueBegin, PauseBegin, ResumeBegin, CancelBegin,
     InterruptBegin, RemoveBegin, ClearFailedBegin, ClearAllBegin
<1>9. CASE PauseMark(c) \/ PauseCommit(c) \/ ResumeMark(c) \/ ResumeCommit(c)
           \/ CancelMark(c) \/ CancelDirect(c)
  <2>1. t \in Tasks
    BY <1>1, <1>9 DEF PauseMark, PauseCommit, ResumeMark, ResumeCommit, CancelMark, CancelDirect,
       At, TaskSteps, CallSteps
  <2>2. PICK s \in {"Pausing", "Paused", "Resuming", "Running", "Cancelling", "Cancelled"} :
          \E pc \in CallSteps : UpdateThen(c, s, pc)
    BY <1>9 DEF PauseMark, PauseCommit, ResumeMark, ResumeCommit, CancelMark, CancelDirect,
       CallSteps
  <2>3. s \in Statuses
    BY DEF Statuses, Active, Terminal
  <2> QED
    BY <1>7, <2>1, <2>2, <2>3
<1>10. CASE InterruptMark(c)
  <2>1. t \in Tasks
    BY <1>1, <1>10 DEF InterruptMark, At, TaskSteps, CallSteps
  <2>2. UNCHANGED rows \/ UpdateThen(c, "Interrupted", "interruptSignal")
    BY <1>10 DEF InterruptMark
  <2>3. "Interrupted" \in Statuses
    BY DEF Statuses, Waiting
  <2> QED
    BY <1>2, <1>7, <2>1, <2>2, <2>3
<1>11. CASE PauseSignal(c) \/ PauseAcknowledged(c) \/ PauseTimeout(c) \/ ResumeSignal(c)
            \/ CancelSignal(c) \/ InterruptSignal(c) \/ RemoveFiles(c) \/ ClearAllFiles(c)
            \/ ClearAllFails(c) \/ StoreFails(c)
  BY <1>2, <1>11 DEF PauseSignal, PauseAcknowledged, PauseTimeout, ResumeSignal, CancelSignal,
     InterruptSignal, RemoveFiles, ClearAllFiles, ClearAllFails, StoreFails
<1> QED
  BY <1>2, <1>4, <1>5, <1>6, <1>8, <1>9, <1>10, <1>11 DEF ContinueCall

LEMMA WorkerKeepsHistory == ASSUME IInv, HistoryBounded, WorkerStep PROVE HistoryBounded'
<1> DEFINE t == worker.task
<1> RowsOK /\ ControlOK /\ WorkerOK
  BY DEF IInv, ControlOK
<1>1. worker.pc # "idle" => t \in Tasks
  BY DEF WorkerOK
<1>2. CASE UNCHANGED rows
  BY <1>2, ShrinkingKeepsHistory
<1>3. CASE WorkerStarts
  <2> DEFINE new == [Moved(t, "Running") EXCEPT !.attempts = @ + 1]
  <2>1. t \in Tasks
    BY <1>1, <1>3 DEF WorkerStarts, Works
  <2>2. new \in Record
    BY <2>1, StartedType
  <2>3. UNCHANGED rows \/ (Accepts(t, worker.epoch, new) /\ Commit(t, new))
    BY <1>3 DEF WorkerStarts
  <2> HIDE DEF new
  <2> QED
    BY <1>2, <2>2, <2>3, AcceptedKeepsHistory
<1>4. CASE WorkerPreflight
  BY <1>1, <1>4, AcceptedKeepsHistory DEF WorkerPreflight, Works, RowsOK
<1>5. ASSUME NEW new \in Record, Persist(new) \/ PersistFails(new) PROVE HistoryBounded'
  BY <1>2, <1>5, AcceptedKeepsHistory DEF Persist, PersistFails
<1>6. CASE WorkerStages
  <2> DEFINE new == [rows[t] EXCEPT !.checkpoint = TRUE]
  <2>1. t \in Tasks
    BY <1>1, <1>6 DEF WorkerStages, Works
  <2>2. new \in Record
    BY <2>1, MarkedType
  <2>3. Persist(new) \/ PersistFails(new)
    BY <1>6 DEF WorkerStages
  <2> HIDE DEF new
  <2> QED
    BY <1>5, <2>2, <2>3
<1>7. CASE WorkerPersistsResult
  <2> DEFINE new == [rows[t] EXCEPT !.result = TRUE]
  <2>1. t \in Tasks
    BY <1>1, <1>7 DEF WorkerPersistsResult, Works
  <2>2. new \in Record
    BY <2>1, MarkedType
  <2>3. Persist(new) \/ PersistFails(new)
    BY <1>7 DEF WorkerPersistsResult
  <2> HIDE DEF new
  <2> QED
    BY <1>5, <2>2, <2>3
<1>8. CASE WorkerSettles
  <2>1. UNCHANGED rows \/ (Accepts(t, rows[t].epoch, Settled(t)) /\ Commit(t, Settled(t)))
    BY <1>8 DEF WorkerSettles
  <2>2. Settled(t) \in Record
    BY <1>8, SettledType
  <2> QED
    BY <1>2, <2>1, <2>2, AcceptedKeepsHistory
<1>9. CASE \/ WorkerPick \/ WorkerClaim \/ WorkerSkips \/ WorkerContinues \/ WorkerPauses
           \/ WorkerWaits \/ WorkerStops \/ WorkerPublishes \/ WorkerFails \/ WorkerReleases
  BY <1>2, <1>9 DEF WorkerPick, WorkerClaim, WorkerSkips, WorkerContinues, WorkerPauses,
     WorkerWaits, WorkerStops, WorkerPublishes, WorkerFails, WorkerReleases
<1> QED
  BY <1>3, <1>4, <1>6, <1>7, <1>8, <1>9 DEF WorkerStep

LEMMA RestartKeepsHistory == ASSUME IInv, HistoryBounded, Restart PROVE HistoryBounded'
<1> DEFINE table == [t \in Tasks |-> Recovered(t)]
<1> RowsOK
  BY DEF IInv
<1>1. table \in [Tasks -> Record] /\ rows' \in Pruned(table)
  BY MovedType DEF RowsOK, Recovered, Statuses, Waiting, Restart
<1>2. Cardinality(Prunable(rows')) <= MaxTerminalHistory
  BY <1>1, PrunedIsBounded
<1>3. \A t \in Tasks : rows'[t] = table[t] \/ PrunedAway(table, rows', t)
  BY <1>1, PrunedType
<1>4. ASSUME NEW t \in Tasks, rows'[t].status \in Terminal PROVE rows'[t] = rows[t]
  <2>1. "deleted" \notin Terminal /\ "Interrupted" \notin Terminal
    BY DEF Terminal
  <2>2. rows'[t] = Recovered(t)
    BY <1>3, <1>4, <2>1 DEF PrunedAway, NoRow
  <2>3. Moved(t, "Interrupted").status = "Interrupted"
    BY MovedType DEF Statuses, Waiting
  <2> QED
    BY <1>4, <2>1, <2>2, <2>3 DEF Recovered
<1>5. CheckpointedTerminal' \subseteq CheckpointedTerminal
  BY <1>4 DEF CheckpointedTerminal
<1>6. IsFiniteSet(CheckpointedTerminal)
  BY ConstantsAssumption, FS_Subset DEF CheckpointedTerminal
<1>7. /\ Cardinality(CheckpointedTerminal') <= Cardinality(CheckpointedTerminal)
      /\ Cardinality(CheckpointedTerminal) \in Nat /\ Cardinality(CheckpointedTerminal') \in Nat
  BY <1>5, <1>6, FS_Subset, FS_CardinalityType
<1>8. (Cardinality(CheckpointedTerminal))' = Cardinality(CheckpointedTerminal')
  OBVIOUS
<1> QED
  BY <1>2, <1>7, <1>8, ConstantsAssumption DEF HistoryBounded

LEMMA HistoryKept == IInv /\ HistoryBounded /\ [Next]_vars => HistoryBounded'
<1> SUFFICES ASSUME IInv, HistoryBounded, [Next]_vars PROVE HistoryBounded'
  OBVIOUS
<1>1. CASE SpuriousWakeUp \/ UNCHANGED vars
  BY <1>1, ShrinkingKeepsHistory DEF vars, SpuriousWakeUp, IInv
<1> QED
  BY <1>1, CallsKeepHistory, WorkerKeepsHistory, RestartKeepsHistory DEF Next

\* Terminal history stays within its two limits, for any number of tasks and
\* clients, crashes and failed writes: pruning deletes none of the rows that
\* hold a checkpoint, so mutate() must refuse the outcome that would be one too
\* many (prune and mutate in store.rs).
THEOREM HistoryStaysBounded == Spec => []HistoryBounded
<1>1. Init => HistoryBounded
  <2> SUFFICES ASSUME Init PROVE HistoryBounded
    OBVIOUS
  <2>1. CheckpointedTerminal = {} /\ Prunable(rows) = {}
    BY DEF Init, CheckpointedTerminal, Prunable, NoRow, Terminal
  <2> QED
    BY <2>1, FS_EmptySet, ConstantsAssumption DEF HistoryBounded
<1> QED
  BY <1>1, HistoryKept, Inductive, PTL DEF Spec

=============================================================================
