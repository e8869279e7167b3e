---------------------------- MODULE CancelToken ----------------------------
(***************************************************************************)
(* The CancellationToken of cakesplitter-core: three flags that are read   *)
(* and written without a lock, and a mutex with a condition variable on    *)
(* which the streaming operation parks while it is paused and a caller     *)
(* waits for the acknowledgement.  One action is one atomic access to a    *)
(* flag, one notification, or one operation on the mutex.                  *)
(***************************************************************************)
EXTENDS FiniteSets

CONSTANTS
  Callers,         \* threads that pause, resume, cancel and wait
  Operation,       \* the thread that runs the streaming operation
  Nobody,          \* the mutex is free
  Spurious         \* threads whose waits may end without a notification

ASSUME TokenAssumption ==
  /\ Operation \notin Callers /\ Nobody \notin Callers \cup {Operation}
  /\ Spurious \subseteq Callers \cup {Operation}

VARIABLES
  cancelled, pauseRequested, paused,  \* the atomic flags
  lock,      \* the thread that holds wait_lock
  waiting,   \* the threads parked on wait_condition
  pc         \* where each thread is

vars == <<cancelled, pauseRequested, paused, lock, waiting, pc>>
flags == <<cancelled, pauseRequested, paused>>

Threads == Callers \cup {Operation}

Init ==
  /\ cancelled = FALSE /\ pauseRequested = FALSE /\ paused = FALSE
  /\ lock = Nobody /\ waiting = {}
  /\ pc = [t \in Threads |-> IF t = Operation THEN "work" ELSE "idle"]

-----------------------------------------------------------------------------
(* The mutex and the condition variable.                                   *)

At(t, place) == pc[t] = place
Goto(t, place) == pc' = [pc EXCEPT ![t] = place]

Acquire(t) == lock = Nobody /\ lock' = t
Release(t) == lock' = IF lock = t THEN Nobody ELSE lock
NotifyAll == waiting' = {}

\* Condvar::wait releases the mutex and parks in one step; a thread that is
\* no longer parked takes the mutex again before it goes on.
Park(t) == lock' = Nobody /\ waiting' = waiting \cup {t}
Awake(t) == t \notin waiting

-----------------------------------------------------------------------------
(* checkpoint(), called by the operation between two units of work.        *)

op == Operation

CheckCancelled ==
  /\ At(op, "work") /\ Goto(op, IF cancelled THEN "stopped" ELSE "request")
  /\ UNCHANGED <<flags, lock, waiting>>

\* A faulty checkpoint: it does not look at the pause request.
CheckNothing ==
  /\ At(op, "request") /\ Goto(op, "work") /\ UNCHANGED <<flags, lock, waiting>>

CheckRequest ==
  /\ At(op, "request") /\ Goto(op, IF pauseRequested THEN "lock" ELSE "work")
  /\ UNCHANGED <<flags, lock, waiting>>

\* A faulty checkpoint: it does not take wait_lock before it parks.
AnnounceUnlocked ==
  /\ At(op, "lock") /\ paused' = TRUE /\ Goto(op, "announce")
  /\ UNCHANGED <<cancelled, pauseRequested, lock, waiting>>

EnterPause ==
  /\ At(op, "lock") /\ Acquire(op) /\ paused' = TRUE /\ Goto(op, "announce")
  /\ UNCHANGED <<cancelled, pauseRequested, waiting>>

Announce ==
  /\ At(op, "announce") /\ NotifyAll /\ Goto(op, "testRequest")
  /\ UNCHANGED <<flags, lock>>

TestRequest ==
  /\ At(op, "testRequest") /\ Goto(op, IF pauseRequested THEN "testCancel" ELSE "leave")
  /\ UNCHANGED <<flags, lock, waiting>>

\* A faulty checkpoint: a paused operation only looks for the end of the pause.
TestNothing ==
  /\ At(op, "testCancel") /\ Goto(op, "park") /\ UNCHANGED <<flags, lock, waiting>>

TestCancel ==
  /\ At(op, "testCancel") /\ Goto(op, IF cancelled THEN "leave" ELSE "park")
  /\ UNCHANGED <<flags, lock, waiting>>

ParkOperation ==
  /\ At(op, "park") /\ Park(op) /\ Goto(op, "parked") /\ UNCHANGED flags

WakeUp ==
  /\ At(op, "parked") /\ Awake(op) /\ Acquire(op) /\ Goto(op, "testRequest")
  /\ UNCHANGED <<flags, waiting>>

\* A faulty checkpoint that leaves without clearing the acknowledgement.
LeaveFlagSet ==
  /\ At(op, "leave") /\ Goto(op, "left") /\ UNCHANGED <<flags, lock, waiting>>

LeavePause ==
  /\ At(op, "leave") /\ paused' = FALSE /\ Goto(op, "left")
  /\ UNCHANGED <<cancelled, pauseRequested, lock, waiting>>

\* The last notification, and the guard dropped on return.
Return ==
  /\ At(op, "left") /\ NotifyAll /\ Release(op)
  /\ Goto(op, IF cancelled THEN "stopped" ELSE "work")
  /\ UNCHANGED flags

\* The operation comes to its end between two checkpoints.
Done ==
  /\ At(op, "work") /\ Goto(op, "stopped")
  /\ UNCHANGED <<flags, lock, waiting>>

-----------------------------------------------------------------------------
(* The callers: pause, resume, cancel, wait_until_paused.                  *)

Pause(c) ==
  /\ At(c, "idle") /\ pauseRequested' = TRUE
  /\ UNCHANGED <<cancelled, paused, lock, waiting, pc>>

Resume(c) ==
  /\ At(c, "idle") /\ pauseRequested' = FALSE /\ Goto(c, "notify")
  /\ UNCHANGED <<cancelled, paused, lock, waiting>>

Cancel(c) ==
  /\ At(c, "idle") /\ cancelled' = TRUE /\ Goto(c, "notify")
  /\ UNCHANGED <<pauseRequested, paused, lock, waiting>>

Notify(c) ==
  /\ At(c, "notify") /\ NotifyAll /\ Goto(c, "idle")
  /\ UNCHANGED <<flags, lock>>

Await(c) ==
  /\ At(c, "idle") /\ Acquire(c) /\ Goto(c, "test")
  /\ UNCHANGED <<flags, waiting>>

\* The two flags and the wait are one step here: only a timeout differs.
AwaitTest(c) ==
  /\ At(c, "test")
  /\ IF paused \/ cancelled
       THEN Goto(c, "idle") /\ Release(c) /\ UNCHANGED waiting
       ELSE Goto(c, "await") /\ Park(c)
  /\ UNCHANGED flags

AwaitWakes(c) ==
  /\ At(c, "await") /\ Awake(c) /\ Acquire(c) /\ Goto(c, "test")
  /\ UNCHANGED <<flags, waiting>>

\* The wait timed out: the mutex is taken once more before the call returns.
AwaitTimesOut(c) ==
  /\ At(c, "await") /\ Acquire(c) /\ waiting' = waiting \ {c} /\ Goto(c, "last")
  /\ UNCHANGED flags

AwaitReturns(c) ==
  /\ At(c, "last") /\ Release(c) /\ Goto(c, "idle")
  /\ UNCHANGED <<flags, waiting>>

\* Condvar allows spurious wake-ups.
SpuriousWakeUp(t) ==
  /\ t \in waiting /\ waiting' = waiting \ {t}
  /\ UNCHANGED <<flags, lock, pc>>

-----------------------------------------------------------------------------
OperationStep ==
  \/ CheckCancelled \/ CheckRequest \/ EnterPause \/ Announce \/ TestRequest
  \/ TestCancel \/ ParkOperation \/ WakeUp \/ LeavePause \/ Return \/ Done

\* Calls go on by themselves once made; making one is up to the user.
CallStep(c) ==
  \/ Notify(c) \/ AwaitTest(c) \/ AwaitWakes(c) \/ AwaitTimesOut(c) \/ AwaitReturns(c)
NewCall(c) == Pause(c) \/ Resume(c) \/ Cancel(c) \/ Await(c)

Next ==
  \/ OperationStep
  \/ \E c \in Callers : CallStep(c) \/ NewCall(c)
  \/ \E t \in Spurious : SpuriousWakeUp(t)

Spec == Init /\ [][Next]_vars

\* Every thread is scheduled, and gets a mutex that is free again and again.
FairSpec ==
  /\ Spec
  /\ SF_vars(OperationStep)
  /\ \A c \in Callers : SF_vars(CallStep(c))

-----------------------------------------------------------------------------
(* Properties.                                                             *)

OperationPlaces ==
  {"work", "request", "lock", "announce", "testRequest", "testCancel", "park", "parked",
   "leave", "left", "stopped"}
CallerPlaces == {"idle", "notify", "test", "await", "last"}

TypeOK ==
  /\ cancelled \in BOOLEAN /\ pauseRequested \in BOOLEAN /\ paused \in BOOLEAN
  /\ lock \in Threads \cup {Nobody}
  /\ waiting \subseteq Threads
  /\ pc \in [Threads -> OperationPlaces \cup CallerPlaces]
  /\ pc[op] \in OperationPlaces
  /\ \A c \in Callers : pc[c] \in CallerPlaces

\* The operation is inside its pause: it does no work on its files.
Holding == pc[op] \in {"announce", "testRequest", "testCancel", "park", "parked", "leave"}

\* The acknowledgement is up exactly while the operation holds still, so a
\* caller that reads it never sees that of an earlier pause.
PausedIsHolding == paused <=> Holding

\* When a caller finds its pause acknowledged the operation is parked, or woken
\* and without the mutex: it stands still until the caller has returned.
AckMeansParked ==
  \A c \in Callers :
    (pc[c] \in {"test", "last"} /\ paused) => pc[op] = "parked"

\* Only one thread is between the acquisition and the release of wait_lock.
MutexHeld ==
  /\ pc[op] \in {"announce", "testRequest", "testCancel", "park", "leave", "left"} <=> lock = op
  /\ \A c \in Callers : pc[c] \in {"test", "last"} <=> lock = c

\* A requested pause is acknowledged, withdrawn or overtaken by the end.
PauseAcknowledged ==
  pauseRequested ~> (paused \/ ~pauseRequested \/ cancelled \/ pc[op] = "stopped")

\* A cancellation made while the operation is parked ends it, whatever the
\* other callers do (cancel notifies after it has set the flag, and the parked
\* operation tests the flag again).
CancelEndsParked ==
  \A c \in Callers :
    (At(c, "notify") /\ cancelled /\ op \in waiting) ~> At(op, "stopped")

\* Claim: cancellation wakes a paused operation.
CancelWakesPaused == (paused /\ cancelled) ~> ~paused
=============================================================================
