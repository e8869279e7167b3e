------------------------- MODULE CancelTokenProofs -------------------------
(***************************************************************************)
(* Proofs about CancelToken, for any number of callers and any spurious    *)
(* wake-ups.  The flags are touched without the mutex, so what a caller    *)
(* may conclude from `paused' rests on who holds wait_lock: the inductive  *)
(* invariant joins the two.                                                *)
(***************************************************************************)
EXTENDS CancelToken, TLAPS

IInv == TypeOK /\ MutexHeld /\ PausedIsHolding

USE TokenAssumption

LEMMA InitHolds == Init => IInv
BY DEF Init, IInv, TypeOK, MutexHeld, PausedIsHolding, Holding, Threads, op,
       OperationPlaces, CallerPlaces

\* Every step of checkpoint() keeps the invariant.
LEMMA OperationKeeps == ASSUME IInv, OperationStep PROVE IInv'
<1> USE DEF IInv, TypeOK, MutexHeld, PausedIsHolding, Holding, Threads, op, flags,
            OperationPlaces, CallerPlaces, At, Goto, Acquire, Release, NotifyAll,
            Park, Awake
<1>1. CASE CheckCancelled BY <1>1 DEF CheckCancelled
<1>2. CASE CheckRequest BY <1>2 DEF CheckRequest
<1>3. CASE EnterPause BY <1>3 DEF EnterPause
<1>4. CASE Announce BY <1>4 DEF Announce
<1>5. CASE TestRequest BY <1>5 DEF TestRequest
<1>6. CASE TestCancel BY <1>6 DEF TestCancel
<1>7. CASE ParkOperation BY <1>7 DEF ParkOperation
<1>8. CASE WakeUp BY <1>8 DEF WakeUp
<1>9. CASE LeavePause BY <1>9 DEF LeavePause
<1>10. CASE Return BY <1>10 DEF Return
<1>11. CASE Done BY <1>11 DEF Done
<1> QED
  BY <1>1, <1>2, <1>3, <1>4, <1>5, <1>6, <1>7, <1>8, <1>9, <1>10, <1>11
  DEF OperationStep

\* Every step of a caller keeps the invariant.
LEMMA CallerKeeps ==
  ASSUME IInv, NEW c \in Callers, CallStep(c) \/ NewCall(c) PROVE IInv'
<1> USE DEF IInv, TypeOK, MutexHeld, PausedIsHolding, Holding, Threads, op, flags,
            OperationPlaces, CallerPlaces, At, Goto, Acquire, Release, NotifyAll,
            Park, Awake
<1>1. CASE Pause(c) BY <1>1 DEF Pause
<1>2. CASE Resume(c) BY <1>2 DEF Resume
<1>3. CASE Cancel(c) BY <1>3 DEF Cancel
<1>4. CASE Notify(c) BY <1>4 DEF Notify
<1>5. CASE Await(c) BY <1>5 DEF Await
<1>6. CASE AwaitTest(c) BY <1>6 DEF AwaitTest
<1>7. CASE AwaitWakes(c) BY <1>7 DEF AwaitWakes
<1>8. CASE AwaitTimesOut(c) BY <1>8 DEF AwaitTimesOut
<1>9. CASE AwaitReturns(c) BY <1>9 DEF AwaitReturns
<1> QED
  BY <1>1, <1>2, <1>3, <1>4, <1>5, <1>6, <1>7, <1>8, <1>9 DEF CallStep, NewCall

LEMMA StepKeeps == IInv /\ [Next]_vars => IInv'
<1> SUFFICES ASSUME IInv, [Next]_vars PROVE IInv'
  OBVIOUS
<1>1. CASE OperationStep BY <1>1, OperationKeeps
<1>2. ASSUME NEW c \in Callers, CallStep(c) \/ NewCall(c) PROVE IInv'
  BY <1>2, CallerKeeps
<1>3. ASSUME NEW t \in Spurious, SpuriousWakeUp(t) PROVE IInv'
  BY <1>3 DEF SpuriousWakeUp, IInv, TypeOK, MutexHeld, PausedIsHolding, Holding,
              Threads, op, flags
<1>4. CASE UNCHANGED vars
  BY <1>4 DEF vars, IInv, TypeOK, MutexHeld, PausedIsHolding, Holding, Threads, op
<1> QED
  BY <1>1, <1>2, <1>3, <1>4 DEF Next

\* The variables keep their types under every interleaving.
THEOREM TypeCorrect == Spec => []TypeOK
<1>1. IInv => TypeOK BY DEF IInv
<1> QED BY InitHolds, StepKeeps, <1>1, PTL DEF Spec

\* The acknowledgement is never left over from an earlier pause: `paused' is
\* set exactly while the operation is inside checkpoint()'s pause.
THEOREM AcknowledgementIsCurrent == Spec => []PausedIsHolding
<1>1. IInv => PausedIsHolding BY DEF IInv
<1> QED BY InitHolds, StepKeeps, <1>1, PTL DEF Spec

\* wait_until_paused never returns true while the operation is at work.
THEOREM AcknowledgedMeansParked == Spec => []AckMeansParked
<1>1. IInv => AckMeansParked
  BY DEF IInv, TypeOK, MutexHeld, PausedIsHolding, Holding, AckMeansParked, op, Threads
<1> QED BY InitHolds, StepKeeps, <1>1, PTL DEF Spec
=============================================================================
