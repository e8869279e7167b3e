--------------------------- MODULE SchedulerProofs ---------------------------
(***************************************************************************)
(* Proofs about Scheduler, for any tasks, priorities, window and bound on  *)
(* places.  Places follow arrival (IInv); then a task that is picked over  *)
(* an earlier one has a higher priority and is less than two windows       *)
(* behind it, and those that passed a waiting task and are still in the    *)
(* table, not moved, have different places in an interval of that length.  *)
(***************************************************************************)
EXTENDS Scheduler, TLAPS, WellFoundedInduction, FiniteSetTheorems

-----------------------------------------------------------------------------
(* Facts about Max and division.                                           *)

\* Max exists for a set of naturals that has a bound: its gap to the bound is
\* the least one.
LEMMA MaxOfBounded ==
  ASSUME NEW S, NEW b \in Nat, S \subseteq 0..b, S # {}
  PROVE  Max(S) \in S /\ \A y \in S : Max(S) >= y
<1> DEFINE Less == OpToRel(<, Nat)
           Gaps == {b - x : x \in S}
<1>0. \A x \in S : x \in Int /\ b - x \in Nat OBVIOUS
<1>1. Gaps \subseteq Nat /\ Gaps # {}
  <2>1. Gaps \subseteq Nat BY <1>0
  <2>2. PICK x \in S : TRUE OBVIOUS
  <2>3. b - x \in Gaps OBVIOUS
  <2> QED BY <2>1, <2>3
<1>2. PICK g \in Gaps : \A h \in Gaps : ~(<<h, g>> \in Less)
  BY <1>1, NatLessThanWellFounded, WFMin
<1>3. \A h \in Gaps : g <= h
  <2> SUFFICES ASSUME NEW h \in Gaps PROVE g <= h OBVIOUS
  <2>1. g \in Nat /\ h \in Nat BY <1>1
  <2>2. ASSUME h < g PROVE <<h, g>> \in Less
    <3>1. <<h, g>> \in Nat \X Nat /\ <<h, g>>[1] = h /\ <<h, g>>[2] = g BY <2>1
    <3>2. <<h, g>>[1] < <<h, g>>[2] BY <2>2, <3>1
    <3> HIDE DEF Gaps
    <3> QED BY <3>1, <3>2, Zenon DEF OpToRel
  <2>3. ~(h < g)
    <3> HIDE DEF Gaps, Less
    <3> QED BY <2>2, <1>2, Zenon
  <2> QED BY <2>1, <2>3
<1>4. PICK m \in S : g = b - m OBVIOUS
<1>5. \A y \in S : m >= y
  <2> SUFFICES ASSUME NEW y \in S PROVE m >= y OBVIOUS
  <2>1. b - y \in Gaps OBVIOUS
  <2> QED BY <1>0, <1>3, <1>4, <2>1
<1>6. \E x \in S : \A y \in S : x >= y BY <1>5
<1> HIDE DEF Gaps, Less
<1> QED BY <1>6, Zenon DEF Max

\* Who has waited longer has been promoted at least as often.
LEMMA DivMonotone ==
  ASSUME NEW a \in Nat, NEW b \in Nat, a <= b PROVE a \div Window <= b \div Window
<1>1. Window \in Nat /\ Window > 0 BY ConstantsAssumption
<1>2. /\ a \div Window \in Int /\ b \div Window \in Int 
      /\ a = Window * (a \div Window) + (a % Window) /\ a % Window \in 0..(Window-1)
      /\ b = Window * (b \div Window) + (b % Window) /\ b % Window \in 0..(Window-1)
 BY <1>1
<1> DEFINE p == a \div Window
           q == b \div Window
<1>3. ASSUME p > q PROVE FALSE
  <2>1. Window * p >= Window * (q + 1) BY <1>1, <1>2, <1>3
  <2>2. Window * (q+1) = Window * q + Window BY <1>1, <1>2
  <2> QED BY <2>1, <2>2, <1>2, <1>1
<1> QED BY <1>2, <1>3

-----------------------------------------------------------------------------
(* The inductive invariant.                                                *)

OrdersBounded == \A t \in Tasks : rows[t].order \in 0..OrderBound
BeforePresent == \A t \in Tasks : before[t] \subseteq Present
IInv == TypeOK /\ OrdersBounded /\ BeforePresent /\ ArrivalOrder

\* The empty table.
LEMMA InitHolds == Init => IInv
BY ConstantsAssumption DEF Init, IInv, TypeOK, OrdersBounded, BeforePresent, ArrivalOrder,
   Present, NoRow, Statuses, Idle

\* The next place is after that of every row in the table.
LEMMA NextOrderIsLater ==
  ASSUME IInv
  PROVE  /\ NextQueueOrder \in Nat
         /\ \A t \in Present : rows[t].order < NextQueueOrder
<1> DEFINE S == {0} \cup {rows[t].order : t \in Present}
<1>1. S \subseteq 0..OrderBound /\ S # {} /\ OrderBound \in Nat
  BY ConstantsAssumption DEF IInv, OrdersBounded, Present
<1>2. Max(S) \in S /\ \A y \in S : Max(S) >= y
  <2> HIDE DEF S
  <2> QED BY <1>1, MaxOfBounded
<1>3. Max(S) \in Nat BY <1>1, <1>2
<1>4. \A t \in Present : rows[t].order \in S OBVIOUS
<1>5. NextQueueOrder = 1 + Max(S) BY DEF NextQueueOrder
<1> HIDE DEF S
<1>6. ASSUME NEW t \in Present PROVE rows[t].order < NextQueueOrder
  <2>1. rows[t].order \in S /\ Max(S) >= rows[t].order BY <1>2, <1>4
  <2>2. rows[t].order \in Nat BY DEF IInv, TypeOK, Present
  <2> QED BY <2>1, <2>2, <1>3, <1>5
<1> QED BY <1>3, <1>5, <1>6

\* A new row is the last to arrive and gets the last place.
LEMMA AdmitKeeps ==
  ASSUME IInv, NEW t \in Tasks, NEW rank \in Priorities, Admit(t, rank) PROVE IInv'
<1> USE ConstantsAssumption DEF IInv
<1>1. rank \in 0..2 OBVIOUS
<1>2. TypeOK' BY <1>1, NextOrderIsLater DEF Admit, TypeOK, Statuses, Present, Idle
<1>3. Present' = Present \cup {t} /\ t \notin Present
  BY DEF Admit, TypeOK, Present
<1>4. OrdersBounded' BY NextOrderIsLater DEF Admit, OrdersBounded, TypeOK
<1>5. BeforePresent' BY <1>3 DEF Admit, BeforePresent, TypeOK
<1>6. ArrivalOrder'
  <2> SUFFICES ASSUME NEW u \in Present', NEW v \in before'[u]
               PROVE rows'[v].order < rows'[u].order BY DEF ArrivalOrder
  <2>1. CASE u = t
    <3>1. v \in Present /\ v # t BY <2>1, <1>3 DEF Admit, TypeOK
    <3>2. rows'[v].order = rows[v].order /\ rows'[t].order = NextQueueOrder
      BY <3>1 DEF Admit, TypeOK, Present
    <3> QED BY <3>1, <3>2, <2>1, NextOrderIsLater
  <2>2. CASE u # t
    <3>1. u \in Present /\ v \in before[u] /\ v \in Present /\ v # t
      BY <2>2, <1>3 DEF Admit, TypeOK, BeforePresent, Present
    <3>2. rows'[v] = rows[v] /\ rows'[u] = rows[u] BY <2>2, <3>1 DEF Admit, TypeOK, Present
    <3> QED BY <3>1, <3>2 DEF ArrivalOrder
  <2> QED BY <2>1, <2>2
<1> QED BY <1>2, <1>4, <1>5, <1>6

\* A removal forgets the row on both sides.
LEMMA RemoveKeeps == ASSUME IInv, NEW t \in Tasks, Remove(t) PROVE IInv'
<1> USE ConstantsAssumption DEF IInv
<1>1. TypeOK' BY DEF Remove, TypeOK, Statuses, NoRow, Idle
<1>2. Present' = Present \ {t}
  BY DEF Remove, TypeOK, Present, NoRow
<1>3. OrdersBounded' BY DEF Remove, OrdersBounded, TypeOK, NoRow
<1>4. BeforePresent' BY <1>2 DEF Remove, BeforePresent, TypeOK
<1>5. ArrivalOrder' BY <1>2 DEF Remove, ArrivalOrder, TypeOK, Present
<1> QED BY <1>1, <1>3, <1>4, <1>5

\* A move exchanges places and arrivals alike.
LEMMA MoveKeeps ==
  ASSUME IInv, NEW t \in Tasks, NEW direction, MoveQueued(t, direction) PROVE IInv'
<1> USE ConstantsAssumption DEF IInv
<1>1. PICK u \in Tasks :
        LET other(v) == IF v = t THEN u ELSE IF v = u THEN t ELSE v
        IN /\ Neighbour(t, u, direction)
           /\ rows' = [rows EXCEPT ![t].order = rows[u].order, ![u].order = rows[t].order]
           /\ before' = [v \in Tasks |-> {other(w) : w \in before[other(v)]}]
           /\ passed' = [v \in Tasks |-> IF v \in {t, u} THEN {} ELSE passed[v] \ {t, u}]
  BY DEF MoveQueued
<1> DEFINE other(v) == IF v = t THEN u ELSE IF v = u THEN t ELSE v
<1>2. /\ u # t /\ u \in Queued /\ t \in Queued
      BY <1>1 DEF Neighbour, Peers, MoveQueued, Queued
<1>3. \A v \in Tasks : /\ rows'[v].order = rows[other(v)].order
                        /\ rows'[v].status = rows[v].status
                        /\ other(v) \in Tasks
  BY <1>1, <1>2 DEF TypeOK
<1>4. Present' = Present /\ \A v \in Present : other(v) \in Present
  BY <1>2, <1>3 DEF Present, Queued
<1>5. \A v \in Tasks : before'[v] = {other(w) : w \in before[other(v)]} BY <1>1
<1>6. TypeOK'
  <2>1. rows' \in [Tasks -> [status : Statuses, rank : 0..2, order : Nat]]
    <3>1. rows' = [v \in Tasks |-> [rows[v] EXCEPT !.order = rows[other(v)].order]]
      BY <1>1, <1>2 DEF TypeOK
    <3>2. \A v \in Tasks : rows[other(v)].order \in Nat BY <1>3 DEF TypeOK
    <3> HIDE DEF other
    <3> QED BY <3>1, <3>2 DEF TypeOK
  <2>2. before' \in [Tasks -> SUBSET Tasks]
    BY <1>1, <1>3 DEF TypeOK
  <2>3. worker' = worker BY DEF MoveQueued
  <2>4. worker'.pc = "running" => rows'[worker'.task].status = "running"
    <3>1. worker.pc = "running" => worker.task \in Tasks BY DEF TypeOK, Idle
    <3>2. \A v \in Tasks : rows'[v].status = rows[v].status BY <1>3
    <3> HIDE DEF other
    <3> QED BY <2>3, <3>1, <3>2 DEF TypeOK
  <2>5. passed' \in [Tasks -> SUBSET Tasks] BY <1>1 DEF TypeOK
  <2> HIDE DEF other
  <2> QED BY <2>1, <2>2, <2>3, <2>4, <2>5, <1>3 DEF TypeOK
<1>7. OrdersBounded' BY <1>3 DEF OrdersBounded
<1>8. BeforePresent'
  <2> SUFFICES ASSUME NEW v \in Tasks, NEW w \in before'[v] PROVE w \in Present'
    BY DEF BeforePresent
  <2>1. PICK x \in before[other(v)] : w = other(x) BY <1>5
  <2> QED BY <2>1, <1>3, <1>4 DEF BeforePresent
<1>9. ArrivalOrder'
  <2> SUFFICES ASSUME NEW v \in Present', NEW w \in before'[v]
               PROVE rows'[w].order < rows'[v].order BY DEF ArrivalOrder
  <2>1. v \in Tasks /\ other(v) \in Present BY <1>4 DEF Present
  <2>2. PICK x \in before[other(v)] : w = other(x) BY <1>5, <2>1
  <2>3. x \in Present /\ other(w) = x BY <2>1, <2>2, <1>2, <1>3 DEF BeforePresent, Present
  <2>4. rows[x].order < rows[other(v)].order BY <2>1, <2>2 DEF ArrivalOrder
  <2>5. w \in Tasks BY <2>2, <2>3, <1>3 DEF Present
  <2> QED BY <2>1, <2>3, <2>4, <2>5, <1>3
<1> QED BY <1>6, <1>7, <1>8, <1>9

\* The other steps change no place, admit and remove nothing.
LEMMA PlacesKept ==
  ASSUME IInv, TypeOK', UNCHANGED before,
         \A t \in Tasks : /\ rows'[t].order = rows[t].order
                          /\ (rows'[t].status = "absent") <=> (rows[t].status = "absent")
  PROVE  IInv'
<1>1. Present' = Present BY DEF Present
<1> QED BY <1>1 DEF IInv, OrdersBounded, BeforePresent, ArrivalOrder, Present

\* One step for each action of Next.
LEMMA NextKeeps == IInv /\ [Next]_vars => IInv'
<1> SUFFICES ASSUME IInv, [Next]_vars PROVE IInv' OBVIOUS
<1> USE ConstantsAssumption
<1>1. ASSUME NEW t \in Tasks, NEW rank \in Priorities, Admit(t, rank) PROVE IInv'
  BY <1>1, AdmitKeeps
<1>2. ASSUME NEW t \in Tasks, NEW rank \in Priorities, SetPriority(t, rank) PROVE IInv'
  <2>1. TypeOK' BY <1>2 DEF SetPriority, IInv, TypeOK, Idle
  <2> QED BY <1>2, <2>1, PlacesKept DEF SetPriority, IInv, TypeOK
<1>3. ASSUME NEW t \in Tasks, NEW d, MoveQueued(t, d) PROVE IInv'
  BY <1>3, MoveKeeps
<1>4. ASSUME NEW t \in Tasks, Requeue(t) PROVE IInv'
  <2>1. TypeOK' BY <1>4 DEF Requeue, IInv, TypeOK, Statuses, Idle
  <2> QED BY <1>4, <2>1, PlacesKept DEF Requeue, IInv, TypeOK
<1>5. ASSUME NEW t \in Tasks, CancelInactive(t) PROVE IInv'
  <2>1. TypeOK' BY <1>5 DEF CancelInactive, IInv, TypeOK, Statuses, Idle
  <2> QED BY <1>5, <2>1, PlacesKept DEF CancelInactive, IInv, TypeOK
<1>6. ASSUME NEW t \in Tasks, Remove(t) PROVE IInv' BY <1>6, RemoveKeeps
<1>7. ASSUME NEW t \in Tasks, Pick(t) PROVE IInv'
  <2>1. TypeOK' BY <1>7 DEF Pick, IInv, TypeOK, Idle
  <2> QED BY <1>7, <2>1, PlacesKept DEF Pick, IInv, TypeOK
<1>8. ASSUME Claim PROVE IInv'
  <2>1. TypeOK' BY <1>8 DEF Claim, IInv, TypeOK, Statuses, Idle
  <2> QED BY <1>8, <2>1, PlacesKept DEF Claim, IInv, TypeOK, Idle
<1>9. ASSUME Skip PROVE IInv'
  <2>1. TypeOK' BY <1>9 DEF Skip, IInv, TypeOK, Idle
  <2> QED BY <1>9, <2>1, PlacesKept DEF Skip, IInv, TypeOK
<1>10. ASSUME Restart PROVE IInv'
  <2>1. TypeOK' BY <1>10 DEF Restart, IInv, TypeOK, Statuses, Idle
  <2> QED BY <1>10, <2>1, PlacesKept DEF Restart, IInv, TypeOK
<1>11. ASSUME NEW s \in {"waiting", "ended", "completed"}, Finish(s) PROVE IInv'
  <2>1. TypeOK' BY <1>11 DEF Finish, IInv, TypeOK, Statuses, Idle
  <2> QED BY <1>11, <2>1, PlacesKept DEF Finish, IInv, TypeOK, Idle
<1>12. ASSUME UNCHANGED vars PROVE IInv'
  BY <1>12 DEF vars, IInv, TypeOK, OrdersBounded, BeforePresent, ArrivalOrder, Present
<1> QED
  BY <1>1, <1>2, <1>3, <1>4, <1>5, <1>6, <1>7, <1>8, <1>9, <1>10, <1>11, <1>12
  DEF Next, User

\* Every reachable state is of its type: the row that runs is the worker's.
THEOREM TypeCorrect == Spec => []TypeOK
BY InitHolds, NextKeeps, PTL DEF Spec, IInv

\* Places follow arrival, through removals, retries and moves.
THEOREM PlacesFollowArrival == Spec => []ArrivalOrder
BY InitHolds, NextKeeps, PTL DEF Spec, IInv

-----------------------------------------------------------------------------
(* Who passes whom.                                                        *)

\* No queued task has a place after the maximum order.
LEMMA MaximumIsLargest ==
  ASSUME IInv
  PROVE  MaximumOrder \in Nat /\ \A t \in Queued : rows[t].order <= MaximumOrder
<1> DEFINE S == {0} \cup {rows[t].order : t \in Queued}
<1>1. S \subseteq 0..OrderBound /\ S # {} /\ OrderBound \in Nat
  BY ConstantsAssumption DEF IInv, OrdersBounded, Queued
<1>2. Max(S) \in S /\ \A y \in S : Max(S) >= y
  <2> HIDE DEF S
  <2> QED BY <1>1, MaxOfBounded
<1>3. Max(S) \in Nat BY <1>1, <1>2
<1>4. \A t \in Queued : rows[t].order \in S OBVIOUS
<1>5. MaximumOrder = Max(S) BY DEF MaximumOrder
<1> HIDE DEF S
<1>6. ASSUME NEW t \in Queued PROVE rows[t].order <= MaximumOrder
  <2>1. rows[t].order \in S /\ Max(S) >= rows[t].order BY <1>2, <1>4
  <2>2. rows[t].order \in Nat BY DEF IInv, TypeOK, Queued
  <2> QED BY <2>1, <2>2, <1>3, <1>5
<1> QED BY <1>3, <1>5, <1>6

\* What a task's wait is worth.
Promotions(t) == (MaximumOrder - rows[t].order) \div Window

\* The saturating subtraction of the wait never saturates.
LEMMA EffectiveByPromotions ==
  ASSUME IInv, NEW t \in Queued
  PROVE  /\ rows[t].rank \in 0..2 /\ rows[t].order \in Nat
         /\ MaximumOrder - rows[t].order \in Nat
         /\ Promotions(t) \in Nat
         /\ EffectivePriority(t) = SaturatingSub(rows[t].rank, Promotions(t))
         /\ EffectivePriority(t) \in Nat
<1>1. rows[t].rank \in 0..2 /\ rows[t].order \in Nat BY DEF IInv, TypeOK, Queued
<1>2. MaximumOrder \in Nat /\ rows[t].order <= MaximumOrder BY MaximumIsLargest
<1>3. MaximumOrder - rows[t].order \in Nat BY <1>1, <1>2
<1>4. SaturatingSub(MaximumOrder, rows[t].order) = MaximumOrder - rows[t].order
  BY <1>1, <1>2 DEF SaturatingSub
<1>5. Promotions(t) \in Nat
  <2>1. Window \in Nat /\ Window > 0 BY ConstantsAssumption
  <2>2. \A a \in Nat : a \div Window \in Nat BY <2>1, DivMonotone
  <2> QED BY <1>3, <2>2 DEF Promotions
<1>6. EffectivePriority(t) = SaturatingSub(rows[t].rank, Promotions(t))
  BY <1>4 DEF EffectivePriority, Promotions
<1> QED BY <1>1, <1>3, <1>5, <1>6 DEF SaturatingSub

\* The earlier of two queued tasks has been promoted at least as often.
LEMMA EarlierIsPromotedMore ==
  ASSUME IInv, NEW t \in Queued, NEW u \in Queued, rows[t].order <= rows[u].order
  PROVE  Promotions(u) <= Promotions(t)
BY EffectiveByPromotions, DivMonotone, MaximumIsLargest DEF Promotions

\* A task that is picked over an earlier one has a higher priority.
LEMMA PassingNeedsPriority ==
  ASSUME IInv, NEW u \in NextScheduled, NEW t \in Queued \cap before[u]
  PROVE  rows[u].rank < rows[t].rank
<1>1. u \in Queued /\ u \in Present BY DEF NextScheduled, Queued, Present
<1>2. rows[t].order < rows[u].order BY <1>1 DEF IInv, ArrivalOrder
<1>3. t # u BY <1>1, <1>2, EffectiveByPromotions
<1>4. RunsBefore(u, t) BY <1>3 DEF NextScheduled
<1>5. ~ComesFirst(Place(u), Place(t)) BY <1>1, <1>2, EffectiveByPromotions DEF ComesFirst, Place
<1>6. EffectivePriority(u) < EffectivePriority(t) BY <1>4, <1>5 DEF RunsBefore
<1>7. Promotions(u) <= Promotions(t)
  BY <1>1, <1>2, EffectiveByPromotions, EarlierIsPromotedMore
<1> QED BY <1>1, <1>6, <1>7, EffectiveByPromotions DEF SaturatingSub

\* Two windows of admissions promote a task to the highest priority.
LEMMA PassingIsNear ==
  ASSUME IInv, NEW u \in NextScheduled, NEW t \in Queued \cap before[u]
  PROVE  rows[t].order < rows[u].order /\ rows[u].order < rows[t].order + 2 * Window
<1>1. u \in Queued /\ u \in Present BY DEF NextScheduled, Queued, Present
<1>2. rows[t].order < rows[u].order BY <1>1 DEF IInv, ArrivalOrder
<1>3. t # u BY <1>1, <1>2, EffectiveByPromotions
<1>4. RunsBefore(u, t) BY <1>3 DEF NextScheduled
<1>5. ~ComesFirst(Place(u), Place(t)) BY <1>1, <1>2, EffectiveByPromotions DEF ComesFirst, Place
<1>6. EffectivePriority(u) < EffectivePriority(t) BY <1>4, <1>5 DEF RunsBefore
<1>7. Promotions(t) < 2
  BY <1>1, <1>6, EffectiveByPromotions DEF SaturatingSub
<1>8. Window \in Nat /\ Window > 0 /\ (2 * Window) \in Nat /\ (2 * Window) \div Window = 2
  BY ConstantsAssumption
<1>9. MaximumOrder - rows[t].order < 2 * Window
  <2> SUFFICES ASSUME 2 * Window <= MaximumOrder - rows[t].order PROVE FALSE
    BY <1>8, EffectiveByPromotions
  <2>1. (2 * Window) \div Window <= Promotions(t)
    BY <1>8, DivMonotone, EffectiveByPromotions DEF Promotions
  <2> QED BY <2>1, <1>7, <1>8, EffectiveByPromotions
<1> QED BY <1>1, <1>2, <1>8, <1>9, MaximumIsLargest, EffectiveByPromotions

\* FIFO within a priority: only Pick gives the worker a task, and what it
\* passes over has a lower priority.
THEOREM FifoIsKept == Spec => FifoWithinPriority
<1> DEFINE Fifo ==
      \A u \in Tasks : (worker.task # u /\ worker'.task = u)
        => \A t \in Queued \cap before[u] : rows[u].rank < rows[t].rank
<1>1. IInv /\ [Next]_vars => [Fifo]_vars
  <2> SUFFICES ASSUME IInv, Next, NEW u \in Tasks, worker.task # u, worker'.task = u,
                      NEW t \in Queued \cap before[u]
               PROVE rows[u].rank < rows[t].rank OBVIOUS
  <2>1. \E v \in Tasks : Pick(v)
    <3>1. worker'.task # worker.task /\ worker'.task # NoTask BY ConstantsAssumption
    <3> QED BY <3>1, ConstantsAssumption
        DEF Next, User, Admit, SetPriority, MoveQueued, Requeue, CancelInactive, Remove,
            Claim, Skip, Restart, Finish, Idle, IInv, TypeOK
  <2>2. u \in NextScheduled BY <2>1 DEF Pick
  <2> QED BY <2>2, PassingNeedsPriority
<1> QED BY <1>1, InitHolds, NextKeeps, PTL DEF Spec, FifoWithinPriority

-----------------------------------------------------------------------------
(* How many pass a task that waits.                                        *)

\* Of two rows one was there first.
ArrivalTotal == \A t, u \in Present : t = u \/ t \in before[u] \/ u \in before[t]
\* Those that passed t are still there, less than two windows behind it.
PassedNear ==
  \A t \in Tasks : \A u \in passed[t] :
    /\ t \in Present /\ u \in Present
    /\ rows[t].order < rows[u].order /\ rows[u].order < rows[t].order + 2 * Window
PassingInv == IInv /\ ArrivalTotal /\ PassedNear

\* Nobody has passed anybody yet.
LEMMA PassingStarts == Init => PassingInv
BY InitHolds DEF PassingInv, ArrivalTotal, PassedNear, Init, Present, NoRow

\* Steps that keep the places and do not pick.
LEMMA PassingKept ==
  ASSUME PassingInv, IInv', UNCHANGED before,
         \A t \in Tasks : passed'[t] \subseteq passed[t],
         \A t \in Tasks : /\ rows'[t].order = rows[t].order
                          /\ (rows'[t].status = "absent") <=> (rows[t].status = "absent")
  PROVE  PassingInv'
<1>1. Present' = Present BY DEF Present
<1>2. passed \in [Tasks -> SUBSET Tasks] BY DEF PassingInv, IInv, TypeOK
<1> QED BY <1>1, <1>2 DEF PassingInv, ArrivalTotal, PassedNear, Present

\* A new row has passed nobody, and nobody has passed it.
LEMMA AdmitKeepsPassing ==
  ASSUME PassingInv, IInv', NEW t \in Tasks, NEW rank \in Priorities, Admit(t, rank)
  PROVE  PassingInv'
<1>1. TypeOK BY DEF PassingInv, IInv
<1>2. Present' = Present \cup {t} /\ t \notin Present
  BY <1>1 DEF Admit, TypeOK, Present
<1>3. ArrivalTotal' BY <1>1, <1>2 DEF Admit, PassingInv, ArrivalTotal, TypeOK, Present
<1>4. \A v \in Present : rows'[v] = rows[v] BY <1>1, <1>2 DEF Admit, TypeOK, Present
<1>5. PassedNear' BY <1>2, <1>4 DEF Admit, PassingInv, PassedNear
<1> QED BY <1>3, <1>5 DEF PassingInv

\* What Pick adds to passed is near.
LEMMA PickKeepsPassing ==
  ASSUME PassingInv, IInv', NEW u \in Tasks, Pick(u) PROVE PassingInv'
<1>1. TypeOK /\ IInv /\ u \in NextScheduled BY DEF PassingInv, IInv, Pick
<1>2. Present' = Present /\ rows' = rows /\ before' = before BY DEF Pick, Present
<1>3. ASSUME NEW t \in Tasks, NEW v \in passed'[t]
      PROVE  /\ t \in Present /\ v \in Present
             /\ rows[t].order < rows[v].order /\ rows[v].order < rows[t].order + 2 * Window
  <2>1. CASE v \in passed[t] BY <2>1 DEF PassingInv, PassedNear
  <2>2. CASE v \notin passed[t]
    <3>1. v = u /\ t \in Queued \cap before[u] BY <1>3, <2>2 DEF Pick
    <3>2. t \in Present /\ u \in Present BY <1>1, <3>1 DEF Queued, Present, NextScheduled
    <3> QED BY <1>1, <3>1, <3>2, PassingIsNear
  <2> QED BY <2>1, <2>2
<1>4. PassedNear' BY <1>2, <1>3 DEF PassedNear
<1>5. ArrivalTotal' BY <1>2 DEF PassingInv, ArrivalTotal
<1> QED BY <1>4, <1>5 DEF PassingInv

\* A removed row has passed nobody any more.
LEMMA RemoveKeepsPassing ==
  ASSUME PassingInv, IInv', NEW t \in Tasks, Remove(t) PROVE PassingInv'
<1>1. TypeOK BY DEF PassingInv, IInv
<1>2. Present' = Present \ {t} BY <1>1 DEF Remove, TypeOK, Present, NoRow
<1>3. \A v \in Present' : rows'[v] = rows[v] /\ before'[v] = before[v] \ {t}
  BY <1>1, <1>2 DEF Remove, TypeOK, Present
<1>4. ArrivalTotal' BY <1>2, <1>3 DEF PassingInv, ArrivalTotal
<1>5. ASSUME NEW v \in Tasks, NEW w \in passed'[v]
      PROVE  /\ v \in Present' /\ w \in Present'
             /\ rows'[v].order < rows'[w].order
             /\ rows'[w].order < rows'[v].order + 2 * Window
  <2>1. v # t /\ w \in passed[v] /\ w # t BY <1>5 DEF Remove
  <2>2. v \in Present' /\ w \in Present' BY <1>2, <2>1 DEF PassingInv, PassedNear
  <2> QED BY <1>3, <2>1, <2>2 DEF PassingInv, PassedNear
<1>6. PassedNear' BY <1>5 DEF PassedNear
<1> QED BY <1>4, <1>6 DEF PassingInv

\* A move exchanges arrivals; those that passed others are not the two.
LEMMA MoveKeepsPassing ==
  ASSUME PassingInv, IInv', NEW t \in Tasks, NEW direction, MoveQueued(t, direction)
  PROVE  PassingInv'
<1>1. PICK u \in Tasks :
        LET other(v) == IF v = t THEN u ELSE IF v = u THEN t ELSE v
        IN /\ Neighbour(t, u, direction)
           /\ rows' = [rows EXCEPT ![t].order = rows[u].order, ![u].order = rows[t].order]
           /\ before' = [v \in Tasks |-> {other(w) : w \in before[other(v)]}]
           /\ passed' = [v \in Tasks |-> IF v \in {t, u} THEN {} ELSE passed[v] \ {t, u}]
  BY DEF MoveQueued
<1> DEFINE other(v) == IF v = t THEN u ELSE IF v = u THEN t ELSE v
<1>2. TypeOK BY DEF PassingInv, IInv
<1>3. u # t /\ u \in Queued /\ t \in Queued
  BY <1>1 DEF Neighbour, Peers, MoveQueued, Queued
<1>4. \A v \in Tasks : rows'[v].status = rows[v].status BY <1>1, <1>2 DEF TypeOK
<1>5. Present' = Present /\ \A v \in Present : v \in Tasks /\ other(v) \in Present
  BY <1>3, <1>4 DEF Present, Queued
<1>6. \A v \in Tasks : before'[v] = {other(w) : w \in before[other(v)]} BY <1>1
<1>7. ArrivalTotal'
  <2> SUFFICES ASSUME NEW v \in Present, NEW w \in Present, v # w
               PROVE v \in before'[w] \/ w \in before'[v]
    BY <1>5 DEF ArrivalTotal
  <2>1. /\ other(v) \in Present /\ other(w) \in Present /\ other(v) # other(w)
        /\ other(other(v)) = v /\ other(other(w)) = w
    BY <1>3, <1>5
  <2>2. other(v) \in before[other(w)] \/ other(w) \in before[other(v)]
    <3> HIDE DEF other
    <3> QED BY <2>1 DEF PassingInv, ArrivalTotal
  <2>3. v \in Tasks /\ w \in Tasks BY DEF Present
  <2> HIDE DEF other
  <2> QED BY <1>6, <2>1, <2>2, <2>3
<1>8. ASSUME NEW v \in Tasks, NEW w \in passed'[v]
      PROVE  /\ v \in Present /\ w \in Present
             /\ rows'[v].order < rows'[w].order
             /\ rows'[w].order < rows'[v].order + 2 * Window
  <2>1. v \notin {t, u} /\ w \in passed[v] /\ w \notin {t, u} BY <1>1, <1>8
  <2>2. w \in Tasks BY <1>2, <2>1 DEF TypeOK
  <2>3. rows'[v] = rows[v] /\ rows'[w] = rows[w] BY <1>1, <1>2, <2>1, <2>2 DEF TypeOK
  <2> QED BY <2>1, <2>3 DEF PassingInv, PassedNear
<1>9. PassedNear' BY <1>5, <1>8 DEF PassedNear
<1> HIDE DEF other
<1> QED BY <1>7, <1>9 DEF PassingInv

\* One step for each action.
LEMMA NextKeepsPassing == PassingInv /\ [Next]_vars => PassingInv'
<1> SUFFICES ASSUME PassingInv, [Next]_vars PROVE PassingInv' OBVIOUS
<1>a. IInv /\ TypeOK BY DEF PassingInv, IInv
<1>b. IInv' BY <1>a, NextKeeps
<1>1. ASSUME NEW t \in Tasks, NEW rank \in Priorities, Admit(t, rank) PROVE PassingInv'
  BY <1>1, <1>b, AdmitKeepsPassing
<1>2. ASSUME NEW t \in Tasks, NEW rank \in Priorities, SetPriority(t, rank)
      PROVE PassingInv'
  BY <1>2, <1>a, <1>b, PassingKept DEF SetPriority, TypeOK
<1>3. ASSUME NEW t \in Tasks, Requeue(t) PROVE PassingInv'
  BY <1>3, <1>a, <1>b, PassingKept DEF Requeue, TypeOK
<1>4. ASSUME NEW t \in Tasks, CancelInactive(t) PROVE PassingInv'
  BY <1>4, <1>a, <1>b, PassingKept DEF CancelInactive, TypeOK
<1>5. ASSUME NEW t \in Tasks, Pick(t) PROVE PassingInv'
  BY <1>5, <1>b, PickKeepsPassing
<1>6. CASE Claim BY <1>6, <1>a, <1>b, PassingKept DEF Claim, TypeOK, Idle
<1>7. CASE Skip BY <1>7, <1>a, <1>b, PassingKept DEF Skip, TypeOK
<1>8. CASE Restart BY <1>8, <1>a, <1>b, PassingKept DEF Restart, TypeOK
<1>9. ASSUME NEW s \in {"waiting", "ended", "completed"}, Finish(s) PROVE PassingInv'
  BY <1>9, <1>a, <1>b, PassingKept DEF Finish, TypeOK, Idle
<1>10. CASE UNCHANGED vars BY <1>10, <1>b, PassingKept DEF vars
<1>11. ASSUME NEW t \in Tasks, Remove(t) PROVE PassingInv'
  BY <1>11, <1>b, RemoveKeepsPassing
<1>12. ASSUME NEW t \in Tasks, NEW direction, MoveQueued(t, direction) PROVE PassingInv'
  BY <1>12, <1>b, MoveKeepsPassing
<1> QED
  BY <1>1, <1>2, <1>3, <1>4, <1>5, <1>6, <1>7, <1>8, <1>9, <1>10, <1>11, <1>12
  DEF Next, User

\* The places of those that passed t are different numbers of an interval.
LEMMA NearAreFew == PassingInv => BoundedPassing
<1> SUFFICES ASSUME PassingInv, NEW t \in Tasks PROVE Cardinality(passed[t]) < 2 * Window
  BY DEF BoundedPassing
<1> DEFINE Gap == 1 .. (2 * Window - 1)
           gap == [u \in passed[t] |-> rows[u].order - rows[t].order]
<1>1. Window \in Nat /\ Window > 0 /\ (2 * Window - 1) \in Nat BY ConstantsAssumption
<1>2. TypeOK /\ passed[t] \subseteq Tasks BY DEF PassingInv, IInv, TypeOK
<1>3. gap \in [passed[t] -> Gap]
  <2> SUFFICES ASSUME NEW u \in passed[t] PROVE rows[u].order - rows[t].order \in Gap
    OBVIOUS
  <2>1. rows[t].order \in Nat /\ rows[u].order \in Nat BY <1>2 DEF TypeOK
  <2> QED BY <1>1, <2>1 DEF PassingInv, PassedNear
<1>4. \A u, v \in passed[t] : gap[u] = gap[v] => u = v
  <2> SUFFICES ASSUME NEW u \in passed[t], NEW v \in passed[t], gap[u] = gap[v], u # v
               PROVE FALSE OBVIOUS
  <2>1. /\ rows[t].order \in Nat /\ rows[u].order \in Nat /\ rows[v].order \in Nat
        BY <1>2 DEF TypeOK
  <2>2. rows[u].order = rows[v].order BY <2>1
  <2>3. u \in Present /\ v \in Present BY DEF PassingInv, PassedNear
  <2>4. u \in before[v] \/ v \in before[u] BY <2>3 DEF PassingInv, ArrivalTotal
  <2> QED BY <2>1, <2>2, <2>3, <2>4 DEF PassingInv, IInv, ArrivalOrder
<1>5. gap \in Injection(passed[t], Gap)
  <2> HIDE DEF gap
  <2> QED BY <1>3, <1>4 DEF Injection, IsInjective
<1>6. IsFiniteSet(Gap) /\ Cardinality(Gap) = 2 * Window - 1
  BY <1>1, FS_Interval
<1>7. Cardinality(passed[t]) <= Cardinality(Gap) /\ IsFiniteSet(passed[t])
  <2> HIDE DEF gap, Gap
  <2> QED BY <1>5, <1>6, FS_Injection
<1>8. Cardinality(passed[t]) \in Nat BY <1>7, FS_CardinalityType
<1> QED BY <1>1, <1>6, <1>7, <1>8

\* Bounded promotion, for every window, any number of tasks and all commands.
THEOREM PassingIsBounded == Spec => []BoundedPassing
BY PassingStarts, NextKeepsPassing, NearAreFew, PTL DEF Spec
=============================================================================
