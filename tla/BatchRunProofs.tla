--------------------------- MODULE BatchRunProofs ---------------------------
(***************************************************************************)
(* Proofs about BatchRun, for every set of Batch Jobs and any number of    *)
(* invocations that run, resume, crash and overlap.                        *)
(***************************************************************************)
EXTENDS BatchRun, FiniteSetTheorems, TLAPS

\* Every nonempty set of natural numbers has a least element.
LEMMA LeastElement ==
  ASSUME NEW T \in SUBSET Nat, T # {}
  PROVE  \E m \in T : \A k \in T : m <= k
<1> DEFINE Below(k) == 0..(k - 1)
           Family == {Below(k) : k \in T}
<1>1. Family \subseteq FiniteSubsetsOf(Nat)
  <2>1. \A k \in T : Below(k) \in SUBSET Nat /\ IsFiniteSet(Below(k))
    BY FS_Interval
  <2> QED
    BY <2>1 DEF FiniteSubsetsOf
<1>2. PICK m \in T : \A k \in T : <<Below(k), Below(m)>> \notin StrictSubsetOrdering(Nat)
  <2>1. Family # {}
    OBVIOUS
  <2>2. PICK b \in Family : \A c \in Family : <<c, b>> \notin StrictSubsetOrdering(Nat)
    BY <1>1, <2>1, FS_StrictSubsetOrderingWellFounded, WFMin
  <2> QED
    BY <2>2
<1>3. ASSUME NEW k \in T, k < m PROVE FALSE
  <2>1. Below(k) \subseteq Below(m) /\ k \in Below(m) /\ k \notin Below(k)
    BY <1>3
  <2>2. Below(k) \in SUBSET Nat /\ Below(m) \in SUBSET Nat
    OBVIOUS
  <2> HIDE DEF Below
  <2> QED
    BY <1>2, <2>1, <2>2 DEF StrictSubsetOrdering
<1> QED
  BY <1>3

-----------------------------------------------------------------------------
(* The job.                                                                *)

N == Len(job.operations)

LEMMA JobFacts ==
  ASSUME job \in Jobs
  PROVE  /\ N \in Nat /\ Ops = 1..N
         /\ job.policy \in Policies
         /\ \A i \in Ops : /\ Op(i).command \in Kinds
                           /\ Op(i).dependsOn \subseteq Ops \ {i}
                           /\ Op(i).input \in Paths /\ Op(i).output \in Paths
<1>1. JobShape(job)
  BY ConstantsAssumption
<1>2. job.operations \in Seq(Operations)
  BY <1>1 DEF JobShape
<1>3. N \in Nat /\ Ops = 1..N
  BY <1>2 DEF N, Ops
<1>4. \A i \in Ops : Op(i) \in Operations
  BY <1>2 DEF Ops, Op
<1>5. \A i \in Ops : Op(i).dependsOn \subseteq Ops \ {i}
  BY <1>1 DEF JobShape, Ops, Op
<1> QED
  BY <1>1, <1>3, <1>4, <1>5 DEF Operations, JobShape

-----------------------------------------------------------------------------
(* The order of execution.  Its recursive function is shown to exist by    *)
(* finite approximations; what holds of every prefix of the order is shown *)
(* by induction, written with the least counterexample.                    *)

\* One round of the algorithm.
Round(before) ==
  LET taken == ToSet(before)
      ready == {i \in Ops \ taken : Op(i).dependsOn \subseteq taken}
  IN IF ready = {} THEN before ELSE Append(before, Min(ready))

Approximates(g, n) ==
  /\ g \in [0..n -> Seq(Ops)]
  /\ g[0] = <<>>
  /\ \A k \in 1..n : g[k] = Round(g[k - 1])

\* Distinct operations, no more than rounds.
Prefix(s, n) ==
  /\ s \in Seq(Ops)
  /\ Len(s) <= n
  /\ \A j, k \in 1..Len(s) : s[j] = s[k] => j = k

LEMMA RoundFacts ==
  ASSUME job \in Jobs, NEW s \in Seq(Ops), NEW n \in Nat
  PROVE  /\ Round(s) \in Seq(Ops)
         /\ Prefix(s, n) => Prefix(Round(s), n + 1)
<1> DEFINE taken == ToSet(s)
           ready == {i \in Ops \ taken : Op(i).dependsOn \subseteq taken}
<1>1. CASE ready = {}
  <2>1. Round(s) = s
    BY <1>1 DEF Round
  <2> QED
    BY <2>1 DEF Prefix
<1>2. CASE ready # {}
  <2>1. ready \in SUBSET Nat
    BY JobFacts
  <2>2. PICK m \in ready : \A k \in ready : m <= k
    <3> HIDE DEF ready
    <3> QED
      BY <1>2, <2>1, LeastElement
  <2>3. Min(ready) \in ready
    BY <2>2 DEF Min
  <2>4. Round(s) = Append(s, Min(ready))
    BY <1>2 DEF Round
  <2>5. Min(ready) \in Ops /\ Min(ready) \notin taken
    BY <2>3
  <2> HIDE DEF ready
  <2>6. \A k \in 1..Len(s) : s[k] # Min(ready)
    BY <2>5 DEF ToSet
  <2>7. Append(s, Min(ready)) \in Seq(Ops)
    BY <2>5
  <2>8. /\ Len(Append(s, Min(ready))) = Len(s) + 1
        /\ Append(s, Min(ready))[Len(s) + 1] = Min(ready)
        /\ \A k \in 1..Len(s) : Append(s, Min(ready))[k] = s[k]
    BY <2>5
  <2> QED
    BY <2>4, <2>6, <2>7, <2>8 DEF Prefix
<1> QED
  BY <1>1, <1>2

LEMMA ApproximationsExist ==
  ASSUME job \in Jobs
  PROVE  \A n \in Nat : \E g : Approximates(g, n)
<1> DEFINE T == {n \in Nat : ~ \E g : Approximates(g, n)}
<1>1. SUFFICES ASSUME T # {} PROVE FALSE
  OBVIOUS
<1>2. PICK m \in T : \A k \in T : m <= k
  <2> HIDE DEF T
  <2>1. T \in SUBSET Nat
    BY DEF T
  <2> QED
    BY <1>1, <2>1, LeastElement
<1>3. Approximates([k \in 0..0 |-> <<>>], 0)
  BY DEF Approximates
<1>4. m \in Nat /\ m # 0 /\ m - 1 \in Nat /\ m - 1 \notin T
  BY <1>2, <1>3
<1>5. PICK g : Approximates(g, m - 1)
  BY <1>4
<1> DEFINE h == [k \in 0..m |-> IF k = m THEN Round(g[m - 1]) ELSE g[k]]
<1>6. g \in [0..(m - 1) -> Seq(Ops)] /\ Round(g[m - 1]) \in Seq(Ops)
  BY <1>4, <1>5, RoundFacts DEF Approximates
<1>7. h \in [0..m -> Seq(Ops)]
  BY <1>4, <1>6
<1>8. h[0] = <<>>
  BY <1>4, <1>5 DEF Approximates
<1>9. ASSUME NEW k \in 1..m PROVE h[k] = Round(h[k - 1])
  <2>1. CASE k = m
    BY <1>4, <2>1
  <2>2. CASE k # m
    <3>1. k \in 1..(m - 1) /\ k - 1 \in 0..(m - 1)
      BY <1>4, <2>2
    <3> QED
      BY <1>4, <1>5, <2>2, <3>1 DEF Approximates
  <2> QED
    BY <2>1, <2>2
<1>10. Approximates(h, m)
  BY <1>7, <1>8, <1>9 DEF Approximates
<1> QED
  BY <1>2, <1>10

LEMMA ApproximationsAgree ==
  ASSUME NEW n \in Nat, NEW g, Approximates(g, n),
         NEW m \in Nat, NEW h, Approximates(h, m), n <= m
  PROVE  g[n] = h[n]
<1> DEFINE T == {k \in 0..n : g[k] # h[k]}
<1>1. SUFFICES ASSUME T # {} PROVE FALSE
  OBVIOUS
<1>2. PICK a \in T : \A k \in T : a <= k
  <2> HIDE DEF T
  <2>1. T \in SUBSET Nat
    BY DEF T
  <2> QED
    BY <1>1, <2>1, LeastElement
<1>3. a # 0
  BY <1>2 DEF Approximates
<1>4. a \in 1..n /\ a \in 1..m /\ a - 1 \in 0..n /\ a - 1 \notin T
  BY <1>2, <1>3
<1>5. g[a] = Round(g[a - 1]) /\ h[a] = Round(h[a - 1]) /\ g[a - 1] = h[a - 1]
  BY <1>4 DEF Approximates
<1> QED
  BY <1>2, <1>5

LEMMA OrderEquation ==
  ASSUME job \in Jobs
  PROVE  /\ OrderUpTo[0] = <<>>
         /\ \A n \in Nat \ {0} : OrderUpTo[n] = Round(OrderUpTo[n - 1])
<1> DEFINE best(n) == CHOOSE g : Approximates(g, n)
           f == [n \in Nat |-> best(n)[n]]
           Equation(g) == [n \in Nat |->
             IF n = 0 THEN <<>>
             ELSE LET before == g[n - 1]
                      taken == ToSet(before)
                      ready == {i \in Ops \ taken : Op(i).dependsOn \subseteq taken}
                  IN IF ready = {} THEN before ELSE Append(before, Min(ready))]
<1>1. \A n \in Nat : Approximates(best(n), n)
  BY ApproximationsExist
<1>2. f[0] = <<>>
  BY <1>1 DEF Approximates
<1>3. ASSUME NEW n \in Nat \ {0} PROVE f[n] = Round(f[n - 1])
  <2>1. n - 1 \in Nat /\ n \in 1..n
    OBVIOUS
  <2>2. best(n)[n] = Round(best(n)[n - 1])
    BY <1>1, <2>1 DEF Approximates
  <2>3. best(n - 1)[n - 1] = best(n)[n - 1]
    <3> HIDE DEF best
    <3> QED
      BY <1>1, <2>1, ApproximationsAgree
  <2> HIDE DEF best
  <2> QED
    BY <2>1, <2>2, <2>3
<1> HIDE DEF f
<1>4. \A g : \A n \in Nat : Equation(g)[n] = IF n = 0 THEN <<>> ELSE Round(g[n - 1])
  BY DEF Round
<1>5. f = Equation(f)
  <2>1. f = [n \in Nat |-> f[n]]
    BY DEF f
  <2>2. Equation(f) = [n \in Nat |-> Equation(f)[n]]
    OBVIOUS
  <2>3. \A n \in Nat : f[n] = Equation(f)[n]
    BY <1>2, <1>3, <1>4
  <2> HIDE DEF Equation
  <2> QED
    BY <2>1, <2>2, <2>3
<1>6. OrderUpTo = CHOOSE g : g = Equation(g)
  BY DEF OrderUpTo
<1>7. OrderUpTo = Equation(OrderUpTo)
  <2> HIDE DEF Equation
  <2> QED
    BY <1>5, <1>6
<1>8. \A n \in Nat : OrderUpTo[n] = IF n = 0 THEN <<>> ELSE Round(OrderUpTo[n - 1])
  <2> HIDE DEF Equation
  <2> QED
    BY <1>4, <1>7
<1> QED
  BY <1>8

LEMMA OrderPrefix ==
  ASSUME job \in Jobs
  PROVE  \A n \in Nat : Prefix(OrderUpTo[n], n)
<1> DEFINE T == {n \in Nat : ~Prefix(OrderUpTo[n], n)}
<1>1. SUFFICES ASSUME T # {} PROVE FALSE
  OBVIOUS
<1>2. PICK m \in T : \A k \in T : m <= k
  <2> HIDE DEF T
  <2>1. T \in SUBSET Nat
    BY DEF T
  <2> QED
    BY <1>1, <2>1, LeastElement
<1>3. Prefix(OrderUpTo[0], 0)
  <2>1. Prefix(<<>>, 0)
    BY DEF Prefix
  <2> QED
    BY <2>1, OrderEquation
<1>4. m \in Nat \ {0} /\ m - 1 \in Nat /\ Prefix(OrderUpTo[m - 1], m - 1)
  BY <1>2, <1>3
<1>5. Prefix(Round(OrderUpTo[m - 1]), (m - 1) + 1)
  BY <1>4, RoundFacts DEF Prefix
<1>6. OrderUpTo[m] = Round(OrderUpTo[m - 1]) /\ (m - 1) + 1 = m
  BY <1>4, OrderEquation
<1> QED
  BY <1>2, <1>5, <1>6

\* The order takes every operation at most once, and an accepted job is one
\* whose order takes every operation (graph_order).
LEMMA OrderFacts ==
  ASSUME job \in Jobs
  PROVE  /\ Order \in Seq(Ops) /\ Len(Order) \in Nat
         /\ \A k \in 1..Len(Order) : Order[k] \in Ops
         /\ \A j, k \in 1..Len(Order) : Order[j] = Order[k] => j = k
         /\ Accepted => \A i \in Ops : \E k \in 1..Len(Order) : Order[k] = i
<1>1. N \in Nat /\ Ops = 1..N
  BY JobFacts
<1>2. Prefix(Order, N)
  BY <1>1, OrderPrefix DEF Order, N
<1>3. Order \in Seq(Ops) /\ Len(Order) \in Nat
  BY <1>2 DEF Prefix
<1>4. \A j, k \in 1..Len(Order) : Order[j] = Order[k] => j = k
  BY <1>2 DEF Prefix
<1>5. ASSUME Accepted PROVE \A i \in Ops : \E k \in 1..Len(Order) : Order[k] = i
  <2>1. Len(Order) = N
    BY <1>5 DEF Accepted, N
  <2> HIDE DEF N
  <2>2. Order \in [1..N -> 1..N]
    BY <1>1, <1>3, <2>1
  <2>3. Order \in Injection(1..N, 1..N)
    BY <1>4, <2>1, <2>2 DEF Injection, IsInjective
  <2>4. IsFiniteSet(1..N)
    BY <1>1, FS_Interval
  <2>5. Order \in Surjection(1..N, 1..N)
    BY <2>3, <2>4, FS_Injection
  <2> QED
    BY <1>1, <2>1, <2>5 DEF Surjection
<1> QED
  BY <1>3, <1>4, <1>5

\* An order of some operations in which each comes after what it depends on.
InOrder(s) ==
  \A k \in 1..Len(s) : \A d \in Op(s[k]).dependsOn : \E j \in 1..(k - 1) : s[j] = d

\* No operation that is left has all it depends on behind it.
Stuck(s) == \A i \in Ops \ ToSet(s) : ~(Op(i).dependsOn \subseteq ToSet(s))

\* No cycle: the operations can be numbered so that dependencies come first.
Acyclic ==
  \E rank \in [Ops -> Nat] : \A i \in Ops : \A d \in Op(i).dependsOn : rank[d] < rank[i]

LEMMA RoundInOrder ==
  ASSUME job \in Jobs, NEW s \in Seq(Ops)
  PROVE  /\ InOrder(s) => InOrder(Round(s))
         /\ IF Stuck(s) THEN Round(s) = s ELSE Len(Round(s)) = Len(s) + 1
<1> DEFINE taken == ToSet(s)
           ready == {i \in Ops \ taken : Op(i).dependsOn \subseteq taken}
<1>1. Stuck(s) <=> ready = {}
  BY DEF Stuck
<1>2. CASE ready = {}
  BY <1>1, <1>2 DEF Round
<1>3. CASE ready # {}
  <2> DEFINE i == Min(ready)
  <2>1. ready \in SUBSET Nat
    BY JobFacts
  <2>2. PICK m \in ready : \A k \in ready : m <= k
    <3> HIDE DEF ready
    <3> QED
      BY <1>3, <2>1, LeastElement
  <2>3. i \in ready
    BY <2>2 DEF Min
  <2>4. Round(s) = Append(s, i)
    BY <1>3 DEF Round
  <2>5. i \in Ops /\ \A d \in Op(i).dependsOn : \E j \in 1..Len(s) : s[j] = d
    <3>1. \A d \in taken : \E j \in 1..Len(s) : s[j] = d
      BY DEF ToSet
    <3>2. i \in Ops /\ Op(i).dependsOn \subseteq taken
      BY <2>3
    <3> HIDE DEF i, taken
    <3> QED
      BY <3>1, <3>2
  <2> HIDE DEF i, ready
  <2>6. /\ Len(s) \in Nat /\ Len(Append(s, i)) = Len(s) + 1
        /\ Append(s, i)[Len(s) + 1] = i
        /\ \A k \in 1..Len(s) : Append(s, i)[k] = s[k]
    BY <2>5
  <2>7. ASSUME InOrder(s), NEW k \in 1..(Len(s) + 1), NEW d \in Op(Append(s, i)[k]).dependsOn
        PROVE  \E j \in 1..(k - 1) : Append(s, i)[j] = d
    <3>1. CASE k = Len(s) + 1
      <4>1. PICK j \in 1..Len(s) : s[j] = d
        BY <2>5, <2>6, <2>7, <3>1
      <4> QED
        BY <2>6, <3>1, <4>1
    <3>2. CASE k # Len(s) + 1
      <4>1. k \in 1..Len(s) /\ Append(s, i)[k] = s[k]
        BY <2>6, <3>2
      <4>2. PICK j \in 1..(k - 1) : s[j] = d
        BY <2>7, <4>1 DEF InOrder
      <4>3. j \in 1..Len(s)
        BY <2>6, <4>1
      <4> QED
        BY <2>6, <4>2, <4>3
    <3> QED
      BY <3>1, <3>2
  <2>8. InOrder(s) => InOrder(Append(s, i))
    BY <2>6, <2>7 DEF InOrder
  <2> QED
    BY <1>1, <1>3, <2>4, <2>6, <2>8
<1> QED
  BY <1>2, <1>3

\* Every round takes an operation or finds that none can be taken.
LEMMA RoundsGoOn ==
  ASSUME job \in Jobs
  PROVE  \A n \in Nat : /\ InOrder(OrderUpTo[n])
                        /\ Len(OrderUpTo[n]) = n \/ Stuck(OrderUpTo[n])
<1> DEFINE Good(n) == /\ InOrder(OrderUpTo[n])
                      /\ Len(OrderUpTo[n]) = n \/ Stuck(OrderUpTo[n])
           T == {n \in Nat : ~Good(n)}
<1>1. SUFFICES ASSUME T # {} PROVE FALSE
  OBVIOUS
<1>2. PICK m \in T : \A k \in T : m <= k
  <2> HIDE DEF T
  <2>1. T \in SUBSET Nat
    BY DEF T
  <2> QED
    BY <1>1, <2>1, LeastElement
<1>3. Good(0)
  BY OrderEquation DEF InOrder
<1>4. m \in Nat \ {0} /\ m - 1 \in Nat /\ Good(m - 1)
  BY <1>2, <1>3
<1>5. OrderUpTo[m] = Round(OrderUpTo[m - 1]) /\ OrderUpTo[m - 1] \in Seq(Ops)
  BY <1>4, OrderEquation, OrderPrefix DEF Prefix
<1>6. Good(m)
  BY <1>4, <1>5, RoundInOrder
<1> QED
  BY <1>2, <1>6

\* The order in which a job is executed puts every operation after those it
\* depends on, and the loader accepts exactly the jobs without a cycle
\* (graph_order).
THEOREM OrderIsTopological ==
  ASSUME job \in Jobs
  PROVE  /\ InOrder(Order)
         /\ Accepted <=> Acyclic
<1>1. N \in Nat /\ Ops = 1..N /\ Order = OrderUpTo[N] /\ (Accepted <=> Len(Order) = N)
  BY JobFacts DEF N, Order, Accepted
<1>2. InOrder(Order) /\ (Len(Order) = N \/ Stuck(Order))
  BY <1>1, RoundsGoOn
<1>3. /\ Order \in Seq(Ops) /\ Len(Order) \in Nat
      /\ \A k \in 1..Len(Order) : Order[k] \in Ops
      /\ \A j, k \in 1..Len(Order) : Order[j] = Order[k] => j = k
      /\ Accepted => \A i \in Ops : \E k \in 1..Len(Order) : Order[k] = i
  BY OrderFacts
<1>4. ASSUME Accepted PROVE Acyclic
  <2> DEFINE place(i) == CHOOSE k \in 1..Len(Order) : Order[k] = i
             rank == [i \in Ops |-> place(i)]
  <2>1. \A i \in Ops : place(i) \in 1..Len(Order) /\ Order[place(i)] = i
    BY <1>3, <1>4
  <2>2. \A k \in 1..Len(Order) : place(Order[k]) = k
    BY <1>3, <2>1
  <2> HIDE DEF place
  <2>3. rank \in [Ops -> Nat]
    BY <1>3, <2>1
  <2>4. ASSUME NEW i \in Ops, NEW d \in Op(i).dependsOn PROVE rank[d] < rank[i]
    <3>1. d \in Ops
      BY JobFacts
    <3>2. PICK j \in 1..(place(i) - 1) : Order[j] = d
      BY <1>2, <2>1 DEF InOrder
    <3>3. j \in 1..Len(Order) /\ place(i) \in Nat /\ j < place(i)
      BY <1>3, <2>1, <3>2
    <3>4. place(d) = j
      BY <2>2, <3>2, <3>3
    <3> QED
      BY <3>1, <3>3, <3>4
  <2> QED
    BY <2>3, <2>4 DEF Acyclic
<1>5. ASSUME Acyclic, ~Accepted PROVE FALSE
  <2> DEFINE left == Ops \ ToSet(Order)
  <2>1. PICK rank \in [Ops -> Nat] :
          \A i \in Ops : \A d \in Op(i).dependsOn : rank[d] < rank[i]
    BY <1>5 DEF Acyclic
  <2>2. Stuck(Order) /\ Len(Order) # N
    BY <1>1, <1>2, <1>5
  <2>3. left # {}
    <3> SUFFICES ASSUME left = {} PROVE FALSE
      OBVIOUS
    <3>1. \A i \in 1..N : \E k \in 1..Len(Order) : Order[k] = i
      <4>1. \A i \in 1..N : i \in ToSet(Order)
        BY <1>1
      <4>2. DOMAIN Order = 1..Len(Order)
        BY <1>3
      <4> QED
        BY <4>1, <4>2 DEF ToSet
    <3>2. Order \in [1..Len(Order) -> 1..N]
      BY <1>1, <1>3
    <3>3. Order \in Surjection(1..Len(Order), 1..N)
      BY <3>1, <3>2 DEF Surjection
    <3>4. Order \in Injection(1..Len(Order), 1..N)
      BY <1>3, <3>2 DEF Injection, IsInjective
    <3>5. Cardinality(1..N) = Cardinality(1..Len(Order))
      <4> DEFINE places == 1..Len(Order)
                 all == 1..N
      <4>1. IsFiniteSet(places)
        BY <1>3, FS_Interval
      <4>2. Order \in Surjection(places, all) /\ Order \in Injection(places, all)
        BY <3>3, <3>4
      <4> HIDE DEF places, all
      <4>3. Cardinality(all) = Cardinality(places)
        BY <4>1, <4>2, FS_Surjection
      <4> QED
        BY <4>3 DEF places, all
    <3>6. Cardinality(1..N) = N /\ Cardinality(1..Len(Order)) = Len(Order)
      <4>1. ASSUME NEW n \in Nat PROVE Cardinality(1..n) = n
        BY FS_Interval
      <4> QED
        BY <1>1, <1>3, <4>1
    <3> QED
      BY <2>2, <3>5, <3>6
  <2>4. PICK i \in left : \A j \in left : rank[i] <= rank[j]
    <3> DEFINE Ranks == {rank[j] : j \in left}
    <3>1. Ranks \in SUBSET Nat /\ Ranks # {}
      BY <2>3
    <3>2. PICK r \in Ranks : \A q \in Ranks : r <= q
      <4> HIDE DEF Ranks
      <4> QED
        BY <3>1, LeastElement
    <3> QED
      BY <3>2
  <2>5. PICK d \in Op(i).dependsOn : d \notin ToSet(Order)
    BY <2>2, <2>4 DEF Stuck
  <2>6. d \in left /\ rank[d] < rank[i]
    BY <2>1, <2>4, <2>5, JobFacts
  <2>7. rank[d] \in Nat /\ rank[i] \in Nat
    BY <2>4, <2>6
  <2> QED
    BY <2>4, <2>6, <2>7
<1> QED
  BY <1>2, <1>4, <1>5

-----------------------------------------------------------------------------
(* The invariant.                                                          *)

\* What evidence can be: none, or what the bound files held.
EvidenceValues == {NoEvidence} \cup UNION {[B -> -MaxOthers..(N + 1)] : B \in SUBSET Paths}

RunStates ==
  [status    : [Ops -> Statuses],
   attempts  : [Ops -> 0..MaxAttempts],
   retryable : [Ops -> BOOLEAN],
   evidence  : [Ops -> EvidenceValues],
   terminal  : Terminals,
   revision  : Nat]

Records ==
  [phase : Phases, next : Phases, state : RunStates,
   options : [retryFailed : BOOLEAN, retryCancelled : BOOLEAN],
   interrupted : BOOLEAN, position : 1..(Len(Order) + 1),
   failureSeen : BOOLEAN, cancelled : BOOLEAN]

Types ==
  /\ job \in Jobs
  /\ stored \in {"absent", "partial", "whole"}
  /\ file \in RunStates
  /\ lock \in {0} \cup Invocations
  /\ disk \in [Paths -> -MaxOthers..(N + 1)]
  /\ invocation \in [Invocations -> Records]
  /\ started \in [Ops -> Nat]
  /\ finished \subseteq Ops
  /\ others \in 0..MaxOthers

\* A terminal state is final: nothing is left to do, and a completed run has
\* completed everything.
Settled(s) ==
  s.terminal # "running" =>
    /\ \A i \in Ops : s.status[i] \notin {"running", "not-started"}
    /\ s.terminal = "completed" => \A i \in Ops : s.status[i] = "completed"

\* The phase a process is in, or comes to with the write it is making.
Heading(r) == IF r.phase = "replace" THEN r.next ELSE r.phase

\* A process that goes by a run state it has read.
Working(r) == r.phase \notin {"new", "creating", "ended"}

\* What a process knows is the file, or an older revision of it.  With the
\* lock it is the file, and the write adds at most the attempt to come.
Behind(r) ==
  /\ Working(r) => r.state.revision <= file.revision
  /\ Working(r) /\ r.phase # "replace" /\ r.state.revision = file.revision =>
       r.state.attempts = file.attempts
  /\ r.phase = "replace" =>
       /\ r.state.revision = file.revision
       /\ r.state.attempts = IF r.next = "execute"
                             THEN [file.attempts EXCEPT ![Order[r.position]] = @ + 1]
                             ELSE file.attempts

\* The statuses the loop leaves behind it.
Done == {"completed", "failed", "blocked"}

\* How far a process is: the loop leaves nothing undone behind it, an
\* operation begins after its dependencies, and the loop is left early only
\* for a cancellation or a failure under the stop policy.
Progress(r) ==
  /\ Heading(r) \in {"creating", "begin", "plan"} => r.position = 1
  /\ Heading(r) \in {"begin", "plan", "loop", "execute", "capture", "finish"} =>
       /\ r.state.terminal = "running"
       /\ \A k \in 1..(r.position - 1) : r.state.status[Order[k]] \in Done
  /\ Heading(r) \in {"execute", "capture"} => r.position <= Len(Order)
  /\ r.phase = "replace" /\ r.next = "execute" =>
       DependenciesMet(r.state, Order[r.position])
  /\ Heading(r) = "finish" => r.cancelled \/ (r.failureSeen /\ job.policy = "stop")
  /\ Working(r) /\ Heading(r) \in {"final", "ended"} => Settled(r.state)

RecordOK(p, r) ==
  /\ r.phase = "creating" => stored = "partial" /\ r.state = NewRunState
  /\ Working(r) => stored = "whole"
  /\ r.phase = "replace" =>
       lock = p /\ r.next \in {"loop", "execute", "finish", "final", "ended"}
  /\ Behind(r)
  /\ Progress(r)

\* The file before its first state is written, and the one process that
\* writes it.
Creation ==
  /\ stored # "absent" => Accepted
  /\ stored # "whole" => file = NewRunState /\ started = [i \in Ops |-> 0]
  /\ \A p, q \in Invocations : At(p, "creating") /\ At(q, "creating") => p = q

IInv ==
  /\ Types
  /\ Creation
  /\ Settled(file)
  /\ \A p \in Invocations : RecordOK(p, invocation[p])
  /\ \A i \in Ops : started[i] <= file.attempts[i]
  /\ DependenciesFirst

-----------------------------------------------------------------------------
(* What the steps are made of.                                             *)

LEMMA SameJob ==
  ASSUME job' = job
  PROVE  /\ N' = N /\ Ops' = Ops /\ Order' = Order /\ (Accepted' <=> Accepted)
         /\ NewRunState' = NewRunState /\ EvidenceValues' = EvidenceValues
         /\ RunStates' = RunStates /\ Records' = Records
<1>1. N' = N /\ Ops' = Ops
  BY DEF N, Ops
<1>2. Order' = Order
  BY DEF Order, OrderUpTo, Ops, Op
<1>3. Accepted' <=> Accepted
  BY <1>2 DEF Accepted
<1>4. NewRunState' = NewRunState
  BY <1>1 DEF NewRunState
<1>5. EvidenceValues' = EvidenceValues
  BY <1>1 DEF EvidenceValues
<1>6. RunStates' = RunStates
  BY <1>1, <1>5 DEF RunStates
<1>7. Records' = Records
  BY <1>2, <1>6 DEF Records
<1> QED
  BY <1>1, <1>2, <1>3, <1>4, <1>5, <1>6, <1>7

LEMMA SamePredicates ==
  ASSUME job' = job, NEW s, NEW r
  PROVE  /\ Settled(s)' <=> Settled(s)
         /\ Progress(r)' <=> Progress(r)
<1>1. Ops' = Ops /\ Order' = Order
  BY SameJob
<1>2. Settled(s)' <=> Settled(s)
  BY <1>1 DEF Settled
<1>3. \A i : DependenciesMet(r.state, i)' <=> DependenciesMet(r.state, i)
  BY DEF DependenciesMet, Op
<1>4. Settled(r.state)' <=> Settled(r.state)
  BY <1>1 DEF Settled
<1>5. Heading(r)' = Heading(r) /\ Working(r)' = Working(r)
  BY DEF Heading, Working
<1>6. DependenciesMet(r.state, Order[r.position])' <=> DependenciesMet(r.state, Order[r.position])
  BY <1>1 DEF DependenciesMet, Op
<1>7. Progress(r)' <=> Progress(r)
  BY <1>1, <1>4, <1>5, <1>6 DEF Progress
<1> QED
  BY <1>2, <1>7

LEMMA RecordFacts ==
  ASSUME IInv, NEW p \in Invocations
  PROVE  /\ invocation[p] \in Records
         /\ invocation[p].phase \in Phases
         /\ invocation[p].state \in RunStates
         /\ invocation[p].position \in 1..(Len(Order) + 1)
         /\ RecordOK(p, invocation[p])
BY DEF IInv, Types, Records

LEMMA NewRunStateType ==
  ASSUME job \in Jobs
  PROVE  NewRunState \in RunStates
<1>1. MaxAttempts \in Nat
  BY ConstantsAssumption
<1> QED
  BY <1>1 DEF NewRunState, RunStates, EvidenceValues, Statuses, Terminals

LEMMA IdleType ==
  ASSUME job \in Jobs, NEW phase \in Phases
  PROVE  Idle(phase) \in Records
<1>1. NewRunState \in RunStates /\ Len(Order) \in Nat
  BY NewRunStateType, OrderFacts
<1>2. "ended" \in Phases /\ 1 \in 1..(Len(Order) + 1)
  BY <1>1 DEF Phases
<1> QED
  BY <1>1, <1>2 DEF Idle, Records, NoOptions

\* A process whose record and surroundings stay as they are.
LEMMA RecordStays ==
  ASSUME job' = job, NEW p, NEW r, RecordOK(p, r),
         file' = file, stored' = stored, lock' = lock \/ r.phase # "replace"
  PROVE  RecordOK(p, r)'
<1>1. Order' = Order /\ NewRunState' = NewRunState
  BY SameJob
<1>2. Progress(r)' <=> Progress(r)
  BY SamePredicates
<1>3. Behind(r)' <=> Behind(r)
  BY <1>1 DEF Behind, Working
<1>4. Working(r)' <=> Working(r)
  BY DEF Working
<1> QED
  BY <1>1, <1>2, <1>3, <1>4 DEF RecordOK

\* A step of one process that leaves the file and the lock alone.
LEMMA LocalStep ==
  ASSUME IInv, NEW p \in Invocations, NEW r \in Records,
         RecordOK(p, r), r.phase # "creating", Becomes(p, r),
         UNCHANGED <<job, stored, file, lock, started, finished>>,
         disk' \in [Paths -> -MaxOthers..(N + 1)], others' \in 0..MaxOthers
  PROVE  IInv'
<1>1. Types'
  <2>1. invocation' \in [Invocations -> Records]
    BY DEF IInv, Types, Becomes
  <2> QED
    BY <2>1, SameJob DEF IInv, Types
<1>2. \A q \in Invocations : invocation'[q] = IF q = p THEN r ELSE invocation[q]
  BY DEF IInv, Types, Becomes
<1>3. Creation'
  BY <1>2, SameJob DEF IInv, Creation, At
<1>4. Settled(file)'
  BY SamePredicates DEF IInv
<1>5. ASSUME NEW q \in Invocations PROVE RecordOK(q, invocation[q])'
  <2>1. RecordOK(q, IF q = p THEN r ELSE invocation[q])
    BY DEF IInv
  <2>2. RecordOK(q, invocation'[q])
    BY <1>2, <2>1
  <2> QED
    BY <2>2, RecordStays
<1>6. (\A i \in Ops : started[i] <= file.attempts[i])'
  BY SameJob DEF IInv
<1>7. DependenciesFirst'
  BY SameJob DEF IInv, DependenciesFirst, Op
<1> QED
  BY <1>1, <1>3, <1>4, <1>5, <1>6, <1>7 DEF IInv

\* A process that ends, or dies, and leaves its lock.
LEMMA EndStep ==
  ASSUME IInv, NEW p \in Invocations, Ends(p),
         UNCHANGED <<job, stored, file, started, finished>>,
         lock' = lock \/ (lock = p /\ lock' = 0),
         disk' \in [Paths -> -MaxOthers..(N + 1)], others' \in 0..MaxOthers
  PROVE  IInv'
<1>1. Idle("ended") \in Records /\ Idle("ended").phase = "ended"
  BY IdleType DEF IInv, Types, Phases, Idle
<1>2. Types'
  <2>1. invocation' \in [Invocations -> Records]
    BY <1>1 DEF IInv, Types, Becomes, Ends
  <2> QED
    BY <2>1, SameJob DEF IInv, Types
<1>3. \A q \in Invocations : invocation'[q] = IF q = p THEN Idle("ended") ELSE invocation[q]
  BY DEF IInv, Types, Becomes, Ends
<1>4. Creation'
  BY <1>1, <1>3, SameJob DEF IInv, Creation, At
<1>5. Settled(file)'
  BY SamePredicates DEF IInv
<1>6. ASSUME NEW q \in Invocations PROVE RecordOK(q, invocation[q])'
  <2>1. RecordOK(p, Idle("ended"))
    BY <1>1 DEF RecordOK, Behind, Progress, Working, Heading
  <2>2. CASE q = p
    <3>1. RecordOK(p, Idle("ended"))'
      <4>1. RecordOK(p, invocation'[p])
        BY <1>3, <2>1
      <4>2. invocation'[p].phase # "replace"
        BY <1>1, <1>3
      <4>3. RecordOK(p, invocation[p])'
        BY <4>1, <4>2, RecordStays
      <4> QED
        BY <4>3, <1>3, SameJob DEF Idle
    <3> QED
      BY <3>1, <1>3, <2>2, SameJob DEF Idle
  <2>3. CASE q # p
    <3>1. RecordOK(q, invocation'[q])
      BY <1>3, <2>3 DEF IInv
    <3>2. lock' = lock \/ invocation'[q].phase # "replace"
      BY <3>1, <2>3 DEF RecordOK
    <3> QED
      BY <3>1, <3>2, RecordStays
  <2> QED
    BY <2>2, <2>3
<1>7. (\A i \in Ops : started[i] <= file.attempts[i])'
  BY SameJob DEF IInv
<1>8. DependenciesFirst'
  BY SameJob DEF IInv, DependenciesFirst, Op
<1> QED
  BY <1>2, <1>4, <1>5, <1>6, <1>7, <1>8 DEF IInv

\* What a write must satisfy, called with state s by a process of record r to
\* go on at phase next.
WriteOK(p, r, s, next) ==
  /\ r \in Records /\ s \in RunStates
  /\ next \in {"loop", "execute", "finish", "final", "ended"}
  /\ Working(invocation[p]) /\ ~At(p, "replace")
  /\ s.revision = invocation[p].state.revision
  /\ s.attempts = IF next = "execute"
                  THEN [invocation[p].state.attempts EXCEPT ![Order[r.position]] = @ + 1]
                  ELSE invocation[p].state.attempts
  /\ next \in {"final", "ended"} => Settled(s)
  /\ next \in {"loop", "execute", "finish"} =>
       /\ s.terminal = "running"
       /\ \A k \in 1..(r.position - 1) : s.status[Order[k]] \in Done
  /\ next = "execute" => r.position <= Len(Order) /\ DependenciesMet(s, Order[r.position])
  /\ next = "finish" => r.cancelled \/ (r.failureSeen /\ job.policy = "stop")

LEMMA WriteAnyDisk ==
  ASSUME IInv, NEW p \in Invocations, NEW r, NEW s, NEW next,
         WriteOK(p, r, s, next), Write(p, r, s, next),
         UNCHANGED <<job, stored, file, started, finished, others>>,
         disk' \in [Paths -> -MaxOthers..(N + 1)]
  PROVE  IInv'
<1>1. CASE ~(LockFree(p) /\ RevisionCurrent(s))
  BY <1>1, EndStep DEF Write, IInv, Types
<1>2. CASE LockFree(p) /\ RevisionCurrent(s)
  <2> DEFINE w == [r EXCEPT !.state = s, !.phase = "replace", !.next = next]
  <2>1. lock = 0 /\ s.revision = file.revision /\ lock' = p
    BY <1>2 DEF Write, LockFree, RevisionCurrent
  <2>2. Becomes(p, w)
    BY <1>2 DEF Write
  <2>3. /\ w \in Records
        /\ w.state = s /\ w.phase = "replace" /\ w.next = next
        /\ w.position = r.position /\ w.cancelled = r.cancelled
        /\ w.failureSeen = r.failureSeen
    BY DEF WriteOK, Records, Phases
  <2> HIDE DEF w
  <2>4. \A q \in Invocations : invocation'[q] = IF q = p THEN w ELSE invocation[q]
    BY <2>2 DEF IInv, Types, Becomes
  <2>5. Types'
    <3>1. invocation' \in [Invocations -> Records]
      BY <2>2, <2>3 DEF IInv, Types, Becomes
    <3> QED
      BY <2>1, <3>1, SameJob DEF IInv, Types
  <2>6. Creation'
    BY <2>3, <2>4, SameJob DEF IInv, Creation, At
  <2>7. Settled(file)'
    BY SamePredicates DEF IInv
  <2>8. RecordOK(p, invocation[p])'
    <3>1. Progress(w)
      BY <2>3 DEF WriteOK, Progress, Heading, Working
    <3>2. Progress(invocation'[p])
      BY <2>4, <3>1
    <3>3. Progress(invocation[p])'
      BY <3>2, SamePredicates
    <3>4. invocation[p].state.attempts = file.attempts
      BY <2>1 DEF IInv, RecordOK, Behind, WriteOK, At
    <3>5. /\ w.state.revision = file.revision
          /\ w.state.attempts = IF w.next = "execute"
                                THEN [file.attempts EXCEPT ![Order[w.position]] = @ + 1]
                                ELSE file.attempts
      BY <2>1, <2>3, <3>4 DEF WriteOK
    <3>6. file.revision \in Nat
      BY DEF IInv, Types, RunStates
    <3>7. Behind(w)
      BY <2>3, <3>5, <3>6 DEF Behind, Working
    <3>8. Behind(invocation[p])'
      BY <2>4, <3>7, SameJob DEF Behind, Working
    <3>9. stored = "whole"
      BY DEF IInv, RecordOK, WriteOK
    <3> QED
      BY <2>1, <2>3, <2>4, <3>3, <3>8, <3>9 DEF RecordOK, WriteOK
  <2>9. ASSUME NEW q \in Invocations, q # p PROVE RecordOK(q, invocation[q])'
    <3>1. RecordOK(q, invocation'[q])
      BY <2>4, <2>9 DEF IInv
    <3>2. q # 0
      BY DEF Invocations
    <3>3. invocation'[q].phase # "replace"
      BY <2>1, <3>1, <3>2 DEF RecordOK
    <3> QED
      BY <3>1, <3>3, RecordStays
  <2>10. (\A i \in Ops : started[i] <= file.attempts[i])'
    BY SameJob DEF IInv
  <2>11. DependenciesFirst'
    BY SameJob DEF IInv, DependenciesFirst, Op
  <2> QED
    BY <2>5, <2>6, <2>7, <2>8, <2>9, <2>10, <2>11 DEF IInv
<1> QED
  BY <1>1, <1>2

LEMMA WriteStep ==
  ASSUME IInv, NEW p \in Invocations, NEW r, NEW s, NEW next,
         WriteOK(p, r, s, next), Write(p, r, s, next),
         UNCHANGED <<job, stored, file, disk, started, finished, others>>
  PROVE  IInv'
BY WriteAnyDisk DEF IInv, Types

-----------------------------------------------------------------------------
(* What the operators on run states do.                                    *)

LEMMA RecordedFacts ==
  ASSUME NEW s \in RunStates, NEW i \in Ops, NEW status \in Statuses,
         NEW retryable \in BOOLEAN
  PROVE  LET t == Recorded(s, i, status, retryable)
         IN /\ t \in RunStates
            /\ t.status = [s.status EXCEPT ![i] = status]
            /\ t.attempts = s.attempts /\ t.revision = s.revision
            /\ t.terminal = s.terminal /\ t.evidence = s.evidence
BY DEF Recorded, RunStates

LEMMA MarkCancelledFacts ==
  ASSUME NEW s \in RunStates
  PROVE  LET t == MarkCancelled(s)
         IN /\ t \in RunStates
            /\ \A i \in Ops : t.status[i] = IF s.status[i] \in {"not-started", "running"}
                                            THEN "cancelled" ELSE s.status[i]
            /\ t.attempts = s.attempts /\ t.revision = s.revision
            /\ t.terminal = s.terminal
BY DEF MarkCancelled, RunStates, Statuses

LEMMA CancelledRunFacts ==
  ASSUME NEW s \in RunStates
  PROVE  LET t == CancelledRun(s)
         IN /\ t \in RunStates /\ Settled(t)
            /\ t.attempts = s.attempts /\ t.revision = s.revision
<1> DEFINE m == MarkCancelled(s)
<1>1. /\ m \in RunStates
      /\ \A i \in Ops : m.status[i] = IF s.status[i] \in {"not-started", "running"}
                                      THEN "cancelled" ELSE s.status[i]
      /\ m.attempts = s.attempts /\ m.revision = s.revision
  BY MarkCancelledFacts
<1> HIDE DEF m
<1>2. CancelledRun(s) = [m EXCEPT !.terminal = "cancelled"]
  BY DEF CancelledRun, m
<1>3. "cancelled" \in Terminals
  BY DEF Terminals
<1>4. /\ CancelledRun(s) \in RunStates
      /\ CancelledRun(s).status = m.status /\ CancelledRun(s).terminal = "cancelled"
      /\ CancelledRun(s).attempts = s.attempts /\ CancelledRun(s).revision = s.revision
  BY <1>1, <1>2, <1>3 DEF RunStates
<1> QED
  BY <1>1, <1>4 DEF Settled

LEMMA StopRestFacts ==
  ASSUME NEW s \in RunStates
  PROVE  LET t == StopRest(s)
         IN /\ t \in RunStates
            /\ \A i \in Ops : t.status[i] \notin {"not-started", "running"}
            /\ t.attempts = s.attempts /\ t.revision = s.revision
            /\ t.terminal = s.terminal
BY DEF StopRest, RunStates, Statuses

LEMMA PreparedFacts ==
  ASSUME NEW s \in RunStates, NEW a \in BOOLEAN, NEW b \in BOOLEAN
  PROVE  LET t == Prepared(s, a, b)
         IN /\ t \in RunStates
            /\ t.attempts = s.attempts /\ t.revision = s.revision
            /\ t.terminal = "running"
<1> DEFINE again(i) == \/ s.status[i] = "running"
                       \/ s.status[i] = "failed" /\ a /\ s.retryable[i]
                       \/ s.status[i] = "cancelled" /\ b
           status == [i \in Ops |-> IF again(i) THEN "not-started" ELSE s.status[i]]
<1>1. Prepared(s, a, b) = [s EXCEPT !.status = status, !.terminal = "running"]
  BY DEF Prepared
<1>2. status \in [Ops -> Statuses]
  BY DEF RunStates, Statuses
<1> HIDE DEF status
<1> QED
  BY <1>1, <1>2 DEF RunStates, Terminals

LEMMA PreflightFailedFacts ==
  ASSUME NEW s \in RunStates, NEW plan, NEW retryable
  PROVE  LET t == PreflightFailed(s, plan, retryable)
         IN /\ t \in RunStates /\ Settled(t)
            /\ t.attempts = s.attempts /\ t.revision = s.revision
<1> DEFINE status == [i \in Ops |-> IF plan[i] = "blocked" THEN "blocked" ELSE "failed"]
           again == [i \in Ops |-> IF plan[i] = "blocked" THEN s.retryable[i]
                                   ELSE i \in retryable]
           t == PreflightFailed(s, plan, retryable)
<1>1. status \in [Ops -> Statuses] /\ \A i \in Ops : status[i] \in {"blocked", "failed"}
  BY DEF Statuses
<1>2. again \in [Ops -> BOOLEAN] /\ "failed" \in Terminals
  <2>1. \A i \in Ops : s.retryable[i] \in BOOLEAN
    BY DEF RunStates
  <2>2. \A i \in Ops : (i \in retryable) \in BOOLEAN
    OBVIOUS
  <2>3. \A i \in Ops : (IF plan[i] = "blocked" THEN s.retryable[i] ELSE i \in retryable) \in BOOLEAN
    BY <2>1, <2>2, Zenon
  <2>4. again \in [Ops -> BOOLEAN]
    BY <2>3, Zenon
  <2> QED
    BY <2>4 DEF Terminals
<1>3. t = [s EXCEPT !.status = status, !.retryable = again, !.terminal = "failed"]
  BY DEF PreflightFailed
<1> HIDE DEF status, again, t
<1>4. /\ t.status = status /\ t.terminal = "failed" /\ t.retryable = again
      /\ t.attempts = s.attempts /\ t.revision = s.revision /\ t.evidence = s.evidence
  BY <1>3 DEF RunStates
<1>6. t \in RunStates
  <2>1. t = [status |-> t.status, attempts |-> t.attempts, retryable |-> t.retryable,
             evidence |-> t.evidence, terminal |-> t.terminal, revision |-> t.revision]
    BY <1>3 DEF RunStates
  <2> QED
    BY <1>1, <1>2, <1>4, <2>1 DEF RunStates
<1>5. Settled(t)
  BY <1>1, <1>4 DEF Settled
<1> QED
  BY <1>4, <1>5, <1>6 DEF t

LEMMA PassedGrows ==
  ASSUME job \in Jobs, NEW f \in [Ops -> Statuses], NEW n \in 1..Len(Order), NEW status,
         \A k \in 1..(n - 1) : f[Order[k]] \in Done
  PROVE  LET g == [f EXCEPT ![Order[n]] = status]
         IN /\ \A k \in 1..(n - 1) : g[Order[k]] \in Done
            /\ status \in Done => \A k \in 1..n : g[Order[k]] \in Done
<1>1. /\ Len(Order) \in Nat /\ \A k \in 1..Len(Order) : Order[k] \in Ops
      /\ \A j, k \in 1..Len(Order) : Order[j] = Order[k] => j = k
  BY OrderFacts
<1>2. \A k \in 1..n : k \in 1..(n - 1) \/ k = n
  BY <1>1
<1>3. \A k \in 1..(n - 1) : k \in 1..Len(Order) /\ k # n
  BY <1>1
<1> QED
  BY <1>1, <1>2, <1>3

\* A process between its first read and the end of its loop.
LEMMA WorkFacts ==
  ASSUME IInv, NEW p \in Invocations,
         invocation[p].phase \in {"begin", "plan", "loop", "execute", "capture", "finish"}
  PROVE  LET r == invocation[p]
         IN /\ r \in Records /\ r.state \in RunStates
            /\ r.position \in 1..(Len(Order) + 1)
            /\ Working(r) /\ ~At(p, "replace") /\ RecordOK(p, r)
            /\ r.state.terminal = "running"
            /\ \A k \in 1..(r.position - 1) : r.state.status[Order[k]] \in Done
            /\ r.phase \in {"execute", "capture"} => r.position <= Len(Order)
            /\ r.position <= Len(Order) =>
                 r.position \in 1..Len(Order) /\ Current(p) \in Ops
                  /\ Current(p) = Order[r.position]
<1> DEFINE r == invocation[p]
<1>1. r \in Records /\ r.state \in RunStates /\ RecordOK(p, r) /\ r.position \in 1..(Len(Order) + 1)
  BY RecordFacts
<1>2. Len(Order) \in Nat /\ \A k \in 1..Len(Order) : Order[k] \in Ops
  BY OrderFacts DEF IInv, Types
<1>3. Working(r) /\ ~At(p, "replace") /\ Heading(r) = r.phase
  BY DEF Working, At, Heading
<1> QED
  BY <1>1, <1>2, <1>3 DEF RecordOK, Progress, Current

-----------------------------------------------------------------------------
(* The steps.                                                              *)

LEMMA RunKeeps ==
  ASSUME IInv, NEW p \in Invocations, Run(p)
  PROVE  IInv'
<1> DEFINE r == [Idle("creating") EXCEPT !.next = "begin"]
<1>1. /\ r \in Records /\ r.phase = "creating" /\ r.next = "begin"
      /\ r.state = NewRunState /\ r.position = 1
  <2>1. Idle("creating") \in Records /\ "begin" \in Phases
    BY IdleType DEF IInv, Types, Phases
  <2> QED
    BY <2>1 DEF Idle, Records
<1>2. stored = "absent" /\ stored' = "partial" /\ Accepted /\ Becomes(p, r)
  BY DEF Run
<1> HIDE DEF r
<1>3. UNCHANGED <<job, file, lock, disk, started, finished, others>>
  BY DEF Run
<1>4. \A q \in Invocations : invocation'[q] = IF q = p THEN r ELSE invocation[q]
  BY <1>2 DEF IInv, Types, Becomes
<1>5. Types'
  <2>1. invocation' \in [Invocations -> Records]
    BY <1>1, <1>2 DEF IInv, Types, Becomes
  <2> QED
    BY <1>2, <1>3, <2>1, SameJob DEF IInv, Types
<1>6. \A q \in Invocations : ~At(q, "creating") /\ ~Working(invocation[q])
  BY <1>2 DEF IInv, RecordOK, At
<1>7. Creation'
  BY <1>1, <1>2, <1>3, <1>4, <1>6, SameJob DEF IInv, Creation, At
<1>8. Settled(file)'
  BY <1>3, SamePredicates DEF IInv
<1>9. ASSUME NEW q \in Invocations PROVE RecordOK(q, invocation[q])'
  <2>1. CASE q = p
    <3>1. invocation'[q] = r /\ NewRunState' = NewRunState
      BY <1>3, <1>4, <2>1, SameJob
    <3>2. NewRunState.terminal = "running" /\ 1..(1 - 1) = {}
      BY DEF NewRunState
    <3> QED
      BY <1>1, <1>2, <3>1, <3>2 DEF RecordOK, Behind, Progress, Working, Heading
  <2>2. CASE q # p
    <3>1. invocation'[q] = invocation[q] /\ invocation'[q].phase \in {"new", "ended"}
      BY <1>4, <1>6, <2>2, RecordFacts DEF At, Working
    <3> QED
      BY <3>1 DEF RecordOK, Behind, Progress, Working, Heading
  <2> QED
    BY <2>1, <2>2
<1>10. (\A i \in Ops : started[i] <= file.attempts[i])'
  BY <1>3, SameJob DEF IInv
<1>11. DependenciesFirst'
  BY <1>3, SameJob DEF IInv, DependenciesFirst, Op
<1> QED
  BY <1>5, <1>7, <1>8, <1>9, <1>10, <1>11 DEF IInv

LEMMA CreatedKeeps ==
  ASSUME IInv, NEW p \in Invocations, Created(p)
  PROVE  IInv'
<1> DEFINE r == [invocation[p] EXCEPT !.phase = "begin"]
<1>1. /\ At(p, "creating") /\ stored' = "whole" /\ file' = invocation[p].state
      /\ Becomes(p, r) /\ UNCHANGED <<job, lock, disk, started, finished, others>>
  BY DEF Created, Goto
<1>2. /\ stored = "partial" /\ invocation[p].state = NewRunState
      /\ file = NewRunState /\ Accepted /\ invocation[p].position = 1
  BY <1>1 DEF IInv, Creation, RecordOK, Progress, Heading, At
<1>3. file' = file
  BY <1>1, <1>2
<1>4. r \in Records /\ r.phase = "begin" /\ r.state = file /\ r.position = 1
  BY <1>2, RecordFacts DEF Records, Phases
<1> HIDE DEF r
<1>5. \A q \in Invocations : invocation'[q] = IF q = p THEN r ELSE invocation[q]
  BY <1>1 DEF IInv, Types, Becomes
<1>6. Types'
  <2>1. invocation' \in [Invocations -> Records]
    BY <1>1, <1>4 DEF IInv, Types, Becomes
  <2> QED
    BY <1>1, <1>3, <2>1, SameJob DEF IInv, Types
<1>7. \A q \in Invocations \ {p} : ~At(q, "creating") /\ ~Working(invocation[q])
  BY <1>1, <1>2 DEF IInv, Creation, RecordOK
<1>8. Creation'
  BY <1>1, <1>2, <1>4, <1>5, <1>7, SameJob DEF Creation, At
<1>9. Settled(file)'
  BY <1>1, <1>3, SamePredicates DEF IInv
<1>10. ASSUME NEW q \in Invocations PROVE RecordOK(q, invocation[q])'
  <2>1. CASE q = p
    <3>1. invocation'[q] = r
      BY <1>5, <2>1
    <3>2. file.terminal = "running" /\ 1..(1 - 1) = {} /\ file.revision = 0
      BY <1>2 DEF NewRunState
    <3> QED
      BY <1>1, <1>3, <1>4, <3>1, <3>2 DEF RecordOK, Behind, Progress, Working, Heading
  <2>2. CASE q # p
    <3>1. invocation'[q] = invocation[q] /\ invocation'[q].phase \in {"new", "ended"}
      BY <1>5, <1>7, <2>2, RecordFacts DEF At, Working
    <3> QED
      BY <3>1 DEF RecordOK, Behind, Progress, Working, Heading
  <2> QED
    BY <2>1, <2>2
<1>11. (\A i \in Ops : started[i] <= file.attempts[i])'
  BY <1>1, <1>3, SameJob DEF IInv
<1>12. DependenciesFirst'
  BY <1>1, SameJob DEF IInv, DependenciesFirst, Op
<1> QED
  BY <1>6, <1>8, <1>9, <1>10, <1>11, <1>12 DEF IInv

LEMMA CreateFailsKeeps ==
  ASSUME IInv, NEW p \in Invocations, CreateFails(p)
  PROVE  IInv'
<1>1. /\ At(p, "creating") /\ stored' = "absent" /\ Becomes(p, Idle("ended"))
      /\ UNCHANGED <<job, file, lock, disk, started, finished, others>>
  BY DEF CreateFails, Ends
<1>2. stored = "partial"
  BY <1>1 DEF IInv, RecordOK, At
<1>3. Idle("ended") \in Records /\ Idle("ended").phase = "ended"
  BY IdleType DEF IInv, Types, Phases, Idle
<1>4. \A q \in Invocations : invocation'[q] = IF q = p THEN Idle("ended") ELSE invocation[q]
  BY <1>1 DEF IInv, Types, Becomes
<1>5. \A q \in Invocations : invocation'[q].phase \in {"new", "ended"}
  BY <1>1, <1>2, <1>3, <1>4, RecordFacts DEF IInv, Creation, RecordOK, At, Working
<1>6. Types'
  <2>1. invocation' \in [Invocations -> Records]
    BY <1>1, <1>3 DEF IInv, Types, Becomes
  <2> QED
    BY <1>1, <2>1, SameJob DEF IInv, Types
<1>7. Creation'
  BY <1>1, <1>2, <1>5, SameJob DEF IInv, Creation, At
<1>8. Settled(file)'
  BY <1>1, SamePredicates DEF IInv
<1>9. \A q \in Invocations : RecordOK(q, invocation[q])'
  BY <1>5 DEF RecordOK, Behind, Progress, Working, Heading
<1>10. (\A i \in Ops : started[i] <= file.attempts[i])'
  BY <1>1, SameJob DEF IInv
<1>11. DependenciesFirst'
  BY <1>1, SameJob DEF IInv, DependenciesFirst, Op
<1> QED
  BY <1>6, <1>7, <1>8, <1>9, <1>10, <1>11 DEF IInv

LEMMA ResumeKeeps ==
  ASSUME IInv, NEW p \in Invocations, Resume(p)
  PROVE  IInv'
<1>1. PICK a \in BOOLEAN, b \in BOOLEAN :
        Becomes(p, [Idle("begin") EXCEPT !.state = Prepared(file, a, b),
                      !.options = [retryFailed |-> a, retryCancelled |-> b]])
  BY DEF Resume
<1> DEFINE s == Prepared(file, a, b)
           r == [Idle("begin") EXCEPT !.state = s,
                   !.options = [retryFailed |-> a, retryCancelled |-> b]]
<1>2. /\ s \in RunStates /\ s.attempts = file.attempts /\ s.revision = file.revision
      /\ s.terminal = "running"
  BY PreparedFacts DEF IInv, Types
<1> HIDE DEF s
<1>3. r \in Records /\ r.phase = "begin" /\ r.state = s /\ r.position = 1
  <2>1. Idle("begin") \in Records
    BY IdleType DEF IInv, Types, Phases
  <2> QED
    BY <1>2, <2>1 DEF Idle, Records
<1>4. Becomes(p, r)
  BY <1>1 DEF s
<1> HIDE DEF r
<1>5. stored = "whole" /\ UNCHANGED <<job, stored, file, lock, disk, started, finished, others>>
  BY DEF Resume
<1>6. RecordOK(p, r)
  <2>1. file.revision \in Nat /\ 1..(1 - 1) = {}
    BY DEF IInv, Types, RunStates
  <2> QED
    BY <1>2, <1>3, <1>5, <2>1 DEF RecordOK, Behind, Progress, Working, Heading
<1> QED
  BY <1>3, <1>4, <1>5, <1>6, LocalStep DEF IInv, Types

\* The steps that change nothing but the record of their process.
LEMMA QuietStep ==
  ASSUME IInv, NEW p \in Invocations, NEW r, r \in Records, RecordOK(p, r),
         r.phase # "creating", Becomes(p, r),
         UNCHANGED <<job, stored, file, lock, disk, started, finished, others>>
  PROVE  IInv'
BY LocalStep DEF IInv, Types

LEMMA InterruptKeeps ==
  ASSUME IInv, NEW p \in Invocations, Interrupt(p)
  PROVE  IInv'
<1> DEFINE r == [invocation[p] EXCEPT !.interrupted = TRUE]
<1>1. /\ Becomes(p, r)
      /\ UNCHANGED <<job, stored, file, lock, disk, started, finished, others>>
      /\ invocation[p].phase # "creating"
  BY DEF Interrupt
<1>2. invocation[p] \in Records /\ RecordOK(p, invocation[p])
  BY RecordFacts
<1>3. /\ r \in Records
      /\ r.phase = invocation[p].phase /\ r.next = invocation[p].next
      /\ r.state = invocation[p].state /\ r.position = invocation[p].position
      /\ r.failureSeen = invocation[p].failureSeen /\ r.cancelled = invocation[p].cancelled
  BY <1>2 DEF Records
<1> HIDE DEF r
<1>4. RecordOK(p, r)
  BY <1>2, <1>3 DEF RecordOK, Behind, Progress, Working, Heading
<1> QED
  BY <1>1, <1>3, <1>4, QuietStep

\* A command reads the run file and decides what to do with it.
LEMMA BeginKeeps ==
  ASSUME IInv, NEW p \in Invocations, Begin(p)
  PROVE  IInv'
<1> DEFINE state == invocation[p].state
<1>1. invocation[p].phase = "begin"
  BY DEF Begin, At
<1>2. UNCHANGED <<job, stored, file, disk, started, finished, others>>
  BY DEF Begin
<1>3. CASE invocation[p].interrupted
  <2>1. WriteOK(p, invocation[p], CancelledRun(state), "ended")
    BY <1>1, WorkFacts, CancelledRunFacts DEF WriteOK
  <2>2. Write(p, invocation[p], CancelledRun(state), "ended")
    BY <1>3 DEF Begin, Save
  <2> QED
    BY <1>2, <2>1, <2>2, WriteStep
<1>4. CASE ~invocation[p].interrupted
  <2> DEFINE r == [invocation[p] EXCEPT !.phase = "plan"]
  <2>1. Becomes(p, r) /\ UNCHANGED lock
    BY <1>4 DEF Begin, Goto
  <2>2. invocation[p] \in Records /\ RecordOK(p, invocation[p])
    BY RecordFacts
  <2>3. /\ r \in Records /\ r.phase = "plan"
        /\ r.state = invocation[p].state /\ r.position = invocation[p].position
    BY <2>2 DEF Records, Phases
  <2> HIDE DEF r
  <2>4. RecordOK(p, r)
    BY <1>1, <2>2, <2>3 DEF RecordOK, Behind, Progress, Working, Heading
  <2> QED
    BY <1>2, <2>1, <2>3, <2>4, QuietStep
<1> QED
  BY <1>3, <1>4

LEMMA PlanKeeps ==
  ASSUME IInv, NEW p \in Invocations, Plan(p)
  PROVE  IInv'
<1> DEFINE state == invocation[p].state
<1>1. invocation[p].phase = "plan"
  BY DEF Plan, At
<1>2. UNCHANGED <<job, stored, file, disk, started, finished, others>>
  BY DEF Plan
<1>3. ASSUME Save(p, CancelledRun(state), "ended") PROVE IInv'
  <2>1. WriteOK(p, invocation[p], CancelledRun(state), "ended")
    BY <1>1, WorkFacts, CancelledRunFacts DEF WriteOK
  <2> QED
    BY <1>2, <1>3, <2>1, WriteStep DEF Save
<1>4. ASSUME NEW plan, NEW retryable,
             Save(p, PreflightFailed(state, plan, retryable), "ended")
      PROVE  IInv'
  <2>1. WriteOK(p, invocation[p], PreflightFailed(state, plan, retryable), "ended")
    BY <1>1, WorkFacts, PreflightFailedFacts DEF WriteOK
  <2> QED
    BY <1>2, <1>4, <2>1, WriteStep DEF Save
<1>5. ASSUME Goto(p, "loop"), UNCHANGED lock PROVE IInv'
  <2> DEFINE r == [invocation[p] EXCEPT !.phase = "loop"]
  <2>1. invocation[p] \in Records /\ RecordOK(p, invocation[p])
    BY RecordFacts
  <2>2. /\ r \in Records /\ r.phase = "loop"
        /\ r.state = invocation[p].state /\ r.position = invocation[p].position
    BY <2>1 DEF Records, Phases
  <2>3. Becomes(p, r)
    BY <1>5 DEF Goto
  <2> HIDE DEF r
  <2>4. RecordOK(p, r)
    BY <1>1, <2>1, <2>2 DEF RecordOK, Behind, Progress, Working, Heading
  <2> QED
    BY <1>2, <1>5, <2>2, <2>3, <2>4, QuietStep
<1>6. \/ Save(p, CancelledRun(state), "ended")
      \/ \E plan, retryable : Save(p, PreflightFailed(state, plan, retryable), "ended")
      \/ Goto(p, "loop") /\ UNCHANGED lock
  BY Zenon DEF Plan
<1> QED
  BY <1>3, <1>4, <1>5, <1>6

LEMMA LoopCancelledKeeps ==
  ASSUME IInv, NEW p \in Invocations, LoopCancelled(p)
  PROVE  IInv'
<1> DEFINE m == MarkCancelled(invocation[p].state)
           r == [[invocation[p] EXCEPT !.cancelled = TRUE, !.state = m] EXCEPT !.phase = "finish"]
<1>1. /\ invocation[p].phase = "loop" /\ Becomes(p, r)
      /\ UNCHANGED <<job, stored, file, lock, disk, started, finished, others>>
  BY DEF LoopCancelled, At, Stopped
<1>2. /\ invocation[p] \in Records /\ RecordOK(p, invocation[p])
      /\ invocation[p].state.terminal = "running"
      /\ \A k \in 1..(invocation[p].position - 1) :
           invocation[p].state.status[Order[k]] \in Done
      /\ invocation[p].state \in RunStates
      /\ invocation[p].position \in 1..(Len(Order) + 1)
  BY <1>1, WorkFacts
<1>3. /\ m \in RunStates
      /\ \A i \in Ops :
            m.status[i] = IF invocation[p].state.status[i] \in {"not-started", "running"}
                            THEN "cancelled" ELSE invocation[p].state.status[i]
      /\ m.attempts = invocation[p].state.attempts /\ m.revision = invocation[p].state.revision
      /\ m.terminal = "running"
  BY <1>2, MarkCancelledFacts
<1> HIDE DEF m
<1>4. /\ r \in Records /\ r.phase = "finish" /\ r.state = m /\ r.cancelled = TRUE
      /\ r.position = invocation[p].position
  BY <1>2, <1>3 DEF Records, Phases
<1> HIDE DEF r
<1>5. \A k \in 1..(r.position - 1) : m.status[Order[k]] \in Done
  <2>1. \A k \in 1..(r.position - 1) : Order[k] \in Ops
    BY <1>2, <1>4, OrderFacts DEF IInv, Types
  <2> QED
    BY <1>2, <1>3, <1>4, <2>1 DEF Done
<1>6. RecordOK(p, r)
  BY <1>1, <1>2, <1>3, <1>4, <1>5 DEF RecordOK, Behind, Progress, Working, Heading
<1> QED
  BY <1>1, <1>4, <1>6, QuietStep

\* The loop goes past an operation that is done for this invocation.
LEMMA SkipStep ==
  ASSUME IInv, NEW p \in Invocations, Visits(p), NEW failureSeen \in BOOLEAN,
         CurrentStatus(p) \in Done,
         Becomes(p, Advanced([invocation[p] EXCEPT !.failureSeen = failureSeen])),
         UNCHANGED <<job, stored, file, lock, disk, started, finished, others>>
  PROVE  IInv'
<1> DEFINE r == Advanced([invocation[p] EXCEPT !.failureSeen = failureSeen])
<1>1. invocation[p].phase = "loop" /\ invocation[p].position <= Len(Order)
  BY DEF Visits, At
<1>2. /\ invocation[p] \in Records /\ RecordOK(p, invocation[p])
      /\ invocation[p].state.terminal = "running"
      /\ \A k \in 1..(invocation[p].position - 1) :
           invocation[p].state.status[Order[k]] \in Done
      /\ invocation[p].position \in 1..Len(Order)
      /\ Current(p) = Order[invocation[p].position]
  BY <1>1, WorkFacts
<1>3. Len(Order) \in Nat
  BY OrderFacts DEF IInv, Types
<1>4. /\ r \in Records /\ r.phase = "loop" /\ r.state = invocation[p].state
      /\ r.position = invocation[p].position + 1
  <2>1. invocation[p].position + 1 \in 1..(Len(Order) + 1)
    BY <1>2, <1>3
  <2> QED
    BY <1>1, <1>2, <2>1 DEF Records, Advanced
<1> HIDE DEF r
<1>5. \A k \in 1..(r.position - 1) : r.state.status[Order[k]] \in Done
  <2>1. \A k \in 1..(r.position - 1) :
          k \in 1..(invocation[p].position - 1) \/ k = invocation[p].position
    BY <1>2, <1>3, <1>4
  <2>2. invocation[p].state.status[Order[invocation[p].position]] \in Done
    BY <1>2 DEF CurrentStatus
  <2> QED
    BY <1>2, <1>4, <2>1, <2>2
<1>6. RecordOK(p, r)
  BY <1>1, <1>2, <1>4, <1>5 DEF RecordOK, Behind, Progress, Working, Heading
<1> QED
  BY <1>4, <1>6, QuietStep DEF r

LEMMA SkipCompletedKeeps ==
  ASSUME IInv, NEW p \in Invocations, SkipCompleted(p)
  PROVE  IInv'
<1>1. invocation[p] = [invocation[p] EXCEPT !.failureSeen = invocation[p].failureSeen]
  BY RecordFacts DEF Records
<1>2. invocation[p].failureSeen \in BOOLEAN
  BY RecordFacts DEF Records
<1>3. Becomes(p, Advanced(invocation[p])) /\ CurrentStatus(p) = "completed" /\ Visits(p)
  BY DEF SkipCompleted
<1>4. Becomes(p, Advanced([invocation[p] EXCEPT !.failureSeen = invocation[p].failureSeen]))
  BY <1>1, <1>3
<1> QED
  BY <1>2, <1>3, <1>4, SkipStep DEF SkipCompleted, Done

LEMMA SkipFailedKeeps ==
  ASSUME IInv, NEW p \in Invocations, SkipFailed(p)
  PROVE  IInv'
BY SkipStep DEF SkipFailed, Due, Done

LEMMA StopAtCancelledKeeps ==
  ASSUME IInv, NEW p \in Invocations, StopAtCancelled(p)
  PROVE  IInv'
<1> DEFINE r == [[invocation[p] EXCEPT !.cancelled = TRUE] EXCEPT !.phase = "finish"]
<1>1. /\ invocation[p].phase = "loop" /\ Becomes(p, r)
      /\ UNCHANGED <<job, stored, file, lock, disk, started, finished, others>>
  BY DEF StopAtCancelled, Due, Visits, At, Stopped
<1>2. invocation[p] \in Records /\ RecordOK(p, invocation[p])
  BY RecordFacts
<1>3. /\ r \in Records /\ r.phase = "finish" /\ r.state = invocation[p].state
      /\ r.cancelled = TRUE /\ r.position = invocation[p].position
  BY <1>2 DEF Records, Phases
<1> HIDE DEF r
<1>4. RecordOK(p, r)
  BY <1>1, <1>2, <1>3 DEF RecordOK, Behind, Progress, Working, Heading
<1> QED
  BY <1>1, <1>3, <1>4, QuietStep

LEMMA AdvancedFacts ==
  ASSUME job \in Jobs, NEW r \in Records, r.position <= Len(Order)
  PROVE  LET a == Advanced(r)
         IN /\ a \in Records /\ a.position = r.position + 1
            /\ a.phase = r.phase /\ a.state = r.state
            /\ a.cancelled = r.cancelled /\ a.failureSeen = r.failureSeen
<1>1. Len(Order) \in Nat /\ r.position \in 1..(Len(Order) + 1)
  BY OrderFacts DEF Records
<1>2. r.position + 1 \in 1..(Len(Order) + 1)
  BY <1>1
<1> QED
  BY <1>2 DEF Advanced, Records

\* The write of the outcome of the operation at the position of the loop.
LEMMA OutcomeOK ==
  ASSUME IInv, NEW p \in Invocations, invocation[p].phase \in {"loop", "execute", "capture"},
         invocation[p].position <= Len(Order),
         NEW r \in Records, r.position = invocation[p].position,
         NEW s \in RunStates, NEW status \in Statuses,
         s.status = [invocation[p].state.status EXCEPT ![Current(p)] = status],
         s.attempts = invocation[p].state.attempts,
         s.revision = invocation[p].state.revision,
         s.terminal = invocation[p].state.terminal
  PROVE  /\ status \in Done => WriteOK(p, Advanced(r), s, "loop")
         /\ r.cancelled \/ (r.failureSeen /\ job.policy = "stop") => WriteOK(p, r, s, "finish")
<1>1. job \in Jobs /\ Len(Order) \in Nat
  BY OrderFacts DEF IInv, Types
<1>2. /\ invocation[p] \in Records /\ invocation[p].state \in RunStates
      /\ Working(invocation[p]) /\ ~At(p, "replace")
      /\ invocation[p].state.terminal = "running"
      /\ invocation[p].position \in 1..Len(Order)
      /\ Current(p) = Order[invocation[p].position]
      /\ \A k \in 1..(invocation[p].position - 1) :
           invocation[p].state.status[Order[k]] \in Done
  BY WorkFacts
<1>3. invocation[p].state.status \in [Ops -> Statuses]
  BY <1>2 DEF RunStates
<1>4. /\ \A k \in 1..(r.position - 1) : s.status[Order[k]] \in Done
      /\ status \in Done => \A k \in 1..r.position : s.status[Order[k]] \in Done
  <2> DEFINE n == invocation[p].position
             f == invocation[p].state.status
  <2>1. /\ n \in 1..Len(Order) /\ f \in [Ops -> Statuses]
        /\ s.status = [f EXCEPT ![Order[n]] = status] /\ r.position = n
        /\ \A k \in 1..(n - 1) : f[Order[k]] \in Done
    BY <1>2, <1>3
  <2> HIDE DEF n, f
  <2>2. LET g == [f EXCEPT ![Order[n]] = status]
        IN /\ \A k \in 1..(n - 1) : g[Order[k]] \in Done
           /\ status \in Done => \A k \in 1..n : g[Order[k]] \in Done
    BY <1>1, <2>1, PassedGrows, Zenon
  <2> QED
    BY <2>1, <2>2
<1>5. /\ Advanced(r) \in Records /\ Advanced(r).position = r.position + 1
      /\ r.position \in 1..Len(Order)
  BY <1>1, <1>2, AdvancedFacts
<1>6. (r.position + 1) - 1 = r.position
  BY <1>5
<1>7. ASSUME status \in Done PROVE WriteOK(p, Advanced(r), s, "loop")
  <2>1. \A k \in 1..(Advanced(r).position - 1) : s.status[Order[k]] \in Done
    BY <1>4, <1>5, <1>6, <1>7
  <2> QED
    BY <1>2, <1>5, <2>1 DEF WriteOK
<1>8. ASSUME r.cancelled \/ (r.failureSeen /\ job.policy = "stop")
      PROVE  WriteOK(p, r, s, "finish")
  BY <1>2, <1>4, <1>8 DEF WriteOK
<1> QED
  BY <1>7, <1>8

LEMMA BlockKeeps ==
  ASSUME IInv, NEW p \in Invocations, Block(p)
  PROVE  IInv'
<1> DEFINE s == Recorded(invocation[p].state, Current(p), "blocked", FALSE)
<1>1. invocation[p].phase = "loop" /\ invocation[p].position <= Len(Order)
  BY DEF Block, Visits, At
<1>2. /\ Write(p, Advanced(invocation[p]), s, "loop")
      /\ UNCHANGED <<job, stored, file, disk, started, finished, others>>
  BY DEF Block
<1>3. invocation[p].state \in RunStates /\ Current(p) \in Ops /\ invocation[p] \in Records
  BY <1>1, WorkFacts
<1>4. "blocked" \in Statuses /\ "blocked" \in Done
  BY DEF Statuses, Done
<1>5. /\ s \in RunStates /\ s.status = [invocation[p].state.status EXCEPT ![Current(p)] = "blocked"]
      /\ s.attempts = invocation[p].state.attempts /\ s.revision = invocation[p].state.revision
      /\ s.terminal = invocation[p].state.terminal
  <2> DEFINE old == invocation[p].state
             i == Current(p)
             retryable == FALSE
  <2>1. old \in RunStates /\ i \in Ops /\ retryable \in BOOLEAN
    BY <1>3
  <2>2. s = Recorded(old, i, "blocked", retryable)
    OBVIOUS
  <2> HIDE DEF s, old, i, retryable
  <2>3. /\ s \in RunStates /\ s.status = [old.status EXCEPT ![i] = "blocked"]
        /\ s.attempts = old.attempts /\ s.revision = old.revision
        /\ s.terminal = old.terminal
    BY <1>4, <2>1, <2>2, RecordedFacts
  <2> QED
    BY <2>3 DEF old, i
<1> HIDE DEF s
<1>6. WriteOK(p, Advanced(invocation[p]), s, "loop")
  BY <1>1, <1>3, <1>4, <1>5, OutcomeOK
<1> QED
  BY <1>2, <1>6, WriteStep

LEMMA AttemptKeeps ==
  ASSUME IInv, NEW p \in Invocations, Attempt(p)
  PROVE  IInv'
<1> DEFINE i == Current(p)
           old == invocation[p].state
           s == [old EXCEPT !.status[i] = "running", !.attempts[i] = @ + 1]
<1>1. /\ invocation[p].phase = "loop" /\ invocation[p].position <= Len(Order)
      /\ DependenciesMet(old, i) /\ ~Exhausted(old, i)
  BY DEF Attempt, Admitted, Due, Visits, At
<1>2. /\ Write(p, invocation[p], s, "execute")
      /\ UNCHANGED <<job, stored, file, disk, started, finished, others>>
  BY DEF Attempt, Save
<1>3. /\ old \in RunStates /\ i \in Ops /\ invocation[p] \in Records
      /\ Working(invocation[p]) /\ ~At(p, "replace")
      /\ old.terminal = "running" /\ i = Order[invocation[p].position]
      /\ invocation[p].position \in 1..Len(Order)
      /\ \A k \in 1..(invocation[p].position - 1) : old.status[Order[k]] \in Done
  BY <1>1, WorkFacts
<1>4. old.attempts[i] + 1 \in 0..MaxAttempts /\ "running" \in Statuses
  <2>1. MaxAttempts \in Nat /\ old.attempts[i] \in 0..MaxAttempts
    BY <1>3, ConstantsAssumption DEF RunStates
  <2> QED
    BY <1>1, <2>1 DEF Exhausted, Statuses
<1>5. Op(i).dependsOn \subseteq Ops \ {i}
  BY <1>3, JobFacts DEF IInv, Types
<1> HIDE DEF i, old
<1>6. /\ s \in RunStates /\ s.status = [old.status EXCEPT ![i] = "running"]
      /\ s.attempts = [old.attempts EXCEPT ![i] = @ + 1]
      /\ s.revision = old.revision /\ s.terminal = old.terminal
  BY <1>3, <1>4 DEF RunStates
<1> HIDE DEF s
<1>7. old.status \in [Ops -> Statuses]
  BY <1>3 DEF RunStates
<1>8. \A k \in 1..(invocation[p].position - 1) : s.status[Order[k]] \in Done
  <2> DEFINE n == invocation[p].position
             f == old.status
  <2>1. /\ job \in Jobs /\ n \in 1..Len(Order) /\ f \in [Ops -> Statuses]
        /\ s.status = [f EXCEPT ![Order[n]] = "running"]
        /\ \A k \in 1..(n - 1) : f[Order[k]] \in Done
    BY <1>3, <1>6, <1>7 DEF IInv, Types
  <2> HIDE DEF n, f
  <2>2. \A k \in 1..(n - 1) : s.status[Order[k]] \in Done
    BY <2>1, PassedGrows
  <2> QED
    BY <2>2 DEF n
<1>9. DependenciesMet(s, i)
  BY <1>1, <1>5, <1>6, <1>7 DEF DependenciesMet
<1>10. WriteOK(p, invocation[p], s, "execute")
  <2>1. s.attempts = [invocation[p].state.attempts EXCEPT ![Order[invocation[p].position]] = @ + 1]
    BY <1>3, <1>6 DEF old
  <2>2. s.revision = invocation[p].state.revision /\ s.terminal = "running"
    BY <1>3, <1>6 DEF old
  <2>3. DependenciesMet(s, Order[invocation[p].position])
    BY <1>3, <1>9
  <2> QED
    BY <1>1, <1>3, <1>6, <1>8, <2>1, <2>2, <2>3 DEF WriteOK
<1> QED
  BY <1>2, <1>10, WriteStep DEF s, old, i

\* What a command leaves behind are contents of the kinds there are.
LEMMA LeftoversTyped ==
  ASSUME IInv, NEW p \in Invocations, invocation[p].phase = "execute", LeavesBehind(p)
  PROVE  disk' \in [Paths -> -MaxOthers..(N + 1)]
<1>1. Current(p) \in -MaxOthers..(N + 1)
  <2>1. Current(p) \in Ops
    BY WorkFacts
  <2> QED
    BY <2>1, JobFacts, ConstantsAssumption DEF IInv, Types
<1> QED
  BY <1>1 DEF LeavesBehind, IInv, Types

LEMMA SucceedKeeps ==
  ASSUME IInv, NEW p \in Invocations, Succeed(p)
  PROVE  IInv'
<1> DEFINE r == [invocation[p] EXCEPT !.phase = "capture"]
<1>1. /\ invocation[p].phase = "execute" /\ Becomes(p, r)
      /\ UNCHANGED <<job, stored, file, lock, started, finished, others>>
      /\ disk' = IF Publishes(Current(p))
                 THEN [disk EXCEPT ![Op(Current(p)).output] = Current(p)] ELSE disk
  BY DEF Succeed, At, Goto
<1>2. /\ invocation[p] \in Records /\ RecordOK(p, invocation[p])
      /\ invocation[p].position <= Len(Order) /\ Current(p) \in Ops
  BY <1>1, WorkFacts
<1>3. /\ r \in Records /\ r.phase = "capture"
      /\ r.state = invocation[p].state /\ r.position = invocation[p].position
  BY <1>2 DEF Records, Phases
<1> HIDE DEF r
<1>4. RecordOK(p, r)
  BY <1>1, <1>2, <1>3 DEF RecordOK, Behind, Progress, Working, Heading
<1>5. disk' \in [Paths -> -MaxOthers..(N + 1)]
  <2>1. Current(p) \in -MaxOthers..(N + 1)
    BY <1>2, JobFacts, ConstantsAssumption DEF IInv, Types
  <2> QED
    BY <1>1, <2>1 DEF IInv, Types
<1> QED
  BY <1>1, <1>3, <1>4, <1>5, LocalStep DEF IInv, Types

LEMMA FailKeeps ==
  ASSUME IInv, NEW p \in Invocations, Fail(p)
  PROVE  IInv'
<1>1. PICK retryable \in Errors(Current(p)) :
        LET failed == Recorded(invocation[p].state, Current(p), "failed", retryable)
            seen == [invocation[p] EXCEPT !.failureSeen = TRUE]
        IN IF job.policy = "stop" THEN Write(p, seen, failed, "finish")
           ELSE Write(p, Advanced(seen), failed, "loop")
  BY DEF Fail
<1> DEFINE s == Recorded(invocation[p].state, Current(p), "failed", retryable)
           seen == [invocation[p] EXCEPT !.failureSeen = TRUE]
<1>2. /\ invocation[p].phase = "execute" /\ LeavesBehind(p)
      /\ UNCHANGED <<job, stored, file, started, finished, others>>
  BY DEF Fail, At
<1>3. /\ invocation[p].state \in RunStates /\ Current(p) \in Ops /\ invocation[p] \in Records
      /\ invocation[p].position <= Len(Order)
  BY <1>2, WorkFacts
<1>4. "failed" \in Statuses /\ "failed" \in Done /\ retryable \in BOOLEAN
  BY DEF Statuses, Done, Errors
<1>5. /\ s \in RunStates /\ s.status = [invocation[p].state.status EXCEPT ![Current(p)] = "failed"]
      /\ s.attempts = invocation[p].state.attempts /\ s.revision = invocation[p].state.revision
      /\ s.terminal = invocation[p].state.terminal
  <2> DEFINE old == invocation[p].state
             i == Current(p)
  <2>1. s = Recorded(old, i, "failed", retryable)
    OBVIOUS
  <2>2. old \in RunStates /\ i \in Ops /\ retryable \in BOOLEAN
    BY <1>3, <1>4
  <2> HIDE DEF s, old, i
  <2>3. /\ s \in RunStates /\ s.status = [old.status EXCEPT ![i] = "failed"]
        /\ s.attempts = old.attempts /\ s.revision = old.revision
        /\ s.terminal = old.terminal
    BY <1>4, <2>1, <2>2, RecordedFacts
  <2> QED
    BY <2>3 DEF old, i
<1>6. seen \in Records /\ seen.position = invocation[p].position /\ seen.failureSeen = TRUE
  BY <1>3 DEF Records
<1>7. \/ job.policy = "stop" /\ Write(p, seen, s, "finish")
      \/ Write(p, Advanced(seen), s, "loop")
  BY <1>1
<1> HIDE DEF s, seen
<1>8. /\ WriteOK(p, Advanced(seen), s, "loop")
      /\ job.policy = "stop" => WriteOK(p, seen, s, "finish")
  BY <1>2, <1>3, <1>4, <1>5, <1>6, OutcomeOK
<1>9. disk' \in [Paths -> -MaxOthers..(N + 1)]
  BY <1>2, LeftoversTyped
<1> QED
  BY <1>2, <1>7, <1>8, <1>9, WriteAnyDisk

LEMMA CancelOperationKeeps ==
  ASSUME IInv, NEW p \in Invocations, CancelOperation(p)
  PROVE  IInv'
<1> DEFINE s == Recorded(invocation[p].state, Current(p), "cancelled", TRUE)
           r == [invocation[p] EXCEPT !.cancelled = TRUE]
<1>1. /\ invocation[p].phase = "execute" /\ Write(p, r, s, "finish") /\ LeavesBehind(p)
      /\ UNCHANGED <<job, stored, file, started, finished, others>>
  BY DEF CancelOperation, At
<1>2. /\ invocation[p].state \in RunStates /\ Current(p) \in Ops /\ invocation[p] \in Records
      /\ invocation[p].position <= Len(Order)
  BY <1>1, WorkFacts
<1>3. "cancelled" \in Statuses
  BY DEF Statuses
<1>4. /\ s \in RunStates
      /\ s.status = [invocation[p].state.status EXCEPT ![Current(p)] = "cancelled"]
      /\ s.attempts = invocation[p].state.attempts /\ s.revision = invocation[p].state.revision
      /\ s.terminal = invocation[p].state.terminal
  <2> DEFINE old == invocation[p].state
             i == Current(p)
  <2>1. s = Recorded(old, i, "cancelled", TRUE)
    OBVIOUS
  <2>2. old \in RunStates /\ i \in Ops /\ TRUE \in BOOLEAN
    BY <1>2
  <2> HIDE DEF s, old, i
  <2>3. /\ s \in RunStates /\ s.status = [old.status EXCEPT ![i] = "cancelled"]
        /\ s.attempts = old.attempts /\ s.revision = old.revision
        /\ s.terminal = old.terminal
    BY <1>3, <2>1, <2>2, RecordedFacts
  <2> QED
    BY <2>3 DEF old, i
<1>5. r \in Records /\ r.position = invocation[p].position /\ r.cancelled = TRUE
  BY <1>2 DEF Records
<1> HIDE DEF s, r
<1>6. WriteOK(p, r, s, "finish")
  BY <1>1, <1>2, <1>3, <1>4, <1>5, OutcomeOK
<1>7. disk' \in [Paths -> -MaxOthers..(N + 1)]
  BY <1>1, LeftoversTyped
<1> QED
  BY <1>1, <1>6, <1>7, WriteAnyDisk

LEMMA CaptureKeeps ==
  ASSUME IInv, NEW p \in Invocations, Capture(p)
  PROVE  IInv'
<1> DEFINE t == Recorded(invocation[p].state, Current(p), "completed", FALSE)
           s == [t EXCEPT !.evidence[Current(p)] = Evidence(Current(p))]
<1>1. /\ invocation[p].phase = "capture" /\ Write(p, Advanced(invocation[p]), s, "loop")
      /\ UNCHANGED <<job, stored, file, disk, started, finished, others>>
  BY DEF Capture, At
<1>2. /\ invocation[p].state \in RunStates /\ Current(p) \in Ops /\ invocation[p] \in Records
      /\ invocation[p].position <= Len(Order)
  BY <1>1, WorkFacts
<1>3. "completed" \in Statuses /\ "completed" \in Done
  BY DEF Statuses, Done
<1>4. /\ t \in RunStates
      /\ t.status = [invocation[p].state.status EXCEPT ![Current(p)] = "completed"]
      /\ t.attempts = invocation[p].state.attempts /\ t.revision = invocation[p].state.revision
      /\ t.terminal = invocation[p].state.terminal
  <2> DEFINE old == invocation[p].state
             i == Current(p)
  <2>1. t = Recorded(old, i, "completed", FALSE)
    OBVIOUS
  <2>2. old \in RunStates /\ i \in Ops /\ FALSE \in BOOLEAN
    BY <1>2
  <2> HIDE DEF t, old, i
  <2>3. /\ t \in RunStates /\ t.status = [old.status EXCEPT ![i] = "completed"]
        /\ t.attempts = old.attempts /\ t.revision = old.revision
        /\ t.terminal = old.terminal
    BY <1>3, <2>1, <2>2, RecordedFacts
  <2> QED
    BY <2>3 DEF old, i
<1>5. Evidence(Current(p)) \in EvidenceValues
  <2>1. Bound(Current(p)) \in SUBSET Paths
    BY <1>2, JobFacts DEF Bound, IInv, Types
  <2>2. Evidence(Current(p)) \in [Bound(Current(p)) -> -MaxOthers..(N + 1)]
    BY <2>1 DEF Evidence, IInv, Types
  <2> QED
    BY <2>1, <2>2 DEF EvidenceValues
<1> HIDE DEF t
<1>6. /\ s \in RunStates /\ s.status = t.status
      /\ s.attempts = t.attempts /\ s.revision = t.revision /\ s.terminal = t.terminal
  BY <1>2, <1>4, <1>5 DEF RunStates
<1> HIDE DEF s
<1>7. WriteOK(p, Advanced(invocation[p]), s, "loop")
  BY <1>1, <1>2, <1>3, <1>4, <1>6, OutcomeOK
<1> QED
  BY <1>1, <1>7, WriteStep

LEMMA FinishKeeps ==
  ASSUME IInv, NEW p \in Invocations, Finish(p)
  PROVE  IInv'
<1> DEFINE r == invocation[p]
           left == AfterPolicy(r.state, r.failureSeen)
           closed == [left EXCEPT !.terminal = Terminal(left, r.failureSeen)]
<1>1. /\ \/ r.phase = "finish"
         \/ r.phase = "loop" /\ r.position > Len(Order)
      /\ Save(p, IF r.cancelled THEN CancelledRun(left) ELSE closed, "final")
      /\ UNCHANGED <<job, stored, file, disk, started, finished, others>>
  BY DEF Finish, At
<1>2. /\ r \in Records /\ r.state \in RunStates /\ RecordOK(p, r)
      /\ Working(r) /\ ~At(p, "replace")
      /\ r.position \in 1..(Len(Order) + 1)
      /\ \A k \in 1..(r.position - 1) : r.state.status[Order[k]] \in Done
  BY <1>1, WorkFacts
<1>3. /\ left \in RunStates
      /\ left.attempts = r.state.attempts /\ left.revision = r.state.revision
  BY <1>2, StopRestFacts DEF AfterPolicy
<1>4. CASE r.cancelled
  <2>1. WriteOK(p, r, CancelledRun(left), "final")
    BY <1>2, <1>3, CancelledRunFacts DEF WriteOK
  <2> QED
    BY <1>1, <1>4, <2>1, WriteStep DEF Save
<1>5. CASE ~r.cancelled
  <2>1. \A i \in Ops :
          /\ left.status[i] \notin {"running", "not-started"}
          /\ left.status[i] \in Done \/ r.failureSeen
    <3>1. CASE r.failureSeen /\ job.policy = "stop"
      BY <1>2, <3>1, StopRestFacts DEF AfterPolicy
    <3>2. CASE ~(r.failureSeen /\ job.policy = "stop")
      <4>1. left = r.state
        BY <3>2 DEF AfterPolicy
      <4>2. r.phase = "loop" /\ r.position > Len(Order)
        BY <1>1, <1>2, <1>5, <3>2 DEF RecordOK, Progress, Heading
      <4>3. job \in Jobs /\ Len(Order) \in Nat
        BY OrderFacts DEF IInv, Types
      <4>4. \A k \in 1..Len(Order) : r.state.status[Order[k]] \in Done
        BY <1>2, <4>2, <4>3
      <4>5. Accepted
        BY <1>2 DEF IInv, Creation, RecordOK
      <4> QED
        BY <4>1, <4>3, <4>4, <4>5, OrderFacts DEF Done
    <3> QED
      BY <3>1, <3>2
  <2>2. \A i \in Ops : left.status[i] \in Statuses
    BY <1>3 DEF RunStates
  <2>3. /\ Terminal(left, r.failureSeen) \in Terminals
        /\ Terminal(left, r.failureSeen) = "completed" =>
             ~r.failureSeen /\ \A i \in Ops : left.status[i] \notin {"failed", "blocked"}
    BY DEF Terminal, Terminals
  <2> HIDE DEF left
  <2>4. /\ closed \in RunStates /\ closed.status = left.status
        /\ closed.terminal = Terminal(left, r.failureSeen)
        /\ closed.attempts = left.attempts /\ closed.revision = left.revision
    BY <1>3, <2>3 DEF RunStates
  <2>5. Settled(closed)
    <3> HIDE DEF closed
    <3> QED
      BY <2>1, <2>2, <2>3, <2>4 DEF Settled, Done
  <2>6. WriteOK(p, r, closed, "final")
    <3> HIDE DEF closed
    <3> QED
      BY <1>2, <1>3, <2>4, <2>5 DEF WriteOK
  <2>7. Write(p, r, closed, "final")
    BY <1>1, <1>5 DEF Save, left
  <2> QED
    BY <1>1, <2>6, <2>7, WriteStep
<1> QED
  BY <1>4, <1>5

LEMMA RecordReceiptKeeps ==
  ASSUME IInv, NEW p \in Invocations, RecordReceipt(p)
  PROVE  IInv'
<1>1. /\ invocation[p].phase = "final" /\ Write(p, invocation[p], invocation[p].state, "ended")
      /\ UNCHANGED <<job, stored, file, disk, started, finished, others>>
  BY DEF RecordReceipt, At, Save
<1>2. /\ invocation[p] \in Records /\ invocation[p].state \in RunStates
      /\ RecordOK(p, invocation[p])
  BY RecordFacts
<1>3. Working(invocation[p]) /\ ~At(p, "replace") /\ Heading(invocation[p]) = "final"
  BY <1>1 DEF Working, At, Heading
<1>4. WriteOK(p, invocation[p], invocation[p].state, "ended")
  BY <1>2, <1>3 DEF RecordOK, Progress, WriteOK
<1> QED
  BY <1>1, <1>4, WriteStep

LEMMA ReplaceKeeps ==
  ASSUME IInv, NEW p \in Invocations, Replace(p)
  PROVE  IInv'
<1> DEFINE r == invocation[p]
           new == [r.state EXCEPT !.revision = @ + 1]
           q2 == IF r.next = "ended" THEN Idle("ended")
                 ELSE [r EXCEPT !.phase = r.next, !.next = "ended", !.state = new]
<1>1. /\ r.phase = "replace" /\ file' = new /\ lock' = 0 /\ Becomes(p, q2)
      /\ finished' = finished \cup {i \in Ops : new.status[i] = "completed"}
      /\ started' = IF r.next = "execute" THEN [started EXCEPT ![Current(p)] = @ + 1]
                    ELSE started
      /\ UNCHANGED <<job, stored, disk, others>>
  BY DEF Replace, At
<1>2. /\ r \in Records /\ r.state \in RunStates /\ RecordOK(p, r)
      /\ r.position \in 1..(Len(Order) + 1)
  BY RecordFacts
<1>3. /\ lock = p /\ stored = "whole"
      /\ r.next \in {"loop", "execute", "finish", "final", "ended"}
      /\ r.state.revision = file.revision
      /\ r.state.attempts = IF r.next = "execute"
                            THEN [file.attempts EXCEPT ![Order[r.position]] = @ + 1]
                            ELSE file.attempts
      /\ Heading(r) = r.next /\ Working(r) /\ Progress(r)
  BY <1>1, <1>2 DEF RecordOK, Behind, Heading, Working
<1>4. /\ new \in RunStates /\ new.revision = file.revision + 1
      /\ new.attempts = r.state.attempts /\ new.status = r.state.status
      /\ new.terminal = r.state.terminal
  <2>1. r.state.revision = file.revision
    BY <1>3
  <2>2. \A s \in RunStates : LET t == [s EXCEPT !.revision = @ + 1]
                            IN /\ t \in RunStates /\ t.revision = s.revision + 1
                               /\ t.attempts = s.attempts /\ t.status = s.status
                               /\ t.terminal = s.terminal
    BY DEF RunStates
  <2> QED
    BY <1>2, <2>1, <2>2
<1>5. r.next = "execute" => Current(p) \in Ops /\ Current(p) = Order[r.position]
  <2>1. Len(Order) \in Nat
    BY OrderFacts DEF IInv, Types
  <2>2. r.next = "execute" => r.position <= Len(Order)
    BY <1>3 DEF Progress
  <2>3. r.next = "execute" => r.position \in 1..Len(Order)
    BY <1>2, <2>1, <2>2
  <2> QED
    BY <2>3, OrderFacts DEF IInv, Types, Current
<1>6. r.next = "execute" => DependenciesMet(r.state, Current(p))
  BY <1>1, <1>3, <1>5 DEF Progress
<1> HIDE DEF new
<1>7. /\ q2 \in Records
      /\ r.next = "ended" => q2.phase = "ended"
      /\ r.next # "ended" =>
           /\ q2.phase = r.next /\ q2.state = new /\ q2.position = r.position
           /\ q2.cancelled = r.cancelled /\ q2.failureSeen = r.failureSeen
  <2>1. CASE r.next = "ended"
    BY <2>1, IdleType DEF Idle, IInv, Types, Phases
  <2>2. CASE r.next # "ended"
    BY <1>2, <1>3, <1>4, <2>2 DEF Records, Phases
  <2> QED
    BY <2>1, <2>2
<1> HIDE DEF q2
<1>8. \A q \in Invocations : invocation'[q] = IF q = p THEN q2 ELSE invocation[q]
  BY <1>1 DEF IInv, Types, Becomes
<1>9. Types'
  <2>1. invocation' \in [Invocations -> Records]
    BY <1>1, <1>7 DEF IInv, Types, Becomes
  <2>2. started' \in [Ops -> Nat]
    BY <1>1, <1>5 DEF IInv, Types
  <2>3. finished' \subseteq Ops
    BY <1>1 DEF IInv, Types
  <2> QED
    BY <1>1, <1>4, <2>1, <2>2, <2>3, SameJob DEF IInv, Types
<1>10. Creation'
  <2>1. \A q \in Invocations : ~At(q, "creating")
    BY <1>3 DEF IInv, RecordOK, At
  <2> QED
    BY <1>1, <1>3, <1>7, <1>8, <2>1, SameJob DEF IInv, Creation, At
<1>11. Settled(new)
  BY <1>3, <1>4 DEF Progress, Settled
<1>12. Settled(file)'
  <2>1. Settled(file')
    BY <1>1, <1>11
  <2> QED
    BY <1>1, <2>1, SameJob DEF Settled
<1>13. RecordOK(p, invocation[p])'
  <2>1. invocation'[p] = q2
    BY <1>8
  <2>2. CASE r.next = "ended"
    BY <1>7, <2>1, <2>2 DEF RecordOK, Behind, Progress, Working, Heading
  <2>3. CASE r.next # "ended"
    <3>1. Progress(q2)
      BY <1>3, <1>4, <1>7, <1>11, <2>3 DEF Progress, Heading, Working
    <3>2. Progress(invocation'[p])
      BY <2>1, <3>1
    <3>3. Progress(invocation[p])'
      BY <1>1, <3>2, SamePredicates
    <3>4. /\ q2.state = file' /\ q2.phase \notin {"replace", "creating"}
          /\ file'.revision \in Nat
      BY <1>1, <1>3, <1>4, <1>7, <2>3 DEF RunStates
    <3>5. Behind(invocation[p])'
      BY <2>1, <3>4 DEF Behind, Working
    <3> QED
      BY <1>1, <1>3, <2>1, <3>3, <3>4, <3>5 DEF RecordOK
  <2> QED
    BY <2>2, <2>3
<1>14. ASSUME NEW q \in Invocations, q # p PROVE RecordOK(q, invocation[q])'
  <2>1. invocation'[q] = invocation[q] /\ RecordOK(q, invocation[q])
    BY <1>8, <1>14 DEF IInv
  <2>2. invocation[q].phase \notin {"replace", "creating"}
    BY <1>3, <1>14, <2>1 DEF RecordOK
  <2>3. Progress(invocation'[q])
    BY <2>1 DEF RecordOK
  <2>4. Progress(invocation[q])'
    BY <1>1, <2>3, SamePredicates
  <2>5. /\ file.revision \in Nat /\ file'.revision = file.revision + 1
        /\ invocation[q].state.revision \in Nat
    BY <1>1, <1>4, RecordFacts DEF IInv, Types, RunStates
  <2>6. Behind(invocation[q])'
    BY <2>1, <2>2, <2>5 DEF RecordOK, Behind, Working
  <2> QED
    BY <1>1, <1>3, <2>1, <2>2, <2>4, <2>6 DEF RecordOK
<1>15. (\A i \in Ops : started[i] <= file.attempts[i])'
  <2>1. ASSUME NEW i \in Ops PROVE started'[i] <= file'.attempts[i]
    <3>1. /\ file'.attempts = r.state.attempts /\ file.attempts[i] \in Nat
          /\ started[i] \in Nat /\ started[i] <= file.attempts[i]
          /\ file.attempts \in [Ops -> 0..MaxAttempts] /\ started \in [Ops -> Nat]
      BY <1>1, <1>4 DEF IInv, Types, RunStates
    <3> QED
      BY <1>1, <1>3, <1>5, <3>1
  <2> QED
    BY <1>1, <2>1, SameJob
<1>16. DependenciesFirst'
  <2>1. ASSUME NEW i \in Ops, started'[i] > 0 PROVE Op(i).dependsOn \subseteq finished'
    <3>1. CASE r.next = "execute" /\ i = Current(p)
      <4>1. Op(i).dependsOn \subseteq Ops
        BY <1>5, <3>1, JobFacts DEF IInv, Types
      <4> QED
        BY <1>1, <1>4, <1>6, <3>1, <4>1 DEF DependenciesMet
    <3>2. CASE ~(r.next = "execute" /\ i = Current(p))
      <4>1. started'[i] = started[i]
        BY <1>1, <1>5, <3>2 DEF IInv, Types
      <4> QED
        BY <1>1, <2>1, <4>1 DEF IInv, DependenciesFirst
    <3> QED
      BY <3>1, <3>2
  <2> QED
    BY <1>1, <2>1, SameJob DEF DependenciesFirst, Op
<1> QED
  BY <1>9, <1>10, <1>12, <1>13, <1>14, <1>15, <1>16 DEF IInv

\* Whatever ends an invocation without a write.
LEMMA EndsKeep ==
  ASSUME IInv, NEW p \in Invocations,
         AttemptsExhausted(p) \/ CaptureFails(p) \/ ReplaceFails(p)
  PROVE  IInv'
<1>1. CASE AttemptsExhausted(p)
  BY <1>1, EndStep DEF AttemptsExhausted, IInv, Types
<1>2. CASE CaptureFails(p)
  BY <1>2, EndStep DEF CaptureFails, IInv, Types
<1>3. CASE ReplaceFails(p)
  <2>1. lock = p
    BY <1>3 DEF ReplaceFails, At, IInv, RecordOK
  <2> QED
    BY <1>3, <2>1, EndStep DEF ReplaceFails, IInv, Types
<1> QED
  BY <1>1, <1>2, <1>3

LEMMA CrashKeeps ==
  ASSUME IInv, NEW p \in Invocations, Crash(p)
  PROVE  IInv'
<1>1. disk' \in [Paths -> -MaxOthers..(N + 1)]
  <2>1. CASE UNCHANGED disk
    BY <2>1 DEF IInv, Types
  <2>2. CASE invocation[p].phase = "execute" /\ LeavesBehind(p)
    BY <2>2, LeftoversTyped
  <2> QED
    BY <2>1, <2>2 DEF Crash, At
<1>2. /\ Ends(p) /\ UNCHANGED <<job, stored, file, started, finished, others>>
      /\ lock' = IF lock = p THEN 0 ELSE lock
  BY DEF Crash
<1>3. lock' = lock \/ (lock = p /\ lock' = 0)
  BY <1>2
<1> QED
  BY <1>1, <1>2, <1>3, EndStep DEF IInv, Types

LEMMA OtherChangesKeeps ==
  ASSUME IInv, NEW path \in Paths, OtherChanges(path)
  PROVE  IInv'
<1>1. /\ others < MaxOthers /\ others' = others + 1
      /\ UNCHANGED <<job, stored, file, lock, invocation, started, finished>>
  BY DEF OtherChanges
<1>2. PICK content \in {Absent, Foreign} : disk' = [disk EXCEPT ![path] = content]
  BY DEF OtherChanges
<1>3. N \in Nat /\ MaxOthers \in Nat /\ others \in 0..MaxOthers
  BY JobFacts, ConstantsAssumption DEF IInv, Types
<1>4. content \in -MaxOthers..(N + 1) /\ others' \in 0..MaxOthers
  BY <1>1, <1>2, <1>3 DEF Absent, Foreign
<1>5. disk' \in [Paths -> -MaxOthers..(N + 1)]
  BY <1>2, <1>4 DEF IInv, Types
<1>6. Types'
  BY <1>1, <1>4, <1>5, SameJob DEF IInv, Types
<1>7. Creation' /\ Settled(file)' /\ DependenciesFirst'
  BY <1>1, SameJob, SamePredicates DEF IInv, Creation, At, DependenciesFirst, Op
<1>8. \A q \in Invocations : RecordOK(q, invocation[q])'
  BY <1>1, RecordStays DEF IInv
<1>9. (\A i \in Ops : started[i] <= file.attempts[i])'
  BY <1>1, SameJob DEF IInv
<1> QED
  BY <1>6, <1>7, <1>8, <1>9 DEF IInv

-----------------------------------------------------------------------------
(* The theorems.                                                           *)

LEMMA InitInvariant == Init => IInv
<1> SUFFICES ASSUME Init PROVE IInv
  OBVIOUS
<1>1. /\ job \in Jobs /\ stored = "absent" /\ file = NewRunState /\ lock = 0
      /\ disk = [p \in Paths |-> IF \E i \in Ops : Op(i).input = p THEN Original ELSE Absent]
      /\ invocation = [p \in Invocations |-> Idle("new")]
      /\ started = [i \in Ops |-> 0] /\ finished = {} /\ others = 0
  BY DEF Init
<1>2. /\ NewRunState \in RunStates /\ NewRunState.terminal = "running"
      /\ NewRunState.attempts = [i \in Ops |-> 0]
  BY <1>1, NewRunStateType DEF NewRunState
<1>3. Idle("new") \in Records /\ Idle("new").phase = "new"
  BY <1>1, IdleType DEF Phases, Idle
<1>4. N \in Nat /\ MaxOthers \in Nat
  BY <1>1, JobFacts, ConstantsAssumption
<1>5. Original = N + 1
  BY DEF Original, N
<1>6. disk \in [Paths -> -MaxOthers..(N + 1)]
  BY <1>1, <1>4, <1>5 DEF Absent
<1>7. Types
  BY <1>1, <1>2, <1>3, <1>4, <1>6 DEF Types
<1>8. Creation
  BY <1>1, <1>3 DEF Creation, At
<1>9. \A p \in Invocations : RecordOK(p, invocation[p])
  BY <1>1, <1>3 DEF RecordOK, Behind, Progress, Working, Heading
<1> QED
  BY <1>1, <1>2, <1>7, <1>8, <1>9 DEF IInv, Settled, DependenciesFirst

LEMMA StutterKeeps == IInv /\ UNCHANGED vars => IInv'
<1> SUFFICES ASSUME IInv, UNCHANGED vars PROVE IInv'
  OBVIOUS
<1>1. UNCHANGED <<job, stored, file, lock, disk, invocation, started, finished, others>>
  BY DEF vars
<1>2. Types'
  BY <1>1, SameJob DEF IInv, Types
<1>3. Creation' /\ Settled(file)' /\ DependenciesFirst'
  BY <1>1, SameJob, SamePredicates DEF IInv, Creation, At, DependenciesFirst, Op
<1>4. \A q \in Invocations : RecordOK(q, invocation[q])'
  BY <1>1, RecordStays DEF IInv
<1>5. (\A i \in Ops : started[i] <= file.attempts[i])'
  BY <1>1, SameJob DEF IInv
<1> QED
  BY <1>2, <1>3, <1>4, <1>5 DEF IInv

LEMMA NextKeeps == IInv /\ [Next]_vars => IInv'
<1> SUFFICES ASSUME IInv, Next PROVE IInv'
  BY StutterKeeps
<1>1. ASSUME NEW p \in Invocations,
             \/ Run(p) \/ Created(p) \/ CreateFails(p) \/ Resume(p) \/ Interrupt(p)
             \/ Begin(p) \/ Plan(p)
      PROVE  IInv'
  BY <1>1, RunKeeps, CreatedKeeps, CreateFailsKeeps, ResumeKeeps, InterruptKeeps,
     BeginKeeps, PlanKeeps
<1>2. ASSUME NEW p \in Invocations,
             \/ LoopCancelled(p) \/ SkipCompleted(p) \/ Block(p)
             \/ SkipFailed(p) \/ StopAtCancelled(p) \/ AttemptsExhausted(p) \/ Attempt(p)
      PROVE  IInv'
  BY <1>2, LoopCancelledKeeps, SkipCompletedKeeps, BlockKeeps, SkipFailedKeeps,
     StopAtCancelledKeeps, EndsKeep, AttemptKeeps
<1>3. ASSUME NEW p \in Invocations,
             \/ Succeed(p) \/ Fail(p) \/ CancelOperation(p) \/ Capture(p) \/ CaptureFails(p)
      PROVE  IInv'
  BY <1>3, SucceedKeeps, FailKeeps, CancelOperationKeeps, CaptureKeeps, EndsKeep
<1>4. ASSUME NEW p \in Invocations,
             Finish(p) \/ RecordReceipt(p) \/ Replace(p) \/ ReplaceFails(p) \/ Crash(p)
      PROVE  IInv'
  BY <1>4, FinishKeeps, RecordReceiptKeeps, ReplaceKeeps, EndsKeep, CrashKeeps
<1>5. ASSUME NEW path \in Paths, OtherChanges(path) PROVE IInv'
  BY <1>5, OtherChangesKeeps
<1> QED
  BY <1>1, <1>2, <1>3, <1>4, <1>5 DEF Next

\* The invariant: what each invocation knows of the run-state file, and how
\* far it is, in every reachable state.
THEOREM BatchInvariant == Spec => []IInv
BY InitInvariant, NextKeeps, PTL DEF Spec

\* Every variable has its type, in particular no operation is ever counted
\* more often than the limit on attempts allows.
THEOREM TypeCorrect == Spec => []TypeOK
<1>1. IInv => TypeOK
  <2> SUFFICES ASSUME IInv PROVE TypeOK
    OBVIOUS
  <2>1. \A s \in RunStates : RunStateOK(s)
    BY DEF RunStates, RunStateOK
  <2>2. ASSUME NEW p \in Invocations
        PROVE  /\ invocation[p].phase \in Phases /\ invocation[p].next \in Phases
               /\ RunStateOK(invocation[p].state)
               /\ invocation[p].options \in [retryFailed : BOOLEAN, retryCancelled : BOOLEAN]
               /\ invocation[p].position \in 1 .. Len(Order) + 1
               /\ {invocation[p].interrupted, invocation[p].failureSeen,
                   invocation[p].cancelled} \subseteq BOOLEAN
    <3>1. invocation[p] \in Records
      BY RecordFacts
    <3> QED
      BY <2>1, <3>1 DEF Records
  <2>3. Original = N + 1
    BY DEF Original, N
  <2> QED
    BY <2>1, <2>2, <2>3 DEF TypeOK, IInv, Types
<1> QED
  BY <1>1, BatchInvariant, PTL

\* No operation executes before each operation it depends on was recorded as
\* completed, whatever mix of runs, resumes, retries and crashes came before
\* (the dependency check in the loop of execute_loaded_run).
THEOREM DependenciesComeFirst == Spec => []DependenciesFirst
<1>1. IInv => DependenciesFirst
  BY DEF IInv
<1> QED
  BY <1>1, BatchInvariant, PTL

\* A terminal state leaves nothing undone, and a completed run has completed
\* every operation (the end of execute_loaded_run).
THEOREM TerminalIsSettled == Spec => []SettledRun
<1>1. IInv => SettledRun
  BY DEF IInv, Settled, SettledRun
<1> QED
  BY <1>1, BatchInvariant, PTL

\* The limit on attempts bounds the executions themselves: each was counted
\* in the file before it began (persist_state).
THEOREM ExecutionsStayCounted == Spec => []ExecutionsAreCounted
<1>1. IInv => ExecutionsAreCounted
  BY DEF IInv, Types, RunStates, ExecutionsAreCounted
<1> QED
  BY <1>1, BatchInvariant, PTL

\* Who writes the run file read the revision it replaces.
LEMMA FileSteps ==
  ASSUME IInv, Next, stored = "whole", file' # file
  PROVE  file'.revision = file.revision + 1
<1>2. PICK p \in Invocations : Created(p) \/ Replace(p)
  BY DEF Next, Run, CreateFails, Resume, Interrupt, Begin, Plan, LoopCancelled,
         SkipCompleted, Block, SkipFailed, StopAtCancelled, AttemptsExhausted, Attempt,
         Succeed, Fail, CancelOperation, Capture, CaptureFails, Finish, RecordReceipt,
         ReplaceFails, Crash, OtherChanges
<1>3. ~Created(p)
  BY DEF Created, IInv, RecordOK, At
<1>4. Replace(p)
  BY <1>2, <1>3
<1>5. invocation[p].state \in RunStates /\ invocation[p].state.revision = file.revision
  BY <1>4, RecordFacts DEF Replace, At, RecordOK, Behind
<1> QED
  BY <1>4, <1>5 DEF Replace, RunStates

\* A step replaces the very revision its writer read, so nobody's progress is
\* overwritten unseen (the writer lock spans the comparison and the rename in
\* persist_state).
THEOREM UpdatesAreKept == Spec => NoLostUpdate
<1>1. IInv /\ [Next]_vars => [stored = "whole" /\ file' # file =>
                               file'.revision = file.revision + 1]_vars
  BY FileSteps DEF vars
<1> QED
  BY <1>1, BatchInvariant, PTL DEF Spec, NoLostUpdate

=============================================================================
