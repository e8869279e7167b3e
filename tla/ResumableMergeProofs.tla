------------------------ MODULE ResumableMergeProofs ------------------------
(***************************************************************************)
(* Proofs about ResumableMerge for every package, any number of runs and   *)
(* of changes by others.                                                   *)
(*                                                                         *)
(* The checkpoint and the partial are written at different times, so what  *)
(* is said of one of them is inductive only with what is known of the      *)
(* other at each program counter: RunOK ties the local variables of a run  *)
(* to the checkpoint, ReadOK the bytes behind the boundary to what the run *)
(* has read, EndWhole the checked partial and the published output to the  *)
(* original.  Undisturbed adds the exact contents of every file while      *)
(* nobody else has touched one; only a refusal needs it.                   *)
(*                                                                         *)
(* First comes what the proofs need of SlicePlan: for every length and     *)
(* slice size that the planner accepts, the slices cut the file and the    *)
(* manifest is valid.  The offsets of a manifest are summed up by a        *)
(* recursive function; that it is the one expected is an induction,        *)
(* written with the least element of the set of counterexamples.           *)
(***************************************************************************)
EXTENDS ResumableMerge, FiniteSetTheorems, TLAPS

\* Every nonempty set of natural numbers has a least element.
LEMMA LeastElement ==
  ASSUME NEW T \in SUBSET Nat, T # {}
  PROVE  \E m \in T : \A k \in T : m <= k
<1> DEFINE Below(k) == 0..(k - 1)
           Family == {Below(k) : k \in T}
<1>1. Family \subseteq FiniteSubsetsOf(Nat)
  <2>1. \A k \in T : Below(k) \in SUBSET Nat /\ IsFiniteSet(Below(k))
    BY FS_Interval
  <2> QED
    BY <2>1 DEF FiniteSubsetsOf
<1>2. PICK m \in T : \A k \in T : <<Below(k), Below(m)>> \notin StrictSubsetOrdering(Nat)
  <2>1. Family # {}
    OBVIOUS
  <2>2. PICK b \in Family : \A c \in Family : <<c, b>> \notin StrictSubsetOrdering(Nat)
    BY <1>1, <2>1, FS_StrictSubsetOrderingWellFounded, WFMin
  <2> QED
    BY <2>2
<1>3. ASSUME NEW k \in T, k < m PROVE FALSE
  <2>1. Below(k) \subseteq Below(m) /\ k \in Below(m) /\ k \notin Below(k)
    BY <1>3
  <2>2. Below(k) \in SUBSET Nat /\ Below(m) \in SUBSET Nat
    OBVIOUS
  <2> HIDE DEF Below
  <2> QED
    BY <1>2, <2>1, <2>2 DEF StrictSubsetOrdering
<1> QED
  BY <1>3

-----------------------------------------------------------------------------
(* Arithmetic.                                                             *)

LEMMA Quotient ==
  ASSUME NEW a \in Nat, NEW b \in Nat \ {0}
  PROVE  /\ a \div b \in Nat
         /\ (a \div b) * b <= a
         /\ a < (a \div b) * b + b
OBVIOUS

LEMMA ProductGrows ==
  ASSUME NEW i \in Nat, NEW j \in Nat, NEW b \in Nat
  PROVE  /\ i <= j => i * b <= j * b
         /\ i < j => i * b + b <= j * b
         /\ i * b \in Nat
<1>1. i * b \in Nat /\ j * b \in Nat
  OBVIOUS
<1>2. i <= j => \E d \in Nat : j = i + d
  <2>1. i <= j => j - i \in Nat /\ j = i + (j - i)
    OBVIOUS
  <2> QED
    BY <2>1
<1>3. ASSUME NEW d \in Nat, j = i + d
      PROVE  j * b = i * b + d * b /\ d * b \in Nat /\ (d > 0 => d * b >= b)
  <2>1. j * b = i * b + d * b /\ d * b \in Nat
    BY <1>3
  <2>2. ASSUME d > 0 PROVE d * b >= b
    <3>1. d - 1 \in Nat /\ d * b = (d - 1) * b + b /\ (d - 1) * b \in Nat
      BY <2>2
    <3> QED
      BY <3>1
  <2> QED
    BY <2>1, <2>2
<1> QED
  BY <1>1, <1>2, <1>3

\* The last slice is the one that reaches the end of the file.
LEMMA CountReaches ==
  ASSUME NEW total \in Nat \ {0}, NEW size \in Nat \ {0}
  PROVE  /\ ExpectedSliceCount(total, size) \in Nat \ {0}
         /\ (ExpectedSliceCount(total, size) - 1) * size < total
         /\ total <= ExpectedSliceCount(total, size) * size
<1> DEFINE q == (total - 1) \div size
<1>1. total - 1 \in Nat
  OBVIOUS
<1>2. q \in Nat /\ q * size <= total - 1 /\ total - 1 < q * size + size
  BY <1>1, Quotient
<1>3. ExpectedSliceCount(total, size) = 1 + q
  BY DEF ExpectedSliceCount
<1> HIDE DEF q
<1>4. (1 + q) * size = q * size + size /\ (1 + q) - 1 = q
  BY <1>2
<1> QED
  BY <1>2, <1>3, <1>4

LEMMA CountType ==
  ASSUME NEW total \in Nat, NEW size \in Nat \ {0}
  PROVE  /\ ExpectedSliceCount(total, size) \in Nat
         /\ ExpectedSliceCount(total, size) = 0 <=> total = 0
BY CountReaches DEF ExpectedSliceCount

\* The bytes before the end of slice k.
Reached(total, size, k) == Smaller(k * size, total)

\* The range of a slice begins where the one before it ends, and holds at
\* least a byte and at most the slice size.
LEMMA RangeFits ==
  ASSUME NEW total \in Nat, NEW size \in Nat \ {0},
         NEW k \in 1..ExpectedSliceCount(total, size)
  PROVE  LET range == PlannedSliceRange(total, size, k)
         IN /\ range.offset \in Nat /\ range.size \in 1..size
            /\ range.offset = (k - 1) * size
            /\ range.offset = Reached(total, size, k - 1)
            /\ range.offset + range.size = Reached(total, size, k)
            /\ range.size = Smaller(total - range.offset, size)
            /\ range.offset + range.size <= total
<1> DEFINE n == ExpectedSliceCount(total, size)
<1>1. n \in Nat /\ total # 0
  BY CountType
<1>2. (n - 1) * size < total
  BY <1>1, CountReaches
<1> HIDE DEF n
<1>3. k \in Nat /\ k - 1 \in Nat /\ n - 1 \in Nat /\ k - 1 <= n - 1
  BY <1>1 DEF n
<1>4. (k - 1) * size \in Nat /\ (k - 1) * size < total
  BY <1>2, <1>3, ProductGrows
<1>5. k * size = (k - 1) * size + size
  BY <1>3
<1> QED
  BY <1>4, <1>5, <1>3 DEF PlannedSliceRange, Reached, Smaller

LEMMA ReachesAll ==
  ASSUME NEW total \in Nat, NEW size \in Nat \ {0}
  PROVE  /\ Reached(total, size, 0) = 0
         /\ Reached(total, size, ExpectedSliceCount(total, size)) = total
         /\ \A k \in Nat : Reached(total, size, k) \in 0..total
<1>1. 0 * size = 0
  OBVIOUS
<1>2. \A k \in Nat : k * size \in Nat
  OBVIOUS
<1>3. CASE total = 0
  BY <1>1, <1>2, <1>3, CountType DEF Reached, Smaller
<1>4. CASE total # 0
  BY <1>1, <1>2, <1>4, CountReaches DEF Reached, Smaller
<1> QED
  BY <1>3, <1>4

-----------------------------------------------------------------------------
(* The slices cut the file.                                                *)

\* The slice that holds a byte.
LEMMA SliceOfByte ==
  ASSUME NEW total \in Nat, NEW size \in Nat \ {0}, NEW b \in 0..(total - 1)
  PROVE  \E k \in 1..ExpectedSliceCount(total, size) :
           b \in Bytes(PlannedSliceRange(total, size, k))
<1> DEFINE n == ExpectedSliceCount(total, size)
           k == b \div size + 1
<1>1. b \in Nat /\ total \in Nat \ {0}
  OBVIOUS
<1>2. /\ k \in Nat /\ k - 1 \in Nat
      /\ (k - 1) * size <= b /\ b < (k - 1) * size + size
  BY <1>1, Quotient
<1>3. n \in Nat /\ total <= n * size
  BY <1>1, CountReaches
<1> HIDE DEF n, k
<1>4. k \in Nat /\ k >= 1
  BY <1>2
<1>5. k <= n
  <2>1. ASSUME n < k PROVE FALSE
    <3>1. n <= k - 1
      BY <1>3, <1>4, <2>1
    <3>2. n * size <= (k - 1) * size
      BY <1>2, <1>3, <3>1, ProductGrows
    <3>3. n * size \in Nat /\ (k - 1) * size \in Nat
      BY <1>2, <1>3, ProductGrows
    <3> QED
      BY <1>1, <1>2, <1>3, <3>2, <3>3
  <2> QED
    BY <1>3, <1>4, <2>1
<1>6. k \in 1..n
  BY <1>3, <1>4, <1>5
<1>7. k * size = (k - 1) * size + size /\ (k - 1) * size \in Nat
  BY <1>2, <1>4
<1>8. /\ PlannedSliceRange(total, size, k).offset = (k - 1) * size
      /\ PlannedSliceRange(total, size, k).size = Smaller(total - (k - 1) * size, size)
  BY DEF PlannedSliceRange
<1>9. b \in Bytes(PlannedSliceRange(total, size, k))
  BY <1>1, <1>2, <1>7, <1>8 DEF Bytes, Smaller
<1> QED
  BY <1>6, <1>9 DEF n

LEMMA SlicesApart ==
  ASSUME NEW total \in Nat, NEW size \in Nat \ {0},
         NEW j \in 1..ExpectedSliceCount(total, size),
         NEW k \in 1..ExpectedSliceCount(total, size), j < k
  PROVE  Bytes(PlannedSliceRange(total, size, j))
           \cap Bytes(PlannedSliceRange(total, size, k)) = {}
<1>1. ExpectedSliceCount(total, size) \in Nat
  BY CountType
<1>2. j \in Nat /\ k - 1 \in Nat /\ j <= k - 1
  BY <1>1
<1>3. j * size <= (k - 1) * size /\ j * size \in Nat /\ (k - 1) * size \in Nat
  BY <1>2, ProductGrows
<1>4. /\ PlannedSliceRange(total, size, k).offset = (k - 1) * size
      /\ PlannedSliceRange(total, size, k).size \in Nat
  BY RangeFits
<1>5. LET range == PlannedSliceRange(total, size, j)
      IN /\ range.offset \in Nat /\ range.size \in Nat
         /\ range.offset + range.size <= j * size
  BY <1>3, RangeFits DEF Reached, Smaller
<1> QED
  BY <1>3, <1>4, <1>5 DEF Bytes

\* The right side of the equation that defines `reached` in ManifestValid, for
\* the manifest of a plan.
Sums(g, total, size) ==
  [k \in 0..ExpectedSliceCount(total, size) |->
     IF k = 0 THEN 0 ELSE g[k - 1] + PlannedSliceRange(total, size, k).size]

LEMMA SumsUnique ==
  ASSUME NEW total \in Nat, NEW size \in Nat \ {0},
         NEW f, f = Sums(f, total, size)
  PROVE  \A k \in 0..ExpectedSliceCount(total, size) : f[k] = Reached(total, size, k)
<1> DEFINE n == ExpectedSliceCount(total, size)
           T == {k \in 0..n : f[k] # Reached(total, size, k)}
<1>1. n \in Nat
  BY CountType
<1>2. SUFFICES ASSUME T # {} PROVE FALSE
  OBVIOUS
<1>3. PICK m \in T : \A k \in T : m <= k
  <2>1. T \subseteq Nat
    BY <1>1
  <2> HIDE DEF T
  <2> QED
    BY <1>2, <2>1, LeastElement
<1>4. \A k \in 0..n : f[k] = IF k = 0 THEN 0
                             ELSE f[k - 1] + PlannedSliceRange(total, size, k).size
  BY DEF Sums
<1>5. m # 0
  BY <1>3, <1>4, ReachesAll
<1>6. m \in 1..n /\ m - 1 \in 0..n /\ m - 1 \notin T
  BY <1>1, <1>3, <1>5
<1>7. f[m] = Reached(total, size, m)
  BY <1>4, <1>5, <1>6, RangeFits
<1> QED
  BY <1>3, <1>7

LEMMA SumsExist ==
  ASSUME NEW total \in Nat, NEW size \in Nat \ {0}
  PROVE  \E g : g = Sums(g, total, size)
<1> DEFINE n == ExpectedSliceCount(total, size)
           g == [k \in 0..n |-> Reached(total, size, k)]
<1>1. n \in Nat
  BY CountType
<1>2. ASSUME NEW k \in 0..n, k # 0
      PROVE  /\ k - 1 \in 0..n
             /\ Reached(total, size, k)
                  = Reached(total, size, k - 1) + PlannedSliceRange(total, size, k).size
  BY <1>1, <1>2, RangeFits
<1>3. g = Sums(g, total, size)
  BY <1>2, ReachesAll DEF Sums
<1> QED
  BY <1>3

LEMMA ManifestAccepted ==
  ASSUME NEW total \in Nat, NEW size \in Nat \ {0}, PlanAccepted(total, size)
  PROVE  ManifestValid(ManifestOf(total, size))
<1> DEFINE n == ExpectedSliceCount(total, size)
           m == ManifestOf(total, size)
           Equation(g) == [k \in 0..Len(m.slices) |->
                             IF k = 0 THEN 0 ELSE g[k - 1] + m.slices[k].size]
           reached == CHOOSE g : g = Equation(g)
<1>1. n \in Nat
  BY CountType
<1>2. /\ m.total = total /\ m.target = size /\ m.count = n
      /\ m.slices = [k \in 1..n |->
           [index |-> k, offset |-> PlannedSliceRange(total, size, k).offset,
            size |-> PlannedSliceRange(total, size, k).size]]
  BY DEF ManifestOf
<1>3. Len(m.slices) = n /\ DOMAIN m.slices = 1..n
  BY <1>1, <1>2
<1>4. \A k \in 1..n : /\ m.slices[k].index = k
                      /\ m.slices[k].offset = PlannedSliceRange(total, size, k).offset
                      /\ m.slices[k].size = PlannedSliceRange(total, size, k).size
  BY <1>2
<1> HIDE DEF m
<1>5. \A g : Equation(g) = Sums(g, total, size)
  BY <1>1, <1>3, <1>4 DEF Sums
<1>6. \A k \in 0..n : reached[k] = Reached(total, size, k)
  <2> HIDE DEF Equation
  <2>1. \E g : g = Equation(g)
    BY <1>5, SumsExist
  <2>2. reached = Equation(reached)
    BY <2>1
  <2> HIDE DEF reached
  <2>3. reached = Sums(reached, total, size)
    BY <1>5, <2>2
  <2> QED
    BY <2>3, SumsUnique
<1> HIDE DEF Equation, reached
<1>7. reached[n] = total
  <2>1. n \in 0..n
    BY <1>1
  <2>2. Reached(total, size, n) = total
    BY ReachesAll
  <2> QED
    BY <1>6, <2>1, <2>2
<1>8. ASSUME NEW k \in 1..n
      PROVE  /\ m.slices[k].offset = reached[k - 1]
             /\ m.slices[k].size = Smaller(total - reached[k - 1], size)
  <2>1. k - 1 \in 0..n
    BY <1>1
  <2>2. reached[k - 1] = PlannedSliceRange(total, size, k).offset
    BY <1>6, <2>1, RangeFits
  <2> QED
    BY <1>4, <2>2, RangeFits
<1>9. ManifestValid(m) <=>
        /\ PlanAccepted(m.total, m.target)
        /\ m.count = ExpectedSliceCount(m.total, m.target)
        /\ m.count = Len(m.slices)
        /\ \A k \in DOMAIN m.slices :
             /\ m.slices[k].index = k
             /\ m.slices[k].offset = reached[k - 1]
             /\ m.slices[k].size = Smaller(m.total - reached[k - 1], m.target)
        /\ reached[Len(m.slices)] = m.total
  BY Zenon DEF ManifestValid, reached, Equation
<1>10. ManifestValid(m)
  BY <1>2, <1>3, <1>4, <1>7, <1>8, <1>9
<1> QED
  BY <1>10 DEF m

\* The slices of every plan that the planner accepts cut the file, and their
\* manifest is one that a merge accepts, for every length and slice size
\* (planned_slice_range against CakeManifest::validate).
THEOREM PlanCutsTheorem ==
  ASSUME NEW total \in Nat, NEW size \in Nat \ {0}, PlanAccepted(total, size)
  PROVE  PlanCuts(total, size)
<1> DEFINE indices == 1..ExpectedSliceCount(total, size)
           range(k) == PlannedSliceRange(total, size, k)
<1>1. \A k \in indices : /\ range(k).size \in 1..size
                        /\ Bytes(range(k)) \subseteq 0..(total - 1)
  BY RangeFits DEF Bytes
<1>2. \A b \in 0..(total - 1) : \E k \in indices : b \in Bytes(range(k))
  BY SliceOfByte
<1>3. UNION {Bytes(range(k)) : k \in indices} = 0..(total - 1)
  <2> HIDE DEF range, indices
  <2> QED
    BY <1>1, <1>2
<1>4. ASSUME NEW j \in indices, NEW k \in indices, j # k
      PROVE  Bytes(range(j)) \cap Bytes(range(k)) = {}
  <2>1. j < k \/ k < j
    BY <1>4, CountType
  <2> QED
    BY <2>1, SlicesApart
<1>5. ManifestValid(ManifestOf(total, size))
  BY ManifestAccepted
<1> QED
  BY <1>1, <1>3, <1>4, <1>5 DEF PlanCuts

\* Partial sums of any finite list of sizes exist.
LEMMA SumsOfSizes ==
  ASSUME NEW n \in Nat, NEW size \in [1..n -> Nat]
  PROVE  \E f \in [0..n -> Nat] : f[0] = 0 /\ \A k \in 1..n : f[k] = f[k - 1] + size[k]
<1> DEFINE Sum(f, m) == f \in [0..m -> Nat] /\ f[0] = 0 /\ \A k \in 1..m : f[k] = f[k - 1] + size[k]
           T == {m \in 0..n : ~ \E f : Sum(f, m)}
<1>0. (\E f : Sum(f, n)) \/ n \in T
  OBVIOUS
<1>1. SUFFICES ASSUME T # {} PROVE FALSE
  <2>1. SUFFICES \E f : Sum(f, n)
    OBVIOUS
  <2> HIDE DEF T
  <2> QED
    BY <1>0
<1>2. PICK m \in T : \A k \in T : m <= k
  <2> HIDE DEF T
  <2>1. T \in SUBSET Nat
    BY DEF T
  <2> QED
    BY <1>1, <2>1, LeastElement
<1>3. \E f : Sum(f, 0)
  <2> DEFINE f == [k \in 0..0 |-> 0]
  <2>1. f \in [0..0 -> Nat] /\ f[0] = 0 /\ 1..0 = {}
    OBVIOUS
  <2> HIDE DEF f
  <2>2. Sum(f, 0)
    BY <2>1
  <2> QED
    BY <2>2
<1>4. m \in Nat \ {0} /\ m - 1 \in 0..n /\ m - 1 \notin T /\ m \in 1..n
  <2>1. m \in 0..n /\ ~ \E f : Sum(f, m)
    BY <1>2
  <2>2. m # 0
    <3> HIDE DEF Sum, T
    <3> QED
      BY <1>3, <2>1
  <2> HIDE DEF Sum, T
  <2>3. m - 1 \notin T
    BY <1>2, <2>1
  <2> QED
    BY <2>1, <2>2, <2>3
<1>5. PICK f : Sum(f, m - 1)
  <2> HIDE DEF Sum
  <2> QED
    BY <1>4
<1> DEFINE h == [k \in 0..m |-> IF k = m THEN f[m - 1] + size[m] ELSE f[k]]
<1>6. f[m - 1] + size[m] \in Nat
  BY <1>4, <1>5
<1>7. h \in [0..m -> Nat] /\ h[0] = 0
  BY <1>4, <1>5, <1>6
<1>8. ASSUME NEW k \in 1..m PROVE h[k] = h[k - 1] + size[k]
  <2>1. CASE k = m
    BY <1>4, <2>1
  <2>2. CASE k # m
    <3>1. k \in 1..(m - 1) /\ k - 1 \in 0..(m - 1)
      BY <1>4, <2>2
    <3> QED
      BY <1>4, <1>5, <2>2, <3>1
  <2> QED
    BY <2>1, <2>2
<1>9. Sum(h, m)
  BY <1>7, <1>8
<1> QED
  BY <1>2, <1>9

\* A manifest reduced to its sizes and ranges.
EntryType == [index : Nat, offset : Nat, size : Nat]
ManifestType == [total : Nat, target : Nat, count : Nat, slices : Seq(EntryType)]

\* A validated manifest adds up its entries to the ends of the planned slices.
LEMMA ValidEntries ==
  ASSUME NEW m \in ManifestType, ManifestValid(m)
  PROVE  /\ PlanAccepted(m.total, m.target) /\ m.target \in Nat \ {0}
         /\ m.count = ExpectedSliceCount(m.total, m.target) /\ Len(m.slices) = m.count
         /\ \A k \in 1..m.count :
              /\ m.slices[k].index = k
              /\ m.slices[k].offset = PlannedSliceRange(m.total, m.target, k).offset
              /\ m.slices[k].size = PlannedSliceRange(m.total, m.target, k).size
<1> DEFINE n == Len(m.slices)
           Equation(g) == [k \in 0..Len(m.slices) |->
                             IF k = 0 THEN 0 ELSE g[k - 1] + m.slices[k].size]
           reached == CHOOSE g : g = Equation(g)
<1>1. /\ m.total \in Nat /\ m.target \in Nat /\ m.count \in Nat
      /\ m.slices \in Seq(EntryType) /\ n \in Nat /\ DOMAIN m.slices = 1..n
      /\ \A k \in 1..n : m.slices[k].size \in Nat
  <2>1. /\ m.total \in Nat /\ m.target \in Nat /\ m.count \in Nat
        /\ m.slices \in Seq(EntryType)
    BY DEF ManifestType
  <2>2. n \in Nat /\ DOMAIN m.slices = 1..n /\ \A k \in 1..n : m.slices[k] \in EntryType
    BY <2>1
  <2>3. \A e \in EntryType : e.size \in Nat
    BY DEF EntryType
  <2> QED
    BY <2>1, <2>2, <2>3
<1> HIDE DEF n, Equation, reached
<1>2. /\ PlanAccepted(m.total, m.target)
      /\ m.count = ExpectedSliceCount(m.total, m.target)
      /\ m.count = Len(m.slices)
      /\ \A k \in DOMAIN m.slices :
           /\ m.slices[k].index = k
           /\ m.slices[k].offset = reached[k - 1]
           /\ m.slices[k].size = Smaller(m.total - reached[k - 1], m.target)
  <2>1. ManifestValid(m)
    OBVIOUS
  <2>2. ManifestValid(m) <=>
          /\ PlanAccepted(m.total, m.target)
          /\ m.count = ExpectedSliceCount(m.total, m.target)
          /\ m.count = Len(m.slices)
          /\ \A k \in DOMAIN m.slices :
               /\ m.slices[k].index = k
               /\ m.slices[k].offset = reached[k - 1]
               /\ m.slices[k].size = Smaller(m.total - reached[k - 1], m.target)
          /\ reached[Len(m.slices)] = m.total
    BY Zenon DEF ManifestValid, reached, Equation
  <2> QED
    BY Zenon, <2>1, <2>2
<1>3. m.target \in Nat \ {0}
  BY <1>1, <1>2, PlanConstantsAssumption DEF PlanAccepted
<1>4. \E g : g = Equation(g)
  <2> DEFINE size == [k \in 1..n |-> m.slices[k].size]
  <2>1. size \in [1..n -> Nat] /\ \A k \in 1..n : size[k] = m.slices[k].size
    BY <1>1
  <2> HIDE DEF size
  <2>2. PICK f \in [0..n -> Nat] : f[0] = 0 /\ \A k \in 1..n : f[k] = f[k - 1] + size[k]
    BY <1>1, <2>1, SumsOfSizes
  <2>3. \A k \in 0..n : f[k] = IF k = 0 THEN 0 ELSE f[k - 1] + m.slices[k].size
    <3>1. ASSUME NEW k \in 0..n, k # 0 PROVE k \in 1..n
      BY <1>1, <3>1
    <3>2. \A k \in 1..n : f[k] = f[k - 1] + m.slices[k].size
      BY Zenon, <2>1, <2>2
    <3> QED
      BY <2>2, <3>1, <3>2
  <2>4. f = [k \in 0..n |-> f[k]]
    BY <2>2
  <2>5. [k \in 0..n |-> f[k]]
          = [k \in 0..n |-> IF k = 0 THEN 0 ELSE f[k - 1] + m.slices[k].size]
    BY Zenon, <2>3
  <2>6. f = Equation(f)
    BY Zenon, <2>4, <2>5 DEF Equation, n
  <2> QED
    BY <2>6
<1>5. reached = Equation(reached)
  BY <1>4 DEF reached
<1>6. reached[0] = 0 /\ \A k \in 1..n : reached[k] = reached[k - 1] + m.slices[k].size
  <2>1. \A k \in 0..n : Equation(reached)[k]
                        = IF k = 0 THEN 0 ELSE reached[k - 1] + m.slices[k].size
    BY DEF Equation, n
  <2>2. \A k \in 0..n : reached[k] = IF k = 0 THEN 0 ELSE reached[k - 1] + m.slices[k].size
    BY <1>5, <2>1
  <2>3. 0 \in 0..n /\ \A k \in 1..n : k \in 0..n /\ k # 0
    BY <1>1
  <2> QED
    BY Zenon, <2>2, <2>3
<1> DEFINE start(k) == PlannedSliceRange(m.total, m.target, k).offset
           bytes(k) == PlannedSliceRange(m.total, m.target, k).size
           ends(k) == Reached(m.total, m.target, k)
<1>7. ASSUME NEW k \in 1..n
       PROVE  /\ start(k) = ends(k - 1) /\ start(k) + bytes(k) = ends(k)
              /\ bytes(k) = Smaller(m.total - start(k), m.target)
  <2>1. k \in 1..ExpectedSliceCount(m.total, m.target)
    BY <1>2 DEF n
  <2>2. m.total \in Nat
    BY <1>1
  <2> QED
    BY Zenon, <1>3, <2>1, <2>2, RangeFits
<1>8. \A k \in 0..n : reached[k] = ends(k)
  <2> DEFINE T == {k \in 0..n : reached[k] # ends(k)}
  <2>1. SUFFICES ASSUME T # {} PROVE FALSE
    OBVIOUS
  <2>2. PICK k \in T : \A j \in T : k <= j
    <3>1. T \subseteq Nat
      BY <1>1
    <3> HIDE DEF T
    <3> QED
      BY <2>1, <3>1, LeastElement
  <2>3. k # 0
    BY <1>1, <1>3, <1>6, <2>2, ReachesAll
  <2>4. k \in 1..n /\ k - 1 \in 0..n /\ k - 1 \notin T
    BY <1>1, <2>2, <2>3
  <2>5. reached[k - 1] = start(k)
    BY <1>7, <2>4
  <2>6. m.slices[k].size = bytes(k)
    <3>1. m.slices[k].size = Smaller(m.total - reached[k - 1], m.target)
      BY Zenon, <1>1, <1>2, <2>4
    <3>2. bytes(k) = Smaller(m.total - start(k), m.target)
      BY <1>7, <2>4
    <3> HIDE DEF start, bytes
    <3> QED
      BY Zenon, <2>5, <3>1, <3>2
  <2>7. reached[k] = ends(k)
    <3> HIDE DEF start, bytes, ends
    <3> QED
      BY <1>6, <1>7, <2>4, <2>5, <2>6
  <2> QED
    BY <2>2, <2>7
<1>9. ASSUME NEW k \in 1..n
      PROVE  /\ m.slices[k].index = k
             /\ m.slices[k].offset = start(k) /\ m.slices[k].size = bytes(k)
  <2>1. k - 1 \in 0..n
    BY <1>1
  <2> HIDE DEF start, bytes, ends
  <2>2. reached[k - 1] = start(k)
    BY <1>8, <1>7, <2>1
  <2>3. bytes(k) = Smaller(m.total - start(k), m.target)
    BY <1>7
  <2>4. /\ m.slices[k].index = k /\ m.slices[k].offset = reached[k - 1]
        /\ m.slices[k].size = Smaller(m.total - reached[k - 1], m.target)
    BY Zenon, <1>1, <1>2
  <2> QED
    BY Zenon, <2>2, <2>3, <2>4
<1> QED
  BY <1>2, <1>3, <1>9 DEF n

\* A manifest that passes the validation is the one a split writes for a plan
\* the planner accepts, so its entries cut the file too (CakeManifest::validate).
THEOREM ValidIsPlanned ==
  ASSUME NEW m \in ManifestType
  PROVE  ManifestValid(m) <=>
           PlanAccepted(m.total, m.target) /\ m = ManifestOf(m.total, m.target)
<1>1. ASSUME PlanAccepted(m.total, m.target), m = ManifestOf(m.total, m.target)
      PROVE  ManifestValid(m)
  <2>1. m.total \in Nat /\ m.target \in Nat \ {0}
    BY <1>1, PlanConstantsAssumption DEF ManifestType, PlanAccepted
  <2>2. ManifestValid(ManifestOf(m.total, m.target))
    BY <1>1, <2>1, ManifestAccepted
  <2> QED
    BY <1>1, <2>2
<1>2. ASSUME ManifestValid(m)
      PROVE  PlanAccepted(m.total, m.target) /\ m = ManifestOf(m.total, m.target)
  <2> DEFINE n == ExpectedSliceCount(m.total, m.target)
             range(k) == PlannedSliceRange(m.total, m.target, k)
             planned == [k \in 1..n |->
                           [index |-> k, offset |-> range(k).offset, size |-> range(k).size]]
  <2>1. /\ PlanAccepted(m.total, m.target) /\ m.count = n /\ Len(m.slices) = n
        /\ \A k \in 1..n : /\ m.slices[k].index = k
                           /\ m.slices[k].offset = range(k).offset
                           /\ m.slices[k].size = range(k).size
    BY <1>2, ValidEntries
  <2>2. /\ m = [total |-> m.total, target |-> m.target, count |-> m.count, slices |-> m.slices]
        /\ m.slices \in Seq(EntryType)
    BY DEF ManifestType
  <2> HIDE DEF n, range
  <2>3. ASSUME NEW k \in 1..n PROVE m.slices[k] = planned[k]
    <3> DEFINE e == m.slices[k]
    <3>1. e \in EntryType
      BY <2>1, <2>2
    <3>2. e.index = k /\ e.offset = range(k).offset /\ e.size = range(k).size
      BY <2>1
    <3> HIDE DEF e
    <3>3. e = [index |-> e.index, offset |-> e.offset, size |-> e.size]
      BY <3>1 DEF EntryType
    <3>4. planned[k] = [index |-> k, offset |-> range(k).offset, size |-> range(k).size]
      OBVIOUS
    <3>5. e = planned[k]
      BY Zenon, <3>2, <3>3, <3>4
    <3> QED
      BY <3>5 DEF e
  <2>4. m.slices = planned
    <3> DEFINE s == m.slices
    <3>1. s \in Seq(EntryType) /\ Len(s) = n /\ \A k \in 1..n : s[k] = planned[k]
      BY <2>1, <2>2, <2>3
    <3>2. planned = [k \in 1..n |-> planned[k]]
      OBVIOUS
    <3> HIDE DEF s, planned
    <3>3. s = [k \in 1..n |-> s[k]]
      BY <3>1
    <3>4. s = planned
      BY Zenon, <3>1, <3>2, <3>3
    <3> QED
      BY <3>4 DEF s
  <2>5. ManifestOf(m.total, m.target)
          = [total |-> m.total, target |-> m.target, count |-> n, slices |-> planned]
    BY DEF ManifestOf, n, range
  <2> QED
    BY <2>1, <2>2, <2>4, <2>5
<1> QED
  BY <1>1, <1>2

-----------------------------------------------------------------------------
(* The inductive invariant.                                                *)

FileType == [id : 0..MaxRuns, bytes : Seq(ByteValues)]

Pcs == {"idle", "preflight", "inspect", "exists", "reopen", "create", "created", "slice",
        "copy", "staged", "checked", "renamed", "end", "cleanup", "cleanOwned", "removeOwned",
        "removeRow"}

\* The run holds the destination directory.
Placed == {"exists", "reopen", "create", "created", "slice", "copy", "staged", "checked",
           "renamed"}

PackageOK ==
  /\ caller \in Callers /\ plan \in Plans
  /\ slices \in [1..Count -> SliceStates] /\ manifest \in ManifestStates

FilesOK ==
  /\ output \in FileType /\ partial \in FileType
  /\ place \in {1, 2} /\ sullied \in SUBSET {"output", "partial"}

RecordType ==
  [known : BOOLEAN, place : 0..2, id : 0..MaxRuns, count : 0..Count,
   bytes : 0..plan.total, published : BOOLEAN]

RunType ==
  [pc : Pcs, id : 0..MaxRuns, place : 0..2, count : 0..Count, read : Seq(ByteValues)]

ControlOK ==
  /\ record \in RecordType /\ run \in RunType
  /\ runs \in 0..MaxRuns /\ others \in 0..MaxOthers /\ stranded \in BOOLEAN
  /\ outcome \in {"none", "success", "failed", "refused", "crashed", "removed"}

Types == PackageOK /\ FilesOK /\ ControlOK

USE DEF Running, CleaningUp, Removing

\* What the run remembers agrees with the checkpoint.
RunOK ==
  /\ Running /\ ~Removing => runs # 0
  /\ Running /\ ~CleaningUp /\ ~Removing => outcome = "none"
  /\ CleaningUp => caller = "cli" /\ outcome \in {"failed", "refused"}
  /\ Removing => caller = "desktop" /\ outcome \in {"failed", "refused", "crashed"}
  /\ run.pc = "preflight" => caller = "desktop"
  /\ record.known => record.id # 0 /\ record.bytes = Boundary(record.count)
  /\ run.pc = "reopen" => record.known
  /\ run.pc \in {"create", "created"} => ~record.known
  /\ run.pc \in {"preflight", "inspect", "create", "created"} => run.count = 0
  /\ run.pc \in {"slice", "copy"} =>
       record.known /\ record.id = run.id /\ record.count = run.count
  /\ run.pc \in {"created", "slice", "copy", "staged", "checked", "renamed"} => run.id # 0
  /\ run.pc = "copy" => run.count < Count /\ Len(run.read) <= RangeOf(NextSlice).size

\* The partial holds, behind the boundary, what the run has read.
HoldsRead(bytes) ==
  /\ Boundary(run.count) + Len(run.read) <= Len(bytes)
  /\ \A j \in 1..Len(run.read) : bytes[Boundary(run.count) + j] = run.read[j]

ReadOK ==
  run.pc = "copy" /\ partial.id = run.id /\ "partial" \notin sullied => HoldsRead(partial.bytes)

\* A run that is about to rename its partial has it as it was checked, unless
\* others changed it since; a run that is about to report success has its
\* output, unless others interfered.
EndWhole ==
  /\ run.pc = "checked" =>
       \/ partial = [id |-> run.id, bytes |-> Original]
       \/ others > 0 /\ "partial" \in sullied
  /\ run.pc = "end" => others > 0 \/ (output.id # 0 /\ output.bytes = Original)

\* The files of a desktop merge that nobody else has touched.
Untouched ==
  /\ slices = [k \in 1..Count |-> "good"] /\ manifest = "good"
  /\ place = 1 /\ sullied = {}
  /\ run.pc \in Placed => run.place = 1
  /\ record.known => record.place = 1
  /\ output.id = 0 => output = NoFile
  /\ partial.id = 0 => partial = NoFile

\* The output is there only when the checkpoint says that it may be.
OutputRecorded ==
  outcome # "removed" =>
    IF output = NoFile
    THEN record.known => partial.id = record.id \/ partial = NoFile
    ELSE /\ record.known /\ record.count = Count
         /\ output = [id |-> record.id, bytes |-> Original]

\* The partial at each program counter.
PartialExact ==
  /\ run.pc = "preflight" /\ ~stranded => output = NoFile
  /\ run.pc \in {"inspect", "reopen", "create", "created", "slice", "copy", "staged", "checked"} =>
       output = NoFile
  /\ run.pc \in {"preflight", "inspect", "create"} /\ ~record.known /\ ~stranded =>
       partial = NoFile
  /\ run.pc \in {"preflight", "inspect", "reopen"} /\ record.known /\ ~stranded =>
       partial.id = record.id
  /\ run.pc \in {"slice", "copy"} => partial.id = run.id
  /\ run.pc = "created" =>
       partial = [id |-> run.id, bytes |-> <<>>] /\ run.count = 0
  /\ run.pc = "slice" => Len(partial.bytes) = Boundary(run.count)
  /\ run.pc = "copy" =>
       /\ Len(partial.bytes) = Boundary(run.count) + Len(run.read)
       /\ \A j \in 1..Len(run.read) : run.read[j] = SliceBytes(NextSlice)[j]
  /\ run.pc \in {"staged", "checked"} =>
       /\ partial = [id |-> run.id, bytes |-> Original]
       /\ record.known /\ record.id = run.id /\ record.count = Count
  /\ run.pc = "renamed" => output = [id |-> run.id, bytes |-> Original]
  /\ run.pc # "exists"

Undisturbed ==
  caller = "desktop" /\ others = 0 =>
    Untouched /\ OutputRecorded /\ PartialExact /\ (outcome = "refused" => stranded)

IInv ==
  /\ Types /\ RunOK /\ ReadOK /\ EndWhole
  /\ OutputWhole /\ BoundaryHolds /\ Undisturbed

-----------------------------------------------------------------------------
(* The geometry of a package, and the operations on bytes.                 *)

LEMMA PlanFacts ==
  ASSUME plan \in Plans
  PROVE  /\ plan.total \in Nat /\ plan.size \in Nat \ {0}
         /\ PlanAccepted(plan.total, plan.size)
         /\ Count \in Nat
         /\ Original \in Seq(ByteValues) /\ Len(Original) = plan.total
         /\ \A k \in 1..plan.total : Original[k] = k
<1>1. /\ plan.total \in Nat /\ plan.size \in Nat \ {0}
      /\ PlanAccepted(plan.total, plan.size)
  BY ConstantsAssumption
<1>2. Count \in Nat
  BY <1>1, CountType DEF Count
<1> QED
  BY <1>1, <1>2 DEF Original, ByteValues

\* What only names the plan stays as long as the plan does.
LEMMA SamePlan ==
  ASSUME plan' = plan
  PROVE  /\ Count' = Count /\ Original' = Original /\ ByteValues' = ByteValues
         /\ \A k : RangeOf(k)' = RangeOf(k)
         /\ \A k : Boundary(k)' = Boundary(k)
         /\ \A k : SliceBytes(k)' = SliceBytes(k)
         /\ \A k : OriginalTo(k)' = OriginalTo(k)
BY DEF Count, Original, ByteValues, RangeOf, Boundary, SliceBytes, OriginalTo

LEMMA SameTypes ==
  ASSUME plan' = plan
  PROVE  RunType' = RunType /\ RecordType' = RecordType /\ FileType' = FileType
BY SamePlan DEF RunType, RecordType, FileType

LEMMA EmptyTypes ==
  ASSUME plan \in Plans
  PROVE  Stopped \in RunType /\ NoRecord \in RecordType /\ NoFile \in FileType
BY PlanFacts, ConstantsAssumption
DEF Stopped, NoRecord, NoFile, RunType, RecordType, FileType, Pcs

LEMMA TypeFacts ==
  ASSUME Types
  PROVE  /\ plan \in Plans /\ Count \in Nat
         /\ runs \in 0..MaxRuns /\ runs \in Nat /\ others \in Nat /\ place \in 1..2
         /\ record.known \in BOOLEAN /\ record.count \in 0..Count /\ record.bytes \in Nat
         /\ record.id \in 0..MaxRuns /\ record.place \in 0..2
         /\ run.id \in 0..MaxRuns /\ run.count \in 0..Count /\ run.place \in 0..2
         /\ run.read \in Seq(ByteValues)
         /\ output.id \in 0..MaxRuns /\ output.bytes \in Seq(ByteValues)
         /\ output = [id |-> output.id, bytes |-> output.bytes]
         /\ partial.id \in 0..MaxRuns /\ partial.bytes \in Seq(ByteValues)
         /\ partial = [id |-> partial.id, bytes |-> partial.bytes]
<1>1. plan \in Plans
  BY DEF Types, PackageOK
<1>2. Count \in Nat /\ plan.total \in Nat
  BY <1>1, PlanFacts
<1> QED
  BY <1>1, <1>2 DEF Types, FilesOK, ControlOK, RecordType, RunType, FileType

LEMMA BoundaryIsReached ==
  ASSUME plan \in Plans, NEW k \in 0..Count
  PROVE  Boundary(k) = Reached(plan.total, plan.size, k)
<1>1. CASE k = 0
  BY <1>1, PlanFacts, ReachesAll DEF Boundary
<1>2. CASE k # 0
  <2>1. k \in 1..ExpectedSliceCount(plan.total, plan.size)
    BY <1>2, PlanFacts DEF Count
  <2>2. RangeOf(k).offset + RangeOf(k).size = Reached(plan.total, plan.size, k)
    BY <2>1, PlanFacts, RangeFits DEF RangeOf
  <2> QED
    BY <1>2, <2>2 DEF Boundary
<1> QED
  BY <1>1, <1>2

LEMMA BoundaryFits ==
  ASSUME plan \in Plans
  PROVE  /\ Boundary(0) = 0 /\ Boundary(Count) = plan.total
         /\ \A k \in 0..Count : Boundary(k) \in 0..plan.total
<1>1. \A k \in 0..Count : k \in Nat
  BY PlanFacts
<1>2. Count \in 0..Count /\ 0 \in 0..Count
  BY PlanFacts
<1>3. /\ Reached(plan.total, plan.size, 0) = 0
      /\ Reached(plan.total, plan.size, Count) = plan.total
      /\ \A k \in Nat : Reached(plan.total, plan.size, k) \in 0..plan.total
  BY PlanFacts, ReachesAll DEF Count
<1> QED
  BY <1>1, <1>2, <1>3, BoundaryIsReached

\* The slice that comes next begins at the boundary and ends at the next one.
LEMMA NextRange ==
  ASSUME plan \in Plans, NEW k \in 0..Count, k < Count
  PROVE  /\ RangeOf(k + 1).offset = Boundary(k)
         /\ RangeOf(k + 1).size \in Nat \ {0}
         /\ Boundary(k + 1) = Boundary(k) + RangeOf(k + 1).size
         /\ Boundary(k) + RangeOf(k + 1).size <= plan.total
<1>1. k + 1 \in 1..ExpectedSliceCount(plan.total, plan.size) /\ k + 1 # 0 /\ (k + 1) - 1 = k
  BY PlanFacts DEF Count
<1>2. RangeOf(k + 1).offset = Reached(plan.total, plan.size, k)
  <2> DEFINE j == k + 1
  <2>1. j \in 1..ExpectedSliceCount(plan.total, plan.size) /\ j - 1 = k
    BY <1>1
  <2> HIDE DEF j
  <2>2. RangeOf(j).offset = Reached(plan.total, plan.size, j - 1)
    <3>1. plan.total \in Nat /\ plan.size \in Nat \ {0}
      BY PlanFacts
    <3> QED
      BY <2>1, <3>1, RangeFits DEF RangeOf
  <2> QED
    BY <2>1, <2>2 DEF j
<1>3. RangeOf(k + 1).size \in Nat \ {0}
  BY <1>1, PlanFacts, RangeFits DEF RangeOf
<1>4. RangeOf(k + 1).offset + RangeOf(k + 1).size <= plan.total
  BY <1>1, PlanFacts, RangeFits DEF RangeOf
<1>5. Boundary(k + 1) = RangeOf(k + 1).offset + RangeOf(k + 1).size
  BY <1>1 DEF Boundary
<1> QED
  BY <1>2, <1>3, <1>4, <1>5, BoundaryIsReached

LEMMA NextBytes ==
  ASSUME plan \in Plans, NEW k \in 0..Count, k < Count
  PROVE  /\ SliceBytes(k + 1) \in Seq(ByteValues)
         /\ Len(SliceBytes(k + 1)) = RangeOf(k + 1).size
         /\ \A j \in 1..RangeOf(k + 1).size : SliceBytes(k + 1)[j] = Boundary(k) + j
<1> DEFINE from == Boundary(k)
           size == RangeOf(k + 1).size
<1>1. from \in Nat /\ size \in Nat /\ from + size <= plan.total /\ RangeOf(k + 1).offset = from
  BY BoundaryFits, NextRange, PlanFacts
<1>2. SliceBytes(k + 1) = SubSeq(Original, from + 1, from + size)
  BY <1>1 DEF SliceBytes
<1> HIDE DEF from, size
<1>3. /\ Len(SubSeq(Original, from + 1, from + size)) = size
      /\ \A j \in 1..size : SubSeq(Original, from + 1, from + size)[j] = Original[from + j]
      /\ SubSeq(Original, from + 1, from + size) \in Seq(ByteValues)
  BY <1>1, PlanFacts
<1>4. \A j \in 1..size : Original[from + j] = from + j
  BY <1>1, PlanFacts
<1> QED
  BY <1>2, <1>3, <1>4 DEF from, size

LEMMA CutBytes ==
  ASSUME NEW S, NEW bytes \in Seq(S), NEW n \in Nat, n <= Len(bytes)
  PROVE  /\ SubSeq(bytes, 1, n) \in Seq(S) /\ Len(SubSeq(bytes, 1, n)) = n
         /\ \A j \in 1..n : SubSeq(bytes, 1, n)[j] = bytes[j]
OBVIOUS

LEMMA OriginalPrefix ==
  ASSUME plan \in Plans, NEW n \in 0..plan.total
  PROVE  /\ OriginalTo(n) \in Seq(ByteValues) /\ Len(OriginalTo(n)) = n
         /\ \A j \in 1..n : OriginalTo(n)[j] = j
<1>1. n \in Nat /\ n <= Len(Original)
  BY PlanFacts
<1> QED
  BY <1>1, PlanFacts, CutBytes DEF OriginalTo

LEMMA SetLenFits ==
  ASSUME NEW bytes \in Seq(ByteValues), NEW n \in Nat, plan \in Plans
  PROVE  /\ SetLen(bytes, n) \in Seq(ByteValues) /\ Len(SetLen(bytes, n)) = n
         /\ \A j \in 1..n : j <= Len(bytes) => SetLen(bytes, n)[j] = bytes[j]
<1>1. 0 \in ByteValues
  BY PlanFacts DEF ByteValues
<1>2. \A j \in 1..n : (IF j <= Len(bytes) THEN bytes[j] ELSE 0) \in ByteValues
  BY <1>1
<1>3. SetLen(bytes, n) \in [1..n -> ByteValues]
  BY <1>2 DEF SetLen
<1> QED
  BY <1>3 DEF SetLen

LEMMA WriteAtFits ==
  ASSUME NEW bytes \in Seq(ByteValues), NEW at \in Nat, NEW byte \in ByteValues, plan \in Plans
  PROVE  LET new == WriteAt(bytes, at, byte)
         IN /\ new \in Seq(ByteValues)
            /\ Len(new) = (IF Len(bytes) > at THEN Len(bytes) ELSE at + 1)
            /\ new[at + 1] = byte
            /\ \A j \in 1..Len(bytes) : j # at + 1 => new[j] = bytes[j]
<1> DEFINE n == IF Len(bytes) > at THEN Len(bytes) ELSE at + 1
           old == SetLen(bytes, n)
           new == WriteAt(bytes, at, byte)
<1>1. n \in Nat /\ at + 1 \in 1..n /\ Len(bytes) <= n
  OBVIOUS
<1>2. WriteAt(bytes, at, byte) = [old EXCEPT ![at + 1] = byte]
  BY DEF WriteAt
<1> HIDE DEF n
<1>3. /\ old \in [1..n -> ByteValues]
      /\ \A j \in 1..Len(bytes) : old[j] = bytes[j]
  BY <1>1, SetLenFits
<1> HIDE DEF old
<1>4. new \in [1..n -> ByteValues]
  BY <1>2, <1>3
<1>5. new \in Seq(ByteValues) /\ Len(new) = n
  BY <1>1, <1>4
<1>6. new[at + 1] = byte /\ \A j \in 1..Len(bytes) : j # at + 1 => new[j] = bytes[j]
  BY <1>1, <1>2, <1>3
<1> QED
  BY <1>5, <1>6 DEF n

\* The recorded bytes are in the partial.
LEMMA RecordedBytes ==
  ASSUME Types, RunOK, BoundaryHolds, record.known, partial.id = record.id, "partial" \notin sullied
  PROVE  /\ record.bytes = Boundary(record.count) /\ record.bytes \in 0..plan.total
         /\ record.bytes <= Len(partial.bytes)
         /\ \A j \in 1..record.bytes : partial.bytes[j] = j
<1>1. record.bytes = Boundary(record.count) /\ record.bytes \in 0..plan.total
  BY TypeFacts, BoundaryFits DEF RunOK
<1>2. /\ Len(OriginalTo(record.bytes)) = record.bytes
      /\ \A j \in 1..record.bytes : OriginalTo(record.bytes)[j] = j
      /\ DOMAIN OriginalTo(record.bytes) = 1..record.bytes
  BY <1>1, TypeFacts, OriginalPrefix
<1> QED
  BY <1>1, <1>2 DEF BoundaryHolds, IsPrefixOf

LEMMA PrefixOfOriginal ==
  ASSUME Types, NEW n \in 0..plan.total, NEW bytes \in Seq(ByteValues),
         n <= Len(bytes), \A j \in 1..n : bytes[j] = j
  PROVE  IsPrefixOf(OriginalTo(n), bytes)
<1>1. /\ Len(OriginalTo(n)) = n /\ DOMAIN OriginalTo(n) = 1..n
      /\ \A j \in 1..n : OriginalTo(n)[j] = j
  BY TypeFacts, OriginalPrefix
<1> QED
  BY <1>1 DEF IsPrefixOf

LEMMA WholeIsOriginal ==
  ASSUME Types, NEW bytes \in Seq(ByteValues), Len(bytes) = plan.total,
         \A j \in 1..plan.total : bytes[j] = j
  PROVE  bytes = Original
<1>1. plan.total \in Nat /\ bytes \in [1..plan.total -> ByteValues]
  BY TypeFacts, PlanFacts
<1> QED
  BY <1>1 DEF Original

-----------------------------------------------------------------------------
\* What is known in the copy of a slice.
LEMMA CopyFacts ==
  ASSUME Types, RunOK, run.pc = "copy"
  PROVE  /\ run.count \in 0..Count /\ run.count < Count /\ run.count \in Nat
         /\ record.known /\ record.id = run.id /\ record.count = run.count
         /\ record.bytes = Boundary(run.count)
         /\ Boundary(run.count) \in Nat /\ Len(run.read) \in Nat
         /\ RangeOf(NextSlice).size \in Nat /\ Len(run.read) <= RangeOf(NextSlice).size
         /\ Boundary(NextSlice) = Boundary(run.count) + RangeOf(NextSlice).size
         /\ Boundary(NextSlice) <= plan.total /\ plan.total \in Nat
         /\ SliceBytes(NextSlice) \in Seq(ByteValues)
         /\ Len(SliceBytes(NextSlice)) = RangeOf(NextSlice).size
         /\ \A j \in 1..RangeOf(NextSlice).size :
              SliceBytes(NextSlice)[j] = Boundary(run.count) + j
<1>1. /\ plan \in Plans /\ Count \in Nat /\ run.count \in 0..Count /\ Len(run.read) \in Nat
      /\ run.count < Count /\ Len(run.read) <= RangeOf(NextSlice).size
      /\ record.known /\ record.id = run.id /\ record.count = run.count
      /\ record.bytes = Boundary(run.count)
  BY TypeFacts DEF RunOK
<1>2. /\ RangeOf(NextSlice).size \in Nat
      /\ Boundary(NextSlice) = Boundary(run.count) + RangeOf(NextSlice).size
      /\ Boundary(run.count) + RangeOf(NextSlice).size <= plan.total
  BY <1>1, NextRange DEF NextSlice
<1>3. /\ SliceBytes(NextSlice) \in Seq(ByteValues)
      /\ Len(SliceBytes(NextSlice)) = RangeOf(NextSlice).size
      /\ \A j \in 1..RangeOf(NextSlice).size :
           SliceBytes(NextSlice)[j] = Boundary(run.count) + j
  BY <1>1, NextBytes DEF NextSlice
<1>4. Boundary(run.count) \in Nat /\ plan.total \in Nat
  BY <1>1, BoundaryFits, PlanFacts
<1> QED
  BY <1>1, <1>2, <1>3, <1>4

(* Every step keeps the invariant: first the steps that leave every file   *)
(* as it is.                                                               *)

\* A run stops: an error, a refusal, a failed event, a success.
LEMMA StopKeeps ==
  ASSUME IInv, Running,
         run' \in {Stopped, [run EXCEPT !.pc = "cleanup"]},
         run'.pc = "cleanup" => caller = "cli" /\ outcome' \in {"failed", "refused"},
         outcome' \in {"success", "failed", "refused", "crashed"},
         UNCHANGED <<package, files, record, others, runs, stranded>>,
         caller = "desktop" /\ others = 0 /\ outcome' = "refused" => stranded
  PROVE  IInv'
<1>1. plan' = plan /\ caller' = caller
  BY DEF package
<1>2. /\ Types /\ RunOK /\ ReadOK /\ EndWhole
      /\ OutputWhole /\ BoundaryHolds /\ Undisturbed
  BY DEF IInv
<1>3. run'.pc \in {"idle", "cleanup"}
  BY <1>2 DEF Types, ControlOK, RunType, Stopped
<1>Types. Types'
  <2>1. PackageOK'
    BY <1>2, SamePlan DEF Types, PackageOK, package
  <2>2. FilesOK'
    BY <1>1, <1>2, SameTypes DEF Types, FilesOK, files
  <2>3. ControlOK'
    <3>1. run' \in RunType
      BY <1>1, <1>2, EmptyTypes, TypeFacts DEF Types, ControlOK, RunType, Pcs
    <3>2. record' \in RecordType
      BY <1>2 DEF Types, ControlOK
    <3> QED
      BY <1>1, <1>2, <3>1, SameTypes DEF Types, ControlOK
  <2> QED
    BY <2>1, <2>2, <2>3 DEF Types
<1>RunOK. RunOK'
  BY <1>1, <1>2, SamePlan, <1>3 DEF RunOK, Running
<1>ReadOK. ReadOK'
  BY <1>3 DEF ReadOK
<1>EndWhole. EndWhole'
  BY <1>3 DEF EndWhole
<1>OutputWhole. OutputWhole'
  BY <1>1, <1>2, SamePlan DEF OutputWhole, files
<1>BoundaryHolds. BoundaryHolds'
  BY <1>1, <1>2, SamePlan DEF BoundaryHolds, files
<1>Undisturbed. Undisturbed'
  <2> SUFFICES ASSUME caller = "desktop", others' = 0
               PROVE  /\ Untouched' /\ OutputRecorded' /\ PartialExact'
                      /\ outcome' = "refused" => stranded'
    BY <1>1 DEF Undisturbed
  <2>1. /\ others = 0 /\ Untouched /\ OutputRecorded /\ PartialExact
        /\ outcome = "refused" => stranded
    BY <1>2 DEF Undisturbed, Types, ControlOK
  <2>2. Untouched'
    BY <1>1, <1>2, <2>1, SamePlan, <1>3 DEF Untouched, Placed, package, files
  <2>3. OutputRecorded'
    BY <1>1, <1>2, <2>1, SamePlan DEF OutputRecorded, RunOK, files
  <2>4. PartialExact'
    BY <1>3 DEF PartialExact
  <2>5. outcome' = "refused" => stranded'
    OBVIOUS
  <2> QED
    BY <2>2, <2>3, <2>4, <2>5
<1> QED
  BY <1>Types, <1>RunOK, <1>ReadOK, <1>EndWhole, <1>OutputWhole, <1>BoundaryHolds, <1>Undisturbed
  DEF IInv

LEMMA BeginKeeps ==
  ASSUME IInv, Begin
  PROVE  IInv'
<1>1. plan' = plan /\ caller' = caller
  BY DEF Begin, package
<1>2. /\ Types /\ RunOK /\ ReadOK /\ EndWhole
      /\ OutputWhole /\ BoundaryHolds /\ Undisturbed
  BY DEF IInv
<1>3. /\ run'.pc \in {"preflight", "inspect"} /\ run'.id = 0
      /\ run'.pc = "preflight" <=> caller = "desktop"
      /\ run'.count = 0 /\ run'.read = <<>>
  BY DEF Stopped, Begin
<1>Types. Types'
  <2>1. PackageOK'
    BY <1>2, SamePlan DEF Types, PackageOK, package, Begin
  <2>2. FilesOK'
    BY <1>1, <1>2, SameTypes, EmptyTypes, TypeFacts DEF Types, FilesOK, Begin
  <2>3. ControlOK'
    <3>1. run' \in RunType
      <4> DEFINE pc == IF caller = "desktop" THEN "preflight" ELSE "inspect"
      <4>1. Stopped \in RunType /\ pc \in Pcs
        BY <1>2, EmptyTypes, TypeFacts DEF Pcs
      <4>2. run' = [Stopped EXCEPT !.pc = pc]
        BY DEF Begin
      <4> HIDE DEF pc
      <4> QED
        BY <4>1, <4>2 DEF RunType
    <3>2. record' \in RecordType
      BY <1>2 DEF Types, ControlOK, Begin
    <3> QED
      BY <1>1, <1>2, <3>1, SameTypes, ConstantsAssumption
      DEF Types, ControlOK, Begin, Stranded
  <2> QED
    BY <2>1, <2>2, <2>3 DEF Types
<1>RunOK. RunOK'
  BY <1>1, <1>2, SamePlan, TypeFacts, <1>3 DEF RunOK, Begin
<1>ReadOK. ReadOK'
  BY <1>3 DEF ReadOK
<1>EndWhole. EndWhole'
  BY <1>3 DEF EndWhole
<1>OutputWhole. OutputWhole'
  BY <1>1, <1>2, SamePlan DEF OutputWhole, Begin
<1>BoundaryHolds. BoundaryHolds'
  BY <1>1, <1>2, SamePlan DEF BoundaryHolds, RunOK, NoFile, Begin
<1>Undisturbed. Undisturbed'
  <2> SUFFICES ASSUME caller = "desktop", others' = 0
               PROVE  /\ Untouched' /\ OutputRecorded' /\ PartialExact'
                      /\ outcome' = "refused" => stranded'
    BY <1>1 DEF Undisturbed
  <2>1. /\ others = 0 /\ Untouched /\ OutputRecorded /\ PartialExact
        /\ outcome = "refused" => stranded
    BY <1>2 DEF Undisturbed, Begin
  <2>2. Untouched'
    BY <1>1, <1>2, <1>3, <2>1, SamePlan DEF Untouched, Placed, package, Begin
  <2>3. OutputRecorded'
    BY <1>1, <1>2, <2>1, SamePlan DEF OutputRecorded, Begin
  <2>4. PartialExact'
    <3>1. ~stranded' => /\ output = NoFile
                        /\ ~record.known => partial = NoFile
                        /\ record.known => partial.id = record.id
      <4>1. (~stranded' => ~Stranded) /\ outcome # "removed"
        BY DEF Begin
      <4>2. /\ output.id = 0 => output = NoFile
            /\ partial.id = 0 => partial = NoFile
            /\ output = NoFile /\ record.known => partial.id = record.id \/ partial = NoFile
        BY <2>1, <4>1 DEF Untouched, OutputRecorded
      <4> QED
        BY <4>1, <4>2 DEF Stranded, Unrecorded, RemovalCut, AlreadyPublished
    <3>2. output' = output /\ partial' = partial /\ record' = record
      BY DEF Begin
    <3>3. run'.pc = "preflight"
      BY <1>3
    <3> QED
      BY <3>1, <3>2, <3>3 DEF PartialExact
  <2>5. outcome' = "refused" => stranded'
    BY DEF Begin
  <2> QED
    BY <2>2, <2>3, <2>4, <2>5
<1> QED
  BY <1>Types, <1>RunOK, <1>ReadOK, <1>EndWhole, <1>OutputWhole, <1>BoundaryHolds, <1>Undisturbed
  DEF IInv

LEMMA PreflightPassed ==
  ASSUME IInv, Preflight, ~Refused("preflight", PreflightPasses)
  PROVE  IInv'
<1>1. plan' = plan /\ caller' = caller
  BY DEF Preflight, Goto, package
<1>2. /\ Types /\ RunOK /\ ReadOK /\ EndWhole
      /\ OutputWhole /\ BoundaryHolds /\ Undisturbed
  BY DEF IInv
<1>3. /\ run.pc = "preflight" /\ run'.pc = "inspect" /\ run'.id = run.id
      /\ run'.count = run.count /\ run'.read = run.read /\ output = NoFile
  BY <1>2 DEF Types, ControlOK, RunType, Preflight, Goto, PreflightPasses
<1>Types. Types'
  <2>1. PackageOK'
    BY <1>2, SamePlan DEF Types, PackageOK, package, Preflight
  <2>2. FilesOK'
    BY <1>1, <1>2, SameTypes DEF Types, FilesOK, files, Preflight
  <2>3. ControlOK'
    <3>1. run' \in RunType
      BY <1>1, <1>2 DEF Types, ControlOK, RunType, Pcs, Preflight, Goto
    <3>2. record' \in RecordType
      BY <1>2 DEF Types, ControlOK, Preflight
    <3> QED
      BY <1>1, <1>2, <3>1, SameTypes DEF Types, ControlOK, Preflight
  <2> QED
    BY <2>1, <2>2, <2>3 DEF Types
<1>RunOK. RunOK'
  BY <1>1, <1>2, SamePlan, <1>3 DEF RunOK, Running, Preflight
<1>ReadOK. ReadOK'
  BY <1>3 DEF ReadOK
<1>EndWhole. EndWhole'
  BY <1>3 DEF EndWhole
<1>OutputWhole. OutputWhole'
  BY <1>1, <1>2, SamePlan DEF OutputWhole, Preflight, files
<1>BoundaryHolds. BoundaryHolds'
  BY <1>1, <1>2, SamePlan DEF BoundaryHolds, Preflight, files
<1>Undisturbed. Undisturbed'
  <2> SUFFICES ASSUME caller = "desktop", others' = 0
               PROVE  /\ Untouched' /\ OutputRecorded' /\ PartialExact'
                      /\ outcome' = "refused" => stranded'
    BY <1>1 DEF Undisturbed
  <2>1. /\ others = 0 /\ Untouched /\ OutputRecorded /\ PartialExact
        /\ outcome = "refused" => stranded
    BY <1>2 DEF Undisturbed, Preflight
  <2>2. Untouched'
    BY <1>1, <1>2, <2>1, SamePlan, <1>3 DEF Untouched, Placed, package, files, Preflight
  <2>3. OutputRecorded'
    BY <1>1, <1>2, <2>1, SamePlan DEF OutputRecorded, files, Preflight
  <2>4. PartialExact'
    BY <1>1, <1>2, <2>1, <1>3 DEF PartialExact, files, Preflight
  <2>5. outcome' = "refused" => stranded'
    BY <2>1 DEF Preflight
  <2> QED
    BY <2>2, <2>3, <2>4, <2>5
<1> QED
  BY <1>Types, <1>RunOK, <1>ReadOK, <1>EndWhole, <1>OutputWhole, <1>BoundaryHolds, <1>Undisturbed
  DEF IInv

LEMMA InspectPasses ==
  ASSUME IInv, Inspect, ~Refused("inspect", PackageWhole)
  PROVE  IInv'
<1>1. plan' = plan /\ caller' = caller
  BY DEF Inspect, package
<1>2. /\ Types /\ RunOK /\ ReadOK /\ EndWhole
      /\ OutputWhole /\ BoundaryHolds /\ Undisturbed
  BY DEF IInv
<1>3. /\ run.pc = "inspect" /\ run'.place = place /\ run'.id = run.id
      /\ run'.pc \in {"exists", "reopen", "create"}
      /\ run'.count = run.count /\ run'.read = run.read
      /\ run'.pc = "exists" <=> output # NoFile
      /\ run'.pc = "reopen" => record.known
      /\ run'.pc = "create" => ~record.known
  <2> DEFINE pc == IF output # NoFile THEN "exists" ELSE IF record.known THEN "reopen"
                   ELSE "create"
  <2>1. run.pc = "inspect" /\ run' = [run EXCEPT !.pc = pc, !.place = place]
    BY DEF Inspect
  <2>2. /\ pc \in {"exists", "reopen", "create"}
        /\ pc = "exists" <=> output # NoFile
        /\ pc = "reopen" => record.known
        /\ pc = "create" => ~record.known
    OBVIOUS
  <2> HIDE DEF pc
  <2> QED
    BY <1>2, <2>1, <2>2 DEF Types, ControlOK, RunType
<1>Types. Types'
  <2>1. PackageOK'
    BY <1>2, SamePlan DEF Types, PackageOK, package, Inspect
  <2>2. FilesOK'
    BY <1>1, <1>2, SameTypes DEF Types, FilesOK, files, Inspect
  <2>3. ControlOK'
    <3>1. run' \in RunType
      <4>1. run' = [run EXCEPT !.pc = run'.pc, !.place = place] /\ run \in RunType
        BY <1>2, <1>3 DEF Inspect, Types, ControlOK, RunType
      <4>2. run'.pc \in Pcs /\ place \in 0..2
        BY <1>2, <1>3, TypeFacts DEF Pcs
      <4> QED
        BY <4>1, <4>2 DEF RunType
    <3>2. record' \in RecordType
      BY <1>2 DEF Types, ControlOK, Inspect
    <3> QED
      BY <1>1, <1>2, <3>1, SameTypes DEF Types, ControlOK, Inspect
  <2> QED
    BY <2>1, <2>2, <2>3 DEF Types
<1>RunOK. RunOK'
  BY <1>1, <1>2, SamePlan, <1>3 DEF RunOK, Running, Inspect
<1>ReadOK. ReadOK'
  BY <1>3 DEF ReadOK
<1>EndWhole. EndWhole'
  BY <1>3 DEF EndWhole
<1>OutputWhole. OutputWhole'
  BY <1>1, <1>2, SamePlan DEF OutputWhole, Inspect, files
<1>BoundaryHolds. BoundaryHolds'
  BY <1>1, <1>2, SamePlan DEF BoundaryHolds, Inspect, files
<1>Undisturbed. Undisturbed'
  <2> SUFFICES ASSUME caller = "desktop", others' = 0
               PROVE  /\ Untouched' /\ OutputRecorded' /\ PartialExact'
                      /\ outcome' = "refused" => stranded'
    BY <1>1 DEF Undisturbed
  <2>1. /\ others = 0 /\ Untouched /\ OutputRecorded /\ PartialExact
        /\ outcome = "refused" => stranded
    BY <1>2 DEF Undisturbed, Inspect
  <2>2. Untouched'
    BY <1>1, <1>2, <2>1, SamePlan, <1>3 DEF Untouched, Placed, package, files, Inspect
  <2>3. OutputRecorded'
    BY <1>1, <1>2, <2>1, SamePlan DEF OutputRecorded, files, Inspect
  <2>4. PartialExact'
    BY <1>1, <1>2, <2>1, <1>3 DEF PartialExact, files, Inspect
  <2>5. outcome' = "refused" => stranded'
    BY <2>1 DEF Inspect
  <2> QED
    BY <2>2, <2>3, <2>4, <2>5
<1> QED
  BY <1>Types, <1>RunOK, <1>ReadOK, <1>EndWhole, <1>OutputWhole, <1>BoundaryHolds, <1>Undisturbed
  DEF IInv

LEMMA CheckOutputPasses ==
  ASSUME IInv, CheckOutput, OutputIsOurs
  PROVE  IInv'
<1>1. plan' = plan /\ caller' = caller
  BY DEF CheckOutput, Goto, package
<1>2. /\ Types /\ RunOK /\ ReadOK /\ EndWhole
      /\ OutputWhole /\ BoundaryHolds /\ Undisturbed
  BY DEF IInv
<1>3. /\ run'.pc = "end" /\ run'.place = run.place /\ run'.id = run.id
      /\ run'.count = run.count /\ run'.read = run.read
  BY <1>2 DEF Types, ControlOK, RunType, CheckOutput, Goto
<1>Types. Types'
  <2>1. PackageOK'
    BY <1>2, SamePlan DEF Types, PackageOK, package, CheckOutput
  <2>2. FilesOK'
    BY <1>1, <1>2, SameTypes DEF Types, FilesOK, files, CheckOutput
  <2>3. ControlOK'
    <3>1. run' \in RunType
      BY <1>1, <1>2 DEF Types, ControlOK, RunType, Pcs, CheckOutput, Goto
    <3>2. record' \in RecordType
      BY <1>2 DEF Types, ControlOK, CheckOutput
    <3> QED
      BY <1>1, <1>2, <3>1, SameTypes DEF Types, ControlOK, CheckOutput
  <2> QED
    BY <2>1, <2>2, <2>3 DEF Types
<1>RunOK. RunOK'
  BY <1>1, <1>2, SamePlan, TypeFacts, <1>3 DEF RunOK, Running, CheckOutput, package
<1>ReadOK. ReadOK'
  BY <1>3 DEF ReadOK
<1>EndWhole. EndWhole'
  <2>1. output = [id |-> record.id, bytes |-> Original] /\ record.known
    BY DEF CheckOutput, OutputIsOurs
  <2> QED
    BY <1>1, <1>2, <1>3, <2>1, SamePlan DEF EndWhole, RunOK, CheckOutput, files
<1>OutputWhole. OutputWhole'
  BY <1>1, <1>2, SamePlan DEF OutputWhole, CheckOutput, files
<1>BoundaryHolds. BoundaryHolds'
  BY <1>1, <1>2, SamePlan DEF BoundaryHolds, CheckOutput, files
<1>Undisturbed. Undisturbed'
  <2> SUFFICES ASSUME caller = "desktop", others' = 0
               PROVE  /\ Untouched' /\ OutputRecorded' /\ PartialExact'
                      /\ outcome' = "refused" => stranded'
    BY <1>1 DEF Undisturbed
  <2>1. /\ others = 0 /\ Untouched /\ OutputRecorded /\ PartialExact
        /\ outcome = "refused" => stranded
    BY <1>2 DEF Undisturbed, CheckOutput
  <2>2. Untouched'
    BY <1>1, <1>2, <2>1, SamePlan, <1>3
    DEF Untouched, Placed, package, files, CheckOutput
  <2>3. OutputRecorded'
    BY <1>1, <1>2, <2>1, SamePlan DEF OutputRecorded, files, CheckOutput
  <2>4. PartialExact'
    BY <1>3 DEF PartialExact
  <2>5. outcome' = "refused" => stranded'
    BY <2>1 DEF CheckOutput
  <2> QED
    BY <2>2, <2>3, <2>4, <2>5
<1> QED
  BY <1>Types, <1>RunOK, <1>ReadOK, <1>EndWhole, <1>OutputWhole, <1>BoundaryHolds, <1>Undisturbed
  DEF IInv

LEMMA ReopenGoesOn ==
  ASSUME IInv, Reopen, PrefixVerified(partial.bytes), ~Refused("reopen", PartialIsOurs)
  PROVE  IInv'
<1>1. plan' = plan /\ caller' = caller
  BY DEF Reopen, package
<1>2. /\ Types /\ RunOK /\ ReadOK /\ EndWhole
      /\ OutputWhole /\ BoundaryHolds /\ Undisturbed
  BY DEF IInv
<1>3. /\ run'.pc = "slice" /\ run'.place = run.place /\ run'.id = record.id
      /\ run'.count = record.count /\ run'.read = run.read
  BY <1>2 DEF Types, ControlOK, RunType, Stopped, Reopen
<1>4. /\ record.known /\ partial.id = record.id /\ record.bytes <= Len(partial.bytes)
      /\ record.bytes = Boundary(record.count) /\ sullied' = sullied \ {"partial"}
      /\ UNCHANGED <<output, place, record, others, runs, stranded, outcome>>
  BY <1>2 DEF RunOK, Reopen, PartialIsOurs
<1>5. /\ partial' = [id |-> partial.id, bytes |-> SubSeq(partial.bytes, 1, record.bytes)]
      /\ partial'.id = partial.id /\ partial'.bytes = OriginalTo(record.bytes)
      /\ Len(partial'.bytes) = record.bytes /\ partial' \in FileType
  <2>1. partial' = [id |-> partial.id, bytes |-> SubSeq(partial.bytes, 1, record.bytes)]
    BY <1>2, TypeFacts DEF Reopen
  <2>2. /\ SubSeq(partial.bytes, 1, record.bytes) \in Seq(ByteValues)
        /\ Len(SubSeq(partial.bytes, 1, record.bytes)) = record.bytes
    BY <1>2, <1>4, TypeFacts, CutBytes
  <2> QED
    BY <1>2, <2>1, <2>2, TypeFacts DEF PrefixVerified, FileType
<1>Types. Types'
  <2>1. PackageOK'
    BY <1>2, SamePlan DEF Types, PackageOK, package, Reopen
  <2>2. FilesOK'
    BY <1>1, <1>2, SameTypes, <1>4, <1>5 DEF Types, FilesOK
  <2>3. ControlOK'
    <3>1. run' \in RunType
      BY <1>1, <1>2, EmptyTypes, TypeFacts DEF Types, ControlOK, RunType, Pcs, Reopen
    <3>2. record' \in RecordType
      BY <1>1, <1>2, <1>4 DEF Types, ControlOK
    <3> QED
      BY <1>1, <1>2, <3>1, SameTypes, <1>4 DEF Types, ControlOK
  <2> QED
    BY <2>1, <2>2, <2>3 DEF Types
<1>RunOK. RunOK'
  BY <1>1, <1>2, SamePlan, <1>3 DEF RunOK, Running, Reopen
<1>ReadOK. ReadOK'
  BY <1>3 DEF ReadOK
<1>EndWhole. EndWhole'
  BY <1>3 DEF EndWhole
<1>OutputWhole. OutputWhole'
  BY <1>1, <1>2, SamePlan, <1>4 DEF OutputWhole
<1>BoundaryHolds. BoundaryHolds'
  <2>1. \A s : IsPrefixOf(s, s)
    BY DEF IsPrefixOf
  <2> QED
    BY <1>1, <1>4, <1>5, <2>1, SamePlan DEF BoundaryHolds
<1>Undisturbed. Undisturbed'
  <2> SUFFICES ASSUME caller = "desktop", others' = 0
               PROVE  /\ Untouched' /\ OutputRecorded' /\ PartialExact'
                      /\ outcome' = "refused" => stranded'
    BY <1>1 DEF Undisturbed
  <2>1. /\ others = 0 /\ Untouched /\ OutputRecorded /\ PartialExact
        /\ outcome = "refused" => stranded
    BY <1>2 DEF Undisturbed, Reopen
  <2>2. Untouched'
    BY <1>1, <1>2, <2>1, SamePlan, TypeFacts, <1>3, <1>4
    DEF Untouched, Placed, NoFile, NoRecord, package, files, Reopen
  <2>3. OutputRecorded'
    BY <1>1, <1>2, <2>1, SamePlan, <1>4, <1>5 DEF OutputRecorded
  <2>4. PartialExact'
    BY <1>1, <1>2, <2>1, SamePlan, TypeFacts, <1>3, <1>4 DEF PartialExact, files, Reopen
  <2>5. outcome' = "refused" => stranded'
    BY <2>1, <1>4
  <2> QED
    BY <2>2, <2>3, <2>4, <2>5
<1> QED
  BY <1>Types, <1>RunOK, <1>ReadOK, <1>EndWhole, <1>OutputWhole, <1>BoundaryHolds, <1>Undisturbed
  DEF IInv

LEMMA CreateGoesOn ==
  ASSUME IInv, Create, ~Refused("create", Creatable)
  PROVE  IInv'
<1>1. plan' = plan /\ caller' = caller
  BY DEF Create, package
<1>2. /\ Types /\ RunOK /\ ReadOK /\ EndWhole
      /\ OutputWhole /\ BoundaryHolds /\ Undisturbed
  BY DEF IInv
<1>3. /\ run'.pc = "created" /\ run'.place = run.place /\ run'.id = runs
      /\ run'.count = run.count /\ run'.read = run.read
  BY <1>2 DEF Types, ControlOK, RunType, Stopped, Create
<1>4. /\ partial' = [id |-> runs, bytes |-> <<>>] /\ partial' \in FileType
      /\ partial'.id = runs /\ partial'.bytes = <<>> /\ runs # 0 /\ ~record.known
  <2>1. run.pc = "create" /\ partial' = [id |-> runs, bytes |-> <<>>]
    BY DEF Create
  <2>2. runs \in 0..MaxRuns /\ <<>> \in Seq(ByteValues)
    BY <1>2, TypeFacts
  <2>3. runs # 0 /\ ~record.known
    BY <1>2, <2>1 DEF RunOK, Running
  <2> QED
    BY <2>1, <2>2, <2>3 DEF FileType
<1>Types. Types'
  <2>1. PackageOK'
    BY <1>2, SamePlan DEF Types, PackageOK, package, Create
  <2>2. FilesOK'
    BY <1>1, <1>2, SameTypes, <1>4 DEF Types, FilesOK, files, Create
  <2>3. ControlOK'
    <3>1. run' \in RunType
      BY <1>1, <1>2 DEF Types, ControlOK, RunType, Pcs, Create
    <3>2. record' \in RecordType
      BY <1>2 DEF Types, ControlOK, Create
    <3> QED
      BY <1>1, <1>2, <3>1, SameTypes, <1>4 DEF Types, ControlOK, Create
  <2> QED
    BY <2>1, <2>2, <2>3 DEF Types
<1>RunOK. RunOK'
  BY <1>1, <1>2, <1>3 DEF RunOK, Running, Create
<1>ReadOK. ReadOK'
  BY <1>3 DEF ReadOK
<1>EndWhole. EndWhole'
  BY <1>3 DEF EndWhole
<1>OutputWhole. OutputWhole'
  BY <1>1, <1>2, SamePlan DEF OutputWhole, Create
<1>BoundaryHolds. BoundaryHolds'
  BY <1>4 DEF BoundaryHolds, Create
<1>Undisturbed. Undisturbed'
  <2> SUFFICES ASSUME caller = "desktop", others' = 0
               PROVE  /\ Untouched' /\ OutputRecorded' /\ PartialExact'
                      /\ outcome' = "refused" => stranded'
    BY <1>1 DEF Undisturbed
  <2>1. /\ others = 0 /\ Untouched /\ OutputRecorded /\ PartialExact
        /\ outcome = "refused" => stranded
    BY <1>2 DEF Undisturbed, Create
  <2>2. Untouched'
    BY <1>1, <1>2, <2>1, SamePlan, TypeFacts, <1>3, <1>4
    DEF Untouched, Placed, NoRecord, package, files, Create
  <2>3. OutputRecorded'
    BY <1>1, <1>2, <2>1, <1>4 DEF OutputRecorded, files, Create
  <2>4. PartialExact'
    BY <1>1, <1>2, <2>1, SamePlan, TypeFacts, <1>3 DEF PartialExact, RunOK, files, Create
  <2>5. outcome' = "refused" => stranded'
    BY <2>1 DEF Create
  <2> QED
    BY <2>2, <2>3, <2>4, <2>5
<1> QED
  BY <1>Types, <1>RunOK, <1>ReadOK, <1>EndWhole, <1>OutputWhole, <1>BoundaryHolds, <1>Undisturbed
  DEF IInv

LEMMA RecordPartialGoesOn ==
  ASSUME IInv, run.pc = "created", record' = RecordedPartial, run' = [run EXCEPT !.pc = "slice"],
         UNCHANGED <<package, files, outcome, others, runs, stranded>>
  PROVE  IInv'
<1>1. plan' = plan /\ caller' = caller
  BY DEF RecordedPartial, NoRecord, package
<1>2. /\ Types /\ RunOK /\ ReadOK /\ EndWhole
      /\ OutputWhole /\ BoundaryHolds /\ Undisturbed
  BY DEF IInv
<1>3. /\ run'.pc = "slice" /\ run'.place = run.place /\ run'.id = run.id
      /\ run'.count = run.count /\ run'.read = run.read
  OBVIOUS
<1>4. /\ record' = [known |-> TRUE, place |-> run.place, id |-> run.id, count |-> 0,
                    bytes |-> 0, published |-> FALSE]
      /\ run.count = 0 /\ run.id # 0 /\ record' \in RecordType /\ ~record.known
  <2>1. record' = [known |-> TRUE, place |-> run.place, id |-> run.id, count |-> 0,
                   bytes |-> 0, published |-> FALSE]
    BY DEF RecordedPartial, NoRecord
  <2>2. plan.total \in Nat
    BY <1>2, TypeFacts, PlanFacts
  <2> QED
    BY <1>2, <2>1, <2>2, TypeFacts DEF RunOK, RecordType
<1>5. Boundary(0) = 0 /\ \A s \in Seq(ByteValues) : IsPrefixOf(OriginalTo(0), s)
  <2>1. Boundary(0) = 0 /\ 0 \in 0..plan.total
    BY <1>2, TypeFacts, PlanFacts, BoundaryFits
  <2> QED
    BY <1>2, <2>1, PrefixOfOriginal
<1>Types. Types'
  <2>1. PackageOK'
    BY <1>2, SamePlan DEF Types, PackageOK, package
  <2>2. FilesOK'
    BY <1>1, <1>2, SameTypes DEF Types, FilesOK, files
  <2>3. ControlOK'
    <3>1. run' \in RunType
      BY <1>1, <1>2 DEF Types, ControlOK, RunType, Pcs
    <3>2. record' \in RecordType
      BY <1>4
    <3> QED
      BY <1>1, <1>2, <3>1, <3>2, SameTypes DEF Types, ControlOK
  <2> QED
    BY <2>1, <2>2, <2>3 DEF Types
<1>RunOK. RunOK'
  BY <1>1, <1>2, SamePlan, TypeFacts, <1>4, <1>5 DEF RunOK, Running
<1>ReadOK. ReadOK'
  BY DEF ReadOK
<1>EndWhole. EndWhole'
  BY DEF EndWhole
<1>OutputWhole. OutputWhole'
  BY <1>1, <1>2, SamePlan DEF OutputWhole, files
<1>BoundaryHolds. BoundaryHolds'
  BY <1>1, <1>2, SamePlan, TypeFacts, <1>4, <1>5 DEF BoundaryHolds, files
<1>Undisturbed. Undisturbed'
  <2> SUFFICES ASSUME caller = "desktop", others' = 0
               PROVE  /\ Untouched' /\ OutputRecorded' /\ PartialExact'
                      /\ outcome' = "refused" => stranded'
    BY <1>1 DEF Undisturbed
  <2>1. /\ others = 0 /\ Untouched /\ OutputRecorded /\ PartialExact
        /\ outcome = "refused" => stranded
    BY <1>2 DEF Undisturbed
  <2>2. Untouched'
    BY <1>1, <1>2, <2>1, SamePlan, <1>4 DEF Untouched, Placed, package, files
  <2>3. OutputRecorded'
    BY <1>1, <1>2, <2>1, SamePlan, <1>4 DEF OutputRecorded, PartialExact, files
  <2>4. PartialExact'
    BY <1>1, <1>2, <2>1, SamePlan, <1>5 DEF PartialExact, files
  <2>5. outcome' = "refused" => stranded'
    BY <2>1
  <2> QED
    BY <2>2, <2>3, <2>4, <2>5
<1> QED
  BY <1>Types, <1>RunOK, <1>ReadOK, <1>EndWhole, <1>OutputWhole, <1>BoundaryHolds, <1>Undisturbed
  DEF IInv

LEMMA OpenSliceGoesOn ==
  ASSUME IInv, OpenSlice, ~Refused("slice", Openable)
  PROVE  IInv'
<1>1. plan' = plan /\ caller' = caller
  BY DEF OpenSlice, package
<1>2. /\ Types /\ RunOK /\ ReadOK /\ EndWhole
      /\ OutputWhole /\ BoundaryHolds /\ Undisturbed
  BY DEF IInv
<1>3. /\ run'.pc = "copy" /\ run'.place = run.place /\ run'.id = run.id
      /\ run'.count = run.count /\ run'.read = <<>>
  BY <1>2 DEF Types, ControlOK, RunType, Stopped, OpenSlice
<1>4. /\ run.pc = "slice" /\ run.count < Count /\ RangeOf(run.count + 1).size \in Nat
  <2>1. run.pc = "slice" /\ run.count < Count
    BY <1>2, TypeFacts DEF OpenSlice, NextSlice
  <2> QED
    BY <1>2, <2>1, TypeFacts, NextRange
<1>Types. Types'
  <2>1. PackageOK'
    BY <1>2, SamePlan DEF Types, PackageOK, package, OpenSlice
  <2>2. FilesOK'
    BY <1>1, <1>2, SameTypes DEF Types, FilesOK, files, OpenSlice
  <2>3. ControlOK'
    <3>1. run' \in RunType
      <4>1. run \in RunType /\ "copy" \in Pcs /\ <<>> \in Seq(ByteValues)
        BY <1>2 DEF Types, ControlOK, Pcs
      <4>2. run' = [run EXCEPT !.pc = "copy", !.read = <<>>]
        BY DEF OpenSlice
      <4> QED
        BY <4>1, <4>2 DEF RunType
    <3>2. record' \in RecordType
      BY <1>2 DEF Types, ControlOK, OpenSlice
    <3> QED
      BY <1>1, <1>2, <3>1, SameTypes, <1>4 DEF Types, ControlOK, OpenSlice
  <2> QED
    BY <2>1, <2>2, <2>3 DEF Types
<1>RunOK. RunOK'
  BY <1>1, <1>2, SamePlan, TypeFacts, <1>3, <1>4
  DEF RunOK, Running, NextSlice, OpenSlice, files
<1>ReadOK. ReadOK'
  <2>1. partial.id = run.id /\ "partial" \notin sullied => Boundary(run.count) <= Len(partial.bytes)
    BY <1>2, <1>4, RecordedBytes DEF RunOK
  <2>2. partial' = partial /\ sullied' = sullied
    BY DEF OpenSlice, Refused, files
  <2> QED
    BY <1>1, <1>2, <1>3, <2>1, <2>2, SamePlan, TypeFacts, BoundaryFits DEF ReadOK, HoldsRead
<1>EndWhole. EndWhole'
  BY <1>3 DEF EndWhole
<1>OutputWhole. OutputWhole'
  BY <1>1, <1>2, SamePlan DEF OutputWhole, OpenSlice, files
<1>BoundaryHolds. BoundaryHolds'
  BY <1>1, <1>2, SamePlan DEF BoundaryHolds, OpenSlice, files
<1>Undisturbed. Undisturbed'
  <2> SUFFICES ASSUME caller = "desktop", others' = 0
               PROVE  /\ Untouched' /\ OutputRecorded' /\ PartialExact'
                      /\ outcome' = "refused" => stranded'
    BY <1>1 DEF Undisturbed
  <2>1. /\ others = 0 /\ Untouched /\ OutputRecorded /\ PartialExact
        /\ outcome = "refused" => stranded
    BY <1>2 DEF Undisturbed, OpenSlice
  <2>2. Untouched'
    BY <1>1, <1>2, <2>1, SamePlan, TypeFacts, <1>3
    DEF Untouched, Placed, NoRecord, package, files, OpenSlice
  <2>3. OutputRecorded'
    BY <1>1, <1>2, <2>1, SamePlan DEF OutputRecorded, files, OpenSlice
  <2>4. PartialExact'
    BY <1>1, <1>2, <2>1, SamePlan, TypeFacts, <1>3 DEF PartialExact, files, OpenSlice
  <2>5. outcome' = "refused" => stranded'
    BY <2>1 DEF OpenSlice
  <2> QED
    BY <2>2, <2>3, <2>4, <2>5
<1> QED
  BY <1>Types, <1>RunOK, <1>ReadOK, <1>EndWhole, <1>OutputWhole, <1>BoundaryHolds, <1>Undisturbed
  DEF IInv

LEMMA WriteBytesKeeps ==
  ASSUME IInv, WriteBytes
  PROVE  IInv'
<1> DEFINE at == Boundary(run.count) + Len(run.read)
<1>1. plan' = plan /\ caller' = caller
  BY DEF WriteBytes, package
<1>2. /\ Types /\ RunOK /\ ReadOK /\ EndWhole
      /\ OutputWhole /\ BoundaryHolds /\ Undisturbed
  BY DEF IInv
<1>3. run.pc = "copy" /\ Len(run.read) < RangeOf(NextSlice).size
  BY DEF WriteBytes
<1>copy. /\ Boundary(run.count) \in Nat /\ Len(run.read) \in Nat
         /\ RangeOf(NextSlice).size \in Nat /\ plan.total \in Nat
         /\ Boundary(run.count) + RangeOf(NextSlice).size <= plan.total
         /\ \A j \in 1..RangeOf(NextSlice).size :
              SliceBytes(NextSlice)[j] = Boundary(run.count) + j
         /\ run.read \in Seq(ByteValues) /\ partial.bytes \in Seq(ByteValues)
         /\ Len(partial.bytes) \in Nat /\ plan \in Plans
  BY <1>2, <1>3, CopyFacts, TypeFacts
<1>4. UNCHANGED <<slices, manifest, output, place, sullied>>
      /\ UNCHANGED <<record, others, runs, outcome, stranded>>
  BY DEF WriteBytes, package
<1>5. at \in Nat /\ at + 1 \in ByteValues /\ SliceBytes(NextSlice)[Len(run.read) + 1] = at + 1
  <2>1. Len(run.read) + 1 \in 1..RangeOf(NextSlice).size
    BY <1>3, <1>copy
  <2>2. SliceBytes(NextSlice)[Len(run.read) + 1] = Boundary(run.count) + (Len(run.read) + 1)
    BY <1>copy, <2>1
  <2>3. at \in Nat /\ at + 1 <= plan.total
    BY <1>3, <1>copy
  <2>4. Boundary(run.count) + (Len(run.read) + 1) = at + 1
    BY <1>copy
  <2> QED
    BY <1>copy, <2>2, <2>3 DEF ByteValues
<1>6. PICK byte \in ByteValues :
        /\ run' = [run EXCEPT !.read = Append(run.read, byte)]
        /\ partial' = IF Attached THEN [partial EXCEPT !.bytes = WriteAt(@, at, byte)]
                      ELSE partial
        /\ slices[NextSlice] # "forged" => byte = at + 1
  <2>1. 0 \in ByteValues
    BY <1>2, <1>3, CopyFacts DEF ByteValues
  <2> QED
    BY <1>5, <2>1 DEF WriteBytes
<1>7. /\ run'.pc = "copy" /\ run'.place = run.place /\ run'.id = run.id
      /\ run'.count = run.count /\ run'.read = Append(run.read, byte) /\ run' \in RunType
  <2>1. Append(run.read, byte) \in Seq(ByteValues)
    BY <1>2, TypeFacts
  <2> QED
    BY <1>2, <1>3, <1>6, <2>1 DEF Types, ControlOK, RunType
<1>8. /\ Len(run'.read) = Len(run.read) + 1 /\ run'.read[Len(run.read) + 1] = byte
      /\ \A j \in 1..Len(run.read) : run'.read[j] = run.read[j]
  <2>1. run.read \in Seq(ByteValues)
    BY <1>2, TypeFacts
  <2> QED
    BY <1>7, <2>1
<1>9. /\ partial' \in FileType /\ partial'.id = partial.id
      /\ ~Attached => partial' = partial
      /\ Attached => partial'.bytes = WriteAt(partial.bytes, at, byte)
  <2>1. partial \in FileType
    BY <1>2 DEF Types, FilesOK
  <2>2. WriteAt(partial.bytes, at, byte) \in Seq(ByteValues)
    BY <1>2, <1>5, TypeFacts, WriteAtFits
  <2> HIDE DEF at
  <2> QED
    BY <1>6, <2>1, <2>2 DEF FileType
<1>10. ASSUME Attached
       PROVE  /\ Len(partial'.bytes)
                   = (IF Len(partial.bytes) > at THEN Len(partial.bytes) ELSE at + 1)
              /\ partial'.bytes[at + 1] = byte
              /\ \A j \in 1..Len(partial.bytes) : j # at + 1 => partial'.bytes[j] = partial.bytes[j]
  <2>1. at \in Nat /\ partial'.bytes = WriteAt(partial.bytes, at, byte)
    BY <1>5, <1>9, <1>10
  <2>2. partial.bytes \in Seq(ByteValues) /\ plan \in Plans
    BY <1>copy
  <2> HIDE DEF at
  <2>3. LET new == WriteAt(partial.bytes, at, byte)
        IN /\ Len(new) = (IF Len(partial.bytes) > at THEN Len(partial.bytes) ELSE at + 1)
           /\ new[at + 1] = byte
           /\ \A j \in 1..Len(partial.bytes) : j # at + 1 => new[j] = partial.bytes[j]
    BY <2>1, <2>2, WriteAtFits
  <2> QED
    BY <2>1, <2>3
<1>Types. Types'
  <2>1. PackageOK'
    BY <1>1, <1>2, <1>4, SamePlan DEF Types, PackageOK
  <2>2. FilesOK'
    BY <1>1, <1>2, <1>4, <1>9, SameTypes DEF Types, FilesOK
  <2>3. ControlOK'
    BY <1>1, <1>2, <1>4, <1>7, SameTypes DEF Types, ControlOK
  <2> QED
    BY <2>1, <2>2, <2>3 DEF Types
<1>RunOK. RunOK'
  <2>1. Len(run'.read) <= RangeOf(NextSlice).size
    BY <1>2, <1>3, <1>8, CopyFacts
  <2> QED
    BY <1>1, <1>2, <1>3, <1>4, <1>7, <2>1, SamePlan DEF RunOK, Running, NextSlice
<1>ReadOK. ReadOK'
  <2> SUFFICES ASSUME partial.id = run.id, "partial" \notin sullied
               PROVE  HoldsRead(partial.bytes)'
    BY <1>4, <1>7, <1>9 DEF ReadOK
  <2>1. /\ at <= Len(partial.bytes)
        /\ \A j \in 1..Len(run.read) : partial.bytes[Boundary(run.count) + j] = run.read[j]
    BY <1>2, <1>3 DEF ReadOK, HoldsRead
  <2>2. /\ Boundary(run.count) + Len(run'.read) <= Len(partial'.bytes)
        /\ partial'.bytes[Boundary(run.count) + Len(run'.read)] = run'.read[Len(run'.read)]
    <3>1. Boundary(run.count) + Len(run'.read) = at + 1 /\ Attached
      BY <1>8, <1>copy DEF Attached
    <3>2. at + 1 <= Len(partial'.bytes)
      BY <1>10, <1>copy, <2>1, <3>1
    <3> QED
      BY <1>8, <1>10, <3>1, <3>2
  <2>3. ASSUME NEW j \in 1..Len(run.read)
        PROVE  partial'.bytes[Boundary(run.count) + j] = run'.read[j]
    <3>1. Boundary(run.count) + j \in 1..Len(partial.bytes) /\ Boundary(run.count) + j # at + 1
      BY <1>copy, <2>1
    <3> QED
      BY <1>8, <1>10, <2>1, <3>1 DEF Attached
  <2>4. \A j \in 1..Len(run'.read) : j \in 1..Len(run.read) \/ j = Len(run'.read)
    BY <1>2, <1>3, <1>8, CopyFacts
  <2> QED
    BY <1>1, <1>7, <2>2, <2>3, SamePlan DEF HoldsRead
<1>EndWhole. EndWhole'
  BY <1>7 DEF EndWhole
<1>OutputWhole. OutputWhole'
  BY <1>1, <1>2, <1>4, SamePlan DEF OutputWhole
<1>BoundaryHolds. BoundaryHolds'
  <2> SUFFICES ASSUME partial.id = record.id, "partial" \notin sullied
               PROVE  IsPrefixOf(OriginalTo(record.bytes), partial'.bytes)
    BY <1>1, <1>2, <1>4, <1>9, SamePlan DEF BoundaryHolds
  <2>1. /\ Attached /\ record.bytes = Boundary(run.count)
        /\ Boundary(run.count) \in 0..plan.total /\ record.bytes <= Len(partial.bytes)
        /\ \A j \in 1..record.bytes : partial.bytes[j] = j
    BY <1>2, <1>3, CopyFacts, RecordedBytes DEF Attached
  <2>2. partial'.bytes \in Seq(ByteValues) /\ record.bytes <= Len(partial'.bytes)
    BY <1>9, <1>10, <2>1 DEF FileType
  <2>3. ASSUME NEW j \in 1..record.bytes
        PROVE  partial'.bytes[j] = j
    <3>1. j \in 1..Len(partial.bytes) /\ j # at + 1
      BY <2>1
    <3> QED
      BY <1>10, <2>1, <3>1
  <2> QED
    BY <1>2, <2>1, <2>2, <2>3, PrefixOfOriginal
<1>Undisturbed. Undisturbed'
  <2> SUFFICES ASSUME caller = "desktop", others' = 0
               PROVE  /\ Untouched' /\ OutputRecorded' /\ PartialExact'
                      /\ outcome' = "refused" => stranded'
    BY <1>1 DEF Undisturbed
  <2>1. /\ others = 0 /\ Untouched /\ OutputRecorded /\ PartialExact
        /\ outcome = "refused" => stranded
    BY <1>2, <1>4 DEF Undisturbed
  <2>2. /\ Attached /\ output = NoFile /\ output' = NoFile /\ outcome # "removed"
        /\ partial.id = run.id /\ run.id # 0 /\ record.id = run.id
    BY <1>2, <1>3, <1>4, <2>1 DEF PartialExact, Attached, RunOK
  <2>3. Untouched'
    BY <1>1, <1>3, <1>4, <1>7, <1>9, <2>1, <2>2, SamePlan DEF Untouched, Placed
  <2>4. OutputRecorded'
    BY <1>4, <1>9, <2>2 DEF OutputRecorded
  <2>5. PartialExact'
    <3>1. Len(partial.bytes) = at
      BY <1>3, <2>1 DEF PartialExact
    <3>2. Len(partial'.bytes) = Boundary(run.count) + Len(run'.read)
      BY <1>2, <1>3, <1>8, <1>10, <2>2, <3>1, CopyFacts
    <3>3. NextSlice \in 1..Count
      <4>1. run.count \in Nat /\ run.count < Count
        BY <1>2, <1>3, CopyFacts
      <4>2. Count \in Nat
        BY <1>2, TypeFacts
      <4> QED
        BY <4>1, <4>2 DEF NextSlice
    <3>4. byte = SliceBytes(NextSlice)[Len(run.read) + 1]
      BY <1>5, <1>6, <2>1, <3>3 DEF Untouched
    <3>5. \A j \in 1..Len(run.read) : run.read[j] = SliceBytes(NextSlice)[j]
      BY <1>3, <2>1 DEF PartialExact
    <3>6. \A j \in 1..Len(run'.read) : run'.read[j] = SliceBytes(NextSlice)[j]
      BY <1>8, <1>copy, <3>4, <3>5
    <3> QED
      BY <1>1, <1>7, <1>9, <2>2, <3>2, <3>6, SamePlan DEF PartialExact, NextSlice
  <2> QED
    BY <1>4, <2>1, <2>3, <2>4, <2>5
<1> QED
  BY <1>Types, <1>RunOK, <1>ReadOK, <1>EndWhole, <1>OutputWhole, <1>BoundaryHolds, <1>Undisturbed
  DEF IInv

LEMMA CutBackKeeps ==
  ASSUME IInv, CutBack
  PROVE  IInv'
<1>1. plan' = plan /\ caller' = caller
  BY DEF CutBack, Failing, package
<1>2. /\ Types /\ RunOK /\ ReadOK /\ EndWhole
      /\ OutputWhole /\ BoundaryHolds /\ Undisturbed
  BY DEF IInv
<1>3. /\ run'.pc \in {"idle", "cleanup"}
      /\ run' \in {Stopped, [run EXCEPT !.pc = "cleanup"]}
      /\ run'.pc = "cleanup" => caller = "cli"
  BY DEF Stopped, CutBack, Failing
<1>4. /\ run.pc = "copy" /\ outcome' \in {"refused", "failed"}
      /\ outcome' = "refused" => Len(run.read) = RangeOf(NextSlice).size /\ ~SliceMatches
      /\ UNCHANGED <<slices, manifest, output, place, sullied, record, others, runs, stranded>>
  BY DEF CutBack, package
<1>copy. /\ Boundary(run.count) \in Nat /\ record.bytes = Boundary(run.count)
         /\ run.read \in Seq(ByteValues) /\ SliceBytes(NextSlice) \in Seq(ByteValues)
         /\ Len(SliceBytes(NextSlice)) = RangeOf(NextSlice).size
         /\ record.known /\ record.id = run.id /\ plan \in Plans
  BY <1>2, <1>4, CopyFacts, TypeFacts
<1>5. /\ partial' \in FileType /\ partial'.id = partial.id
      /\ ~Attached => partial' = partial
      /\ Attached => /\ Len(partial'.bytes) = Boundary(run.count)
                     /\ \A j \in 1..Boundary(run.count) :
                          j <= Len(partial.bytes) => partial'.bytes[j] = partial.bytes[j]
  <2>1. partial \in FileType
    BY <1>2 DEF Types, FilesOK
  <2>2. partial' = IF Attached THEN [partial EXCEPT !.bytes = SetLen(@, Boundary(run.count))]
                   ELSE partial
    BY DEF CutBack, CutTo
  <2> QED
    BY <1>copy, <2>1, <2>2, SetLenFits DEF FileType
<1>6. outcome' = "refused" => ~(caller = "desktop" /\ others = 0)
  <2> SUFFICES ASSUME caller = "desktop", others = 0, Len(run.read) = RangeOf(NextSlice).size
               PROVE  SliceMatches
    BY <1>4
  <2>1. \A j \in 1..Len(run.read) : run.read[j] = SliceBytes(NextSlice)[j]
    BY <1>2, <1>4 DEF Undisturbed, PartialExact
  <2>2. \A s, t \in Seq(ByteValues) :
          Len(s) = Len(t) /\ (\A j \in 1..Len(s) : s[j] = t[j]) => s = t
    OBVIOUS
  <2> QED
    BY <1>copy, <2>1, <2>2 DEF SliceMatches
<1>Types. Types'
  <2>1. PackageOK'
    BY <1>1, <1>2, <1>4, SamePlan DEF Types, PackageOK
  <2>2. FilesOK'
    BY <1>1, <1>2, <1>4, <1>5, SameTypes DEF Types, FilesOK
  <2>3. ControlOK'
    <3>1. run' \in RunType
      BY <1>2, <1>3, EmptyTypes, TypeFacts DEF Types, ControlOK, RunType, Pcs
    <3> QED
      BY <1>1, <1>2, <1>4, <3>1, SameTypes DEF Types, ControlOK
  <2> QED
    BY <2>1, <2>2, <2>3 DEF Types
<1>RunOK. RunOK'
  <2>1. runs # 0
    BY <1>2, <1>4 DEF RunOK
  <2> QED
    BY <1>1, <1>2, <1>3, <1>4, <2>1, SamePlan DEF RunOK, Running
<1>ReadOK. ReadOK'
  BY <1>3 DEF ReadOK
<1>EndWhole. EndWhole'
  BY <1>3 DEF EndWhole
<1>OutputWhole. OutputWhole'
  BY <1>1, <1>2, <1>4, SamePlan DEF OutputWhole
<1>BoundaryHolds. BoundaryHolds'
  <2> SUFFICES ASSUME partial.id = record.id, "partial" \notin sullied
               PROVE  IsPrefixOf(OriginalTo(record.bytes), partial'.bytes)
    BY <1>1, <1>2, <1>4, <1>5, SamePlan DEF BoundaryHolds
  <2>1. /\ Attached /\ Boundary(run.count) \in 0..plan.total
        /\ Boundary(run.count) <= Len(partial.bytes)
        /\ \A j \in 1..Boundary(run.count) : partial.bytes[j] = j
    BY <1>2, <1>copy, RecordedBytes DEF Attached
  <2>2. /\ partial'.bytes \in Seq(ByteValues) /\ Boundary(run.count) <= Len(partial'.bytes)
    BY <1>5, <1>copy, <2>1 DEF FileType
  <2>3. \A j \in 1..Boundary(run.count) : partial'.bytes[j] = j
    <3>1. partial.bytes \in Seq(ByteValues)
      BY <1>2, TypeFacts
    <3>2. \A j \in 1..Boundary(run.count) : j <= Len(partial.bytes)
      BY <1>copy, <2>1, <3>1
    <3> QED
      BY <1>5, <2>1, <3>2
  <2> QED
    BY <1>2, <1>copy, <2>1, <2>2, <2>3, PrefixOfOriginal
<1>Undisturbed. Undisturbed'
  <2> SUFFICES ASSUME caller = "desktop", others' = 0
               PROVE  /\ Untouched' /\ OutputRecorded' /\ PartialExact'
                      /\ outcome' = "refused" => stranded'
    BY <1>1 DEF Undisturbed
  <2>1. /\ others = 0 /\ Untouched /\ OutputRecorded /\ PartialExact
    BY <1>2, <1>4 DEF Undisturbed
  <2>2. /\ Attached /\ output = NoFile /\ outcome # "removed" /\ run'.pc = "idle" /\ run.id # 0
        /\ partial.id = run.id /\ record.id = run.id
    BY <1>2, <1>3, <1>4, <2>1 DEF PartialExact, Attached, RunOK
  <2>3. Untouched'
    BY <1>1, <1>4, <1>5, <2>1, <2>2, SamePlan DEF Untouched, Placed, Attached
  <2>4. OutputRecorded'
    BY <1>4, <1>5, <2>1, <2>2 DEF OutputRecorded
  <2>5. PartialExact'
    BY <2>2 DEF PartialExact
  <2> QED
    BY <1>4, <1>6, <2>3, <2>4, <2>5
<1> QED
  BY <1>Types, <1>RunOK, <1>ReadOK, <1>EndWhole, <1>OutputWhole, <1>BoundaryHolds, <1>Undisturbed
  DEF IInv

LEMMA SliceBoundaryGoesOn ==
  ASSUME IInv, run.pc = "copy", Len(run.read) = RangeOf(NextSlice).size, SliceMatches,
         record' = RecordedBoundary, run' = [run EXCEPT !.pc = "slice", !.count = NextSlice],
         UNCHANGED <<package, files, outcome, others, runs, stranded>>
  PROVE  IInv'
<1>1. plan' = plan /\ caller' = caller
  BY DEF NextSlice, package
<1>2. /\ Types /\ RunOK /\ ReadOK /\ EndWhole
      /\ OutputWhole /\ BoundaryHolds /\ Undisturbed
  BY DEF IInv
<1>3. /\ run'.pc = "slice" /\ run'.place = run.place /\ run'.id = run.id
      /\ run'.count = run.count + 1 /\ run'.read = run.read
  BY DEF Stopped, NextSlice
<1>4. /\ run.count < Count /\ record.known
      /\ record.id = run.id /\ record.count = run.count /\ record.bytes = Boundary(run.count)
  BY <1>2, TypeFacts DEF RunOK
<1>5. /\ run.count + 1 \in 0..Count /\ Boundary(run.count + 1) \in 0..plan.total
      /\ Boundary(run.count + 1) = Boundary(run.count) + Len(run.read)
      /\ Boundary(run.count) \in Nat /\ plan.total \in Nat
  <2>1. run.count + 1 \in 0..Count
    BY <1>2, <1>4, TypeFacts
  <2> QED
    BY <1>2, <1>4, <2>1, TypeFacts, PlanFacts, BoundaryFits, NextRange DEF NextSlice
<1>6. /\ record' = [record EXCEPT !.count = run.count + 1, !.bytes = Boundary(run.count + 1)]
      /\ record' \in RecordType /\ record'.known /\ record'.id = record.id
      /\ record'.place = record.place /\ record'.count = run.count + 1
      /\ record'.bytes = Boundary(run.count + 1)
  BY <1>2, <1>4, <1>5 DEF RecordedBoundary, NextSlice, Types, ControlOK, RecordType
<1>7. \A j \in 1..Len(run.read) : run.read[j] = Boundary(run.count) + j
  BY <1>2, <1>4, TypeFacts, NextBytes DEF SliceMatches, NextSlice
<1>Types. Types'
  <2>1. PackageOK'
    BY <1>2, SamePlan DEF Types, PackageOK, package
  <2>2. FilesOK'
    BY <1>1, <1>2, SameTypes DEF Types, FilesOK, files
  <2>3. ControlOK'
    <3>1. run' \in RunType
      BY <1>1, <1>2, EmptyTypes, TypeFacts, <1>3, <1>5 DEF Types, ControlOK, RunType, Pcs
    <3>2. record' \in RecordType
      BY <1>6
    <3> QED
      BY <1>1, <1>2, <3>1, <3>2, SameTypes DEF Types, ControlOK
  <2> QED
    BY <2>1, <2>2, <2>3 DEF Types
<1>RunOK. RunOK'
  BY <1>1, <1>2, SamePlan, <1>3, <1>6 DEF RunOK, Running
<1>ReadOK. ReadOK'
  BY DEF ReadOK
<1>EndWhole. EndWhole'
  BY DEF EndWhole
<1>OutputWhole. OutputWhole'
  BY <1>1, <1>2, SamePlan DEF OutputWhole, files
<1>BoundaryHolds. BoundaryHolds'
  <2> SUFFICES ASSUME partial.id = run.id, "partial" \notin sullied
               PROVE  IsPrefixOf(OriginalTo(Boundary(run.count + 1)), partial.bytes)
    BY <1>1, <1>4, <1>6, SamePlan DEF BoundaryHolds, files
  <2>1. \A j \in 1..record.bytes : partial.bytes[j] = j
    BY <1>2, <1>4, RecordedBytes
  <2>2. HoldsRead(partial.bytes)
    BY <1>2 DEF ReadOK
  <2>4. Len(run.read) \in Nat
    BY <1>2, TypeFacts
  <2>3. /\ Boundary(run.count + 1) <= Len(partial.bytes)
        /\ \A j \in 1..Boundary(run.count + 1) : partial.bytes[j] = j
    <3>1. ASSUME NEW j \in 1..Boundary(run.count + 1), j > Boundary(run.count)
          PROVE  partial.bytes[j] = j
      <4>1. j - Boundary(run.count) \in 1..Len(run.read)
        BY <1>5, <3>1, <2>4
      <4> QED
        BY <1>5, <1>7, <2>2, <4>1 DEF HoldsRead
    <3> QED
      BY <1>4, <1>5, <2>1, <2>2, <3>1 DEF HoldsRead
  <2> QED
    BY <1>2, <1>5, <2>3, TypeFacts, PrefixOfOriginal
<1>Undisturbed. Undisturbed'
  <2> SUFFICES ASSUME caller = "desktop", others' = 0
               PROVE  /\ Untouched' /\ OutputRecorded' /\ PartialExact'
                      /\ outcome' = "refused" => stranded'
    BY <1>1 DEF Undisturbed
  <2>1. /\ others = 0 /\ Untouched /\ OutputRecorded /\ PartialExact
        /\ outcome = "refused" => stranded
    BY <1>2 DEF Undisturbed
  <2>2. Untouched'
    BY <1>1, <1>2, <2>1, SamePlan, TypeFacts, <1>3, <1>4, <1>5, <1>6
    DEF Untouched, Placed, package, files
  <2>3. OutputRecorded'
    BY <1>1, <1>2, <2>1, SamePlan, TypeFacts, <1>3, <1>4, <1>6 DEF OutputRecorded, files
  <2>4. PartialExact'
    BY <1>1, <1>2, <2>1, SamePlan, TypeFacts, <1>3, <1>5 DEF PartialExact, files
  <2>5. outcome' = "refused" => stranded'
    BY <2>1
  <2> QED
    BY <2>2, <2>3, <2>4, <2>5
<1> QED
  BY <1>Types, <1>RunOK, <1>ReadOK, <1>EndWhole, <1>OutputWhole, <1>BoundaryHolds, <1>Undisturbed
  DEF IInv

LEMMA FinalHashGoesOn ==
  ASSUME IInv, FinalHash, ~Refused("slice", AllWhole)
  PROVE  IInv'
<1>1. plan' = plan /\ caller' = caller
  BY DEF FinalHash, Goto, package
<1>2. /\ Types /\ RunOK /\ ReadOK /\ EndWhole
      /\ OutputWhole /\ BoundaryHolds /\ Undisturbed
  BY DEF IInv
<1>3. /\ run'.pc = "staged" /\ run'.place = run.place /\ run'.id = run.id
      /\ run'.count = run.count /\ run'.read = run.read
  BY <1>2 DEF Types, ControlOK, RunType, FinalHash, Goto
<1>4. /\ run.count = Count /\ run.pc = "slice"
      /\ record.known /\ record.id = run.id /\ record.count = run.count
      /\ partial.id = run.id => partial.bytes = Original
  BY <1>2 DEF FinalHash, RunOK, AllWhole, Attached
<1>Types. Types'
  <2>1. PackageOK'
    BY <1>2, SamePlan DEF Types, PackageOK, package, FinalHash
  <2>2. FilesOK'
    BY <1>1, <1>2, SameTypes DEF Types, FilesOK, files, FinalHash
  <2>3. ControlOK'
    <3>1. run' \in RunType
      BY <1>1, <1>2, EmptyTypes DEF Types, ControlOK, RunType, Pcs, FinalHash, Goto
    <3>2. record' \in RecordType
      BY <1>1, <1>2 DEF Types, ControlOK, FinalHash
    <3> QED
      BY <1>1, <1>2, <3>1, SameTypes DEF Types, ControlOK, FinalHash
  <2> QED
    BY <2>1, <2>2, <2>3 DEF Types
<1>RunOK. RunOK'
  BY <1>1, <1>2, SamePlan, TypeFacts, <1>3 DEF RunOK, Running, FinalHash
<1>ReadOK. ReadOK'
  BY <1>3 DEF ReadOK
<1>EndWhole. EndWhole'
  BY <1>3 DEF EndWhole
<1>OutputWhole. OutputWhole'
  BY <1>1, <1>2, SamePlan DEF OutputWhole, FinalHash, files
<1>BoundaryHolds. BoundaryHolds'
  BY <1>1, <1>2, SamePlan DEF BoundaryHolds, FinalHash, files
<1>Undisturbed. Undisturbed'
  <2> SUFFICES ASSUME caller = "desktop", others' = 0
               PROVE  /\ Untouched' /\ OutputRecorded' /\ PartialExact'
                      /\ outcome' = "refused" => stranded'
    BY <1>1 DEF Undisturbed
  <2>1. /\ others = 0 /\ Untouched /\ OutputRecorded /\ PartialExact
        /\ outcome = "refused" => stranded
    BY <1>2 DEF Undisturbed, FinalHash
  <2>2. Untouched'
    BY <1>1, <1>2, <2>1, SamePlan, TypeFacts, <1>3
    DEF Untouched, Placed, package, files, FinalHash
  <2>3. OutputRecorded'
    BY <1>1, <1>2, <2>1, SamePlan DEF OutputRecorded, files, FinalHash
  <2>4. PartialExact'
    <3>1. output = NoFile /\ partial.id = run.id
      BY <1>2, <1>4, <2>1 DEF PartialExact, OutputRecorded, RunOK, Running
    <3>2. partial = [id |-> run.id, bytes |-> Original]
      BY <1>2, <1>4, <3>1, TypeFacts
    <3> QED
      BY <1>1, <1>3, <1>4, <3>1, <3>2, SamePlan DEF PartialExact, FinalHash, files
  <2>5. outcome' = "refused" => stranded'
    BY <2>1 DEF FinalHash
  <2> QED
    BY <2>2, <2>3, <2>4, <2>5
<1> QED
  BY <1>Types, <1>RunOK, <1>ReadOK, <1>EndWhole, <1>OutputWhole, <1>BoundaryHolds, <1>Undisturbed
  DEF IInv

LEMMA CheckStagedPasses ==
  ASSUME IInv, CheckStaged, ~Refused("staged", Staged)
  PROVE  IInv'
<1>1. plan' = plan /\ caller' = caller
  BY DEF CheckStaged, Goto, package
<1>2. /\ Types /\ RunOK /\ ReadOK /\ EndWhole
      /\ OutputWhole /\ BoundaryHolds /\ Undisturbed
  BY DEF IInv
<1>3. /\ run'.pc = "checked" /\ run'.place = run.place /\ run'.id = run.id
      /\ run'.count = run.count /\ run'.read = run.read
  BY <1>2 DEF Types, ControlOK, RunType, CheckStaged, Goto
<1>4. /\ run.pc = "staged" /\ partial = [id |-> run.id, bytes |-> Original]
      /\ sullied' = sullied \ {"partial"}
      /\ UNCHANGED <<package, output, partial, place, record, others, runs, outcome, stranded>>
  BY DEF CheckStaged, Staged
<1>Types. Types'
  <2>1. PackageOK'
    BY <1>2, SamePlan DEF Types, PackageOK, package, CheckStaged
  <2>2. FilesOK'
    BY <1>1, <1>2, <1>4, SameTypes DEF Types, FilesOK
  <2>3. ControlOK'
    <3>1. run' \in RunType
      BY <1>1, <1>2, EmptyTypes DEF Types, ControlOK, RunType, Pcs, CheckStaged, Goto
    <3>2. record' \in RecordType
      BY <1>1, <1>2 DEF Types, ControlOK, CheckStaged
    <3> QED
      BY <1>1, <1>2, <3>1, SameTypes DEF Types, ControlOK, CheckStaged
  <2> QED
    BY <2>1, <2>2, <2>3 DEF Types
<1>RunOK. RunOK'
  BY <1>1, <1>2, SamePlan, TypeFacts, <1>3 DEF RunOK, Running, CheckStaged
<1>ReadOK. ReadOK'
  BY <1>3 DEF ReadOK
<1>EndWhole. EndWhole'
  BY <1>1, <1>3, <1>4, SamePlan DEF EndWhole
<1>OutputWhole. OutputWhole'
  BY <1>1, <1>2, <1>4, SamePlan DEF OutputWhole
<1>BoundaryHolds. BoundaryHolds'
  <2>1. \A n \in 0..plan.total : IsPrefixOf(OriginalTo(n), Original)
    BY <1>2, PrefixOfOriginal, TypeFacts, PlanFacts
  <2>2. record.bytes \in 0..plan.total
    BY <1>2 DEF Types, ControlOK, RecordType
  <2> QED
    BY <1>1, <1>2, <1>4, <2>1, <2>2, SamePlan DEF BoundaryHolds
<1>Undisturbed. Undisturbed'
  <2> SUFFICES ASSUME caller = "desktop", others' = 0
               PROVE  /\ Untouched' /\ OutputRecorded' /\ PartialExact'
                      /\ outcome' = "refused" => stranded'
    BY <1>1 DEF Undisturbed
  <2>1. /\ others = 0 /\ Untouched /\ OutputRecorded /\ PartialExact
        /\ outcome = "refused" => stranded
    BY <1>2 DEF Undisturbed, CheckStaged
  <2>2. Untouched'
    BY <1>1, <1>2, <1>3, <1>4, <2>1, SamePlan DEF Untouched, Placed, package
  <2>3. OutputRecorded'
    BY <1>1, <1>2, <1>4, <2>1, SamePlan DEF OutputRecorded
  <2>4. PartialExact'
    BY <1>1, <1>3, <1>4, <2>1, SamePlan DEF PartialExact
  <2>5. outcome' = "refused" => stranded'
    BY <2>1 DEF CheckStaged
  <2> QED
    BY <2>2, <2>3, <2>4, <2>5
<1> QED
  BY <1>Types, <1>RunOK, <1>ReadOK, <1>EndWhole, <1>OutputWhole, <1>BoundaryHolds, <1>Undisturbed
  DEF IInv

LEMMA RenamePasses ==
  ASSUME IInv, Rename, ~Refused("checked", Renamable)
  PROVE  IInv'
<1>1. plan' = plan /\ caller' = caller
  BY DEF Rename, Goto, package
<1>2. /\ Types /\ RunOK /\ ReadOK /\ EndWhole
      /\ OutputWhole /\ BoundaryHolds /\ Undisturbed
  BY DEF IInv
<1>3. /\ run'.pc = "renamed" /\ run'.place = run.place /\ run'.id = run.id
      /\ run'.count = run.count /\ run'.read = run.read
  BY <1>2 DEF Types, ControlOK, RunType, Rename, Goto
<1>4. /\ run.pc = "checked" /\ run.id # 0
      /\ output' = partial /\ partial' = NoFile /\ partial'.id = 0
      /\ sullied' = IF "partial" \in sullied THEN {"output"} ELSE {}
      /\ output' \in FileType
      /\ UNCHANGED <<package, place, record, others, runs, outcome, stranded>>
  BY <1>2 DEF Rename, Renamable, RunOK, NoFile, Types, FilesOK
<1>5. \/ output' = [id |-> run.id, bytes |-> Original]
      \/ others > 0 /\ sullied' = {"output"}
  BY <1>2, <1>4 DEF EndWhole
<1>Types. Types'
  <2>1. PackageOK'
    BY <1>2, SamePlan DEF Types, PackageOK, package, Rename
  <2>2. FilesOK'
    BY <1>1, <1>2, SameTypes, EmptyTypes, TypeFacts, <1>4 DEF FilesOK, Rename
  <2>3. ControlOK'
    <3>1. run' \in RunType
      BY <1>1, <1>2, EmptyTypes DEF Types, ControlOK, RunType, Pcs, Rename, Goto
    <3>2. record' \in RecordType
      BY <1>1, <1>2 DEF Types, ControlOK, Rename
    <3> QED
      BY <1>1, <1>2, <3>1, SameTypes DEF Types, ControlOK, Rename
  <2> QED
    BY <2>1, <2>2, <2>3 DEF Types
<1>RunOK. RunOK'
  BY <1>1, <1>2, SamePlan, TypeFacts, <1>3 DEF RunOK, Running, Rename
<1>ReadOK. ReadOK'
  BY <1>3 DEF ReadOK
<1>EndWhole. EndWhole'
  BY <1>3 DEF EndWhole
<1>OutputWhole. OutputWhole'
  BY <1>1, <1>5, SamePlan DEF OutputWhole
<1>BoundaryHolds. BoundaryHolds'
  BY <1>1, <1>2, SamePlan, <1>4 DEF BoundaryHolds, RunOK, Rename
<1>Undisturbed. Undisturbed'
  <2> SUFFICES ASSUME caller = "desktop", others' = 0
               PROVE  /\ Untouched' /\ OutputRecorded' /\ PartialExact'
                      /\ outcome' = "refused" => stranded'
    BY <1>1 DEF Undisturbed
  <2>1. /\ others = 0 /\ Untouched /\ OutputRecorded /\ PartialExact
        /\ outcome = "refused" => stranded
    BY <1>2 DEF Undisturbed, Rename
  <2>6. /\ output' = [id |-> run.id, bytes |-> Original] /\ output' # NoFile
        /\ output'.id # 0 /\ record.known /\ record.id = run.id /\ record.count = Count
    BY <1>4, <2>1 DEF PartialExact, NoFile
  <2>2. Untouched'
    BY <1>1, <1>2, <1>3, <1>4, <1>5, <2>1, <2>6, SamePlan DEF Untouched, Placed, package
  <2>3. OutputRecorded'
    BY <1>1, <1>4, <2>1, <2>6, SamePlan DEF OutputRecorded
  <2>4. PartialExact'
    BY <1>1, <1>3, <2>6, SamePlan DEF PartialExact
  <2>5. outcome' = "refused" => stranded'
    BY <2>1 DEF Rename
  <2> QED
    BY <2>2, <2>3, <2>4, <2>5
<1> QED
  BY <1>Types, <1>RunOK, <1>ReadOK, <1>EndWhole, <1>OutputWhole, <1>BoundaryHolds, <1>Undisturbed
  DEF IInv

LEMMA RecordPublishedPasses ==
  ASSUME IInv, RecordPublished, ~Refused("renamed", Published)
  PROVE  IInv'
<1>1. plan' = plan /\ caller' = caller
  BY DEF RecordPublished, Goto, package
<1>2. /\ Types /\ RunOK /\ ReadOK /\ EndWhole
      /\ OutputWhole /\ BoundaryHolds /\ Undisturbed
  BY DEF IInv
<1>3. /\ run'.pc = "end" /\ run'.place = run.place /\ run'.id = run.id
      /\ run'.count = run.count /\ run'.read = run.read
  BY <1>2 DEF Types, ControlOK, RunType, RecordPublished, Goto
<1>4. /\ record' \in RecordType /\ record'.known = record.known /\ record'.id = record.id
      /\ record'.place = record.place /\ record'.count = record.count
      /\ record'.bytes = record.bytes
      /\ output.id # 0 /\ output.bytes = Original /\ run.pc = "renamed"
      /\ sullied' = sullied \ {"output"}
      /\ UNCHANGED <<package, output, partial, place, others, runs, outcome, stranded>>
  <2>1. record' = record \/ record' = [record EXCEPT !.published = TRUE]
    BY DEF RecordPublished
  <2> QED
    <3>1. record' \in RecordType /\ record'.known = record.known /\ record'.id = record.id
          /\ record'.place = record.place /\ record'.count = record.count
       /\ record'.bytes = record.bytes
      BY <1>2, <2>1 DEF Types, ControlOK, RecordType
    <3>2. run.pc = "renamed" /\ Published
          /\ sullied' = sullied \ {"output"}
          /\ UNCHANGED <<package, output, partial, place, others, runs, outcome, stranded>>
      BY DEF RecordPublished
    <3> QED
      BY <1>2, <3>1, <3>2 DEF Published, RunOK
<1>Types. Types'
  <2>1. PackageOK'
    BY <1>2, SamePlan DEF Types, PackageOK, package, RecordPublished
  <2>2. FilesOK'
    BY <1>1, <1>2, SameTypes, <1>4 DEF Types, FilesOK
  <2>3. ControlOK'
    <3>1. run' \in RunType
      BY <1>1, <1>2, EmptyTypes DEF Types, ControlOK, RunType, Pcs, RecordPublished, Goto
    <3>2. record' \in RecordType
      BY <1>4
    <3> QED
      BY <1>1, <1>2, <3>1, SameTypes, <1>4 DEF Types, ControlOK
  <2> QED
    BY <2>1, <2>2, <2>3 DEF Types
<1>RunOK. RunOK'
  BY <1>1, <1>2, SamePlan, <1>3, <1>4 DEF RunOK, Running
<1>ReadOK. ReadOK'
  BY <1>3 DEF ReadOK
<1>EndWhole. EndWhole'
  BY <1>1, <1>3, <1>4, SamePlan DEF EndWhole
<1>OutputWhole. OutputWhole'
  BY <1>1, SamePlan, <1>4 DEF OutputWhole
<1>BoundaryHolds. BoundaryHolds'
  BY <1>1, <1>2, <1>4, SamePlan DEF BoundaryHolds
<1>Undisturbed. Undisturbed'
  <2> SUFFICES ASSUME caller = "desktop", others' = 0
               PROVE  /\ Untouched' /\ OutputRecorded' /\ PartialExact'
                      /\ outcome' = "refused" => stranded'
    BY <1>1 DEF Undisturbed
  <2>1. /\ others = 0 /\ Untouched /\ OutputRecorded /\ PartialExact
        /\ outcome = "refused" => stranded
    BY <1>2 DEF Undisturbed, RecordPublished
  <2>2. Untouched'
    BY <1>1, <1>2, <2>1, SamePlan, <1>3, <1>4 DEF Untouched, Placed, package
  <2>3. OutputRecorded'
    BY <1>1, <1>2, <2>1, SamePlan, <1>4 DEF OutputRecorded
  <2>4. PartialExact'
    BY <1>3 DEF PartialExact
  <2>5. outcome' = "refused" => stranded'
    BY <2>1, <1>4
  <2> QED
    BY <2>2, <2>3, <2>4, <2>5
<1> QED
  BY <1>Types, <1>RunOK, <1>ReadOK, <1>EndWhole, <1>OutputWhole, <1>BoundaryHolds, <1>Undisturbed
  DEF IInv

LEMMA CrashKeeps ==
  ASSUME IInv, Crash, caller # "desktop"
  PROVE  IInv'
<1>1. plan' = plan /\ caller' = caller
  BY DEF Crash, Running, package
<1>2. /\ Types /\ RunOK /\ ReadOK /\ EndWhole
      /\ OutputWhole /\ BoundaryHolds /\ Undisturbed
  BY DEF IInv
<1>3. run' = Stopped /\ run'.pc = "idle"
  BY DEF Stopped, Crash
<1>4. /\ record' \in {record, NoRecord} /\ ~NoRecord.known /\ NoRecord \in RecordType
      /\ record' \in RecordType /\ NoRecord.bytes = 0
  BY <1>2, TypeFacts, EmptyTypes DEF Crash, NoRecord, Types, ControlOK
<1>Types. Types'
  <2>1. PackageOK'
    BY <1>2, SamePlan DEF Types, PackageOK, package, Crash
  <2>2. FilesOK'
    BY <1>1, <1>2, SameTypes DEF Types, FilesOK, files, Crash
  <2>3. ControlOK'
    <3>1. run' \in RunType
      BY <1>2, EmptyTypes, TypeFacts, <1>3
    <3>2. record' \in RecordType
      BY <1>4
    <3> QED
      BY <1>1, <1>2, <3>1, <3>2, SameTypes DEF Types, ControlOK, Crash
  <2> QED
    BY <2>1, <2>2, <2>3 DEF Types
<1>RunOK. RunOK'
  BY <1>1, <1>2, SamePlan, TypeFacts, <1>3, <1>4 DEF RunOK, Running, Running
<1>ReadOK. ReadOK'
  BY <1>3 DEF ReadOK
<1>EndWhole. EndWhole'
  BY <1>3 DEF EndWhole
<1>OutputWhole. OutputWhole'
  BY <1>1, <1>2, SamePlan DEF OutputWhole, Crash, files
<1>BoundaryHolds. BoundaryHolds'
  BY <1>1, <1>2, SamePlan, TypeFacts, <1>4 DEF BoundaryHolds, Crash, files
<1>Undisturbed. Undisturbed'
  <2> SUFFICES ASSUME caller = "desktop", others' = 0
               PROVE  /\ Untouched' /\ OutputRecorded' /\ PartialExact'
                      /\ outcome' = "refused" => stranded'
    BY <1>1 DEF Undisturbed
  <2>1. /\ others = 0 /\ Untouched /\ OutputRecorded /\ PartialExact
        /\ outcome = "refused" => stranded
    OBVIOUS
  <2>2. Untouched'
    OBVIOUS
  <2>3. OutputRecorded'
    OBVIOUS
  <2>4. PartialExact'
    OBVIOUS
  <2>5. outcome' = "refused" => stranded'
    OBVIOUS
  <2> QED
    BY <2>2, <2>3, <2>4, <2>5
<1> QED
  BY <1>Types, <1>RunOK, <1>ReadOK, <1>EndWhole, <1>OutputWhole, <1>BoundaryHolds, <1>Undisturbed
  DEF IInv

LEMMA CleanUpCompareKeeps ==
  ASSUME IInv, CleanUpCompare
  PROVE  IInv'
<1>1. plan' = plan /\ caller' = caller
  BY DEF CleanUpCompare, package
<1>2. /\ Types /\ RunOK /\ ReadOK /\ EndWhole
      /\ OutputWhole /\ BoundaryHolds /\ Undisturbed
  BY DEF IInv
<1>3. /\ run'.pc \in {"idle", "cleanOwned"} /\ run' \in RunType /\ record' \in RecordType
      /\ record' \in {record, NoRecord} /\ ~NoRecord.known
      /\ caller = "cli" /\ outcome \in {"failed", "refused"}
  <2>1. \/ run' = [run EXCEPT !.pc = "cleanOwned"] /\ record' = record
        \/ run' = Stopped /\ record' = NoRecord
    BY DEF CleanUpCompare, Goto
  <2>2. run \in RunType /\ record \in RecordType /\ Stopped \in RunType /\ NoRecord \in RecordType
    BY <1>2, EmptyTypes, TypeFacts DEF Types, ControlOK
  <2>3. /\ Stopped.pc = "idle" /\ ~NoRecord.known /\ "cleanOwned" \in Pcs
        /\ caller = "cli" /\ outcome \in {"failed", "refused"}
    BY <1>2 DEF Stopped, NoRecord, Pcs, CleanUpCompare, RunOK
  <2> HIDE DEF Stopped
  <2> QED
    BY <2>1, <2>2, <2>3 DEF RunType
<1>Types. Types'
  <2>1. PackageOK'
    BY <1>2, SamePlan DEF Types, PackageOK, package, CleanUpCompare
  <2>2. FilesOK'
    BY <1>1, <1>2, SameTypes DEF Types, FilesOK, files, CleanUpCompare
  <2>3. ControlOK'
    BY <1>1, <1>2, <1>3, SameTypes DEF Types, ControlOK, CleanUpCompare
  <2> QED
    BY <2>1, <2>2, <2>3 DEF Types
<1>RunOK. RunOK'
  BY <1>1, <1>2, <1>3, SamePlan DEF RunOK, CleanUpCompare
<1>ReadOK. ReadOK'
  BY <1>3 DEF ReadOK
<1>EndWhole. EndWhole'
  BY <1>3 DEF EndWhole
<1>OutputWhole. OutputWhole'
  BY <1>1, <1>2, SamePlan DEF OutputWhole, files, CleanUpCompare
<1>BoundaryHolds. BoundaryHolds'
  BY <1>1, <1>2, <1>3, SamePlan DEF BoundaryHolds, files, CleanUpCompare
<1>Undisturbed. Undisturbed'
  BY <1>1, <1>3 DEF Undisturbed
<1> QED
  BY <1>Types, <1>RunOK, <1>ReadOK, <1>EndWhole, <1>OutputWhole, <1>BoundaryHolds, <1>Undisturbed
  DEF IInv

LEMMA CleanUpRemoveKeeps ==
  ASSUME IInv, CleanUpRemove
  PROVE  IInv'
<1>1. plan' = plan /\ caller' = caller
  BY DEF CleanUpRemove, package
<1>2. /\ Types /\ RunOK /\ ReadOK /\ EndWhole
      /\ OutputWhole /\ BoundaryHolds /\ Undisturbed
  BY DEF IInv
<1>3. run' = Stopped /\ run'.pc = "idle"
  BY DEF Stopped, CleanUpRemove
<1>4. /\ record' = NoRecord /\ ~record'.known /\ record' \in RecordType /\ caller = "cli"
      /\ partial' \in {NoFile, partial}
  BY <1>2, TypeFacts, EmptyTypes DEF CleanUpRemove, NoRecord, RunOK
<1>Types. Types'
  <2>1. PackageOK'
    BY <1>2, SamePlan DEF Types, PackageOK, package, CleanUpRemove
  <2>2. FilesOK'
    BY <1>1, <1>2, SameTypes, EmptyTypes, TypeFacts DEF Types, FilesOK, files, CleanUpRemove
  <2>3. ControlOK'
    <3>1. run' \in RunType
      BY <1>2, EmptyTypes, TypeFacts, <1>3
    <3>2. record' \in RecordType
      BY <1>4
    <3> QED
      BY <1>1, <1>2, <3>1, <3>2, SameTypes DEF Types, ControlOK, CleanUpRemove
  <2> QED
    BY <2>1, <2>2, <2>3 DEF Types
<1>RunOK. RunOK'
  BY <1>3, <1>4 DEF RunOK, Running
<1>ReadOK. ReadOK'
  BY <1>3 DEF ReadOK
<1>EndWhole. EndWhole'
  BY <1>3 DEF EndWhole
<1>OutputWhole. OutputWhole'
  BY <1>1, <1>2, SamePlan DEF OutputWhole, CleanUpRemove
<1>BoundaryHolds. BoundaryHolds'
  BY <1>4 DEF BoundaryHolds
<1>Undisturbed. Undisturbed'
  BY <1>1, <1>4 DEF Undisturbed
<1> QED
  BY <1>Types, <1>RunOK, <1>ReadOK, <1>EndWhole, <1>OutputWhole, <1>BoundaryHolds, <1>Undisturbed
  DEF IInv

LEMMA RemoveTaskKeeps ==
  ASSUME IInv, RemoveTask
  PROVE  IInv'
<1>1. plan' = plan /\ caller' = caller
  BY DEF RemoveTask, package
<1>2. /\ Types /\ RunOK /\ ReadOK /\ EndWhole
      /\ OutputWhole /\ BoundaryHolds /\ Undisturbed
  BY DEF IInv
<1>3. /\ run'.pc \in {"removeOwned", "removeRow"} /\ run' \in RunType
      /\ caller = "desktop" /\ outcome \in {"failed", "refused", "crashed"}
      /\ UNCHANGED <<package, files, record, runs, outcome, others, stranded>>
  <2>1. \/ run' = [run EXCEPT !.pc = "removeOwned"]
        \/ run' = [run EXCEPT !.pc = "removeRow"]
    BY DEF RemoveTask, Goto
  <2>2. run \in RunType /\ {"removeOwned", "removeRow"} \subseteq Pcs
    BY <1>2 DEF Types, ControlOK, Pcs
  <2>3. /\ caller = "desktop" /\ outcome \in {"failed", "refused", "crashed"}
        /\ UNCHANGED <<package, files, record, runs, outcome, others, stranded>>
    BY <1>2 DEF RemoveTask, Types, ControlOK
  <2> QED
    BY <2>1, <2>2, <2>3 DEF RunType
<1>Types. Types'
  <2>1. PackageOK'
    BY <1>1, <1>2, <1>3, SamePlan DEF Types, PackageOK, package
  <2>2. FilesOK'
    BY <1>1, <1>2, <1>3, SameTypes, EmptyTypes, TypeFacts DEF Types, FilesOK, files
  <2>3. ControlOK'
    BY <1>1, <1>2, <1>3, SameTypes DEF Types, ControlOK
  <2> QED
    BY <2>1, <2>2, <2>3 DEF Types
<1>RunOK. RunOK'
  BY <1>1, <1>2, <1>3, SamePlan DEF RunOK
<1>ReadOK. ReadOK'
  BY <1>3 DEF ReadOK
<1>EndWhole. EndWhole'
  BY <1>3 DEF EndWhole
<1>OutputWhole. OutputWhole'
  BY <1>1, <1>2, <1>3, SamePlan DEF OutputWhole, files
<1>BoundaryHolds. BoundaryHolds'
  BY <1>1, <1>2, <1>3, SamePlan DEF BoundaryHolds, files, RunOK, NoFile
<1>Undisturbed. Undisturbed'
  <2> SUFFICES ASSUME caller = "desktop", others' = 0
               PROVE  /\ Untouched' /\ OutputRecorded' /\ PartialExact'
                      /\ outcome' = "refused" => stranded'
    BY <1>1 DEF Undisturbed
  <2>1. /\ others = 0 /\ Untouched /\ OutputRecorded /\ PartialExact
        /\ outcome = "refused" => stranded
    BY <1>2, <1>3 DEF Undisturbed
  <2>2. Untouched'
    BY <1>1, <1>2, <1>3, <2>1, SamePlan DEF Untouched, Placed, package, files
  <2>3. OutputRecorded'
    BY <1>1, <1>2, <1>3, <2>1, SamePlan DEF OutputRecorded, files
  <2>4. PartialExact'
    BY <1>3 DEF PartialExact
  <2>5. outcome' = "refused" => stranded'
    BY <1>3, <2>1
  <2> QED
    BY <2>2, <2>3, <2>4, <2>5
<1> QED
  BY <1>Types, <1>RunOK, <1>ReadOK, <1>EndWhole, <1>OutputWhole, <1>BoundaryHolds, <1>Undisturbed
  DEF IInv

LEMMA RemoveOwnedKeeps ==
  ASSUME IInv, RemoveOwned
  PROVE  IInv'
<1>1. plan' = plan /\ caller' = caller
  BY DEF RemoveOwned, package
<1>2. /\ Types /\ RunOK /\ ReadOK /\ EndWhole
      /\ OutputWhole /\ BoundaryHolds /\ Undisturbed
  BY DEF IInv
<1>3. /\ run'.pc = "removeRow" /\ run' \in RunType /\ partial' = NoFile /\ NoFile.id = 0
      /\ caller = "desktop" /\ outcome \in {"failed", "refused", "crashed"}
      /\ UNCHANGED <<package, output, place, sullied, record, runs, outcome, others, stranded>>
  <2>1. run' = [run EXCEPT !.pc = "removeRow"] /\ run.pc = "removeOwned"
    BY DEF RemoveOwned, Goto
  <2>2. run \in RunType /\ "removeRow" \in Pcs
    BY <1>2 DEF Types, ControlOK, Pcs
  <2>3. caller = "desktop" /\ outcome \in {"failed", "refused", "crashed"}
    BY <1>2, <2>1 DEF RunOK
  <2> QED
    BY <2>1, <2>2, <2>3 DEF RunType, RemoveOwned, NoFile
<1>Types. Types'
  <2>1. PackageOK'
    BY <1>1, <1>2, <1>3, SamePlan DEF Types, PackageOK, package
  <2>2. FilesOK'
    BY <1>1, <1>2, <1>3, SameTypes, EmptyTypes, TypeFacts DEF Types, FilesOK, files
  <2>3. ControlOK'
    BY <1>1, <1>2, <1>3, SameTypes DEF Types, ControlOK
  <2> QED
    BY <2>1, <2>2, <2>3 DEF Types
<1>RunOK. RunOK'
  BY <1>1, <1>2, <1>3, SamePlan DEF RunOK
<1>ReadOK. ReadOK'
  BY <1>3 DEF ReadOK
<1>EndWhole. EndWhole'
  BY <1>3 DEF EndWhole
<1>OutputWhole. OutputWhole'
  BY <1>1, <1>2, <1>3, SamePlan DEF OutputWhole, files
<1>BoundaryHolds. BoundaryHolds'
  BY <1>1, <1>2, <1>3, SamePlan DEF BoundaryHolds, files, RunOK, NoFile
<1>Undisturbed. Undisturbed'
  <2> SUFFICES ASSUME caller = "desktop", others' = 0
               PROVE  /\ Untouched' /\ OutputRecorded' /\ PartialExact'
                      /\ outcome' = "refused" => stranded'
    BY <1>1 DEF Undisturbed
  <2>1. /\ others = 0 /\ Untouched /\ OutputRecorded /\ PartialExact
        /\ outcome = "refused" => stranded
    BY <1>2, <1>3 DEF Undisturbed
  <2>2. Untouched'
    BY <1>1, <1>2, <1>3, <2>1, SamePlan DEF Untouched, Placed, package, files
  <2>3. OutputRecorded'
    BY <1>1, <1>2, <1>3, <2>1, SamePlan DEF OutputRecorded, files
  <2>4. PartialExact'
    BY <1>3 DEF PartialExact
  <2>5. outcome' = "refused" => stranded'
    BY <1>3, <2>1
  <2> QED
    BY <2>2, <2>3, <2>4, <2>5
<1> QED
  BY <1>Types, <1>RunOK, <1>ReadOK, <1>EndWhole, <1>OutputWhole, <1>BoundaryHolds, <1>Undisturbed
  DEF IInv

LEMMA RemoveRowKeeps ==
  ASSUME IInv, RemoveRow
  PROVE  IInv'
<1>1. plan' = plan /\ caller' = caller
  BY DEF RemoveRow, package
<1>2. /\ Types /\ RunOK /\ ReadOK /\ EndWhole
      /\ OutputWhole /\ BoundaryHolds /\ Undisturbed
  BY DEF IInv
<1>3. /\ run' = Stopped /\ run'.pc = "idle" /\ run' \in RunType
      /\ record' = NoRecord /\ ~record'.known /\ record' \in RecordType
      /\ outcome' = "removed"
      /\ UNCHANGED <<package, files, runs, others, stranded>>
  BY <1>2, EmptyTypes, TypeFacts DEF RemoveRow, Stopped, NoRecord
<1>Types. Types'
  <2>1. PackageOK'
    BY <1>1, <1>2, <1>3, SamePlan DEF Types, PackageOK, package
  <2>2. FilesOK'
    BY <1>1, <1>2, <1>3, SameTypes, EmptyTypes, TypeFacts DEF Types, FilesOK, files
  <2>3. ControlOK'
    BY <1>1, <1>2, <1>3, SameTypes DEF Types, ControlOK
  <2> QED
    BY <2>1, <2>2, <2>3 DEF Types
<1>RunOK. RunOK'
  BY <1>1, <1>2, <1>3, SamePlan DEF RunOK
<1>ReadOK. ReadOK'
  BY <1>3 DEF ReadOK
<1>EndWhole. EndWhole'
  BY <1>3 DEF EndWhole
<1>OutputWhole. OutputWhole'
  BY <1>1, <1>2, <1>3, SamePlan DEF OutputWhole, files
<1>BoundaryHolds. BoundaryHolds'
  BY <1>1, <1>2, <1>3, SamePlan DEF BoundaryHolds, files, RunOK, NoFile
<1>Undisturbed. Undisturbed'
  <2> SUFFICES ASSUME caller = "desktop", others' = 0
               PROVE  /\ Untouched' /\ OutputRecorded' /\ PartialExact'
                      /\ outcome' = "refused" => stranded'
    BY <1>1 DEF Undisturbed
  <2>1. /\ others = 0 /\ Untouched /\ OutputRecorded /\ PartialExact
        /\ outcome = "refused" => stranded
    BY <1>2, <1>3 DEF Undisturbed
  <2>2. Untouched'
    BY <1>1, <1>2, <1>3, <2>1, SamePlan DEF Untouched, Placed, package, files
  <2>3. OutputRecorded'
    BY <1>1, <1>2, <1>3, <2>1, SamePlan DEF OutputRecorded, files
  <2>4. PartialExact'
    BY <1>3 DEF PartialExact
  <2>5. outcome' = "refused" => stranded'
    BY <1>3, <2>1
  <2> QED
    BY <2>2, <2>3, <2>4, <2>5
<1> QED
  BY <1>Types, <1>RunOK, <1>ReadOK, <1>EndWhole, <1>OutputWhole, <1>BoundaryHolds, <1>Undisturbed
  DEF IInv
\* The partial that a resume finds is right up to the recorded boundary.
LEMMA RecordedIsVerified ==
  ASSUME Types, RunOK, BoundaryHolds, record.known, partial.id = record.id, "partial" \notin sullied
  PROVE  PrefixVerified(partial.bytes)
<1>1. /\ record.bytes \in 0..plan.total /\ record.bytes <= Len(partial.bytes)
      /\ \A j \in 1..record.bytes : partial.bytes[j] = j
  BY RecordedBytes
<1>2. record.bytes \in Nat /\ partial.bytes \in Seq(ByteValues) /\ plan \in Plans
  BY TypeFacts
<1>3. /\ SubSeq(partial.bytes, 1, record.bytes) \in Seq(ByteValues)
      /\ Len(SubSeq(partial.bytes, 1, record.bytes)) = record.bytes
      /\ \A j \in 1..record.bytes : SubSeq(partial.bytes, 1, record.bytes)[j] = partial.bytes[j]
  BY <1>1, <1>2, CutBytes
<1>4. /\ OriginalTo(record.bytes) \in Seq(ByteValues)
      /\ Len(OriginalTo(record.bytes)) = record.bytes
      /\ \A j \in 1..record.bytes : OriginalTo(record.bytes)[j] = j
  BY <1>1, <1>2, OriginalPrefix
<1>5. \A s, t \in Seq(ByteValues) :
        Len(s) = Len(t) /\ (\A j \in 1..Len(s) : s[j] = t[j]) => s = t
  OBVIOUS
<1> QED
  BY <1>1, <1>4 DEF PrefixVerified

LEMMA ReopenCutsUnverified ==
  ASSUME IInv, Reopen, ~PrefixVerified(partial.bytes), ~Refused("reopen", PartialIsOurs)
  PROVE  IInv'
<1>1. plan' = plan /\ caller' = caller
  BY DEF Reopen, package
<1>2. /\ Types /\ RunOK /\ ReadOK /\ EndWhole
      /\ OutputWhole /\ BoundaryHolds /\ Undisturbed
  BY DEF IInv
<1>3. /\ run.pc = "reopen" /\ run' = Failing /\ outcome' = "refused" /\ sullied' = sullied
      /\ partial' = [partial EXCEPT !.bytes = SubSeq(@, 1, record.bytes)]
      /\ partial.id = record.id /\ record.bytes <= Len(partial.bytes)
      /\ UNCHANGED <<slices, manifest, output, place, record, others, runs, stranded>>
  BY DEF Reopen, PartialIsOurs, package
<1>4. record.known /\ runs # 0 /\ "partial" \in sullied
  BY <1>2, <1>3, RecordedIsVerified DEF RunOK, Running
<1>5. ~(caller = "desktop" /\ others = 0)
  BY <1>2, <1>4 DEF Undisturbed, Untouched
<1>6. run'.pc \in {"idle", "cleanup"} /\ run' \in RunType /\ (run'.pc = "cleanup" => caller = "cli")
  <2>1. Stopped \in RunType /\ run \in RunType
    BY <1>2, EmptyTypes, TypeFacts DEF Types, ControlOK
  <2> QED
    BY <1>3, <2>1 DEF Failing, Stopped, RunType, Pcs
<1>7. partial' \in FileType
  <2>1. SubSeq(partial.bytes, 1, record.bytes) \in Seq(ByteValues)
    BY <1>2, <1>3, TypeFacts, CutBytes
  <2> QED
    BY <1>2, <1>3, <2>1 DEF Types, FilesOK, FileType
<1>Types. Types'
  <2>1. PackageOK'
    BY <1>1, <1>2, <1>3, SamePlan DEF Types, PackageOK
  <2>2. FilesOK'
    BY <1>1, <1>2, <1>3, <1>7, SameTypes DEF Types, FilesOK
  <2>3. ControlOK'
    BY <1>1, <1>2, <1>3, <1>6, SameTypes DEF Types, ControlOK
  <2> QED
    BY <2>1, <2>2, <2>3 DEF Types
<1>RunOK. RunOK'
  BY <1>1, <1>2, <1>3, <1>6, SamePlan DEF RunOK, Running
<1>ReadOK. ReadOK'
  BY <1>6 DEF ReadOK
<1>EndWhole. EndWhole'
  BY <1>6 DEF EndWhole
<1>OutputWhole. OutputWhole'
  BY <1>1, <1>2, <1>3, SamePlan DEF OutputWhole
<1>BoundaryHolds. BoundaryHolds'
  BY <1>1, <1>2, <1>3, <1>4, SamePlan DEF BoundaryHolds
<1>Undisturbed. Undisturbed'
  BY <1>1, <1>3, <1>5 DEF Undisturbed
<1> QED
  BY <1>Types, <1>RunOK, <1>ReadOK, <1>EndWhole, <1>OutputWhole, <1>BoundaryHolds, <1>Undisturbed
  DEF IInv

\* What others do: they mark what they change.
LEMMA OthersKeep ==
  ASSUME IInv, Others
  PROVE  IInv'
<1>1. plan' = plan /\ caller' = caller
  BY DEF Others, ChangePackage, ChangeFile, ReplaceDestination, package
<1>2. /\ Types /\ RunOK /\ ReadOK /\ EndWhole
      /\ OutputWhole /\ BoundaryHolds
  BY DEF IInv
<1>3. /\ UNCHANGED <<record, run, runs, outcome, stranded>>
      /\ others' = others + 1 /\ others < MaxOthers
  BY DEF Others
<1>4. others' \in 0..MaxOthers /\ others' > 0
  BY <1>2, <1>3, ConstantsAssumption DEF Types, ControlOK
<1>5. ASSUME NEW file \in FileType
      PROVE  Tampered(file) \subseteq FileType
  <2>1. /\ 0 \in ByteValues /\ 0 \in 0..MaxRuns
        /\ <<>> \in Seq(ByteValues) /\ <<0>> \in Seq(ByteValues)
    BY <1>2, TypeFacts, ConstantsAssumption DEF ByteValues
  <2>2. NoFile \in FileType /\ Foreign \in FileType
    BY <2>1 DEF NoFile, Foreign, FileType
  <2>3. file.bytes \in Seq(ByteValues)
    BY DEF FileType
  <2>4. [k \in DOMAIN file.bytes |-> 0] \in Seq(ByteValues)
    <3>1. DOMAIN file.bytes = 1..Len(file.bytes) /\ Len(file.bytes) \in Nat
      BY <2>3
    <3>2. [k \in 1..Len(file.bytes) |-> 0] \in [1..Len(file.bytes) -> ByteValues]
      BY <2>1
    <3> QED
      BY <3>1, <3>2
  <2>5. Append(file.bytes, 0) \in Seq(ByteValues)
    BY <2>1, <2>3
  <2>6. SubSeq(file.bytes, 1, Len(file.bytes) - 1) \in Seq(ByteValues)
    BY <2>3
  <2>7. \A bytes \in Seq(ByteValues) : [file EXCEPT !.bytes = bytes] \in FileType
    BY DEF FileType
  <2> QED
    BY <2>2, <2>4, <2>5, <2>6, <2>7 DEF Tampered
<1>6. /\ slices' \in [1..Count -> SliceStates] /\ manifest' \in ManifestStates
      /\ output' \in FileType /\ partial' \in FileType
      /\ place' \in {1, 2} /\ sullied' \in SUBSET {"output", "partial"}
      /\ output' = output \/ "output" \in sullied'
      /\ partial' = partial \/ "partial" \in sullied'
      /\ sullied \subseteq sullied'
  <2>1. /\ slices \in [1..Count -> SliceStates] /\ manifest \in ManifestStates
        /\ output \in FileType /\ partial \in FileType /\ NoFile \in FileType
        /\ place \in {1, 2} /\ sullied \in SUBSET {"output", "partial"}
    BY <1>2, EmptyTypes DEF Types, PackageOK, FilesOK
  <2>2. CASE ChangePackage
    BY <2>1, <2>2 DEF ChangePackage, files
  <2>3. CASE ChangeFile
    BY <1>5, <2>1, <2>3 DEF ChangeFile, package
  <2>4. CASE ReplaceDestination
    BY <2>1, <2>4 DEF ReplaceDestination, package
  <2> QED
    BY <2>2, <2>3, <2>4 DEF Others
<1>Types. Types'
  <2>1. PackageOK'
    BY <1>1, <1>2, <1>6, SamePlan DEF Types, PackageOK
  <2>2. FilesOK'
    BY <1>1, <1>6, SameTypes DEF FilesOK
  <2>3. ControlOK'
    BY <1>1, <1>2, <1>3, <1>4, SameTypes DEF Types, ControlOK
  <2> QED
    BY <2>1, <2>2, <2>3 DEF Types
<1>RunOK. RunOK'
  BY <1>1, <1>2, <1>3, SamePlan DEF RunOK, Running, NextSlice
<1>ReadOK. ReadOK'
  BY <1>1, <1>2, <1>3, <1>6, SamePlan DEF ReadOK, HoldsRead
<1>EndWhole. EndWhole'
  BY <1>1, <1>2, <1>3, <1>4, <1>6, SamePlan DEF EndWhole
<1>OutputWhole. OutputWhole'
  BY <1>1, <1>2, <1>6, SamePlan DEF OutputWhole
<1>BoundaryHolds. BoundaryHolds'
  BY <1>1, <1>2, <1>3, <1>6, SamePlan DEF BoundaryHolds
<1>Undisturbed. Undisturbed'
  BY <1>4 DEF Undisturbed
<1> QED
  BY <1>Types, <1>RunOK, <1>ReadOK, <1>EndWhole, <1>OutputWhole, <1>BoundaryHolds, <1>Undisturbed
  DEF IInv

\* Every check of a desktop merge succeeds when nobody else has touched its
\* files, unless its partial is stranded.
LEMMA NothingRefused ==
  ASSUME IInv, caller = "desktop", others = 0, ~stranded
  PROVE  /\ run.pc = "preflight" => PreflightPasses
         /\ run.pc = "inspect" => PackageWhole
         /\ run.pc # "exists"
         /\ run.pc = "reopen" => PartialIsOurs
         /\ run.pc = "create" => Creatable
         /\ run.pc = "slice" /\ NextSlice <= Count => Openable
         /\ run.pc = "slice" /\ run.count = Count => AllWhole
         /\ run.pc = "staged" => Staged
         /\ run.pc = "checked" => Renamable
         /\ run.pc = "renamed" => Published
<1>1. /\ Types /\ RunOK /\ BoundaryHolds
      /\ Untouched /\ OutputRecorded /\ PartialExact
  BY DEF IInv, Undisturbed
<1>2. PackageWhole /\ MembersUnchanged /\ (run.pc \in Placed => DestinationHeld)
  BY <1>1 DEF Untouched, PackageWhole, ManifestBound, SlicesWhole, MembersUnchanged,
     ManifestUnedited, SameMembers, DestinationHeld
<1>3. ASSUME run.pc = "preflight"
      PROVE  PreflightPasses
  BY <1>1, <1>3 DEF PartialExact, Untouched, PreflightPasses, ManifestBound, Destination
<1>4. ASSUME run.pc \in {"reopen", "slice"}
      PROVE  /\ record.known /\ partial.id = record.id /\ record.place = place
             /\ output = NoFile /\ "partial" \notin sullied
  BY <1>1, <1>4 DEF PartialExact, Untouched, RunOK
<1>5. ASSUME run.pc = "reopen"
      PROVE  PartialIsOurs
  <2>1. record.bytes = Boundary(record.count) /\ record.bytes <= Len(partial.bytes)
    BY <1>1, <1>4, <1>5, RecordedBytes
  <2>2. record.bytes \in Nat /\ Len(partial.bytes) \in Nat
    BY <1>1, TypeFacts
  <2> QED
    BY <1>2, <1>4, <1>5, <2>1 DEF PartialIsOurs, Placed
<1>6. ASSUME run.pc = "create"
      PROVE  Creatable
  BY <1>1, <1>2, <1>6 DEF PartialExact, Creatable, Placed, RunOK
<1>7. ASSUME run.pc = "slice", NextSlice <= Count
      PROVE  Openable
  <2>1. NextSlice \in 1..Count
    BY <1>1, <1>7, TypeFacts DEF NextSlice
  <2> QED
    BY <1>1, <1>2, <1>7, <2>1 DEF Openable, Untouched, Placed
<1>8. ASSUME run.pc = "slice", run.count = Count
      PROVE  AllWhole
  <2>1. Len(partial.bytes) = plan.total
    BY <1>1, <1>8, TypeFacts, BoundaryFits DEF PartialExact
  <2>2. record.bytes = plan.total
    BY <1>1, <1>8, TypeFacts, BoundaryFits DEF RunOK
  <2>3. \A j \in 1..plan.total : partial.bytes[j] = j
    BY <1>1, <1>4, <1>8, <2>2, RecordedBytes
  <2>4. partial.bytes = Original
    BY <1>1, <2>1, <2>3, TypeFacts, WholeIsOriginal
  <2> QED
    BY <1>2, <1>8, <2>4 DEF AllWhole, Placed
<1>9. ASSUME run.pc = "staged"
      PROVE  Staged
  BY <1>1, <1>9 DEF PartialExact, Staged
<1>10. ASSUME run.pc = "renamed"
      PROVE  Published
  BY <1>1, <1>2, <1>10 DEF PartialExact, Published, Placed
<1>11. ASSUME run.pc = "checked"
      PROVE  Renamable
  BY <1>1, <1>11 DEF PartialExact, Renamable, RunOK, NoFile
<1>12. run.pc # "exists"
  BY <1>1 DEF PartialExact
<1> QED
  BY <1>2, <1>3, <1>5, <1>6, <1>7, <1>8, <1>9, <1>10, <1>11, <1>12

-----------------------------------------------------------------------------
(* The whole of it.                                                        *)

LEMMA MergeStarts ==
  ASSUME Init
  PROVE  IInv
<1>1. plan \in Plans /\ Count \in Nat /\ plan.total \in Nat /\ Boundary(0) = 0
  BY PlanFacts, BoundaryFits DEF Init
<1>2. Stopped \in RunType /\ NoRecord \in RecordType /\ NoFile \in FileType
  BY <1>1, EmptyTypes
<1>3. run.pc = "idle" /\ ~record.known /\ output.id = 0 /\ partial.id = 0
  BY DEF Init, Stopped, NoRecord, NoFile
<1>4. Types
  <2>1. PackageOK
    BY DEF Init, PackageOK, SliceStates, ManifestStates
  <2>2. FilesOK
    BY <1>2 DEF Init, FilesOK
  <2>3. ControlOK
    <3>1. 0 \in 0..MaxRuns /\ 0 \in 0..MaxOthers
      BY ConstantsAssumption
    <3> QED
      BY <1>2, <3>1 DEF Init, ControlOK
  <2> QED
    BY <2>1, <2>2, <2>3 DEF Types
<1>5. RunOK /\ ReadOK /\ EndWhole /\ OutputWhole /\ BoundaryHolds
  BY <1>3 DEF RunOK, ReadOK, EndWhole, OutputWhole, BoundaryHolds, Running
<1>6. Undisturbed
  BY <1>3 DEF Undisturbed, Untouched, OutputRecorded, PartialExact, Init, Placed
<1> QED
  BY <1>4, <1>5, <1>6 DEF IInv

LEMMA RecoverKeeps ==
  ASSUME IInv, Recover
  PROVE  IInv'
<1> USE DEF Failing, Running, Stopped
<1>1. Types /\ (run.pc = "create" => ~record.known)
  BY DEF IInv, RunOK
<1>7. CASE Preflight
  <2>1. CASE Refused("preflight", PreflightPasses)
    BY <2>1, NothingRefused, StopKeeps DEF Refused
  <2> QED
    BY <1>7, <2>1, PreflightPassed
<1>2. CASE Inspect
  <2>1. CASE Refused("inspect", PackageWhole)
    BY <2>1, NothingRefused, StopKeeps DEF Refused
  <2> QED
    BY <1>2, <2>1, InspectPasses
<1>3. CASE CheckOutput
  <2>1. CASE ~OutputIsOurs
    BY <1>3, <2>1, NothingRefused, StopKeeps DEF CheckOutput
  <2> QED
    BY <1>3, <2>1, CheckOutputPasses
<1>4. CASE Reopen
  <2>1. CASE Refused("reopen", PartialIsOurs)
    BY <2>1, NothingRefused, StopKeeps DEF Refused
  <2> QED
    BY <1>4, <2>1, ReopenGoesOn, ReopenCutsUnverified
<1>5. CASE Create
  <2>1. CASE Refused("create", Creatable)
    BY <2>1, NothingRefused, StopKeeps DEF Refused
  <2> QED
    BY <1>5, <2>1, CreateGoesOn
<1>6. CASE RecordPartial
  <2>1. CASE record' = record /\ run' = Stopped /\ outcome' = "failed"
    BY <1>6, <2>1, StopKeeps DEF RecordPartial, Event
  <2> QED
    BY <1>6, <2>1, RecordPartialGoesOn DEF RecordPartial, Event
<1> QED
  BY <1>2, <1>3, <1>4, <1>5, <1>6, <1>7 DEF Recover

LEMMA ProduceKeeps ==
  ASSUME IInv, Produce
  PROVE  IInv'
<1> USE DEF Failing, Running, Stopped
<1>1. CASE OpenSlice
  <2>1. CASE Refused("slice", Openable)
    BY <1>1, <2>1, NothingRefused, StopKeeps DEF Refused, OpenSlice
  <2> QED
    BY <1>1, <2>1, OpenSliceGoesOn
<1>2. CASE WriteBytes
  BY <1>2, WriteBytesKeeps
<1>3. CASE CutBack
  BY <1>3, CutBackKeeps
<1>4. CASE SliceBoundary
  <2>1. CASE record' = record /\ run' = Stopped /\ outcome' = "failed"
    BY <1>4, <2>1, StopKeeps DEF SliceBoundary, Event
  <2> QED
    BY <1>4, <2>1, SliceBoundaryGoesOn DEF SliceBoundary, Event
<1>5. CASE FinalHash
  <2>1. CASE Refused("slice", AllWhole)
    BY <1>5, <2>1, NothingRefused, StopKeeps DEF Refused, FinalHash
  <2> QED
    BY <1>5, <2>1, FinalHashGoesOn
<1>6. CASE Rename
  <2>1. CASE Refused("checked", Renamable)
    BY <2>1, NothingRefused, StopKeeps DEF Refused
  <2> QED
    BY <1>6, <2>1, RenamePasses
<1>7. CASE CheckStaged
  <2>1. CASE Refused("staged", Staged)
    BY <2>1, NothingRefused, StopKeeps DEF Refused
  <2> QED
    BY <1>7, <2>1, CheckStagedPasses
<1>8. CASE RecordPublished
  <2>1. CASE Refused("renamed", Published)
    BY <2>1, NothingRefused, StopKeeps DEF Refused
  <2> QED
    BY <1>8, <2>1, RecordPublishedPasses
<1> QED
  BY <1>1, <1>2, <1>3, <1>4, <1>5, <1>6, <1>7, <1>8 DEF Produce

LEMMA EndKeeps ==
  ASSUME IInv, End
  PROVE  IInv'
<1> USE DEF Failing, Running, Stopped
<1>1. /\ CleaningUp => caller = "cli"
      /\ Removing => caller = "desktop" /\ outcome \in {"failed", "refused", "crashed"}
      /\ caller = "desktop" /\ others = 0 /\ outcome = "refused" => stranded
  BY DEF IInv, RunOK, Undisturbed
<1>3. CASE Succeed
  BY <1>3, StopKeeps DEF Succeed
<1>4. CASE Fail
  BY <1>4, StopKeeps, ConstantsAssumption DEF Fail
<1>5. CASE Crash
  <2>1. CASE caller = "desktop"
    BY <1>1, <1>5, <2>1, StopKeeps DEF Crash
  <2> QED
    BY <1>5, <2>1, CrashKeeps
<1>6. CASE CleanUp
  BY <1>6, CleanUpCompareKeeps, CleanUpRemoveKeeps DEF CleanUp
<1>7. CASE RemovalStops
  BY <1>1, <1>7, StopKeeps DEF RemovalStops
<1>8. CASE Removal
  BY <1>7, <1>8, RemoveTaskKeeps, RemoveOwnedKeeps, RemoveRowKeeps DEF Removal
<1> QED
  BY <1>3, <1>4, <1>5, <1>6, <1>8 DEF End

LEMMA MergeStutters ==
  ASSUME IInv, UNCHANGED vars
  PROVE  IInv'
<1>1. plan' = plan
  BY DEF vars, package
<1>2. Types'
  <2>1. PackageOK'
    BY SamePlan DEF IInv, Types, PackageOK, vars, package
  <2>2. FilesOK'
    BY <1>1, SameTypes DEF IInv, Types, FilesOK, vars, files
  <2>3. ControlOK'
    BY <1>1, SameTypes DEF IInv, Types, ControlOK, vars
  <2> QED
    BY <2>1, <2>2, <2>3 DEF Types
<1>3. RunOK' /\ ReadOK' /\ EndWhole'
  <2>1. /\ UNCHANGED <<run, record, runs, outcome, others, caller>>
        /\ UNCHANGED <<partial, output, sullied>>
    BY DEF vars, package, files
  <2> QED
    BY <1>1, <2>1, SamePlan DEF IInv, RunOK, ReadOK, HoldsRead, EndWhole, Running, NextSlice
<1>4. OutputWhole' /\ BoundaryHolds'
  BY <1>1, SamePlan DEF IInv, OutputWhole, BoundaryHolds, vars, files
<1>5. Undisturbed'
  BY <1>1, SamePlan
  DEF IInv, Undisturbed, Untouched, OutputRecorded, PartialExact, vars, package, files, Running,
      NextSlice
<1> QED
  BY <1>2, <1>3, <1>4, <1>5 DEF IInv

\* The invariant holds throughout every merge.
THEOREM MergeInvariant == Spec => []IInv
<1>1. Init => IInv
  BY MergeStarts
<1>2. IInv /\ [Next]_vars => IInv'
  <2> SUFFICES ASSUME IInv, [Next]_vars PROVE IInv'
    OBVIOUS
  <2>1. CASE Begin
    BY <2>1, BeginKeeps
  <2>2. CASE Recover
    BY <2>2, RecoverKeeps
  <2>3. CASE Produce
    BY <2>3, ProduceKeeps
  <2>4. CASE End
    BY <2>4, EndKeeps
  <2>5. CASE Others
    BY <2>5, OthersKeep
  <2>6. CASE UNCHANGED vars
    BY <2>6, MergeStutters
  <2> QED
    BY <2>1, <2>2, <2>3, <2>4, <2>5, <2>6 DEF Next
<1> QED
  BY <1>1, <1>2, PTL DEF Spec

\* Every variable keeps its type (resumable.rs, the state of a merge).
THEOREM MergeTypes == Spec => []TypeOK
<1>1. IInv => TypeOK
  <2> SUFFICES ASSUME IInv PROVE TypeOK
    OBVIOUS
  <2>1. Types
    BY DEF IInv
  <2>2. /\ \A k \in DOMAIN output.bytes : output.bytes[k] \in ByteValues
        /\ \A k \in DOMAIN partial.bytes : partial.bytes[k] \in ByteValues
    BY <2>1, TypeFacts
  <2> QED
    BY <2>1, <2>2 DEF Types, PackageOK, FilesOK, ControlOK, FileType, RecordType, RunType, TypeOK
<1> QED
  BY <1>1, MergeInvariant, PTL

\* An output that a merge published has the bytes of the original, for every
\* package, every number of runs, crashes and changes by others, except what
\* others wrote after it was read for the last time (finalize_staged_output
\* and the checks before it).
THEOREM OutputIsWhole == Spec => []OutputWhole
<1>1. IInv => OutputWhole
  BY DEF IInv
<1> QED
  BY <1>1, MergeInvariant, PTL

\* The checkpoint never runs ahead of the partial (SliceBoundary events are
\* written after the slice is synced, and an error cuts the partial back).
THEOREM CheckpointIsBehind == Spec => []BoundaryHolds
<1>1. IInv => BoundaryHolds
  BY DEF IInv
<1> QED
  BY <1>1, MergeInvariant, PTL

\* A desktop merge whose files nobody else changes is refused only when its
\* run began with an unrecorded partial, after a removal that was cut short, or
\* with its output published already (ensure_output_absent, remove_task).
THEOREM OnlyStrandedIsRefused == Spec => []RefusedOnlyStranded
<1>1. IInv => RefusedOnlyStranded
  BY DEF IInv, Undisturbed, RefusedOnlyStranded
<1> QED
  BY <1>1, MergeInvariant, PTL

\* The slices of the package that is merged cut the file, and its manifest is
\* a valid one (planned_slice_range, CakeManifest::validate).
THEOREM PackageIsCut == Spec => []PlanCutsFile
<1>1. IInv => PlanCutsFile
  <2> SUFFICES ASSUME IInv PROVE PlanCutsFile
    OBVIOUS
  <2>1. plan \in Plans
    BY TypeFacts DEF IInv
  <2> QED
    BY <2>1, PlanFacts, PlanCutsTheorem DEF PlanCutsFile
<1> QED
  BY <1>1, MergeInvariant, PTL

-----------------------------------------------------------------------------
(* The merge implements AtomicPublication: the rename is its publication,  *)
(* a run that stops without success its failure, the next run its retry.   *)

\* A step that changes neither the output nor the outcome is a stutter.
LEMMA QuietSteps ==
  ASSUME plan' = plan, output' = output, outcome' = outcome, others' = others
  PROVE  UNCHANGED Publication!vars
BY SamePlan DEF Publication!vars, Output, Report

LEMMA StopPublishes ==
  ASSUME plan' = plan, output' = output, others' = others, outcome = "none",
         outcome' \in {"failed", "refused", "crashed"}
  PROVE  Publication!Next
<1>1. Output' = Output /\ Report = "pending" /\ Report' = "failed"
  BY SamePlan DEF Output, Report
<1> QED
  BY <1>1 DEF Publication!Next, Publication!Fail

\* Every step of a merge maps to a step of AtomicPublication or to a stutter.
LEMMA MergeStepPublishes ==
  ASSUME IInv, Next
  PROVE  Publication!Next \/ UNCHANGED Publication!vars
<1>1. /\ Running /\ ~CleaningUp /\ ~Removing => outcome = "none"
      /\ CleaningUp => outcome \in {"failed", "refused"}
      /\ Removing => outcome \in {"failed", "refused", "crashed"}
      /\ run.pc = "end" => others > 0 \/ (output.id # 0 /\ output.bytes = Original)
      /\ run.pc = "checked" => \/ run.id # 0 /\ partial = [id |-> run.id, bytes |-> Original]
                               \/ others > 0
  BY DEF IInv, RunOK, EndWhole
<1>2. CASE Begin
  <2>1. /\ plan' = plan /\ output' = output /\ others' = others /\ outcome' = "none"
        /\ outcome # "success"
    BY <1>2 DEF Begin, package
  <2>2. CASE outcome = "none"
    BY <2>1, <2>2, QuietSteps
  <2>3. CASE outcome # "none"
    <3>1. Output' = Output /\ Report = "failed" /\ Report' = "pending"
      BY <2>1, <2>3, SamePlan DEF Output, Report
    <3> QED
      BY <2>1, <3>1 DEF Publication!Next, Publication!Retry
  <2> QED
    BY <2>2, <2>3
<1>3. CASE Recover
  <2>1. /\ plan' = plan /\ output' = output /\ others' = others
        /\ Running /\ ~CleaningUp /\ ~Removing
        /\ outcome' \in {outcome, "refused", "failed"}
    BY <1>3 DEF Recover, Preflight, Inspect, CheckOutput, Reopen, Create, RecordPartial, Refused,
       Event, package, files
  <2> QED
    BY <1>1, <2>1, QuietSteps, StopPublishes
<1>4. CASE Produce
  <2>1. CASE Rename /\ ~Refused("checked", Renamable)
    <3>1. /\ plan' = plan /\ others' = others /\ outcome' = outcome /\ run.pc = "checked"
          /\ output = NoFile /\ output' = partial
      BY <2>1 DEF Rename, Renamable, package
    <3>2. Output = "none" /\ (Output' = "whole" \/ others > 0)
      BY <1>1, <3>1, SamePlan DEF Output, NoFile
    <3>3. Report = "pending" /\ Report' = Report
      BY <1>1, <3>1 DEF Report
    <3>4. Output' \in {"none", "whole", "spoiled"}
      BY DEF Output
    <3>5. CASE Output' = "none"
      BY <3>1, <3>2, <3>3, <3>5 DEF Publication!vars
    <3> QED
      BY <3>1, <3>2, <3>3, <3>4, <3>5 DEF Publication!Next, Publication!Publish
  <2>2. CASE ~(Rename /\ ~Refused("checked", Renamable))
    <3>1. /\ plan' = plan /\ output' = output /\ others' = others
          /\ Running /\ ~CleaningUp /\ ~Removing
          /\ outcome' \in {outcome, "refused", "failed"}
      BY <1>4, <2>2
      DEF Produce, OpenSlice, WriteBytes, CutBack, SliceBoundary, FinalHash, CheckStaged,
          RecordPublished, Refused, Event, package, files
    <3> QED
      BY <1>1, <3>1, QuietSteps, StopPublishes
  <2> QED
    BY <2>1, <2>2
<1>5. CASE End
  <2>1. CASE Succeed
    <3>1. /\ plan' = plan /\ output' = output /\ others' = others
          /\ outcome' = "success" /\ run.pc = "end"
      BY <2>1 DEF Succeed, package, files
    <3>2. Report = "pending" /\ Report' = "success" /\ Output' = Output
      BY <1>1, <3>1, SamePlan DEF Output, Report
    <3>3. Output = "whole" \/ others > 0
      BY <1>1, <3>1 DEF Output
    <3> QED
      BY <3>1, <3>2, <3>3 DEF Publication!Next, Publication!Succeed
  <2>2. CASE Fail
    <3>1. /\ plan' = plan /\ output' = output /\ others' = others
          /\ Running /\ ~CleaningUp /\ ~Removing /\ outcome' = "failed"
      BY <2>2 DEF Fail, package, files
    <3> QED
      BY <1>1, <3>1, StopPublishes
  <2>3. CASE Crash
    <3>1. /\ plan' = plan /\ output' = output /\ others' = others
          /\ Running /\ ~Removing /\ outcome' = "crashed"
      BY <2>3 DEF Crash, package, files
    <3>2. CASE CleaningUp
      <4>1. Output' = Output /\ Report' = Report
        BY <1>1, <3>1, <3>2, SamePlan DEF Output, Report
      <4> QED
        BY <3>1, <4>1 DEF Publication!vars
    <3> QED
      BY <1>1, <3>1, <3>2, StopPublishes
  <2>4. CASE CleanUp
    BY <2>4, QuietSteps DEF CleanUp, CleanUpCompare, CleanUpRemove, package, files
  <2>5. CASE RemoveRow
    <3>1. /\ plan' = plan /\ output' = output /\ others' = others
          /\ outcome \notin {"none", "success"} /\ outcome' = "removed"
      BY <1>1, <2>5 DEF RemoveRow, package, files
    <3>2. Output' = Output /\ Report' = Report
      BY <3>1, SamePlan DEF Output, Report
    <3> QED
      BY <3>1, <3>2 DEF Publication!vars
  <2>6. CASE RemoveTask \/ RemoveOwned \/ RemovalStops
    BY <2>6, QuietSteps DEF RemoveTask, RemoveOwned, RemovalStops, package, files
  <2> QED
    BY <1>5, <2>1, <2>2, <2>3, <2>4, <2>5, <2>6 DEF End, Removal
<1>6. CASE Others
  <2>1. others' = others + 1 /\ outcome' = outcome
    BY <1>6 DEF Others
  <2>2. Output' \in Publication!Results
    BY DEF Output, Publication!Results
  <2> QED
    BY <2>1, <2>2 DEF Publication!Next, Publication!Interfere, Report
<1> QED
  BY <1>2, <1>3, <1>4, <1>5, <1>6 DEF Next

\* Both callers' merges publish their output atomically: it appears whole in
\* one step or not at all, success is reported of a whole output only and is
\* final, and a failure leaves the output as it is.
THEOREM MergePublishesAtomically == Spec => MergeIsAtomic
<1>1. Init => Publication!Init
  BY DEF Init, Publication!Init, Output, Report, NoFile
<1>2. IInv /\ [Next]_vars => [Publication!Next]_(Publication!vars)
  <2> SUFFICES ASSUME IInv, [Next]_vars PROVE [Publication!Next]_(Publication!vars)
    OBVIOUS
  <2>1. CASE UNCHANGED vars
    BY <2>1, QuietSteps DEF vars, package, files
  <2> QED
    BY <2>1, MergeStepPublishes
<1> QED
  BY <1>1, <1>2, MergeInvariant, PTL DEF Spec, MergeIsAtomic, Publication!Spec

=============================================================================
