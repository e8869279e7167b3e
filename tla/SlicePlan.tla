----------------------------- MODULE SlicePlan -----------------------------
(***************************************************************************)
(* How a file is cut: the number of slices, the range of each one, and     *)
(* what a manifest must say to be a plan (format/lib.rs, resumable.rs).    *)
(* Sizes are byte counts; a plan is computed without touching the file.    *)
(***************************************************************************)
EXTENDS Integers, Sequences, FiniteSets

CONSTANTS
  MaxSafeInteger,  \* MAX_SAFE_INTEGER: sizes a manifest can name
  MaxSliceCount    \* MAX_SLICE_COUNT

ASSUME PlanConstantsAssumption ==
  MaxSafeInteger \in Nat /\ MaxSliceCount \in Nat

\* expected_slice_count: an empty file has no slice at all.
ExpectedSliceCount(total, size) ==
  IF total = 0 \/ size = 0 THEN 0 ELSE 1 + (total - 1) \div size

\* What the planner and a split demand of the two sizes.
PlanAccepted(total, size) ==
  /\ total <= MaxSafeInteger
  /\ size \in 1..MaxSafeInteger
  /\ ExpectedSliceCount(total, size) <= MaxSliceCount

Smaller(a, b) == IF a < b THEN a ELSE b

\* A faulty range: every slice has the full size.
FullRange(total, size, index) == [offset |-> (index - 1) * size, size |-> size]

\* planned_slice_range of the slice index, counted from one.
PlannedSliceRange(total, size, index) ==
  LET offset == (index - 1) * size
  IN [offset |-> offset, size |-> Smaller(total - offset, size)]

\* CakeManifest::validate, of a manifest reduced to its sizes and ranges: the
\* entries come in order, each begins where the one before it ended and has
\* the size the plan gives it, and together they cover the file.
ManifestValid(m) ==
  LET reached[k \in 0..Len(m.slices)] ==
        IF k = 0 THEN 0 ELSE reached[k - 1] + m.slices[k].size
  IN /\ PlanAccepted(m.total, m.target)
     /\ m.count = ExpectedSliceCount(m.total, m.target)
     /\ m.count = Len(m.slices)
     /\ \A k \in DOMAIN m.slices :
          /\ m.slices[k].index = k
          /\ m.slices[k].offset = reached[k - 1]
          /\ m.slices[k].size = Smaller(m.total - reached[k - 1], m.target)
     /\ reached[Len(m.slices)] = m.total

\* The manifest that a split writes for its plan.
ManifestOf(total, size) ==
  LET count == ExpectedSliceCount(total, size)
  IN [total |-> total, target |-> size, count |-> count,
      slices |-> [k \in 1..count |->
        [index |-> k, offset |-> PlannedSliceRange(total, size, k).offset,
         size |-> PlannedSliceRange(total, size, k).size]]]

-----------------------------------------------------------------------------
\* The bytes of a slice.
Bytes(range) == range.offset .. (range.offset + range.size - 1)

\* The slices of every plan cut the file: no byte is lost, none is in two
\* slices, none lies beyond the end, no slice is empty; and the manifest a
\* split writes for its plan is one a merge accepts (planned_slice_range
\* against CakeManifest::validate).
PlanCuts(total, size) ==
  LET slices == 1..ExpectedSliceCount(total, size)
      range(k) == PlannedSliceRange(total, size, k)
  IN /\ UNION {Bytes(range(k)) : k \in slices} = 0..(total - 1)
     /\ \A k \in slices : range(k).size \in 1..size
     /\ \A j, k \in slices : j # k => Bytes(range(j)) \cap Bytes(range(k)) = {}
     /\ ManifestValid(ManifestOf(total, size))
=============================================================================
