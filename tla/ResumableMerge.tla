--------------------------- MODULE ResumableMerge ---------------------------
(***************************************************************************)
(* The merge of a package into one output file, and its recovery after a   *)
(* crash or a failure (resumable.rs), from a package that was bound when   *)
(* it was selected (package_binding.rs).  The desktop engine keeps the     *)
(* checkpoint in the task's row; the command line keeps the identity of    *)
(* its partial in memory.                                                  *)
(*                                                                         *)
(* The output grows under a partial name, one buffer after the other, here *)
(* one byte.  The checkpoint names the last slice boundary; what lies      *)
(* behind it in the partial is cut off by a resume.  Byte k of the         *)
(* original file is the number k, a wrong byte is 0.  A partial is renamed *)
(* or removed by its name, in a step of its own after the one that checks  *)
(* it: others may write to it, or exchange it, in between.                 *)
(***************************************************************************)
EXTENDS SlicePlan, SequencesExt

CONSTANTS
  Plans,       \* sizes of the packages: records of total and size
  Callers,     \* who may merge: "desktop", "cli"
  MaxRuns,     \* bound: times the task is started
  MaxOthers,   \* bound: changes made by others
  StoreFaults  \* whether writing a checkpoint may fail

ASSUME ConstantsAssumption ==
  /\ \A plan \in Plans : /\ plan \in [total : Nat, size : Nat \ {0}]
                         /\ PlanAccepted(plan.total, plan.size)
  /\ Callers \subseteq {"desktop", "cli"}
  /\ MaxRuns \in Nat \ {0} /\ MaxOthers \in Nat /\ StoreFaults \in BOOLEAN

VARIABLES
  caller,    \* who merges; it never changes
  plan,      \* length and slice size in the manifest; they never change
  slices,    \* the slice files of the package
  manifest,  \* the manifest file of the package
  output,    \* the output's final name
  partial,   \* the output's partial name
  place,     \* the identity of the destination directory
  record,    \* the checkpoint
  run,       \* the running merge: program counter and local variables
  runs,      \* number of the last run
  outcome,   \* of the last run; "removed" when the task's row is gone
  others,    \* history: number of changes made by others
  sullied,   \* history: names of the output that others changed
  stranded   \* history: the last run began in a state it cannot recover from

package == <<caller, plan, slices, manifest>>
files == <<output, partial, place, sullied>>
vars == <<package, files, record, run, runs, outcome, others, stranded>>

Count == ExpectedSliceCount(plan.total, plan.size)
Original == [k \in 1..plan.total |-> k]
RangeOf(k) == PlannedSliceRange(plan.total, plan.size, k)
SliceBytes(k) == SubSeq(Original, RangeOf(k).offset + 1, RangeOf(k).offset + RangeOf(k).size)

\* The length of the first k slices.
Boundary(k) == IF k = 0 THEN 0 ELSE RangeOf(k).offset + RangeOf(k).size

\* A slice is the file that was bound; that file with other bytes and the
\* same identity, length and time; another file; or absent.
SliceStates == {"good", "forged", "other", "none"}
\* The manifest likewise: edited in place, or another file.
ManifestStates == {"good", "edited", "other"}

NoFile == [id |-> 0, bytes |-> <<>>]
Foreign == [id |-> 0, bytes |-> <<0>>]
NoRecord == [known |-> FALSE, place |-> 0, id |-> 0, count |-> 0, bytes |-> 0,
             published |-> FALSE]
Stopped == [pc |-> "idle", id |-> 0, place |-> 0, count |-> 0, read |-> <<>>]

Running == run.pc # "idle"
DestinationHeld == place = run.place
IsPrefixOf(s, t) == Len(s) <= Len(t) /\ \A k \in DOMAIN s : s[k] = t[k]
OriginalTo(k) == SubSeq(Original, 1, k)

\* Bytes that a file lacks when it is made longer are zero.
SetLen(bytes, n) == [k \in 1..n |-> IF k <= Len(bytes) THEN bytes[k] ELSE 0]
WriteAt(bytes, at, byte) ==
  [SetLen(bytes, IF Len(bytes) > at THEN Len(bytes) ELSE at + 1) EXCEPT ![at + 1] = byte]

-----------------------------------------------------------------------------
Init ==
  /\ caller \in Callers /\ plan \in Plans
  /\ slices = [k \in 1..Count |-> "good"] /\ manifest = "good"
  /\ output = NoFile /\ partial = NoFile /\ place = 1
  /\ record = NoRecord /\ run = Stopped /\ runs = 0
  /\ outcome = "none" /\ others = 0 /\ sullied = {} /\ stranded = FALSE

\* The states from which a desktop task cannot be resumed: its partial is
\* there and no checkpoint names it; its removal took the partial and left
\* the row; or its output is published already.
Unrecorded == partial.id # 0 /\ ~record.known
RemovalCut == record.known /\ partial = NoFile /\ output = NoFile
AlreadyPublished == output.id # 0
Stranded == Unrecorded \/ RemovalCut \/ AlreadyPublished

\* BoundPackage::open: the manifest is the file that was bound, unedited.
ManifestBound == manifest = "good"

\* BoundPackage::inspect: every slice is there, is the file that was bound
\* and has its hash.
SlicesWhole == \A k \in 1..Count : slices[k] = "good"

PackageWhole == ManifestBound /\ SlicesWhole

\* A command has a new task id, hence another partial name.
Begin ==
  /\ ~Running /\ runs < MaxRuns /\ outcome \notin {"success", "removed"}
  /\ runs' = runs + 1
  /\ run' = [Stopped EXCEPT !.pc = IF caller = "desktop" THEN "preflight" ELSE "inspect"]
  /\ partial' = IF caller = "cli" /\ partial.id # 0 THEN NoFile ELSE partial
  /\ outcome' = "none"
  /\ stranded' = (caller = "desktop" /\ Stranded)
  /\ UNCHANGED <<package, output, place, sullied, record, others>>

Failing == IF caller = "cli" THEN [run EXCEPT !.pc = "cleanup"] ELSE Stopped

\* A check of the code refuses to go on.
Refused(pc, condition) ==
  /\ run.pc = pc /\ ~condition
  /\ run' = Failing /\ outcome' = "refused"
  /\ UNCHANGED <<package, files, record, others, runs, stranded>>

\* An event is written and the run goes on; or the write fails and cancels
\* the token, which the run sees before it publishes anything.
Event(new, next) ==
  /\ \/ record' = new /\ run' = next /\ outcome' = outcome
     \/ /\ StoreFaults /\ caller = "desktop"
        /\ record' = record /\ run' = Stopped /\ outcome' = "failed"
  /\ UNCHANGED <<package, files, others, runs, stranded>>

Goto(pc) == run' = [run EXCEPT !.pc = pc]

\* The directory the task was admitted with, or created its partial in.
Destination == IF record.known THEN record.place ELSE 1

\* merge_preflight_data, preflight_existing: the output's name is free, the
\* package has the identities that were bound, the destination is the same.
PreflightPasses ==
  /\ output = NoFile
  /\ ManifestBound /\ \A k \in 1..Count : slices[k] \in {"good", "forged"}
  /\ place = Destination

\* The preflight of a desktop task, when it is requeued and when it runs.  A
\* requeue that it refuses leaves the row as it was; here that is a run too.
Preflight ==
  \/ /\ run.pc = "preflight" /\ PreflightPasses
     /\ Goto("inspect")
     /\ UNCHANGED <<package, files, record, others, runs, outcome, stranded>>
  \/ Refused("preflight", PreflightPasses)

Inspect ==
  \/ /\ run.pc = "inspect" /\ PackageWhole
     /\ run' = [run EXCEPT !.pc = IF output # NoFile THEN "exists"
                                 ELSE IF record.known THEN "reopen" ELSE "create",
                           !.place = place]
     /\ UNCHANGED <<package, files, record, others, runs, outcome, stranded>>
  \/ Refused("inspect", PackageWhole)

\* verify_manifest_handle reads the manifest that was opened, whatever its
\* name holds now.
ManifestUnedited == manifest # "edited"
\* The directory lists the same slice names.
SameMembers == \A k \in 1..Count : slices[k] # "none"
\* BoundPackage::revalidate
MembersUnchanged == ManifestUnedited /\ SameMembers

\* verify_partial_prefix, up to the recorded boundary.
PrefixVerified(bytes) == SubSeq(bytes, 1, record.bytes) = OriginalTo(record.bytes)

\* The output exists: it must be the complete one this task published.
OutputIsOurs ==
  /\ DestinationHeld /\ record.known /\ record.place = place
  /\ record.count = Count /\ record.bytes = plan.total
  /\ output = [id |-> record.id, bytes |-> Original]
  /\ MembersUnchanged

\* Of both callers only the refusal is ever seen: a command has no checkpoint,
\* and the preflight of the desktop has found the name free, so that what has
\* it now is a file of others.
CheckOutput ==
  /\ run.pc = "exists"
  /\ IF OutputIsOurs THEN Goto("end") /\ outcome' = outcome
                     ELSE run' = Failing /\ outcome' = "refused"
  /\ UNCHANGED <<package, files, record, others, runs, stranded>>

\* A faulty comparison: it expects nothing behind the boundary.
PartialIsExact ==
  /\ DestinationHeld /\ record.place = place
  /\ partial.id = record.id /\ Len(partial.bytes) = record.bytes

\* The partial is the recorded one and reaches the recorded boundary.
PartialIsOurs ==
  /\ DestinationHeld /\ record.place = place
  /\ partial.id = record.id
  /\ record.bytes = Boundary(record.count) /\ Len(partial.bytes) >= record.bytes

\* The partial is cut at the boundary, then what is left is verified.
Reopen ==
  \/ /\ run.pc = "reopen" /\ PartialIsOurs
     /\ partial' = [partial EXCEPT !.bytes = SubSeq(@, 1, record.bytes)]
     /\ IF PrefixVerified(partial.bytes)
        THEN /\ run' = [run EXCEPT !.pc = "slice", !.id = record.id, !.count = record.count]
             /\ outcome' = outcome /\ sullied' = sullied \ {"partial"}
        ELSE run' = Failing /\ outcome' = "refused" /\ sullied' = sullied
     /\ UNCHANGED <<package, output, place, record, others, runs, stranded>>
  \/ Refused("reopen", PartialIsOurs)

\* A faulty creation: of the output under its final name.
CreateInPlace ==
  /\ run.pc = "create" /\ DestinationHeld
  /\ output' = [id |-> runs, bytes |-> <<>>]
  /\ run' = [run EXCEPT !.pc = "created", !.id = runs]
  /\ UNCHANGED <<package, partial, place, sullied, record, others, runs, outcome, stranded>>

Creatable == DestinationHeld /\ partial = NoFile

Create ==
  \/ /\ run.pc = "create" /\ Creatable
     /\ partial' = [id |-> runs, bytes |-> <<>>]
     /\ run' = [run EXCEPT !.pc = "created", !.id = runs]
     /\ sullied' = sullied \ {"partial"}
     /\ UNCHANGED <<package, output, place, record, others, runs, outcome, stranded>>
  \/ Refused("create", Creatable)

RecordedPartial == [NoRecord EXCEPT !.known = TRUE, !.place = run.place, !.id = run.id]

RecordPartial ==
  /\ run.pc = "created"
  /\ Event(RecordedPartial, [run EXCEPT !.pc = "slice"])

-----------------------------------------------------------------------------
(* One slice after the other.                                              *)

NextSlice == run.count + 1

\* The next slice is opened: it has the identity that was bound.
Openable == DestinationHeld /\ slices[NextSlice] \in {"good", "forged"}

OpenSlice ==
  /\ NextSlice <= Count
  /\ \/ /\ run.pc = "slice" /\ Openable
        /\ run' = [run EXCEPT !.pc = "copy", !.read = <<>>]
        /\ UNCHANGED <<package, files, record, others, runs, outcome, stranded>>
     \/ Refused("slice", Openable)

\* The file that the run's handle writes to, when it still has its name.
Attached == partial.id = run.id

\* A buffer is read and written.  A slice that was forged gives wrong bytes.
WriteBytes ==
  LET right == SliceBytes(NextSlice)[Len(run.read) + 1]
  IN /\ run.pc = "copy" /\ Len(run.read) < RangeOf(NextSlice).size
     /\ \E byte \in {right} \cup (IF slices[NextSlice] = "forged" THEN {0} ELSE {}) :
          /\ run' = [run EXCEPT !.read = Append(run.read, byte)]
          /\ partial' = IF Attached
                        THEN [partial EXCEPT !.bytes =
                                WriteAt(@, Boundary(run.count) + Len(run.read), byte)]
                        ELSE partial
     /\ UNCHANGED <<package, output, place, sullied, record, others, runs, outcome, stranded>>

\* The bytes that were read have the slice's hash.
SliceMatches == run.read = SliceBytes(NextSlice)

\* A faulty cut: one slice too many.
CutToPrevious == IF run.count = 0 THEN 0 ELSE Boundary(run.count - 1)
CutTo == Boundary(run.count)

\* A slice that does not match, or an error on the way: the partial is cut
\* at the boundary before it.
CutBack ==
  /\ run.pc = "copy"
  /\ run' = Failing
  /\ outcome' \in (IF Len(run.read) = RangeOf(NextSlice).size /\ ~SliceMatches
                   THEN {"refused"} ELSE {"failed"})
  /\ partial' = IF Attached THEN [partial EXCEPT !.bytes = SetLen(@, CutTo)]
                ELSE partial
  /\ UNCHANGED <<package, output, place, sullied, record, others, runs, stranded>>

\* The slice is synced, then its boundary is recorded.
RecordedBoundary ==
  [record EXCEPT !.count = NextSlice, !.bytes = Boundary(NextSlice)]

SliceBoundary ==
  /\ run.pc = "copy" /\ Len(run.read) = RangeOf(NextSlice).size /\ SliceMatches
  /\ Event(RecordedBoundary, [run EXCEPT !.pc = "slice", !.count = NextSlice])

-----------------------------------------------------------------------------
(* The end: the whole is hashed and the package checked again; then the    *)
(* partial becomes the output.                                             *)

\* The partial is read through the run's handle.
AllWhole ==
  /\ Attached => partial.bytes = Original
  /\ MembersUnchanged /\ DestinationHeld

FinalHash ==
  /\ run.count = Count
  /\ \/ /\ run.pc = "slice" /\ AllWhole
        /\ Goto("staged")
        /\ UNCHANGED <<package, files, record, others, runs, outcome, stranded>>
     \/ Refused("slice", AllWhole)

\* A faulty check: whatever has the name is published.
StagedByName == partial # NoFile

\* finalize_staged_output: the partial is the file that was created and has
\* the hash of the original.
Staged == partial = [id |-> run.id, bytes |-> Original]

CheckStaged ==
  \/ /\ run.pc = "staged" /\ Staged
     /\ Goto("checked") /\ sullied' = sullied \ {"partial"}
     /\ UNCHANGED <<package, output, partial, place, record, others, runs, outcome, stranded>>
  \/ Refused("staged", Staged)

\* atomic_rename_no_replace, of whatever has the partial's name now.
Renamable == partial # NoFile /\ output = NoFile

Rename ==
  \/ /\ run.pc = "checked" /\ Renamable
     /\ output' = partial /\ partial' = NoFile
     /\ sullied' = IF "partial" \in sullied THEN {"output"} ELSE {}
     /\ Goto("renamed")
     /\ UNCHANGED <<package, place, record, others, runs, outcome, stranded>>
  \/ Refused("checked", Renamable)

\* The output is read again under its final name.
Published == output = [id |-> run.id, bytes |-> Original] /\ DestinationHeld

\* The write of this event may fail: the token is cancelled too late.
RecordPublished ==
  \/ /\ run.pc = "renamed" /\ Published
     /\ Goto("end") /\ sullied' = sullied \ {"output"}
     /\ record' \in {[record EXCEPT !.published = TRUE]} \cup
                    (IF StoreFaults /\ caller = "desktop" THEN {record} ELSE {})
     /\ UNCHANGED <<package, output, partial, place, others, runs, outcome, stranded>>
  \/ Refused("renamed", Published)

Succeed ==
  /\ run.pc = "end"
  /\ run' = Stopped /\ outcome' = "success"
  /\ UNCHANGED <<package, files, record, others, runs, stranded>>

-----------------------------------------------------------------------------
(* Failures, cleanup, others.                                              *)

\* The cleanup of a command, the removal of a desktop task.
CleaningUp == run.pc \in {"cleanup", "cleanOwned"}
Removing == run.pc \in {"removeOwned", "removeRow"}

\* An I/O error or a cancellation outside the copy of a slice; at the end
\* an output error of the command, or a failed write of the task's result.
Fail ==
  /\ Running /\ run.pc # "copy" /\ ~CleaningUp /\ ~Removing
  /\ run' = Failing /\ outcome' = "failed"
  /\ UNCHANGED <<package, files, record, others, runs, stranded>>

Crash ==
  /\ Running /\ ~Removing
  /\ run' = Stopped /\ outcome' = "crashed"
  /\ record' = IF caller = "cli" THEN NoRecord ELSE record
  /\ UNCHANGED <<package, files, others, runs, stranded>>

\* The partial has the identity that was recorded.
Owned == partial.id = record.id

\* MergeArtifactTracker::cleanup, of a command that failed.  A partial that
\* is missing, is not the command's own or cannot be opened stays.
CleanUpCompare ==
  /\ run.pc = "cleanup"
  /\ \/ /\ record.known /\ ~record.published /\ Owned
        /\ Goto("cleanOwned") /\ record' = record
     \/ run' = Stopped /\ record' = NoRecord
  /\ UNCHANGED <<package, files, others, runs, outcome, stranded>>

\* The removal goes by name; its failure is ignored.
CleanUpRemove ==
  /\ run.pc = "cleanOwned"
  /\ partial' \in {partial, NoFile}
  /\ run' = Stopped /\ record' = NoRecord
  /\ UNCHANGED <<package, output, place, sullied, others, runs, outcome, stranded>>

\* remove_task of a desktop task: cleanup_incomplete compares the partial and
\* removes it by name, then the row goes.  A partial replaced by others keeps
\* the row.
RemoveTask ==
  /\ caller = "desktop" /\ ~Running /\ outcome \notin {"none", "success", "removed"}
  /\ IF ~record.known \/ partial = NoFile THEN Goto("removeRow")
                                         ELSE Owned /\ Goto("removeOwned")
  /\ UNCHANGED <<package, files, record, runs, outcome, others, stranded>>

RemoveOwned ==
  /\ run.pc = "removeOwned" /\ partial # NoFile
  /\ partial' = NoFile
  /\ Goto("removeRow")
  /\ UNCHANGED <<package, output, place, sullied, record, runs, outcome, others, stranded>>

RemoveRow ==
  /\ run.pc = "removeRow"
  /\ run' = Stopped /\ record' = NoRecord /\ outcome' = "removed"
  /\ UNCHANGED <<package, files, runs, others, stranded>>

\* The partial cannot be removed, the row cannot be deleted, or the process
\* dies: the row stays as it was.
RemovalStops ==
  /\ Removing /\ run' = Stopped
  /\ UNCHANGED <<package, files, record, runs, outcome, others, stranded>>

\* What others make of a file: they remove it, put theirs in its place, or
\* write to it.
Tampered(file) ==
  {NoFile, Foreign} \cup
  {[file EXCEPT !.bytes = bytes] :
     bytes \in {[k \in DOMAIN file.bytes |-> 0], Append(file.bytes, 0),
                SubSeq(file.bytes, 1, Len(file.bytes) - 1)}}

ChangePackage ==
  /\ \/ \E k \in 1..Count, state \in SliceStates :
          slices' = [slices EXCEPT ![k] = state] /\ UNCHANGED manifest
     \/ manifest' \in ManifestStates /\ UNCHANGED slices
  /\ UNCHANGED <<files, caller, plan>>

ChangeFile ==
  /\ \/ /\ output' \in Tampered(output) \ {output} /\ UNCHANGED partial
        /\ sullied' = sullied \cup {"output"}
     \/ /\ partial' \in Tampered(partial) \ {partial} /\ UNCHANGED output
        /\ sullied' = sullied \cup {"partial"}
  /\ UNCHANGED <<package, place>>

ReplaceDestination ==
  /\ place = 1 /\ place' = 2
  /\ output' = NoFile /\ partial' = NoFile
  /\ sullied' = {"output", "partial"}
  /\ UNCHANGED package

Others ==
  /\ others < MaxOthers
  /\ others' = others + 1
  /\ ChangePackage \/ ChangeFile \/ ReplaceDestination
  /\ UNCHANGED <<record, run, runs, outcome, stranded>>

-----------------------------------------------------------------------------
Recover == Preflight \/ Inspect \/ CheckOutput \/ Reopen \/ Create \/ RecordPartial
Produce == \/ OpenSlice \/ WriteBytes \/ CutBack \/ SliceBoundary \/ FinalHash
           \/ CheckStaged \/ Rename \/ RecordPublished
CleanUp == CleanUpCompare \/ CleanUpRemove
Removal == RemoveTask \/ RemoveOwned \/ RemoveRow \/ RemovalStops
End == Succeed \/ Fail \/ Crash \/ CleanUp \/ Removal

Next == Begin \/ Recover \/ Produce \/ End \/ Others

Spec == Init /\ [][Next]_vars

-----------------------------------------------------------------------------
ByteValues == 0..plan.total
TypeOK ==
  /\ caller \in Callers /\ plan \in Plans
  /\ slices \in [1..Count -> SliceStates] /\ manifest \in ManifestStates
  /\ output.id \in 0..MaxRuns /\ \A k \in DOMAIN output.bytes : output.bytes[k] \in ByteValues
  /\ partial.id \in 0..MaxRuns /\ \A k \in DOMAIN partial.bytes : partial.bytes[k] \in ByteValues
  /\ place \in {1, 2}
  /\ record.count \in 0..Count /\ record.bytes \in 0..plan.total
  /\ run.count \in 0..Count /\ runs \in 0..MaxRuns /\ others \in 0..MaxOthers
  /\ sullied \subseteq {"output", "partial"}
  /\ outcome \in {"none", "success", "failed", "refused", "crashed", "removed"}

\* An output that a merge published has exactly the bytes of the original
\* file, whatever the package, the partial and the destination went through
\* before its last check: crashes in the middle of a slice, resumes, slices
\* changed behind the binding, a partial others wrote to.  The exception is
\* what others write after the file was read for the last time: to the
\* partial between its check and its renaming (such an output stays when the
\* run that checks it again refuses it), or to the output itself.
OutputWhole ==
  output.id # 0 /\ "output" \notin sullied => output.bytes = Original

\* The checkpoint never runs ahead of the partial: as long as others leave
\* the partial alone, the bytes up to the recorded boundary are in it, and
\* are right, also after a crash, an error in a slice or a resume.
BoundaryHolds ==
  /\ record.known => record.bytes = Boundary(record.count)
  /\ record.known /\ partial.id = record.id /\ "partial" \notin sullied =>
       IsPrefixOf(OriginalTo(record.bytes), partial.bytes)

\* A desktop merge whose files nobody else changes is refused only if its run
\* began in one of three states: a crash or a failed write lost the record of
\* its partial just after its creation; the removal of the task ended between
\* its partial and its row; or the output is published already, by a run that
\* crashed or failed before it could report its success.  From every other
\* point the merge is resumed.
RefusedOnlyStranded ==
  caller = "desktop" /\ outcome = "refused" /\ others = 0 => stranded

\* The slices of every plan cut the file, also of an empty file and of sizes
\* that do not divide the length (planned_slice_range, validate).
PlanCutsFile == PlanCuts(plan.total, plan.size)

\* Both callers' merges publish the output atomically, as stated in
\* AtomicPublication.
Output ==
  IF output.id = 0 THEN "none" ELSE IF output.bytes = Original THEN "whole" ELSE "spoiled"
Report ==
  IF outcome = "success" THEN "success" ELSE IF outcome = "none" THEN "pending" ELSE "failed"

Publication == INSTANCE AtomicPublication WITH result <- Output, report <- Report
MergeIsAtomic == Publication!Spec
=============================================================================
