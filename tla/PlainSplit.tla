----------------------------- MODULE PlainSplit -----------------------------
(***************************************************************************)
(* The split of one file without recovery (split_file_with_progress): one  *)
(* call, which hashes the source, stages every slice and the manifest      *)
(* under a partial name, publishes them one after the other, compares the  *)
(* source once more, and takes everything back if it has changed.          *)
(*                                                                         *)
(* Items 1..N are the slices and item N + 1 is the manifest.  A file is    *)
(* known by its native identity, 1 for a file of this call and 0 for any   *)
(* other.  The hash of a file is its data.  The token may be cancelled, an *)
(* operation may fail and the process may die between any two steps; at    *)
(* any time others may change a file of the destination or the source.     *)
(***************************************************************************)
EXTENDS SlicePlan

CONSTANTS
  Total, SliceSize,  \* the length of the source and the slice size asked for
  Contents,          \* what the source may hold; versions differ everywhere
  MaxOthers,         \* bound: changes made by others
  RemoveFaults       \* whether the removal of a published file may fail

N == ExpectedSliceCount(Total, SliceSize)
Manifest == N + 1
Items == 1..Manifest

ASSUME ConstantsAssumption ==
  /\ Total \in Nat /\ SliceSize \in Nat \ {0}
  /\ PlanAccepted(Total, SliceSize)
  /\ Contents # {} /\ Contents \cap {"none", "torn", "foreign"} = {}
  /\ MaxOthers \in Nat /\ RemoveFaults \in BOOLEAN

VARIABLES
  disk,     \* the file at each final and partial name of the destination
  source,   \* content, and stamp: identity, length and times
  run,      \* the call: program counter and local variables
  outcome,  \* what the call returned, "none" while it has not
  others,   \* history: number of changes made by others
  sullied,  \* history: items others changed since the call compared them
  kept,     \* history: items the rollback could not remove
  raced     \* history: others changed the file that was just compared

vars == <<disk, source, run, outcome, others, sullied, kept, raced>>

NoFile == [id |-> 0, data |-> "none"]
Foreign == [id |-> 0, data |-> "foreign"]
Own(data) == [id |-> 1, data |-> data]
Names == Items \X {"final", "partial"}
Final(i) == <<i, "final">>
Partial(i) == <<i, "partial">>
Files == {NoFile} \cup [id : {0, 1}, data : Contents \cup {"torn", "foreign"}]

Init ==
  /\ disk = [name \in Names |-> NoFile]
  /\ source \in [content : Contents, stamp : {0}]
  /\ run = [pc |-> "idle", item |-> 1, stamp |-> 0, baseline |-> "none",
            data |-> [i \in Items |-> "none"]]
  /\ outcome = "none" /\ others = 0 /\ sullied = {} /\ kept = {} /\ raced = FALSE

Absent(name) == disk[name] = NoFile
SourceUnchanged == source.stamp = run.stamp
Running == run.pc # "idle"

Goto(pc) == run' = [run EXCEPT !.pc = pc] /\ outcome' = outcome
Return(result) == run' = [run EXCEPT !.pc = "idle"] /\ outcome' = result
History == UNCHANGED <<others, sullied, kept, raced>>

-----------------------------------------------------------------------------
(* The preparation.                                                        *)

Open ==
  /\ ~Running /\ outcome = "none"
  /\ run' = [run EXCEPT !.pc = "opened", !.stamp = source.stamp]
  /\ UNCHANGED <<disk, source, outcome>> /\ History

\* ensure_absent of every name of the package.
CheckNames ==
  /\ run.pc = "opened"
  /\ IF \A name \in Names : Absent(name) THEN Goto("named") ELSE Return("failed")
  /\ UNCHANGED <<disk, source>> /\ History

\* ensure_source_unchanged; a source that cannot be read counts as changed.
\* A file without slices goes on to the end of the loop over them.
AfterCheck ==
  [named |-> "bound", hashed |-> IF N = 0 THEN "streamed" ELSE "next", staged |-> "publish"]
CheckSource ==
  /\ run.pc \in DOMAIN AfterCheck
  /\ (SourceUnchanged /\ Goto(AfterCheck[run.pc])) \/ Return("changed")
  /\ UNCHANGED <<disk, source>> /\ History

HashSource ==
  /\ run.pc = "bound"
  /\ run' = [run EXCEPT !.pc = "hashed", !.baseline = source.content]
  /\ UNCHANGED <<disk, source, outcome>> /\ History

-----------------------------------------------------------------------------
(* Every slice is staged, then the manifest.                               *)

\* create_new
CreatePartial ==
  /\ run.pc = "next"
  /\ IF Absent(Partial(run.item))
     THEN disk' = [disk EXCEPT ![Partial(run.item)] = Own("torn")] /\ Goto("copy")
     ELSE Return("failed") /\ UNCHANGED disk
  /\ UNCHANGED source /\ History

\* The bytes go through the handle, to the file of this call, wherever it is
\* now.  A source that has become shorter counts as changed.
Copy ==
  LET i == run.item
      data == IF i = Manifest THEN run.baseline ELSE source.content
  IN /\ run.pc = "copy"
     /\ \/ /\ disk' = [disk EXCEPT ![Partial(i)].data =
                         IF disk[Partial(i)].id = 1 THEN data ELSE @]
           /\ run' = [run EXCEPT
                        !.pc = IF i < N THEN "next" ELSE IF i = N THEN "streamed" ELSE "staged",
                        !.item = IF i < N THEN i + 1 ELSE IF i = N THEN i ELSE 1,
                        !.data[i] = data]
           /\ outcome' = outcome
        \/ i # Manifest /\ Return("changed") /\ UNCHANGED disk
     /\ UNCHANGED source /\ History

\* A faulty comparison: the last slice only.
StreamedLast == run.data[N] = run.baseline

\* After the last slice: nothing is left to read, the source is unchanged,
\* and what was read is what was hashed before.
StreamedBaseline == \A i \in 1..N : run.data[i] = run.baseline

CheckStream ==
  /\ run.pc = "streamed"
  /\ \/ /\ SourceUnchanged /\ StreamedBaseline
        /\ run' = [run EXCEPT !.pc = "next", !.item = Manifest]
        /\ outcome' = outcome
     \/ Return("changed")
  /\ UNCHANGED <<disk, source>> /\ History

-----------------------------------------------------------------------------
(* The publication: finalize_staged_output of each item in turn.           *)

Staged(name) == disk[name] = Own(run.data[run.item])

\* The partial is the file that was staged, with the data written to it.
CheckStaged ==
  /\ run.pc = "publish"
  /\ \/ /\ Staged(Partial(run.item)) /\ Goto("checked")
        /\ sullied' = sullied \ {run.item} /\ raced' = FALSE
     \/ /\ ~Staged(Partial(run.item)) /\ Return("failed")
        /\ UNCHANGED <<sullied, raced>>
  /\ UNCHANGED <<disk, source, others, kept>>

\* atomic_rename_no_replace, of whatever the partial name is now.
Rename ==
  /\ run.pc = "checked"
  /\ IF ~Absent(Partial(run.item)) /\ Absent(Final(run.item))
     THEN /\ disk' = [disk EXCEPT ![Final(run.item)] = disk[Partial(run.item)],
                                  ![Partial(run.item)] = NoFile]
          /\ Goto("renamed")
     ELSE Return("failed") /\ UNCHANGED disk
  /\ UNCHANGED source /\ History

\* The final file is read again.
Verify ==
  /\ run.pc = "renamed"
  /\ \/ /\ Staged(Final(run.item))
        /\ run' = IF run.item = Manifest THEN [run EXCEPT !.pc = "published"]
                  ELSE [run EXCEPT !.pc = "publish", !.item = run.item + 1]
        /\ outcome' = outcome /\ sullied' = sullied \ {run.item}
     \/ ~Staged(Final(run.item)) /\ Return("failed") /\ sullied' = sullied
  /\ UNCHANGED <<disk, source, others, kept, raced>>

\* The source is compared a last time.
Conclude ==
  /\ run.pc = "published"
  /\ \/ SourceUnchanged /\ Return("success")
     \/ run' = [run EXCEPT !.pc = "rollback", !.item = Manifest] /\ outcome' = outcome
  /\ UNCHANGED <<disk, source>> /\ History

-----------------------------------------------------------------------------
(* rollback_owned_published_outputs: the last published item first.        *)

\* A faulty rollback: it stops before the first item.
RolledShort == IF run.item <= 2 THEN [run EXCEPT !.pc = "idle"]
               ELSE [run EXCEPT !.pc = "rollback", !.item = run.item - 1]
\* A faulty rollback: it goes on below the first item.
RolledPast == IF run.item = 0 THEN [run EXCEPT !.pc = "idle"]
              ELSE [run EXCEPT !.pc = "rollback", !.item = run.item - 1]
RolledBack == IF run.item = 1 THEN [run EXCEPT !.pc = "idle"]
              ELSE [run EXCEPT !.pc = "rollback", !.item = run.item - 1]

GoOnBack ==
  /\ run' = RolledBack
  /\ outcome' = IF run'.pc = "idle" THEN "changed" ELSE outcome

\* A faulty comparison: whatever is there was published here.
OwnedByName == ~Absent(Final(run.item))
Owned == disk[Final(run.item)].id = 1

\* A file that cannot be opened, or is not the one published, is passed over.
CheckOwned ==
  /\ run.pc = "rollback"
  /\ \/ Owned /\ Goto("owned") /\ raced' = FALSE /\ kept' = kept
     \/ ~Owned /\ GoOnBack /\ UNCHANGED <<raced, kept>>
     \/ RemoveFaults /\ GoOnBack /\ kept' = kept \cup {run.item} /\ raced' = raced
  /\ UNCHANGED <<disk, source, others, sullied>>

\* The removal goes by name; its failure is ignored.
RemoveOwned ==
  /\ run.pc = "owned" /\ GoOnBack
  /\ \/ disk' = [disk EXCEPT ![Final(run.item)] = NoFile] /\ kept' = kept
     \/ RemoveFaults /\ kept' = kept \cup {run.item} /\ disk' = disk
  /\ UNCHANGED <<source, others, sullied, raced>>

-----------------------------------------------------------------------------
(* What else may end the call, and others.                                 *)

\* An I/O error or a cancellation, which is checked before each slice, each
\* publication and each read; not once everything is published.
Fail ==
  /\ Running /\ run.pc \notin {"published", "rollback", "owned"}
  /\ Return("failed")
  /\ UNCHANGED <<disk, source>> /\ History

Crash ==
  /\ Running /\ Return("crashed")
  /\ UNCHANGED <<disk, source>> /\ History

\* The file a decision was just made about, which the next step carries out.
JustCompared ==
  CASE run.pc = "owned" -> Final(run.item)
    [] run.pc = "checked" -> Partial(run.item)
    [] OTHER -> <<0, "none">>

\* A name gets a file of others, loses its file, or its file is written to.
ChangeFile(name) ==
  /\ disk' \in {[disk EXCEPT ![name] = file] :
                  file \in {NoFile, Foreign, [disk[name] EXCEPT !.data = "foreign"]}}
  /\ disk' # disk
  /\ sullied' = sullied \cup {name[1]}
  /\ raced' = (raced \/ name = JustCompared)
  /\ source' = source

ChangeSource ==
  /\ source' \in [content : Contents, stamp : {0, 1}] \ {source}
  /\ UNCHANGED <<disk, sullied, raced>>

Others ==
  /\ others < MaxOthers /\ others' = others + 1
  /\ (\E name \in Names : ChangeFile(name)) \/ ChangeSource
  /\ UNCHANGED <<run, outcome, kept>>

Returned == ~Running /\ outcome # "none" /\ UNCHANGED vars

Next ==
  \/ Open \/ CheckNames \/ CheckSource \/ HashSource
  \/ CreatePartial \/ Copy \/ CheckStream
  \/ CheckStaged \/ Rename \/ Verify \/ Conclude
  \/ CheckOwned \/ RemoveOwned
  \/ Fail \/ Crash \/ Others \/ Returned

Spec == Init /\ [][Next]_vars

-----------------------------------------------------------------------------
TypeOK ==
  /\ disk \in [Names -> Files]
  /\ source \in [content : Contents, stamp : {0, 1}]
  /\ run.item \in Items /\ run.stamp \in {0, 1}
  /\ run.data \in [Items -> Contents \cup {"none"}]
  /\ run.baseline \in Contents \cup {"none"}
  /\ outcome \in {"none", "success", "failed", "changed", "crashed"}
  /\ others \in 0..MaxOthers /\ sullied \subseteq Items /\ kept \subseteq Items

\* Wherever the manifest of this call is, every slice is there with the
\* content whose hash the manifest names: after a cancellation between the
\* last rename and its verification, in the middle of a rollback, after a
\* crash, whatever happened to the source meanwhile.  Items that others
\* touched since the call compared them are excepted, and so is a manifest
\* the rollback could not remove (split_file_with_progress,
\* rollback_owned_published_outputs).
ManifestMeansWhole ==
  LET m == disk[Final(Manifest)]
  IN m.id = 1 /\ Manifest \notin sullied \cup kept =>
       /\ m.data \in Contents
       /\ \A i \in 1..N \ sullied : disk[Final(i)] = Own(m.data)

\* A call that reports a changed source leaves only incomplete outputs: no
\* file of its own is at a final name, wherever the change was noticed, but
\* for those whose removal failed.
ChangedLeavesPartials ==
  outcome = "changed" => \A i \in Items \ kept : disk[Final(i)].id = 0

\* No step of the call changes, replaces or removes a file that is not its
\* own; the one exception is a file that took the place of the call's own
\* after the comparison and before the removal or the publication it
\* decides, which go by name.
ForeignUntouched ==
  [][others' = others =>
       \A name \in Names :
         disk[name].id = 0 /\ ~Absent(name) =>
           disk'[name] = disk[name] \/ (raced /\ name = JustCompared)]_vars
=============================================================================
