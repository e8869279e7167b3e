--------------------------- MODULE ResumableSplit ---------------------------
(***************************************************************************)
(* The split of one file into a package, its recovery after a crash or a   *)
(* failure, and its cleanup (resumable.rs), run by the desktop engine,     *)
(* which keeps the checkpoint in the task's row (engine.rs), or by the     *)
(* command line, which keeps a list of its files in memory (cli/lib.rs).   *)
(*                                                                         *)
(* Items 1..N are the slices and item N + 1 is the manifest.  Each has a   *)
(* final name and a partial name, which carries the task's id.  A file is  *)
(* known by its native identity, here the number of the run that created   *)
(* it, 0 for a file of others.  The hash of a file is its data.            *)
(* Between any two steps the process may crash, an operation may fail,     *)
(* and others may change the source, a file or the destination.  A file is *)
(* removed, or renamed, by its name, in a step of its own after the one    *)
(* that compares it: others may exchange it in between.                    *)
(***************************************************************************)
EXTENDS SlicePlan, SequencesExt

CONSTANTS
  Total, SliceSize,  \* the length of the source and the slice size asked for
  Callers,           \* who may split: "desktop", "cli"
  Contents,          \* what the source may hold; versions differ everywhere
  MaxRuns,           \* bound: times the task is started
  MaxOthers,         \* bound: changes made by others
  StoreFaults        \* whether writing a checkpoint may fail

N == ExpectedSliceCount(Total, SliceSize)
Manifest == N + 1
Items == 1..Manifest
Runs == 1..MaxRuns

ASSUME ConstantsAssumption ==
  /\ Total \in Nat /\ SliceSize \in Nat \ {0}
  /\ PlanAccepted(Total, SliceSize)
  /\ Callers \subseteq {"desktop", "cli"}
  /\ MaxRuns \in Nat \ {0} /\ MaxOthers \in Nat
  /\ StoreFaults \in BOOLEAN
  /\ Contents # {} /\ Contents \cap {"none", "torn", "foreign"} = {}

VARIABLES
  caller,   \* who splits; it never changes
  disk,     \* the file at each final and partial name of the destination
  place,    \* the identity of the destination directory
  source,   \* content, and stamp: identity, length and modification time
  record,   \* the checkpoint: on disk for the desktop, in memory for the cli
  run,      \* the running split: program counter and local variables
  runs,     \* number of the last run
  outcome,  \* of the last run; "removed" when the task's row is gone
  others,   \* history: number of changes made by others
  sullied,  \* history: finals others changed since a run validated them
  stranded, \* history: the last run began in a state it cannot recover from
  raced     \* history: others changed the file that was just compared

vars == <<caller, disk, place, source, record, run, runs, outcome, others, sullied, stranded,
          raced>>

NoFile == [id |-> 0, data |-> "none"]
Foreign == [id |-> 0, data |-> "foreign"]
Data == Contents \cup {"torn", "foreign"}
Files == {NoFile} \cup [id : 0..MaxRuns, data : Data]
Names == Items \X {"final", "partial"}
Final(i) == <<i, "final">>
Partial(i) == <<i, "partial">>

NoActive == [item |-> 0, id |-> 0]
NoRecord == [known |-> FALSE, stamp |-> 0, place |-> 0, baseline |-> "none",
             completed |-> <<>>, active |-> NoActive, published |-> FALSE]
Stopped == [pc |-> "idle", item |-> 0, data |-> "none",
            stamp |-> 0, place |-> 0, baseline |-> "none", completed |-> <<>>]

Running == run.pc # "idle"
Absent(name) == disk[name] = NoFile
DestinationHeld == place = run.place
SourceUnchanged == source.stamp = run.stamp

Entry(i) == [id |-> disk[Final(i)].id, data |-> disk[Final(i)].data]

\* hash_range: any range of the source, as it is now.
RangeHash == source.content

\* validate_completed_slices: each recorded slice has its file, its identity
\* and its hash, and the source still has that hash in the slice's range.
ValidCompleted(completed) ==
  /\ Len(completed) <= N
  /\ \A i \in DOMAIN completed :
       Entry(i) = completed[i] /\ completed[i].data = RangeHash

\* The hash of all recorded slices together is the baseline.
HasBaseline(completed) == \A i \in DOMAIN completed : completed[i].data = run.baseline

\* validate_recovered_manifest: it lists the recorded slices under the
\* baseline of this run, and its package verifies.
ValidManifest(completed) ==
  /\ Len(completed) = N
  /\ disk[Final(Manifest)].data = run.baseline
  /\ \A i \in 1..N : disk[Final(i)].data = completed[i].data

-----------------------------------------------------------------------------
(* The start of a run.                                                     *)

Init ==
  /\ caller \in Callers
  /\ disk = [name \in Names |-> NoFile]
  /\ place = 1
  /\ source \in [content : Contents, stamp : {0}]
  /\ record = NoRecord /\ run = Stopped /\ runs = 0
  /\ outcome = "none" /\ others = 0 /\ sullied = {} /\ stranded = FALSE /\ raced = FALSE

\* A file of the task that its record does not name, or a record that names
\* a partial of which there is neither the partial nor the final file.
Stranded ==
  \/ \E i \in Items : disk[Partial(i)].id # 0
                      /\ record.active # [item |-> i, id |-> disk[Partial(i)].id]
  \/ /\ record.active # NoActive
     /\ Absent(Partial(record.active.item)) /\ Absent(Final(record.active.item))

\* The partial names of a process that crashed carry another task id, so a
\* new command never meets them.
NamesSeen ==
  [name \in Names |-> IF caller = "cli" /\ name[2] = "partial" /\ disk[name].id # 0
                      THEN NoFile ELSE disk[name]]

\* The source is bound and hashed, the destination is bound.  A preflight of
\* the desktop may refuse a changed source or destination before: such a task
\* does not run, here it runs and is refused by SameTask.
Begin ==
  /\ ~Running /\ runs < MaxRuns /\ outcome \notin {"success", "removed"}
  /\ runs' = runs + 1
  /\ run' = [Stopped EXCEPT !.pc = IF record.known THEN "bound" ELSE "fresh",
                            !.stamp = source.stamp, !.baseline = source.content,
                            !.place = place, !.completed = record.completed]
  /\ disk' = NamesSeen
  /\ stranded' = (caller = "desktop" /\ Stranded)
  /\ outcome' = "none"
  /\ UNCHANGED <<caller, place, source, record, others, sullied>>

\* The checkpoint is of this source, this content and this destination.
SameTask ==
  /\ record.stamp = run.stamp /\ record.place = run.place
  /\ record.baseline = run.baseline

\* The names of the package must be free before anything is created.
NamesFree == \A name \in Names \ {Partial(Manifest)} : Absent(name)

-----------------------------------------------------------------------------
(* What a step leaves, and what it writes to the checkpoint.               *)

Goto(pc) == run' = [run EXCEPT !.pc = pc]

\* The command's cleanup, the desktop's failed row: where a run that fails
\* goes on.
Failing == IF caller = "cli" THEN [run EXCEPT !.pc = "cleanup"] ELSE Stopped

\* An event is written, and the run goes on; or, for a desktop task, the
\* write fails and cancels the token, which the run sees before it creates
\* or publishes another file.
Event(new, next) ==
  /\ \/ record' = new /\ run' = next /\ outcome' = outcome
     \/ /\ StoreFaults /\ caller = "desktop"
        /\ record' = record /\ run' = Stopped /\ outcome' = "failed"
  /\ UNCHANGED <<caller, disk, place, source, others, sullied, runs, stranded>>

RecordedBaseline ==
  [NoRecord EXCEPT !.known = TRUE, !.stamp = run.stamp, !.place = run.place,
                   !.baseline = run.baseline]
\* A faulty record: it counts a slice as completed when its copy begins.
RecordedAhead(i) ==
  [record EXCEPT !.completed = Append(record.completed, [id |-> runs, data |-> source.content])]
RecordedPartial(i) == [record EXCEPT !.active = [item |-> i, id |-> runs]]
RecordedSlice(entry) ==
  [record EXCEPT !.active = NoActive, !.completed = Append(record.completed, entry)]
RecordedManifest == [record EXCEPT !.active = NoActive, !.published = TRUE]

\* The disjunct in which a check of the code refuses to go on.
Refused(pc, condition) ==
  /\ run.pc = pc /\ ~condition
  /\ run' = Failing /\ outcome' = "refused"
  /\ UNCHANGED <<caller, disk, place, source, record, others, sullied, runs, stranded>>

-----------------------------------------------------------------------------
(* Recovery.                                                               *)

Baseline ==
  \/ /\ run.pc = "fresh" /\ DestinationHeld /\ NamesFree
     /\ Event(RecordedBaseline, [run EXCEPT !.pc = "next"])
  \/ Refused("fresh", DestinationHeld /\ NamesFree)

\* A resumed run compares the checkpoint and looks for an active partial.
CheckResume ==
  \/ /\ run.pc = "bound" /\ SameTask
     /\ Goto(IF record.active # NoActive THEN "recover" ELSE "recovered")
     /\ UNCHANGED <<caller, disk, place, source, record, others, sullied, runs, outcome, stranded>>
  \/ Refused("bound", SameTask)

Active == record.active

\* A faulty comparison: whatever has the name is taken for the recorded file.
OwnedByName(name, id) == ~Absent(name)

\* remove_owned_partial, remove_owned_incomplete_file: the file that has the
\* name is the one that was recorded.
Owned(name, id) == disk[name].id = id

\* The partial is there: it may be removed when it is the recorded one.
Removable == Owned(Partial(Active.item), Active.id)

ComparePartial ==
  /\ run.pc = "recover" /\ ~Absent(Partial(Active.item))
  /\ \/ /\ DestinationHeld /\ Removable
        /\ Goto("unlink")
        /\ UNCHANGED <<caller, disk, place, source, record, others, sullied, runs, outcome,
                       stranded>>
     \/ Refused("recover", DestinationHeld /\ Removable)

\* The removal goes by name; when there is nothing to remove it fails.
RemovePartial ==
  /\ run.pc = "unlink" /\ ~Absent(Partial(Active.item))
  /\ disk' = [disk EXCEPT ![Partial(Active.item)] = NoFile]
  /\ Goto("clear")
  /\ UNCHANGED <<caller, place, source, record, others, sullied, runs, outcome, stranded>>

ClearPartial ==
  /\ run.pc = "clear"
  /\ Event([record EXCEPT !.active = NoActive], [run EXCEPT !.pc = "recovered"])

\* A faulty adoption: an off-by-one in the item that may be adopted.
AdoptableLast ==
  Active.item = Len(run.completed) /\ disk[Final(Active.item)].id = Active.id

\* The partial is gone: its final file must be the recorded one.
Adoptable ==
  /\ Active.item = Len(run.completed) + 1
  /\ disk[Final(Active.item)].id = Active.id
  /\ IF Active.item <= N
     THEN disk[Final(Active.item)].data = RangeHash
     ELSE /\ ValidCompleted(run.completed) /\ HasBaseline(run.completed)
          /\ ValidManifest(run.completed) /\ SourceUnchanged /\ DestinationHeld

AdoptSlice ==
  /\ run.pc = "recover" /\ Absent(Partial(Active.item)) /\ Active.item <= N
  /\ Adoptable
  /\ LET entry == Entry(Active.item)
     IN Event(RecordedSlice(entry),
              [run EXCEPT !.pc = "recovered", !.completed = Append(run.completed, entry)])

AdoptManifest ==
  /\ run.pc = "recover" /\ Absent(Partial(Active.item)) /\ Active.item = Manifest
  /\ Adoptable
  /\ run' = [run EXCEPT !.pc = "end"]
  /\ record' \in {RecordedManifest} \cup
                 (IF StoreFaults THEN {record} ELSE {})
  /\ sullied' = {}
  /\ UNCHANGED <<caller, disk, place, source, others, runs, outcome, stranded>>

RefuseAdoption ==
  /\ run.pc = "recover" /\ Absent(Partial(Active.item))
  /\ Refused("recover", Adoptable)

\* The checkpoint is repaired: either the package is complete, or the slices
\* it names are as recorded and the work goes on after them.
Recovered ==
  IF ~Absent(Final(Manifest))
  THEN /\ DestinationHeld /\ record.published
       /\ ValidCompleted(run.completed) /\ HasBaseline(run.completed)
       /\ ValidManifest(run.completed) /\ SourceUnchanged
  ELSE /\ DestinationHeld /\ ValidCompleted(run.completed)
       /\ Len(run.completed) = N => HasBaseline(run.completed)

GoOn ==
  \/ /\ run.pc = "recovered" /\ Recovered
     /\ Goto(IF Absent(Final(Manifest)) THEN "next" ELSE "end")
     /\ sullied' = IF Absent(Final(Manifest)) THEN sullied ELSE {}
     /\ UNCHANGED <<caller, disk, place, source, record, others, runs, outcome, stranded>>
  \/ Refused("recovered", Recovered)

-----------------------------------------------------------------------------
(* One slice after the other, then the manifest.                           *)

\* A faulty loop: it ends before the last slice.
NextExclusive == IF Len(run.completed) + 1 >= N THEN Manifest ELSE Len(run.completed) + 1
NextItem == Len(run.completed) + 1

\* A faulty verification: only the source is read again.
SourceWhole == source.content = run.baseline /\ SourceUnchanged /\ DestinationHeld

\* After the last slice: the source has its baseline again, and every slice
\* has the baseline's data.
AllWhole ==
  /\ source.content = run.baseline /\ SourceUnchanged
  /\ ValidCompleted(run.completed) /\ HasBaseline(run.completed) /\ DestinationHeld

VerifyAll ==
  \/ /\ run.pc = "next" /\ NextItem = Manifest /\ AllWhole
     /\ Goto("verified")
     /\ sullied' = sullied \ (1..N)
     /\ UNCHANGED <<caller, disk, place, source, record, others, runs, outcome, stranded>>
  \/ /\ NextItem = Manifest /\ Refused("next", AllWhole)

\* ensure_absent of both names of a slice, of the partial of the manifest.
MayCreate(i) ==
  DestinationHeld /\ Absent(Partial(i)) /\ (i <= N => Absent(Final(i)))

CreatePartial ==
  /\ \/ run.pc = "next" /\ NextItem <= N
     \/ run.pc = "verified"
  /\ \/ /\ MayCreate(NextItem)
        /\ disk' = [disk EXCEPT ![Partial(NextItem)] = [id |-> runs, data |-> "torn"]]
        /\ run' = [run EXCEPT !.pc = "created", !.item = NextItem]
        /\ UNCHANGED <<caller, place, source, record, others, sullied, runs, outcome, stranded>>
     \/ Refused(run.pc, MayCreate(NextItem))

RecordPartial ==
  /\ run.pc = "created"
  /\ Event(RecordedPartial(run.item), [run EXCEPT !.pc = "copy"])

\* The bytes go through the handle, to the file the run created, wherever
\* it is now; their hash is what the partial is expected to have.  After
\* the copy of a slice the source is compared.
Copied ==
  DestinationHeld /\ (run.item <= N => SourceUnchanged)

Copy ==
  LET data == IF run.item <= N THEN source.content ELSE run.baseline
  IN \/ /\ run.pc = "copy" /\ Copied
        /\ disk' = [disk EXCEPT ![Partial(run.item)].data =
                      IF disk[Partial(run.item)].id = runs THEN data ELSE @]
        /\ run' = [run EXCEPT !.pc = "staged", !.data = data]
        /\ UNCHANGED <<caller, place, source, record, others, sullied, runs, outcome, stranded>>
     \/ Refused("copy", Copied)

\* The partial is the file that was created, with the data written to it.
Staged == disk[Partial(run.item)] = [id |-> runs, data |-> run.data]

CheckStaged ==
  \/ /\ run.pc = "staged" /\ Staged
     /\ Goto("checked")
     /\ UNCHANGED <<caller, disk, place, source, record, others, sullied, runs, outcome, stranded>>
  \/ Refused("staged", Staged)

\* atomic_rename_no_replace, of whatever has the partial's name now.
Renamable == ~Absent(Partial(run.item)) /\ Absent(Final(run.item))

Rename ==
  \/ /\ run.pc = "checked" /\ Renamable
     /\ disk' = [disk EXCEPT ![Final(run.item)] = disk[Partial(run.item)],
                             ![Partial(run.item)] = NoFile]
     /\ sullied' = IF raced THEN sullied \cup {run.item} ELSE sullied \ {run.item}
     /\ Goto("renamed")
     /\ UNCHANGED <<caller, place, source, record, others, runs, outcome, stranded>>
  \/ Refused("checked", Renamable)

\* The final file is read again.
Published ==
  disk[Final(run.item)] = [id |-> runs, data |-> run.data] /\ DestinationHeld

RecordSlice ==
  LET entry == [id |-> runs, data |-> run.data]
  IN \/ /\ run.pc = "renamed" /\ run.item <= N /\ Published
        /\ Event(RecordedSlice(entry),
                 [run EXCEPT !.pc = "next", !.completed = Append(run.completed, entry)])
     \/ Refused("renamed", Published)

\* The source is compared once more; the manifest of a source that changed
\* is taken back, again by name and after a comparison.
DisownManifest ==
  /\ run.pc = "renamed" /\ run.item = Manifest /\ Published /\ ~SourceUnchanged
  /\ Goto("withdraw")
  /\ UNCHANGED <<caller, disk, place, source, record, others, sullied, runs, outcome, stranded>>

WithdrawManifest ==
  /\ run.pc = "withdraw" /\ ~Absent(Final(Manifest))
  /\ disk' = [disk EXCEPT ![Final(Manifest)] = NoFile]
  /\ run' = Failing /\ outcome' = "refused"
  /\ UNCHANGED <<caller, place, source, record, others, sullied, runs, stranded>>

\* A failed write of this event cancels the token too late to matter.
RecordManifest ==
  /\ run.pc = "renamed" /\ run.item = Manifest /\ Published /\ SourceUnchanged
  /\ run' = [run EXCEPT !.pc = "end"]
  /\ record' \in {RecordedManifest} \cup
                 (IF StoreFaults /\ caller = "desktop" THEN {record} ELSE {})
  /\ UNCHANGED <<caller, disk, place, source, others, sullied, runs, outcome, stranded>>

-----------------------------------------------------------------------------
(* The end of a run.                                                       *)

Succeed ==
  /\ run.pc = "end"
  /\ run' = Stopped /\ outcome' = "success"
  /\ UNCHANGED <<caller, disk, place, source, record, others, sullied, runs, stranded>>

\* The cleanup of a command, the removal of a desktop task.
CleaningUp == run.pc \in {"cleanup", "cleanOwned"}
Removing == run.pc \in {"removeOwned", "removeRow"}

\* An I/O error or a cancellation, wherever the code may meet one; for the
\* command also an output error, which it notices last.
Fail ==
  /\ Running /\ ~CleaningUp /\ ~Removing
  /\ run.pc = "end" => caller = "cli"
  /\ run' = Failing /\ outcome' = "failed"
  /\ UNCHANGED <<caller, disk, place, source, record, others, sullied, runs, stranded>>

Crash ==
  /\ Running /\ ~Removing
  /\ run' = Stopped /\ outcome' = "crashed"
  /\ record' = IF caller = "cli" THEN NoRecord ELSE record
  /\ UNCHANGED <<caller, disk, place, source, others, sullied, runs, stranded>>

\* SplitArtifactTracker::cleanup, of a command that failed: the active
\* partial, then the slices, the last one first.
Tracking == Active # NoActive \/ record.completed # <<>>
Tracked ==
  IF Active # NoActive THEN [name |-> Partial(Active.item), id |-> Active.id]
  ELSE [name |-> Final(Len(record.completed)), id |-> Last(record.completed).id]
Untracked ==
  IF Active # NoActive THEN [record EXCEPT !.active = NoActive]
  ELSE [record EXCEPT !.completed = Front(record.completed)]

\* A file that is missing, is not the command's own or cannot be opened is
\* passed over.
CleanUpCompare ==
  /\ run.pc = "cleanup" /\ Tracking
  /\ \/ Owned(Tracked.name, Tracked.id) /\ Goto("cleanOwned") /\ record' = record
     \/ record' = Untracked /\ run' = run
  /\ UNCHANGED <<caller, disk, place, source, others, sullied, runs, outcome, stranded>>

\* The removal goes by name; its failure is ignored.
CleanUpRemove ==
  /\ run.pc = "cleanOwned"
  /\ disk' \in {disk, [disk EXCEPT ![Tracked.name] = NoFile]}
  /\ record' = Untracked /\ Goto("cleanup")
  /\ UNCHANGED <<caller, place, source, others, sullied, runs, outcome, stranded>>

CleanUpDone ==
  /\ run.pc = "cleanup" /\ ~Tracking
  /\ run' = Stopped /\ record' = NoRecord
  /\ UNCHANGED <<caller, disk, place, source, others, sullied, runs, outcome, stranded>>

\* remove_task of a desktop task: cleanup_incomplete compares the partial and
\* removes it by name, then the row goes.  A partial replaced by others keeps
\* the row.
RemoveTask ==
  /\ caller = "desktop" /\ ~Running /\ outcome \notin {"none", "success", "removed"}
  /\ IF Active = NoActive \/ Absent(Partial(Active.item))
     THEN Goto("removeRow")
     ELSE Owned(Partial(Active.item), Active.id) /\ Goto("removeOwned")
  /\ UNCHANGED <<caller, disk, place, source, record, runs, outcome, others, sullied, stranded>>

RemoveOwned ==
  /\ run.pc = "removeOwned" /\ ~Absent(Partial(Active.item))
  /\ disk' = [disk EXCEPT ![Partial(Active.item)] = NoFile]
  /\ Goto("removeRow")
  /\ UNCHANGED <<caller, place, source, record, runs, outcome, others, sullied, stranded>>

RemoveRow ==
  /\ run.pc = "removeRow"
  /\ run' = Stopped /\ record' = NoRecord /\ outcome' = "removed"
  /\ UNCHANGED <<caller, disk, place, source, runs, others, sullied, stranded>>

\* The partial cannot be removed, the row cannot be deleted, or the process
\* dies: the row stays as it was.
RemovalStops ==
  /\ Removing /\ run' = Stopped
  /\ UNCHANGED <<caller, disk, place, source, record, runs, outcome, others, sullied, stranded>>

-----------------------------------------------------------------------------
(* Others.                                                                 *)

\* The file a comparison has just accepted, which the next step removes or
\* renames.
JustCompared ==
  CASE run.pc \in {"unlink", "removeOwned"} -> Partial(Active.item)
    [] run.pc = "checked" -> Partial(run.item)
    [] run.pc = "withdraw" -> Final(Manifest)
    [] run.pc = "cleanOwned" -> Tracked.name
    [] OTHER -> <<0, "none">>

\* A name gets a file of others, loses its file, or its file is written to.
ChangeFile(name) ==
  /\ disk' \in {[disk EXCEPT ![name] = file] :
                  file \in {NoFile, Foreign, [disk[name] EXCEPT !.data = "foreign"]}}
  /\ disk' # disk
  /\ sullied' = IF name[2] = "final" THEN sullied \cup {name[1]} ELSE sullied
  /\ raced' = (raced \/ name = JustCompared)
  /\ UNCHANGED <<place, source>>

\* The content, the modification time, or one of them without the other.
ChangeSource ==
  /\ source' \in [content : Contents, stamp : {0, 1}] \ {source}
  /\ UNCHANGED <<disk, place, sullied, raced>>

\* Another, empty directory takes the place of the destination.
ReplaceDestination ==
  /\ place = 1 /\ place' = 2
  /\ disk' = [name \in Names |-> NoFile]
  /\ sullied' = Items
  /\ raced' = (raced \/ JustCompared \in Names)
  /\ UNCHANGED source

Others ==
  /\ others < MaxOthers
  /\ others' = others + 1
  /\ (\E name \in Names : ChangeFile(name)) \/ ChangeSource \/ ReplaceDestination
  /\ UNCHANGED <<caller, record, run, runs, outcome, stranded>>

-----------------------------------------------------------------------------
Recover == \/ Baseline \/ CheckResume \/ ComparePartial \/ RemovePartial \/ ClearPartial
           \/ AdoptSlice \/ AdoptManifest \/ RefuseAdoption \/ GoOn
Produce == \/ VerifyAll \/ CreatePartial \/ RecordPartial \/ Copy \/ CheckStaged \/ Rename
           \/ RecordSlice \/ DisownManifest \/ WithdrawManifest \/ RecordManifest
CleanUp == CleanUpCompare \/ CleanUpRemove \/ CleanUpDone
Removal == RemoveTask \/ RemoveOwned \/ RemoveRow \/ RemovalStops
End == Succeed \/ Fail \/ Crash \/ CleanUp \/ Removal

Program == (Begin \/ Recover \/ Produce \/ End) /\ raced' = FALSE

Next == Program \/ Others

Spec == Init /\ [][Next]_vars

-----------------------------------------------------------------------------
TypeOK ==
  /\ caller \in Callers
  /\ disk \in [Names -> Files]
  /\ place \in {1, 2} /\ source \in [content : Contents, stamp : {0, 1}]
  /\ record.completed \in BoundedSeq([id : Runs, data : Contents], N)
  /\ record.active \in {NoActive} \cup [item : Items, id : Runs]
  /\ record.active # NoActive \/ record.published => record.known
  /\ runs \in 0..MaxRuns /\ others \in 0..MaxOthers /\ sullied \subseteq Items
  /\ outcome \in {"none", "success", "failed", "refused", "crashed", "removed"}

\* No step of the program changes, replaces or removes a file that is not
\* its own: every removal compares the identity, every creation and every
\* publication needs a free name (remove_owned_partial, create_new,
\* atomic_rename_no_replace, SplitArtifactTracker::cleanup).  The one
\* exception is a file that took the place of the program's own after the
\* comparison and before the removal or the renaming, which go by name.
ForeignUntouched ==
  [][others' = others =>
       \A name \in Names :
         disk[name].id = 0 /\ ~Absent(name) =>
           disk'[name] = disk[name] \/ (raced /\ name = JustCompared)]_vars

\* The manifest is one that a failed command leaves behind.
LeftByCommand ==
  caller = "cli" /\ (disk[Final(Manifest)].id # runs \/ outcome \notin {"none", "success"})

\* Wherever the manifest is, every slice is there with the content whose
\* hash the manifest names, whatever happened to the source meanwhile: in a
\* crash, after a resume, after a source that was changed and changed back.
\* Slices that others touched after their last validation are excepted, and
\* so is the command's cleanup.
ManifestMeansWhole ==
  LET m == disk[Final(Manifest)]
  IN m.id # 0 /\ Manifest \notin sullied /\ ~LeftByCommand =>
       /\ m.data \in Contents
       /\ \A i \in 1..N \ sullied : disk[Final(i)].data = m.data

\* "The manifest is the package completion marker": also after the cleanup
\* of a command that failed.
CompletionMarker ==
  LET m == disk[Final(Manifest)]
  IN m.id # 0 /\ others = 0 => \A i \in 1..N : disk[Final(i)].data = m.data

\* What the checkpoint calls done is done: each recorded slice is on disk,
\* the same file with the same data, unless others touched it, and a
\* manifest recorded as published is there.  The write of the checkpoint may
\* lag behind the disk, never run ahead of it.
RecordedSurvives ==
  /\ \A i \in DOMAIN record.completed \ sullied : Entry(i) = record.completed[i]
  /\ record.published /\ Active = NoActive /\ Manifest \notin sullied =>
       disk[Final(Manifest)].id # 0

\* A desktop task that nobody interferes with is refused only if its run
\* began stranded: a crash or a failed write hit one of three windows, between
\* the creation of a partial and its record, between the removal of a partial
\* by a resume and the record of that, or between its removal with the task
\* and the deletion of the task's row.  Everywhere else a resume goes on.
RefusedOnlyStranded ==
  caller = "desktop" /\ outcome = "refused" /\ others = 0 => stranded

\* "interrupted native work can continue safely at verified Slice
\* boundaries": a desktop task that nobody interferes with is not refused.
InterruptedContinues ==
  caller = "desktop" /\ others = 0 => outcome # "refused"

\* The desktop's split publishes its package atomically, as stated in
\* AtomicPublication, with which it shares others; of a command's split, whose
\* cleanup breaks the promise, nothing is shown.
WholePackage ==
  LET m == disk[Final(Manifest)]
  IN m.data \in Contents /\ \A i \in 1..N : disk[Final(i)].data = m.data
Package ==
  IF caller = "cli" \/ disk[Final(Manifest)].id = 0
    THEN "none" ELSE IF WholePackage THEN "whole" ELSE "spoiled"
Report ==
  IF caller = "cli" \/ outcome = "none" THEN "pending"
  ELSE IF outcome = "success" THEN "success" ELSE "failed"

Publication == INSTANCE AtomicPublication WITH result <- Package, report <- Report
SplitIsAtomic == Publication!Spec
=============================================================================
