------------------------ MODULE ResumableSplitProofs ------------------------
(***************************************************************************)
(* Proofs about ResumableSplit for every source, any number of runs and of *)
(* changes by others.                                                      *)
(*                                                                         *)
(* The checkpoint lags behind the disk.  RecordOK and RunOK say what it    *)
(* can hold at each program counter, DiskOK and PublishedThere which files *)
(* can be there at the same time; Undisturbed adds the exact files of a    *)
(* desktop task while nobody else has touched one, which is what a refusal *)
(* and a success are judged by.  Beside it, ComparedOK keeps what the      *)
(* comparison before a removal or a renaming found, as far as others let   *)
(* it, and CommandOK what a command knows.                                 *)
(***************************************************************************)
EXTENDS ResumableSplit, SequenceTheorems, TLAPS

-----------------------------------------------------------------------------
(* The inductive invariant.                                                *)

Entries == [id : Runs, data : Contents]

Pcs == {"idle", "fresh", "bound", "recover", "unlink", "clear", "recovered", "next", "verified",
        "created", "copy", "staged", "checked", "renamed", "withdraw", "end",
        "cleanup", "cleanOwned", "removeOwned", "removeRow"}

\* A run that is over cleans up, or its task is being removed.
Closing == {"cleanup", "cleanOwned", "removeOwned", "removeRow"}
AtWork == Running /\ run.pc \notin Closing

Outcomes == {"none", "success", "failed", "refused", "crashed", "removed"}

\* With the names of the package free, nothing but slices to come.
Producing == {"created", "copy", "staged", "checked", "renamed", "withdraw"}

RunType ==
  [pc : Pcs, item : 0..Manifest, data : Contents \cup {"none"}, stamp : {0, 1},
   place : 0..2, baseline : Contents \cup {"none"}, completed : Seq(Entries)]

RecordType ==
  [known : BOOLEAN, stamp : {0, 1}, place : 0..2, baseline : Contents \cup {"none"},
   completed : Seq(Entries), active : {NoActive} \cup [item : Items, id : Runs],
   published : BOOLEAN]

Types ==
  /\ caller \in Callers
  /\ disk \in [Names -> Files]
  /\ place \in {1, 2} /\ source \in [content : Contents, stamp : {0, 1}]
  /\ record \in RecordType /\ run \in RunType
  /\ runs \in 0..MaxRuns /\ others \in 0..MaxOthers /\ sullied \in SUBSET Items
  /\ outcome \in Outcomes /\ stranded \in BOOLEAN

\* The checkpoint: a partial is recorded of the item that comes next only.
RecordOK ==
  /\ ~record.known => record = NoRecord
  /\ Len(record.completed) <= N
  /\ Active # NoActive => Active.item = Len(record.completed) + 1
  /\ record.published => Len(record.completed) = N \/ CleaningUp

\* What the run remembers agrees with the checkpoint.
RunOK ==
  /\ AtWork \/ CleaningUp => runs # 0 /\ run.baseline \in Contents
  /\ AtWork => outcome = "none" /\ run.completed = record.completed
  /\ CleaningUp => caller = "cli" /\ outcome \in {"failed", "refused"}
  /\ run.pc = "cleanOwned" => Tracking
  /\ Removing => caller = "desktop" /\ outcome \notin {"none", "success", "removed"}
  /\ run.pc = "fresh" => ~record.known
  /\ AtWork /\ run.pc # "fresh" => record.known
  /\ run.pc \in {"recover", "unlink", "clear", "removeOwned"} => Active # NoActive
  /\ run.pc \in {"recovered", "next", "verified", "created"} => Active = NoActive
  /\ run.pc \in Producing => run.item = Len(run.completed) + 1
  /\ run.pc = "withdraw" => run.item = Manifest
  /\ run.pc = "verified" => Len(run.completed) = N
  /\ run.pc \in Producing \ {"created"} => Active = [item |-> run.item, id |-> runs]
  /\ run.pc \in {"staged", "checked", "renamed"} =>
       run.data \in Contents /\ (run.item = Manifest => run.data = run.baseline)
  /\ run.pc = "verified" \/ (run.pc \in Producing /\ run.item = Manifest) =>
       HasBaseline(run.completed)

\* The manifest is not there while the package is made.
DiskOK ==
  /\ \A name \in Names : /\ disk[name].id = 0 => disk[name] \in {NoFile, Foreign}
                         /\ disk[name].id <= runs
  /\ \/ run.pc \in {"next", "verified", "created", "copy", "staged", "checked"}
     \/ run.pc = "renamed" /\ run.item # Manifest
     => disk[Final(Manifest)].id = 0
  /\ run.pc \in {"renamed", "withdraw"} => disk[Partial(run.item)].id = 0

\* A manifest that was recorded is there, until it is to be withdrawn.
PublishedThere ==
  /\ record.published /\ Manifest \notin sullied
  /\ Active = NoActive \/ disk[Partial(Manifest)].id # 0 \/ run.pc \in {"unlink", "clear"}
  => disk[Final(Manifest)].id # 0

SlicesSurvive ==
  \A i \in DOMAIN record.completed \ sullied : Entry(i) = record.completed[i]

\* The files of a desktop task that nobody else has touched.
Untouched ==
  /\ sullied = {} /\ place = 1 /\ source.stamp = 0
  /\ AtWork => run.stamp = 0 /\ run.place = 1 /\ run.baseline = source.content
  /\ record.known => /\ record.stamp = 0 /\ record.place = 1
                     /\ record.baseline = source.content
  /\ \A i \in DOMAIN record.completed : record.completed[i].data = source.content

\* Each file is the source's, and the checkpoint knows of it or is about to.
FilesKnown ==
  /\ ~record.known => \A name \in Names : Absent(name)
  /\ \A i \in Items :
       /\ disk[Final(i)].id = 0 => Absent(Final(i))
       /\ disk[Partial(i)].id = 0 => Absent(Partial(i))
       /\ ~Absent(Partial(i)) => Absent(Final(i)) /\ i = Len(record.completed) + 1
       /\ ~Absent(Final(i)) =>
            /\ disk[Final(i)].data = source.content
            /\ \/ i <= Len(record.completed)
               \/ Active = [item |-> i, id |-> disk[Final(i)].id]
               \/ i = Manifest /\ record.published /\ Active = NoActive

\* The files at each program counter.
FilesExact ==
  /\ run.pc \in {"bound", "recover"} /\ ~stranded => ~Stranded
  /\ run.pc = "unlink" => Removable
  /\ run.pc = "clear" => Absent(Partial(Active.item)) /\ Absent(Final(Active.item))
  /\ run.pc \in {"recovered", "next", "verified"} /\ ~stranded =>
       \A i \in Items : Absent(Partial(i))
  /\ run.pc \in {"created", "copy"} =>
       disk[Partial(run.item)] = [id |-> runs, data |-> "torn"]
  /\ run.pc \in {"created", "copy", "staged", "checked"} => Absent(Final(run.item))
  /\ run.pc \in {"staged", "checked", "renamed"} => run.data = source.content
  /\ run.pc \in {"staged", "checked"} => Staged
  /\ run.pc = "renamed" => disk[Final(run.item)] = [id |-> runs, data |-> run.data]
  /\ run.pc # "withdraw"
  /\ run.pc = "end" => disk[Final(Manifest)].id # 0 /\ WholePackage

Undisturbed ==
  caller = "desktop" /\ others = 0 =>
    /\ Untouched
    /\ outcome # "removed" => FilesKnown
    /\ FilesExact
    /\ outcome = "refused" => stranded

IInv ==
  /\ Types /\ RecordOK /\ RunOK /\ DiskOK /\ PublishedThere
  /\ SlicesSurvive /\ ManifestMeansWhole /\ Undisturbed

\* What a comparison found is still so when the step it decides comes, unless
\* others changed the file in between.
ComparedOK ==
  /\ others = 0 => ~raced
  /\ ~raced =>
       /\ run.pc \in {"unlink", "removeOwned"} => Removable
       /\ run.pc = "checked" => Staged
       /\ run.pc = "withdraw" => disk[Final(Manifest)].id = runs
       /\ run.pc = "cleanOwned" => Owned(Tracked.name, Tracked.id)

\* A command remembers nothing of the one before, and publishes last.
CommandOK ==
  caller = "cli" =>
    /\ ~Running /\ outcome # "success" => record = NoRecord
    /\ run.pc \notin {"bound", "recover", "unlink", "clear", "recovered"}
    /\ record.published => Active = NoActive
                           /\ run.pc \in {"idle", "end", "cleanup", "cleanOwned"}

-----------------------------------------------------------------------------
(* Names, types and frames.                                                *)

\* The names of sets of program counters are expanded wherever they occur.
USE DEF Running, AtWork, Closing, CleaningUp, Removing

LEMMA CountFacts ==
  /\ N \in Nat /\ Manifest = N + 1 /\ Items = 1..(N + 1) /\ Manifest \in Items
  /\ 1..N \subseteq Items /\ Manifest \notin 1..N
  /\ MaxRuns \in Nat /\ MaxOthers \in Nat
<1>1. ASSUME NEW a \in Nat, NEW b \in Nat \ {0} PROVE a \div b \in Nat
  BY <1>1
<1>2. N \in Nat
  BY <1>1, ConstantsAssumption DEF N, ExpectedSliceCount
<1> QED
  BY <1>2, ConstantsAssumption DEF Manifest, Items

LEMMA NameFacts ==
  /\ \A i \in Items : Final(i) \in Names /\ Partial(i) \in Names
  /\ \A i, j : Final(i) # Partial(j)
  /\ \A i, j : Final(i) = Final(j) => i = j
  /\ \A i, j : Partial(i) = Partial(j) => i = j
  /\ \A i : /\ Final(i)[1] = i /\ Final(i)[2] = "final"
            /\ Partial(i)[1] = i /\ Partial(i)[2] = "partial"
  /\ \A name \in Names : \E i \in Items : name = Final(i) \/ name = Partial(i)
BY DEF Names, Final, Partial

LEMMA FileFacts ==
  /\ NoFile \in Files /\ Foreign \in Files
  /\ NoFile.id = 0 /\ NoFile.data = "none" /\ Foreign.id = 0 /\ Foreign.data = "foreign"
  /\ NoFile.data \notin Contents /\ Foreign.data \notin Contents /\ "torn" \notin Contents
  /\ \A file \in Files : /\ file.id \in 0..MaxRuns /\ file.data \in Data \cup {"none"}
                         /\ file = [id |-> file.id, data |-> file.data]
  /\ \A id \in 0..MaxRuns, data \in Data : [id |-> id, data |-> data] \in Files
BY CountFacts, ConstantsAssumption DEF NoFile, Foreign, Files, Data

LEMMA TypeFacts ==
  ASSUME Types
  PROVE  /\ \A name \in Names : disk[name] \in Files /\ disk[name].id \in Nat
         /\ record.known \in BOOLEAN /\ record.published \in BOOLEAN
         /\ record.completed \in Seq(Entries) /\ Len(record.completed) \in Nat
         /\ Active \in {NoActive} \cup [item : Items, id : Runs]
         /\ Active # NoActive => /\ Active.item \in Items /\ Active.id \in Runs
                                 /\ Active = [item |-> Active.item, id |-> Active.id]
         /\ run.pc \in Pcs /\ run.item \in 0..Manifest /\ run.completed \in Seq(Entries)
         /\ Len(run.completed) \in Nat
         /\ runs \in 0..MaxRuns /\ runs \in Nat /\ others \in Nat
         /\ source.content \in Contents /\ source.stamp \in {0, 1}
<1>1. \A name \in Names : disk[name] \in Files
  BY DEF Types
<1>2. \A name \in Names : disk[name].id \in Nat
  BY <1>1, FileFacts, CountFacts
<1>3. /\ record.known \in BOOLEAN /\ record.published \in BOOLEAN
      /\ record.completed \in Seq(Entries)
      /\ Active \in {NoActive} \cup [item : Items, id : Runs]
  BY DEF Types, RecordType, Active
<1>4. Active # NoActive => /\ Active.item \in Items /\ Active.id \in Runs
                           /\ Active = [item |-> Active.item, id |-> Active.id]
  BY <1>3
<1>5. run.pc \in Pcs /\ run.item \in 0..Manifest /\ run.completed \in Seq(Entries)
  BY DEF Types, RunType
<1>6. /\ runs \in 0..MaxRuns /\ runs \in Nat /\ others \in Nat
      /\ source.content \in Contents /\ source.stamp \in {0, 1}
  BY CountFacts DEF Types
<1> QED
  BY <1>1, <1>2, <1>3, <1>4, <1>5, <1>6

LEMMA EmptyTypes ==
  /\ Stopped \in RunType /\ NoRecord \in RecordType
  /\ Stopped.pc = "idle" /\ Stopped.completed = <<>>
  /\ NoRecord.known = FALSE /\ NoRecord.active = NoActive /\ NoRecord.completed = <<>>
  /\ NoRecord.published = FALSE
  /\ Len(<<>>) = 0
BY CountFacts DEF Stopped, NoRecord, NoActive, RunType, RecordType, Pcs, Entries

LEMMA EntryFacts ==
  ASSUME Types, NEW i \in DOMAIN record.completed
  PROVE  /\ record.completed[i].id \in Runs /\ record.completed[i].data \in Contents
         /\ i \in 1..Len(record.completed)
<1>1. record.completed \in Seq(Entries)
  BY TypeFacts
<1>2. record.completed[i] \in Entries /\ i \in 1..Len(record.completed)
  BY <1>1
<1> QED
  BY <1>2 DEF Entries

\* The parts of the invariant that speak of the record and the final files
\* stay while these do.
LEMMA FinalsStay ==
  ASSUME IInv, UNCHANGED <<caller, record, sullied>>, ~CleaningUp,
         \A i \in Items : disk'[Final(i)] = disk[Final(i)]
  PROVE  /\ RecordOK' /\ SlicesSurvive'
         /\ runs' = runs /\ (outcome' = outcome \/ outcome' \notin {"none", "success"})
              => ManifestMeansWhole'
<1>1. RecordOK'
  BY DEF IInv, RecordOK, Active
<1>2. SlicesSurvive'
  <2>1. \A i \in DOMAIN record.completed : i \in Items
    BY EntryFacts, TypeFacts, CountFacts DEF IInv, RecordOK
  <2> QED
    BY <2>1 DEF IInv, SlicesSurvive, Entry
<1>3. ASSUME runs' = runs /\ (outcome' = outcome \/ outcome' \notin {"none", "success"})
      PROVE  ManifestMeansWhole'
  BY <1>3, CountFacts DEF IInv, ManifestMeansWhole, LeftByCommand
<1> QED
  BY <1>1, <1>2, <1>3

\* One name of the destination gets another file.
LEMMA PartialChanged ==
  ASSUME Types, NEW i \in Items, NEW file \in Files,
         disk' = [disk EXCEPT ![Partial(i)] = file]
  PROVE  /\ disk' \in [Names -> Files]
         /\ \A j \in Items : /\ disk'[Final(j)] = disk[Final(j)]
                             /\ j # i => disk'[Partial(j)] = disk[Partial(j)]
         /\ disk'[Partial(i)] = file
         /\ \A name \in Names : disk'[name] \in {disk[name], file}
<1>1. disk \in [Names -> Files]
  BY DEF Types
<1>2. Partial(i) \in Names /\ \A j \in Items : Final(j) \in Names /\ Partial(j) \in Names
  BY NameFacts
<1>3. \A j \in Items : Final(j) # Partial(i) /\ (j # i => Partial(j) # Partial(i))
  BY NameFacts
<1> QED
  BY <1>1, <1>2, <1>3

-----------------------------------------------------------------------------
(* The steps in which a run stops.                                         *)

LEMMA StopKeeps ==
  ASSUME IInv, Running,
         run' = Failing \/ run' = Stopped,
         outcome' \in {"failed", "refused", "crashed"},
         caller = "cli" /\ run' # Stopped => outcome' \in {"failed", "refused"},
         caller = "desktop" /\ others = 0 /\ outcome' = "refused" => stranded,
         record' = record \/ (caller = "cli" /\ run' = Stopped /\ record' = NoRecord),
         CleaningUp => record' = NoRecord,
         UNCHANGED <<caller, disk, place, source, others, sullied, runs, stranded>>
  PROVE  IInv'
<1>1. /\ run' \in RunType /\ run'.pc \in {"idle", "cleanup"}
      /\ run'.pc = "cleanup" => caller = "cli" /\ run' # Stopped /\ run'.baseline = run.baseline
  BY EmptyTypes DEF IInv, Types, RunType, Pcs, Failing
<1>2. Types'
  BY <1>1, EmptyTypes DEF IInv, Types, Outcomes
<1>3. RecordOK'
  BY EmptyTypes, CountFacts DEF IInv, RecordOK, Active
<1>4. RunOK'
  BY <1>1 DEF IInv, RunOK, Producing
<1>5. DiskOK'
  BY <1>1 DEF IInv, DiskOK
<1>6. PublishedThere'
  BY <1>1, EmptyTypes DEF IInv, PublishedThere, Active
<1>7. SlicesSurvive'
  <2>1. CASE record' = record
    BY <2>1 DEF IInv, SlicesSurvive, Entry
  <2>2. CASE record' = NoRecord
    BY <2>2, EmptyTypes DEF SlicesSurvive
  <2> QED
    BY <2>1, <2>2
<1>8. ManifestMeansWhole'
  BY DEF IInv, ManifestMeansWhole, LeftByCommand
<1>9. Undisturbed'
  <2> SUFFICES ASSUME caller = "desktop", others = 0 PROVE Undisturbed'
    BY DEF Undisturbed
  <2>1. run'.pc = "idle" /\ record' = record
    BY <1>1
  <2>2. Untouched' /\ FilesKnown'
    BY <1>1, <2>1 DEF IInv, RunOK, Undisturbed, Untouched, FilesKnown, Absent, Active
  <2>3. FilesExact'
    BY <2>1 DEF FilesExact
  <2> QED
    BY <2>2, <2>3 DEF Undisturbed
<1> QED
  BY <1>2, <1>3, <1>4, <1>5, <1>6, <1>7, <1>8, <1>9 DEF IInv

\* A check of the code that fails, as it cannot while a desktop task is
\* undisturbed and its run did not begin stranded.
LEMMA RefusedKeeps ==
  ASSUME IInv, NEW pc, pc \notin {"idle"} \cup Closing, NEW condition, Refused(pc, condition),
         caller = "desktop" /\ others = 0 /\ ~stranded => condition
  PROVE  IInv'
<1>1. run.pc = pc /\ ~condition /\ run' = Failing /\ outcome' = "refused"
      /\ UNCHANGED <<caller, disk, place, source, record, others, sullied, runs, stranded>>
  BY DEF Refused
<1>2. stranded \in BOOLEAN
  BY DEF IInv, Types
<1> QED
  BY <1>1, <1>2, StopKeeps

\* What the checks of an undisturbed desktop task find.
LEMMA ChecksHold ==
  ASSUME IInv, caller = "desktop", others = 0, run.pc \notin {"idle"} \cup Closing
  PROVE  /\ DestinationHeld /\ SourceUnchanged
         /\ record.known => SameTask
         /\ ValidCompleted(run.completed) /\ HasBaseline(run.completed)
         /\ run.completed = record.completed /\ run.baseline = source.content
         /\ FilesKnown /\ FilesExact /\ sullied = {}
         /\ \A i \in DOMAIN record.completed :
              Entry(i) = record.completed[i] /\ record.completed[i].data = source.content
<1>1. Untouched /\ FilesExact
  BY DEF IInv, Undisturbed
<1>2. outcome = "none" /\ run.completed = record.completed
  BY DEF IInv, RunOK
<1>3. FilesKnown
  BY <1>2 DEF IInv, Undisturbed
<1>4. DestinationHeld /\ SourceUnchanged /\ run.baseline = source.content /\ sullied = {}
      /\ (record.known => SameTask)
  BY <1>1 DEF Untouched, DestinationHeld, SourceUnchanged, SameTask
<1>5. \A i \in DOMAIN record.completed :
        Entry(i) = record.completed[i] /\ record.completed[i].data = source.content
  BY <1>1, <1>4 DEF IInv, SlicesSurvive, Untouched
<1>6. Len(run.completed) <= N
  BY <1>2 DEF IInv, RecordOK
<1>7. ValidCompleted(run.completed) /\ HasBaseline(run.completed)
  BY <1>2, <1>4, <1>5, <1>6 DEF ValidCompleted, HasBaseline, RangeHash
<1> QED
  BY <1>1, <1>2, <1>3, <1>4, <1>5, <1>7

\* An event that cannot be written stops a desktop run.
LEMMA EventCases ==
  ASSUME IInv, Running, NEW new, NEW next, Event(new, next)
  PROVE  /\ UNCHANGED <<caller, disk, place, source, others, sullied, runs, stranded>>
         /\ \/ record' = new /\ run' = next /\ outcome' = outcome
            \/ IInv'
<1>1. CASE record' = new /\ run' = next /\ outcome' = outcome
  BY <1>1 DEF Event
<1>2. CASE caller = "desktop" /\ record' = record /\ run' = Stopped /\ outcome' = "failed"
  <2>1. ~CleaningUp
    BY <1>2 DEF IInv, RunOK
  <2> QED
    BY <1>2, <2>1, StopKeeps DEF Event
<1> QED
  BY <1>1, <1>2 DEF Event

-----------------------------------------------------------------------------
(* The start of a run, and recovery.                                       *)

LEMMA BeginKeeps ==
  ASSUME IInv, Begin
  PROVE  IInv'
<1>1. /\ ~Running /\ runs < MaxRuns /\ outcome \notin {"success", "removed"}
      /\ runs' = runs + 1 /\ disk' = NamesSeen /\ outcome' = "none"
      /\ run' = [Stopped EXCEPT !.pc = IF record.known THEN "bound" ELSE "fresh",
                                !.stamp = source.stamp, !.baseline = source.content,
                                !.place = place, !.completed = record.completed]
      /\ stranded' = (caller = "desktop" /\ Stranded)
      /\ UNCHANGED <<caller, place, source, record, others, sullied>>
  BY DEF Begin
<1>2. /\ run'.pc = IF record.known THEN "bound" ELSE "fresh"
      /\ run'.stamp = source.stamp /\ run'.baseline = source.content /\ run'.place = place
      /\ run'.completed = record.completed /\ run' \in RunType
  <2>1. run' = [pc |-> IF record.known THEN "bound" ELSE "fresh", item |-> 0,
                data |-> "none", stamp |-> source.stamp, place |-> place,
                baseline |-> source.content, completed |-> record.completed]
    BY <1>1 DEF Stopped
  <2>2. /\ source.stamp \in {0, 1} /\ source.content \in Contents /\ place \in 0..2
        /\ record.completed \in Seq(Entries) /\ 0 \in 0..Manifest
    BY TypeFacts, CountFacts DEF IInv, Types
  <2> QED
    BY <2>1, <2>2 DEF RunType, Pcs
<1>3. \A i \in Items :
        /\ disk'[Final(i)] = disk[Final(i)]
        /\ disk'[Partial(i)] = disk[Partial(i)]
           \/ (caller = "cli" /\ disk'[Partial(i)] = NoFile)
  <2> SUFFICES ASSUME NEW i \in Items
               PROVE  /\ disk'[Final(i)] = disk[Final(i)]
                      /\ disk'[Partial(i)] = disk[Partial(i)]
                         \/ (caller = "cli" /\ disk'[Partial(i)] = NoFile)
    OBVIOUS
  <2>1. /\ Final(i) \in Names /\ Final(i)[2] = "final" /\ Final(i)[2] # "partial"
        /\ Partial(i) \in Names
    BY NameFacts
  <2>2. disk' = NamesSeen
    BY <1>1
  <2>3. NamesSeen[Final(i)] = disk[Final(i)]
    BY <2>1 DEF NamesSeen
  <2>4. \/ NamesSeen[Partial(i)] = disk[Partial(i)]
        \/ (caller = "cli" /\ NamesSeen[Partial(i)] = NoFile)
    BY <2>1 DEF NamesSeen
  <2> QED
    BY <2>2, <2>3, <2>4
<1>4. caller = "desktop" => disk' = disk
  <2>1. disk = [name \in Names |-> disk[name]]
    BY DEF IInv, Types
  <2> QED
    BY <1>1, <2>1 DEF NamesSeen
<1>5. Types'
  <2>1. disk' \in [Names -> Files]
    BY <1>1, FileFacts DEF NamesSeen, IInv, Types
  <2>2. runs' \in 0..MaxRuns
    BY <1>1, CountFacts DEF IInv, Types
  <2> QED
    BY <1>1, <1>2, <2>1, <2>2 DEF IInv, Types, Outcomes
<1>6. RecordOK'
  BY <1>1 DEF IInv, RecordOK, Active
<1>7. RunOK'
  BY <1>1, <1>2, TypeFacts DEF IInv, Types, RunOK, Producing, Active
<1>8. DiskOK'
  <2>1. ASSUME NEW name \in Names
        PROVE  /\ disk'[name].id = 0 => disk'[name] \in {NoFile, Foreign}
               /\ disk'[name].id <= runs'
    BY <1>1, TypeFacts, FileFacts DEF NamesSeen, IInv, DiskOK
  <2> QED
    BY <1>2, <2>1 DEF DiskOK
<1>9. PublishedThere'
  BY <1>1, <1>2, <1>3, CountFacts, FileFacts DEF IInv, PublishedThere, Active
<1>10. SlicesSurvive'
  <2>1. \A i \in DOMAIN record.completed : i \in Items
    BY EntryFacts, TypeFacts, CountFacts DEF IInv, RecordOK
  <2> QED
    BY <1>1, <1>3, <2>1 DEF IInv, SlicesSurvive, Entry
<1>11. ManifestMeansWhole'
  <2>1. disk[Final(Manifest)].id <= runs /\ disk[Final(Manifest)].id \in Nat
    BY CountFacts, NameFacts, TypeFacts DEF IInv, DiskOK
  <2>2. caller = "cli" => LeftByCommand'
    BY <1>1, <1>3, <2>1, CountFacts, TypeFacts DEF LeftByCommand, IInv
  <2> QED
    BY <1>1, <1>3, <2>2, CountFacts DEF IInv, ManifestMeansWhole, LeftByCommand
<1>12. Undisturbed'
  <2> SUFFICES ASSUME caller = "desktop", others = 0 PROVE Undisturbed'
    BY <1>1 DEF Undisturbed
  <2>1. disk' = disk
    BY <1>4
  <2>2. Untouched /\ FilesKnown
    BY <1>1 DEF IInv, Undisturbed
  <2>3. Untouched'
    BY <1>1, <1>2, <2>2 DEF Untouched
  <2>4. FilesKnown'
    BY <1>1, <2>1, <2>2 DEF FilesKnown, Absent, Active
  <2>5. Stranded' <=> Stranded
    BY <1>1, <2>1 DEF Stranded, Absent
  <2>6. stranded' <=> Stranded
    BY <1>1
  <2>7. FilesExact'
    BY <1>2, <2>5, <2>6 DEF FilesExact
  <2> QED
    BY <1>1, <2>3, <2>4, <2>7 DEF Undisturbed
<1> QED
  BY <1>5, <1>6, <1>7, <1>8, <1>9, <1>10, <1>11, <1>12 DEF IInv

LEMMA BaselineKeeps ==
  ASSUME IInv, Baseline
  PROVE  IInv'
<1>1. CASE Refused("fresh", DestinationHeld /\ NamesFree)
  <2>1. ASSUME caller = "desktop", others = 0, run.pc = "fresh" PROVE DestinationHeld /\ NamesFree
    BY <2>1, ChecksHold DEF IInv, RunOK, FilesKnown, NamesFree
  <2>2. run.pc = "fresh"
    BY <1>1 DEF Refused
  <2> QED
    BY <1>1, <2>1, <2>2, RefusedKeeps
<1>2. CASE run.pc = "fresh" /\ NamesFree /\ Event(RecordedBaseline, [run EXCEPT !.pc = "next"])
  <2>1. Running
    BY <1>2
  <2>2. SUFFICES ASSUME record' = RecordedBaseline, run' = [run EXCEPT !.pc = "next"],
                        outcome' = outcome,
                        UNCHANGED <<caller, disk, place, source, others, sullied, runs, stranded>>
                 PROVE  IInv'
    BY <1>2, <2>1, EventCases
  <2>3. /\ record'.known = TRUE /\ record'.stamp = run.stamp /\ record'.place = run.place
        /\ record'.baseline = run.baseline /\ record'.completed = <<>>
        /\ record'.active = NoActive /\ record'.published = FALSE /\ record' \in RecordType
    BY <2>2, EmptyTypes DEF RecordedBaseline, NoRecord, IInv, Types, RunType, RecordType
  <2>4. /\ run'.pc = "next" /\ run' \in RunType /\ run'.completed = run.completed
        /\ run'.stamp = run.stamp /\ run'.place = run.place /\ run'.baseline = run.baseline
    BY <2>2 DEF IInv, Types, RunType, Pcs
  <2>5. record = NoRecord /\ run.completed = <<>> /\ outcome = "none"
    BY <1>2, EmptyTypes DEF IInv, RunOK, RecordOK
  <2>6. Types'
    BY <2>2, <2>3, <2>4 DEF IInv, Types
  <2>7. RecordOK'
    BY <2>3, EmptyTypes, CountFacts DEF RecordOK, Active
  <2>8. RunOK'
    BY <1>2, <2>2, <2>3, <2>4, <2>5 DEF IInv, RunOK, Producing, Active
  <2>9. DiskOK'
    <3>1. disk[Final(Manifest)].id = 0
      BY <1>2, NameFacts, CountFacts, FileFacts DEF NamesFree, Absent
    <3> QED
      BY <2>2, <2>4, <3>1 DEF IInv, DiskOK
  <2>10. PublishedThere' /\ SlicesSurvive'
    BY <2>3 DEF PublishedThere, SlicesSurvive
  <2>11. ManifestMeansWhole'
    BY <2>2 DEF IInv, ManifestMeansWhole, LeftByCommand
  <2>12. Undisturbed'
    <3> SUFFICES ASSUME caller = "desktop", others = 0 PROVE Undisturbed'
      BY <2>2 DEF Undisturbed
    <3>1. Untouched /\ FilesKnown
      BY <2>5 DEF IInv, Undisturbed
    <3>2. \A i \in Items : Absent(Final(i)) /\ Absent(Partial(i))
      BY <2>5, <3>1, NameFacts, EmptyTypes DEF FilesKnown
    <3>3. Untouched'
      BY <1>2, <2>2, <2>3, <2>4, <3>1 DEF Untouched
    <3>4. FilesKnown'
      BY <2>2, <2>3, <3>2 DEF FilesKnown, Absent
    <3>5. FilesExact'
      BY <2>2, <2>4, <3>2 DEF FilesExact, Absent
    <3> QED
      BY <2>2, <2>5, <3>3, <3>4, <3>5 DEF Undisturbed
  <2> QED
    BY <2>6, <2>7, <2>8, <2>9, <2>10, <2>11, <2>12 DEF IInv
<1> QED
  BY <1>1, <1>2 DEF Baseline

\* All slices are recorded, and on disk as they are recorded.
LEMMA AllThere ==
  ASSUME Types, Len(record.completed) = N,
         \A i \in DOMAIN record.completed :
           Entry(i) = record.completed[i] /\ record.completed[i].data = source.content
  PROVE  \A i \in 1..N : /\ disk[Final(i)].data = record.completed[i].data
                         /\ disk[Final(i)].data = source.content
<1> SUFFICES ASSUME NEW i \in 1..N
             PROVE  /\ disk[Final(i)].data = record.completed[i].data
                    /\ disk[Final(i)].data = source.content
  OBVIOUS
<1>1. i \in DOMAIN record.completed
  BY TypeFacts
<1>2. Entry(i).data = disk[Final(i)].data
  BY DEF Entry
<1> QED
  BY <1>1, <1>2

\* With only the program counter of the run changed.
LEMMA GotoFrame ==
  ASSUME IInv, NEW pc \in Pcs, Goto(pc)
  PROVE  /\ run' \in RunType /\ run'.pc = pc /\ run'.item = run.item /\ run'.data = run.data
         /\ run'.stamp = run.stamp /\ run'.place = run.place /\ run'.baseline = run.baseline
         /\ run'.completed = run.completed
BY DEF Goto, IInv, Types, RunType

LEMMA CheckResumeKeeps ==
  ASSUME IInv, CheckResume
  PROVE  IInv'
<1>1. CASE Refused("bound", SameTask)
  <2>1. ASSUME caller = "desktop", others = 0, run.pc = "bound" PROVE SameTask
    BY <2>1, ChecksHold DEF IInv, RunOK
  <2>2. run.pc = "bound"
    BY <1>1 DEF Refused
  <2> QED
    BY <1>1, <2>1, <2>2, RefusedKeeps
<1>2. CASE ~Refused("bound", SameTask)
  <2> DEFINE pc == IF record.active # NoActive THEN "recover" ELSE "recovered"
  <2>1. /\ run.pc = "bound" /\ Goto(pc)
        /\ UNCHANGED <<caller, disk, place, source, record>>
        /\ UNCHANGED <<others, sullied, runs, outcome, stranded>>
    BY <1>2 DEF CheckResume
  <2>2. pc \in Pcs
    BY DEF Pcs
  <2>3. /\ run' \in RunType /\ run'.pc = pc /\ run'.item = run.item /\ run'.data = run.data
        /\ run'.stamp = run.stamp /\ run'.place = run.place /\ run'.baseline = run.baseline
        /\ run'.completed = run.completed
    BY <2>1, <2>2, GotoFrame
  <2>4. run'.pc \in {"recover", "recovered"} /\ (run'.pc = "recover" <=> Active # NoActive)
    BY <2>3 DEF Active
  <2> HIDE DEF pc
  <2>5. Types'
    BY <2>1, <2>3 DEF IInv, Types
  <2>6. RunOK'
    BY <2>1, <2>3, <2>4 DEF IInv, RunOK, Producing, Active
  <2>7. DiskOK'
    BY <2>1, <2>4 DEF IInv, DiskOK
  <2>8. PublishedThere'
    BY <2>1, <2>4 DEF IInv, PublishedThere, Active
  <2>9. Undisturbed'
    <3> SUFFICES ASSUME caller = "desktop", others = 0 PROVE Undisturbed'
      BY <2>1 DEF Undisturbed
    <3>1. Untouched'
      BY <2>1, <2>3 DEF IInv, Undisturbed, Untouched
    <3>2. FilesKnown'
      BY <2>1, ChecksHold DEF FilesKnown, Absent, Active
    <3>3. FilesExact
      BY <2>1, ChecksHold
    <3>4. ASSUME ~stranded, run'.pc = "recovered", NEW i \in Items PROVE Absent(Partial(i))
      <4>1. ~Stranded
        BY <2>1, <3>3, <3>4 DEF FilesExact
      <4>2. record.active.item = 0
        BY <2>4, <3>4 DEF NoActive, Active
      <4>3. i # 0
        BY CountFacts
      <4>4. disk[Partial(i)].id = 0
        BY <4>1, <4>2, <4>3 DEF Stranded
      <4> QED
        BY <2>1, <4>4, ChecksHold DEF FilesKnown
    <3>5. FilesExact'
      BY <2>1, <2>4, <3>3, <3>4 DEF FilesExact, Stranded, Absent, Active
    <3> QED
      BY <2>1, <3>1, <3>2, <3>5 DEF IInv, Undisturbed
  <2> QED
    BY <2>1, <2>5, <2>6, <2>7, <2>8, <2>9, FinalsStay DEF IInv
<1> QED
  BY <1>1, <1>2

LEMMA ComparePartialKeeps ==
  ASSUME IInv, ComparePartial
  PROVE  IInv'
<1>1. run.pc = "recover" /\ Active # NoActive /\ ~Absent(Partial(Active.item))
  BY DEF ComparePartial, IInv, RunOK
<1>2. Active.item \in Items /\ Active.id # 0
  BY <1>1, TypeFacts DEF IInv, Runs
<1>3. CASE Refused("recover", DestinationHeld /\ Removable)
  <2>1. ASSUME caller = "desktop", others = 0, ~stranded PROVE DestinationHeld /\ Removable
    <3>1. DestinationHeld /\ FilesKnown /\ ~Stranded
      BY <1>1, <2>1, ChecksHold DEF FilesExact
    <3>2. disk[Partial(Active.item)].id # 0
      BY <1>1, <1>2, <3>1 DEF FilesKnown
    <3> QED
      BY <1>2, <3>1, <3>2 DEF Stranded, Removable, Active, Owned
  <2> QED
    BY <1>1, <1>3, <2>1, RefusedKeeps
<1>4. CASE ~Refused("recover", DestinationHeld /\ Removable)
  <2>1. /\ Removable /\ Goto("unlink")
        /\ UNCHANGED <<caller, disk, place, source, record>>
        /\ UNCHANGED <<others, sullied, runs, outcome, stranded>>
    BY <1>4 DEF ComparePartial
  <2>2. /\ run' \in RunType /\ run'.pc = "unlink" /\ run'.item = run.item
        /\ run'.stamp = run.stamp /\ run'.place = run.place /\ run'.baseline = run.baseline
        /\ run'.completed = run.completed
    BY <2>1, GotoFrame DEF Pcs
  <2>3. Types'
    BY <2>1, <2>2 DEF IInv, Types
  <2>4. RunOK'
    BY <1>1, <2>1, <2>2 DEF IInv, RunOK, Producing, Active
  <2>5. DiskOK'
    BY <2>1, <2>2 DEF IInv, DiskOK
  <2>6. PublishedThere'
    <3>1. record.published => Active.item = Manifest
      BY <1>1, CountFacts DEF IInv, RecordOK
    <3>2. disk[Partial(Active.item)].id # 0
      BY <1>2, <2>1 DEF Removable, Owned
    <3> QED
      BY <2>1, <2>2, <3>1, <3>2 DEF IInv, PublishedThere, Active
  <2>7. Undisturbed'
    <3> SUFFICES ASSUME caller = "desktop", others = 0 PROVE Undisturbed'
      BY <2>1 DEF Undisturbed
    <3>1. Untouched'
      BY <1>1, <2>1, <2>2 DEF IInv, Undisturbed, Untouched
    <3>2. FilesKnown' /\ outcome = "none"
      BY <1>1, <2>1, ChecksHold DEF IInv, RunOK, FilesKnown, Absent, Active
    <3>3. FilesExact'
      BY <2>1, <2>2 DEF FilesExact, Removable, Owned, Active
    <3> QED
      BY <2>1, <3>1, <3>2, <3>3 DEF Undisturbed
  <2> QED
    BY <1>1, <2>1, <2>3, <2>4, <2>5, <2>6, <2>7, FinalsStay DEF IInv
<1> QED
  BY <1>3, <1>4

LEMMA RemovePartialKeeps ==
  ASSUME IInv, RemovePartial
  PROVE  IInv'
<1>1. run.pc = "unlink" /\ Active # NoActive
  BY DEF RemovePartial, IInv, RunOK
<1>2. Active.item \in Items /\ Active.item = Len(record.completed) + 1
  BY <1>1, TypeFacts DEF IInv, RecordOK
<1>3. /\ ~Absent(Partial(Active.item)) /\ Goto("clear")
      /\ disk' = [disk EXCEPT ![Partial(Active.item)] = NoFile]
      /\ UNCHANGED <<caller, place, source, record, others, sullied, runs, outcome, stranded>>
  BY DEF RemovePartial
<1>4. /\ disk' \in [Names -> Files]
      /\ \A j \in Items : /\ disk'[Final(j)] = disk[Final(j)]
                          /\ j # Active.item => disk'[Partial(j)] = disk[Partial(j)]
      /\ disk'[Partial(Active.item)] = NoFile
      /\ \A name \in Names : disk'[name] \in {disk[name], NoFile}
  BY <1>2, <1>3, FileFacts, PartialChanged DEF IInv
<1>5. /\ run' \in RunType /\ run'.pc = "clear" /\ run'.item = run.item
      /\ run'.stamp = run.stamp /\ run'.place = run.place /\ run'.baseline = run.baseline
      /\ run'.completed = run.completed
  BY <1>3, GotoFrame DEF Pcs
<1>6. Types'
  BY <1>3, <1>4, <1>5 DEF IInv, Types
<1>7. RunOK'
  BY <1>1, <1>3, <1>5 DEF IInv, RunOK, Producing, Active
<1>8. DiskOK'
  BY <1>3, <1>4, <1>5, FileFacts, TypeFacts DEF IInv, DiskOK
<1>9. PublishedThere'
  BY <1>1, <1>3, <1>4, <1>5, CountFacts DEF IInv, PublishedThere
<1>10. Undisturbed'
  <2> SUFFICES ASSUME caller = "desktop", others = 0 PROVE Undisturbed'
    BY <1>3 DEF Undisturbed
  <2>1. Untouched'
    BY <1>1, <1>3, <1>5 DEF IInv, Undisturbed, Untouched
  <2>2. FilesKnown /\ outcome = "none"
    BY <1>1, ChecksHold DEF IInv, RunOK
  <2>3. Absent(Final(Active.item))
    BY <1>2, <1>3, <2>2 DEF FilesKnown
  <2>4. FilesKnown'
    <3>1. record.known /\ record' = record /\ Active' = Active
      BY <1>1, <1>3 DEF IInv, RunOK, Active
    <3> QED
      BY <1>3, <1>4, <2>2, <3>1 DEF FilesKnown, Absent
  <2>5. FilesExact'
    BY <1>2, <1>3, <1>4, <1>5, <2>3 DEF FilesExact, Absent, Active
  <2> QED
    BY <1>3, <2>1, <2>2, <2>4, <2>5 DEF Undisturbed
<1> QED
  BY <1>1, <1>3, <1>4, <1>6, <1>7, <1>8, <1>9, <1>10, FinalsStay DEF IInv

LEMMA ClearPartialKeeps ==
  ASSUME IInv, ClearPartial
  PROVE  IInv'
<1>1. run.pc = "clear" /\ Running /\ Active # NoActive /\ record.known
  BY DEF ClearPartial, IInv, RunOK
<1>2. Active.item \in Items /\ Active.item = Len(record.completed) + 1
  BY <1>1, TypeFacts DEF IInv, RecordOK
<1>3. SUFFICES ASSUME record' = [record EXCEPT !.active = NoActive],
                      run' = [run EXCEPT !.pc = "recovered"], outcome' = outcome,
                      UNCHANGED <<caller, disk, place, source, others, sullied, runs, stranded>>
               PROVE  IInv'
  BY <1>1, EventCases DEF ClearPartial
<1>4. /\ record' \in RecordType /\ record'.known = record.known
      /\ record'.stamp = record.stamp /\ record'.place = record.place
      /\ record'.baseline = record.baseline /\ record'.completed = record.completed
      /\ record'.active = NoActive /\ record'.published = record.published
  BY <1>3 DEF IInv, Types, RecordType
<1>5. /\ run' \in RunType /\ run'.pc = "recovered" /\ run'.item = run.item
      /\ run'.stamp = run.stamp /\ run'.place = run.place /\ run'.baseline = run.baseline
      /\ run'.completed = run.completed
  BY <1>3, GotoFrame DEF Goto, Pcs
<1>6. Types'
  BY <1>3, <1>4, <1>5 DEF IInv, Types
<1>7. RecordOK'
  BY <1>1, <1>4 DEF IInv, RecordOK, Active
<1>8. RunOK'
  BY <1>1, <1>3, <1>4, <1>5 DEF IInv, RunOK, Producing, Active
<1>9. DiskOK'
  BY <1>3, <1>5 DEF IInv, DiskOK
<1>10. PublishedThere'
  BY <1>1, <1>3, <1>4, <1>5 DEF IInv, PublishedThere
<1>11. SlicesSurvive'
  BY <1>3, <1>4 DEF IInv, SlicesSurvive, Entry
<1>12. ManifestMeansWhole'
  BY <1>3 DEF IInv, ManifestMeansWhole, LeftByCommand
<1>13. Undisturbed'
  <2> SUFFICES ASSUME caller = "desktop", others = 0 PROVE Undisturbed'
    BY <1>3 DEF Undisturbed
  <2>1. FilesKnown /\ outcome = "none"
        /\ Absent(Partial(Active.item)) /\ Absent(Final(Active.item))
    BY <1>1, ChecksHold DEF IInv, RunOK, FilesExact
  <2>2. Untouched'
    BY <1>1, <1>3, <1>4, <1>5 DEF IInv, Undisturbed, Untouched
  <2>3. \A i \in Items : Absent(Partial(i))
    BY <1>2, <2>1 DEF FilesKnown
  <2>4. FilesKnown'
    <3>1. \A i \in Items : Active = [item |-> i, id |-> disk[Final(i)].id] => i = Active.item
      OBVIOUS
    <3> QED
      BY <1>1, <1>3, <1>4, <2>1, <3>1 DEF FilesKnown, Absent
  <2>5. FilesExact'
    BY <1>3, <1>5, <2>3 DEF FilesExact, Absent
  <2> QED
    BY <1>3, <2>1, <2>2, <2>4, <2>5 DEF Undisturbed
<1> QED
  BY <1>6, <1>7, <1>8, <1>9, <1>10, <1>11, <1>12, <1>13 DEF IInv

\* A slice whose file is there becomes one of the completed ones.
LEMMA SliceRecorded ==
  ASSUME IInv, AtWork, record.known,
         Active # NoActive, Active.item = Len(record.completed) + 1, Active.item <= N,
         NEW entry \in Entries, entry = Entry(Active.item),
         record' = RecordedSlice(entry), NEW pc \in {"recovered", "next"},
         run' = [run EXCEPT !.pc = pc, !.completed = Append(run.completed, entry)],
         UNCHANGED <<caller, disk, place, source, others, sullied, runs, outcome, stranded>>,
         pc = "next" => disk[Final(Manifest)].id = 0,
         caller = "desktop" /\ others = 0 =>
           Absent(Partial(Active.item)) /\ entry.data = source.content
  PROVE  IInv'
<1>1. Active.item \in Items /\ Len(record.completed) \in Nat /\ outcome = "none"
      /\ run.completed = record.completed
  BY TypeFacts DEF IInv, RunOK
<1>2. /\ record'.known = record.known /\ record'.stamp = record.stamp
      /\ record'.place = record.place /\ record'.baseline = record.baseline
      /\ record'.completed = Append(record.completed, entry)
      /\ record'.active = NoActive /\ record'.published = record.published
      /\ record' \in RecordType
  <2>1. Append(record.completed, entry) \in Seq(Entries)
    BY TypeFacts DEF IInv
  <2>2. record \in RecordType
    BY DEF IInv, Types
  <2> HIDE DEF Entries
  <2> QED
    BY <2>1, <2>2 DEF RecordedSlice, RecordType
<1>3. /\ run'.pc = pc /\ run'.item = run.item /\ run'.completed = record'.completed
      /\ run'.stamp = run.stamp /\ run'.place = run.place /\ run'.baseline = run.baseline
      /\ run' \in RunType
  <2>1. Append(run.completed, entry) \in Seq(Entries)
    BY TypeFacts DEF IInv
  <2>2. run \in RunType /\ pc \in Pcs
    BY DEF IInv, Types, Pcs
  <2> QED
    BY <1>1, <1>2, <2>1, <2>2 DEF RunType
<1>4. /\ Len(record'.completed) = Active.item
      /\ DOMAIN record'.completed = 1..Active.item
      /\ \A i \in DOMAIN record.completed : record'.completed[i] = record.completed[i]
      /\ record'.completed[Active.item] = entry
      /\ DOMAIN record.completed = 1..Len(record.completed)
  <2>1. record.completed \in Seq(Entries)
    BY TypeFacts DEF IInv
  <2> QED
    BY <1>1, <1>2, <2>1
<1>5. \A i \in DOMAIN record'.completed : i \in DOMAIN record.completed \/ i = Active.item
  BY <1>1, <1>4
<1>6. Types'
  BY <1>2, <1>3 DEF IInv, Types
<1>7. RecordOK'
  <2>1. ~record.published
    BY <1>1, CountFacts DEF IInv, RecordOK
  <2>2. Active' = NoActive /\ ~record'.published /\ record'.known /\ Len(record'.completed) <= N
    BY <1>2, <1>4, <2>1 DEF Active
  <2> QED
    BY <2>2 DEF RecordOK
<1>8. RunOK'
  BY <1>1, <1>2, <1>3 DEF IInv, RunOK, Producing, Active
<1>9. DiskOK'
  BY <1>3 DEF IInv, DiskOK
<1>10. PublishedThere'
  <2>1. ~record.published
    BY <1>1, CountFacts DEF IInv, RecordOK
  <2> QED
    BY <1>2, <2>1 DEF PublishedThere
<1>11. SlicesSurvive'
  <2>1. \A i : Entry(i)' = Entry(i)
    BY DEF Entry
  <2> QED
    BY <1>4, <1>5, <2>1 DEF IInv, SlicesSurvive
<1>12. ManifestMeansWhole'
  BY DEF IInv, ManifestMeansWhole, LeftByCommand
<1>13. Undisturbed'
  <2> SUFFICES ASSUME caller = "desktop", others = 0 PROVE Undisturbed'
    BY DEF Undisturbed
  <2>1. FilesKnown /\ Untouched /\ Absent(Partial(Active.item)) /\ entry.data = source.content
    BY ChecksHold DEF IInv, Undisturbed
  <2>2. Untouched'
    BY <1>2, <1>3, <1>4, <1>5, <2>1 DEF Untouched
  <2>3. \A i \in Items : Absent(Partial(i))
    BY <1>1, <2>1 DEF FilesKnown
  <2>4. FilesKnown'
    <3>1. ASSUME NEW i \in Items, ~Absent(Final(i)) PROVE i <= Active.item
      <4>1. \/ i <= Len(record.completed)
            \/ Active = [item |-> i, id |-> disk[Final(i)].id]
        BY <2>1, <3>1 DEF FilesKnown
      <4> QED
        BY <1>1, <4>1, CountFacts
    <3> QED
      BY <1>2, <1>4, <2>1, <2>3, <3>1 DEF FilesKnown, Absent
  <2>5. FilesExact'
    BY <1>3, <2>3 DEF FilesExact, Absent
  <2> QED
    BY <1>1, <2>2, <2>4, <2>5 DEF Undisturbed
<1> QED
  BY <1>6, <1>7, <1>8, <1>9, <1>10, <1>11, <1>12, <1>13 DEF IInv

LEMMA AdoptSliceKeeps ==
  ASSUME IInv, AdoptSlice
  PROVE  IInv'
<1> DEFINE entry == Entry(Active.item)
           next == [run EXCEPT !.pc = "recovered", !.completed = Append(run.completed, entry)]
<1>1. /\ run.pc = "recover" /\ Absent(Partial(Active.item)) /\ Active.item <= N
      /\ Adoptable /\ Event(RecordedSlice(entry), next)
  BY DEF AdoptSlice
<1>2. AtWork /\ Active # NoActive /\ record.known
      /\ run.completed = record.completed
  BY <1>1 DEF IInv, RunOK
<1>3. /\ Active.item = Len(record.completed) + 1 /\ entry.id = Active.id
      /\ entry.data = source.content
  BY <1>1, <1>2 DEF Adoptable, Entry, RangeHash
<1>4. entry \in Entries
  BY <1>2, <1>3, TypeFacts DEF Entry, Entries, IInv
<1>5. CASE record' = RecordedSlice(entry) /\ run' = next /\ outcome' = outcome
  BY <1>1, <1>2, <1>3, <1>4, <1>5, EventCases, SliceRecorded
<1> QED
  BY <1>1, <1>2, <1>5, EventCases

\* The package is complete, whether or not the checkpoint gets to know.
LEMMA ManifestRecorded ==
  ASSUME IInv, AtWork, record.known,
         Active # NoActive, Active.item = Manifest, Manifest = Len(record.completed) + 1,
         disk[Final(Manifest)].id # 0,
         record' \in {RecordedManifest, record}, run' = [run EXCEPT !.pc = "end"],
         UNCHANGED <<caller, disk, place, source, others, runs, outcome, stranded>>,
         sullied' \in {sullied, {}}, SlicesSurvive', ManifestMeansWhole',
         caller = "desktop" /\ others = 0 =>
           Absent(Partial(Manifest)) /\ disk[Final(Manifest)].data = source.content
  PROVE  IInv'
<1>1. /\ record'.known = record.known /\ record'.stamp = record.stamp
      /\ record'.place = record.place /\ record'.baseline = record.baseline
      /\ record'.completed = record.completed /\ record' \in RecordType
      /\ \/ record'.active = NoActive /\ record'.published
         \/ record' = record
  BY DEF RecordedManifest, IInv, Types, RecordType
<1>2. /\ run' \in RunType /\ run'.pc = "end" /\ run'.item = run.item
      /\ run'.stamp = run.stamp /\ run'.place = run.place /\ run'.baseline = run.baseline
      /\ run'.completed = run.completed
  BY GotoFrame DEF Goto, Pcs
<1>3. Len(record.completed) = N
  BY TypeFacts, CountFacts
<1>4. Types'
  BY <1>1, <1>2 DEF IInv, Types
<1>5. RecordOK'
  <2>1. CASE record' = record
    BY <2>1 DEF IInv, RecordOK, Active
  <2>2. CASE record'.active = NoActive
    BY <1>1, <1>3, <2>2, CountFacts DEF RecordOK, Active
  <2> QED
    BY <1>1, <2>1, <2>2
<1>6. RunOK'
  BY <1>1, <1>2 DEF IInv, RunOK, Producing
<1>7. DiskOK'
  BY <1>2 DEF IInv, DiskOK
<1>8. PublishedThere'
  BY DEF PublishedThere
<1>9. Undisturbed'
  <2> SUFFICES ASSUME caller = "desktop", others = 0 PROVE Undisturbed'
    BY DEF Undisturbed
  <2>1. /\ FilesKnown /\ Untouched /\ Absent(Partial(Manifest)) /\ outcome = "none"
        /\ disk[Final(Manifest)].data = source.content /\ source.content \in Contents
    BY ChecksHold, TypeFacts DEF IInv, Undisturbed, RunOK
  <2>2. Untouched'
    BY <1>1, <1>2, <2>1 DEF Untouched
  <2>3. FilesKnown'
    <3>1. CASE record' = record
      BY <2>1, <3>1 DEF FilesKnown, Absent, Active
    <3>2. CASE record'.active = NoActive /\ record'.published
      <4>1. ASSUME NEW i \in Items, ~Absent(Final(i))
            PROVE  i <= Len(record'.completed) \/ i = Manifest
        BY <1>1, <2>1, <4>1 DEF FilesKnown
      <4> QED
        BY <1>1, <2>1, <3>2, <4>1 DEF FilesKnown, Absent, Active
    <3> QED
      BY <1>1, <3>1, <3>2
  <2>4. WholePackage'
    <3>1. \A i \in 1..N : disk[Final(i)].data = source.content
      <4>1. \A i \in DOMAIN record.completed :
              Entry(i) = record.completed[i] /\ record.completed[i].data = source.content
        BY ChecksHold
      <4> QED
        BY <1>3, <4>1, AllThere DEF IInv
    <3> QED
      BY <2>1, <3>1 DEF WholePackage
  <2>5. FilesExact'
    BY <1>2, <2>4 DEF FilesExact
  <2> QED
    BY <2>1, <2>2, <2>3, <2>5 DEF Undisturbed
<1> QED
  BY <1>4, <1>5, <1>6, <1>7, <1>8, <1>9 DEF IInv

\* The whole package has been validated: no file of it is in doubt.
LEMMA ValidatedWhole ==
  ASSUME IInv, AtWork,
         ValidCompleted(run.completed), HasBaseline(run.completed),
         ValidManifest(run.completed),
         UNCHANGED <<caller, disk, runs, outcome>>,
         record'.completed = record.completed
  PROVE  SlicesSurvive' /\ ManifestMeansWhole' /\ WholePackage
<1>1. run.completed = record.completed /\ run.baseline \in Contents
  BY DEF IInv, RunOK
<1>2. Len(record.completed) = N /\ DOMAIN record.completed = 1..N
  BY <1>1, TypeFacts DEF ValidManifest, IInv
<1>3. SlicesSurvive'
  BY <1>1 DEF SlicesSurvive, ValidCompleted, Entry
<1>4. /\ disk[Final(Manifest)].data = run.baseline
      /\ \A i \in 1..N : disk[Final(i)].data = run.baseline
  BY <1>1, <1>2 DEF ValidManifest, HasBaseline
<1>5. ManifestMeansWhole'
  BY <1>1, <1>4 DEF ManifestMeansWhole
<1> QED
  BY <1>1, <1>3, <1>4, <1>5 DEF WholePackage

LEMMA AdoptManifestKeeps ==
  ASSUME IInv, AdoptManifest
  PROVE  IInv'
<1>1. /\ run.pc = "recover" /\ Absent(Partial(Manifest)) /\ Active.item = Manifest
      /\ Adoptable /\ run' = [run EXCEPT !.pc = "end"] /\ sullied' = {}
      /\ record' \in {RecordedManifest, record}
      /\ UNCHANGED <<caller, disk, place, source, others, runs, outcome, stranded>>
  BY DEF AdoptManifest
<1>2. AtWork /\ Active # NoActive /\ record.known
      /\ run.completed = record.completed
  BY <1>1 DEF IInv, RunOK
<1>3. ValidCompleted(run.completed) /\ HasBaseline(run.completed)
      /\ ValidManifest(run.completed)
  BY <1>1, CountFacts DEF Adoptable
<1>4. Manifest = Len(record.completed) + 1 /\ disk[Final(Manifest)].id # 0
  BY <1>1, <1>2, TypeFacts DEF Adoptable, Runs, IInv
<1>5. record'.completed = record.completed
  BY <1>1 DEF RecordedManifest, IInv, Types, RecordType
<1>6. SlicesSurvive' /\ ManifestMeansWhole'
  BY <1>1, <1>2, <1>3, <1>5, ValidatedWhole
<1>7. caller = "desktop" /\ others = 0 => disk[Final(Manifest)].data = source.content
  <2>1. disk[Final(Manifest)].data = run.baseline
    BY <1>3 DEF ValidManifest
  <2> QED
    BY <1>2, <2>1, ChecksHold
<1> QED
  BY <1>1, <1>2, <1>4, <1>6, <1>7, ManifestRecorded

LEMMA RefuseAdoptionKeeps ==
  ASSUME IInv, RefuseAdoption
  PROVE  IInv'
<1>1. run.pc = "recover" /\ Absent(Partial(Active.item)) /\ Refused("recover", Adoptable)
  BY DEF RefuseAdoption, Refused
<1>2. Active # NoActive /\ run.completed = record.completed
  BY <1>1 DEF IInv, RunOK
<1>3. /\ Active.item \in Items /\ Active.item = Len(record.completed) + 1
      /\ Len(record.completed) \in Nat
      /\ Active = [item |-> Active.item, id |-> Active.id]
  BY <1>2, TypeFacts DEF IInv, RecordOK
<1>4. ASSUME caller = "desktop", others = 0, ~stranded PROVE Adoptable
  <2>1. /\ FilesKnown /\ ~Stranded /\ DestinationHeld /\ SourceUnchanged
        /\ ValidCompleted(run.completed) /\ HasBaseline(run.completed)
        /\ run.baseline = source.content
        /\ \A i \in DOMAIN record.completed :
              Entry(i) = record.completed[i] /\ record.completed[i].data = source.content
    BY <1>1, <1>4, ChecksHold DEF FilesExact
  <2>2. ~Absent(Final(Active.item))
    BY <1>1, <1>2, <2>1 DEF Stranded, Active
  <2>3. /\ disk[Final(Active.item)].data = source.content
        /\ \/ Active.item <= Len(record.completed)
           \/ Active = [item |-> Active.item, id |-> disk[Final(Active.item)].id]
    BY <1>2, <1>3, <2>1, <2>2 DEF FilesKnown
  <2>4. disk[Final(Active.item)].id = Active.id
    BY <1>3, <2>3
  <2>5. CASE Active.item <= N
    BY <1>2, <1>3, <2>3, <2>4, <2>5 DEF Adoptable, RangeHash
  <2>6. CASE ~(Active.item <= N)
    <3>1. Active.item = Manifest /\ Len(run.completed) = N
      <4>1. Active.item <= N + 1 /\ Active.item \in Nat
        BY <1>3, CountFacts
      <4> QED
        BY <1>2, <1>3, <2>6, <4>1, CountFacts
    <3>2. \A i \in 1..N : disk[Final(i)].data = record.completed[i].data
      BY <1>2, <2>1, <3>1, AllThere DEF IInv
    <3>3. ValidManifest(run.completed)
      BY <1>2, <2>1, <2>3, <3>1, <3>2 DEF ValidManifest
    <3> QED
      BY <1>2, <1>3, <2>1, <2>4, <2>6, <3>3 DEF Adoptable
  <2> QED
    BY <2>5, <2>6
<1> QED
  BY <1>1, <1>4, RefusedKeeps

LEMMA GoOnKeeps ==
  ASSUME IInv, GoOn
  PROVE  IInv'
<1>1. /\ run.pc = "recovered" /\ Running /\ Active = NoActive /\ record.known
      /\ run.completed = record.completed /\ Len(record.completed) <= N
  BY DEF GoOn, Refused, IInv, RunOK, RecordOK
<1>2. CASE Refused("recovered", Recovered)
  <2>1. ASSUME caller = "desktop", others = 0, ~stranded PROVE Recovered
    <3>1. /\ FilesKnown /\ DestinationHeld /\ SourceUnchanged
          /\ ValidCompleted(run.completed) /\ HasBaseline(run.completed)
          /\ run.baseline = source.content
          /\ \A i \in DOMAIN record.completed :
                Entry(i) = record.completed[i] /\ record.completed[i].data = source.content
      BY <1>1, <2>1, ChecksHold
    <3>2. CASE Absent(Final(Manifest))
      BY <3>1, <3>2 DEF Recovered
    <3>3. CASE ~Absent(Final(Manifest))
      <4>1. ~(Manifest <= Len(record.completed)) /\ Active.item # Manifest
        BY <1>1, TypeFacts, CountFacts DEF NoActive, IInv
      <4>2. record.published /\ disk[Final(Manifest)].data = source.content
        BY <3>1, <3>3, <4>1, CountFacts DEF FilesKnown
      <4>3. Len(record.completed) = N
        BY <1>1, <4>2 DEF IInv, RecordOK
      <4>4. \A i \in 1..N : disk[Final(i)].data = record.completed[i].data
        BY <3>1, <4>3, AllThere DEF IInv
      <4>5. ValidManifest(run.completed)
        BY <1>1, <3>1, <4>2, <4>3, <4>4 DEF ValidManifest
      <4> QED
        BY <3>1, <3>3, <4>2, <4>5 DEF Recovered
    <3> QED
      BY <3>2, <3>3
  <2> QED
    BY <1>1, <1>2, <2>1, RefusedKeeps
<1>3. CASE ~Refused("recovered", Recovered) /\ Absent(Final(Manifest))
  <2>1. /\ Goto("next") /\ disk[Final(Manifest)].id = 0
        /\ UNCHANGED <<caller, disk, place, source, record, others, sullied, runs, outcome,
                       stranded>>
    BY <1>3, FileFacts DEF GoOn, Absent
  <2>2. /\ run' \in RunType /\ run'.pc = "next" /\ run'.item = run.item
        /\ run'.stamp = run.stamp /\ run'.place = run.place /\ run'.baseline = run.baseline
        /\ run'.completed = run.completed
    BY <2>1, GotoFrame DEF Pcs
  <2>3. Types'
    BY <2>1, <2>2 DEF IInv, Types
  <2>4. RunOK'
    BY <1>1, <2>1, <2>2 DEF IInv, RunOK, Producing, Active
  <2>5. DiskOK' /\ PublishedThere'
    BY <1>1, <2>1, <2>2 DEF IInv, DiskOK, PublishedThere, Active
  <2>6. Undisturbed'
    <3> SUFFICES ASSUME caller = "desktop", others = 0 PROVE Undisturbed'
      BY <2>1 DEF Undisturbed
    <3>1. FilesKnown /\ FilesExact /\ Untouched /\ outcome = "none"
      BY <1>1, ChecksHold DEF IInv, RunOK, Undisturbed
    <3>2. Untouched' /\ FilesKnown'
      BY <1>1, <2>1, <2>2, <3>1 DEF Untouched, FilesKnown, Absent, Active
    <3>3. FilesExact'
      BY <1>1, <2>1, <2>2, <3>1 DEF FilesExact, Absent
    <3> QED
      BY <2>1, <3>1, <3>2, <3>3 DEF Undisturbed
  <2> QED
    BY <1>1, <2>1, <2>3, <2>4, <2>5, <2>6, FinalsStay DEF IInv
<1>4. CASE ~Refused("recovered", Recovered) /\ ~Absent(Final(Manifest))
  <2>1. /\ Goto("end") /\ sullied' = {} /\ record.published
        /\ ValidCompleted(run.completed) /\ HasBaseline(run.completed)
        /\ ValidManifest(run.completed)
        /\ UNCHANGED <<caller, disk, place, source, record, others, runs, outcome, stranded>>
    BY <1>4 DEF GoOn, Recovered
  <2>2. /\ run' \in RunType /\ run'.pc = "end" /\ run'.item = run.item
        /\ run'.stamp = run.stamp /\ run'.place = run.place /\ run'.baseline = run.baseline
        /\ run'.completed = run.completed
    BY <2>1, GotoFrame DEF Pcs
  <2>3. SlicesSurvive' /\ ManifestMeansWhole' /\ WholePackage
    BY <1>1, <2>1, ValidatedWhole
  <2>4. disk[Final(Manifest)].id # 0
    <3>1. disk[Final(Manifest)].data \in Contents
      BY <2>3 DEF WholePackage
    <3> QED
      BY <3>1, FileFacts, NameFacts, CountFacts DEF IInv, DiskOK
  <2>5. Types'
    BY <2>1, <2>2 DEF IInv, Types
  <2>6. RecordOK' /\ RunOK'
    BY <1>1, <2>1, <2>2 DEF IInv, RecordOK, RunOK, Producing, Active
  <2>7. DiskOK' /\ PublishedThere'
    BY <2>1, <2>2, <2>4 DEF IInv, DiskOK, PublishedThere
  <2>8. Undisturbed'
    <3> SUFFICES ASSUME caller = "desktop", others = 0 PROVE Undisturbed'
      BY <2>1 DEF Undisturbed
    <3>1. FilesKnown /\ Untouched /\ outcome = "none"
      BY <1>1, ChecksHold DEF IInv, RunOK, Undisturbed
    <3>2. Untouched' /\ FilesKnown'
      BY <1>1, <2>1, <2>2, <3>1 DEF Untouched, FilesKnown, Absent, Active
    <3>3. FilesExact'
      BY <2>1, <2>2, <2>3, <2>4 DEF FilesExact, WholePackage
    <3> QED
      BY <2>1, <3>1, <3>2, <3>3 DEF Undisturbed
  <2> QED
    BY <2>3, <2>5, <2>6, <2>7, <2>8 DEF IInv
<1> QED
  BY <1>2, <1>3, <1>4

-----------------------------------------------------------------------------
(* One slice after the other, then the manifest.                           *)

LEMMA VerifyAllKeeps ==
  ASSUME IInv, VerifyAll
  PROVE  IInv'
<1>1. /\ run.pc = "next" /\ Running /\ Active = NoActive /\ record.known
      /\ run.completed = record.completed
  BY DEF VerifyAll, Refused, IInv, RunOK
<1>2. CASE Refused("next", AllWhole)
  <2>1. ASSUME caller = "desktop", others = 0 PROVE AllWhole
    BY <1>1, <2>1, ChecksHold DEF AllWhole
  <2> QED
    BY <1>1, <1>2, <2>1, RefusedKeeps
<1>3. CASE ~Refused("next", AllWhole)
  <2>1. /\ NextItem = Manifest /\ AllWhole /\ Goto("verified") /\ sullied' = sullied \ (1..N)
        /\ UNCHANGED <<caller, disk, place, source, record, others, runs, outcome, stranded>>
    BY <1>3 DEF VerifyAll
  <2>2. /\ run' \in RunType /\ run'.pc = "verified" /\ run'.item = run.item
        /\ run'.stamp = run.stamp /\ run'.place = run.place /\ run'.baseline = run.baseline
        /\ run'.completed = run.completed
    BY <2>1, GotoFrame DEF Pcs
  <2>3. Len(run.completed) = N
    BY <1>1, <2>1, TypeFacts, CountFacts DEF NextItem, IInv
  <2>4. Types'
    BY <2>1, <2>2 DEF IInv, Types
  <2>5. RunOK'
    <3>1. HasBaseline(run.completed)'
      BY <2>1, <2>2 DEF AllWhole, HasBaseline
    <3> QED
      BY <1>1, <2>1, <2>2, <2>3, <3>1 DEF IInv, RunOK, Producing, Active
  <2>6. RecordOK' /\ DiskOK'
    BY <1>1, <2>1, <2>2 DEF IInv, RecordOK, DiskOK, Active
  <2>7. PublishedThere'
    BY <1>1, <2>1, <2>2, CountFacts DEF IInv, PublishedThere, Active
  <2>8. SlicesSurvive'
    BY <1>1, <2>1 DEF AllWhole, ValidCompleted, SlicesSurvive, Entry
  <2>9. ManifestMeansWhole'
    BY <1>1, <2>1 DEF IInv, DiskOK, ManifestMeansWhole
  <2>10. Undisturbed'
    <3> SUFFICES ASSUME caller = "desktop", others = 0 PROVE Undisturbed'
      BY <2>1 DEF Undisturbed
    <3>1. FilesKnown /\ FilesExact /\ Untouched /\ outcome = "none"
      BY <1>1, ChecksHold DEF IInv, RunOK, Undisturbed
    <3>2. Untouched' /\ FilesKnown'
      BY <1>1, <2>1, <2>2, <3>1 DEF Untouched, FilesKnown, Absent, Active
    <3>3. FilesExact'
      BY <1>1, <2>1, <2>2, <3>1 DEF FilesExact, Absent
    <3> QED
      BY <2>1, <3>1, <3>2, <3>3 DEF Undisturbed
  <2> QED
    BY <2>4, <2>5, <2>6, <2>7, <2>8, <2>9, <2>10 DEF IInv
<1> QED
  BY <1>2, <1>3

\* A file of the run at the partial name of the item that comes next.
LEMMA PartialFilled ==
  ASSUME FilesKnown, record.known, NEW i \in Items, i = Len(record.completed) + 1,
         \A j \in Items : /\ disk'[Final(j)] = disk[Final(j)]
                          /\ j # i => disk'[Partial(j)] = disk[Partial(j)],
         disk'[Partial(i)].id # 0, Absent(Final(i)), UNCHANGED <<record, source>>
  PROVE  FilesKnown'
<1>1. Active' = Active
  BY DEF Active
<1>2. ASSUME NEW j \in Items
      PROVE  /\ disk'[Partial(j)].id = 0 => disk'[Partial(j)] = NoFile
             /\ disk'[Partial(j)] # NoFile => disk'[Final(j)] = NoFile /\ j = i
  <2>1. CASE j = i
    BY <2>1 DEF Absent
  <2>2. CASE j # i
    BY <2>2 DEF FilesKnown, Absent
  <2> QED
    BY <2>1, <2>2
<1>3. ASSUME NEW j \in Items
      PROVE  /\ disk'[Final(j)].id = 0 => disk'[Final(j)] = NoFile
             /\ disk'[Final(j)] # NoFile =>
                  /\ disk'[Final(j)].data = source.content
                  /\ \/ j <= Len(record.completed)
                     \/ Active = [item |-> j, id |-> disk'[Final(j)].id]
                     \/ j = Manifest /\ record.published /\ Active = NoActive
  BY DEF FilesKnown, Absent
<1> QED
  BY <1>1, <1>2, <1>3 DEF FilesKnown, Absent

LEMMA CreatePartialKeeps ==
  ASSUME IInv, CreatePartial
  PROVE  IInv'
<1>1. /\ run.pc \in {"next", "verified"} /\ Running /\ Active = NoActive /\ record.known
      /\ run.completed = record.completed /\ runs # 0 /\ outcome = "none"
      /\ disk[Final(Manifest)].id = 0
  BY DEF CreatePartial, IInv, RunOK, DiskOK
<1>2. /\ NextItem = Len(record.completed) + 1 /\ Len(record.completed) \in Nat
      /\ run.pc = "verified" => NextItem = Manifest /\ HasBaseline(run.completed)
      /\ run.pc = "next" => NextItem <= N
      /\ NextItem \in Items
  <2>1. Len(record.completed) \in Nat /\ NextItem = Len(record.completed) + 1
    BY <1>1, TypeFacts DEF NextItem, IInv
  <2>2. run.pc = "verified" => Len(record.completed) = N /\ HasBaseline(run.completed)
    BY <1>1 DEF IInv, RunOK
  <2>3. run.pc = "next" => NextItem <= N
    BY DEF CreatePartial
  <2> QED
    BY <1>1, <2>1, <2>2, <2>3, CountFacts
<1>3. CASE Refused(run.pc, MayCreate(NextItem))
  <2>1. ASSUME caller = "desktop", others = 0, ~stranded PROVE MayCreate(NextItem)
    <3>1. FilesKnown /\ FilesExact /\ DestinationHeld
      BY <1>1, <2>1, ChecksHold
    <3>2. Absent(Partial(NextItem))
      BY <1>1, <1>2, <2>1, <3>1 DEF FilesExact
    <3>3. NextItem <= N => Absent(Final(NextItem))
      <4>1. ~(NextItem <= Len(record.completed)) /\ NextItem # 0
            /\ (NextItem <= N => NextItem # Manifest)
        BY <1>2, CountFacts
      <4> QED
        BY <1>1, <1>2, <3>1, <4>1 DEF FilesKnown, NoActive
    <3> QED
      BY <3>1, <3>2, <3>3 DEF MayCreate
  <2> QED
    BY <1>1, <1>3, <2>1, RefusedKeeps
<1>4. CASE ~Refused(run.pc, MayCreate(NextItem))
  <2> DEFINE file == [id |-> runs, data |-> "torn"]
  <2>1. /\ MayCreate(NextItem) /\ disk' = [disk EXCEPT ![Partial(NextItem)] = file]
        /\ run' = [run EXCEPT !.pc = "created", !.item = NextItem]
        /\ UNCHANGED <<caller, place, source, record, others, sullied, runs, outcome, stranded>>
    BY <1>4 DEF CreatePartial
  <2>2. file \in Files /\ file.id = runs /\ file.data = "torn"
    BY TypeFacts, FileFacts DEF IInv, Data
  <2> HIDE DEF file
  <2>3. /\ disk' \in [Names -> Files]
        /\ \A j \in Items : /\ disk'[Final(j)] = disk[Final(j)]
                            /\ j # NextItem => disk'[Partial(j)] = disk[Partial(j)]
        /\ disk'[Partial(NextItem)] = file
        /\ \A name \in Names : disk'[name] \in {disk[name], file}
    BY <1>2, <2>1, <2>2, PartialChanged DEF IInv
  <2>4. /\ run' \in RunType /\ run'.pc = "created" /\ run'.item = NextItem
        /\ run'.stamp = run.stamp /\ run'.place = run.place /\ run'.baseline = run.baseline
        /\ run'.completed = run.completed
    <3>1. NextItem \in 0..Manifest
      BY <1>2, CountFacts
    <3> HIDE DEF NextItem
    <3> QED
      BY <2>1, <3>1 DEF IInv, Types, RunType, Pcs
  <2>5. Types'
    BY <2>1, <2>3, <2>4 DEF IInv, Types
  <2>6. RunOK'
    <3>1. NextItem = Manifest => HasBaseline(run.completed)'
      <4>1. NextItem = Manifest => run.pc = "verified"
        BY <1>1, <1>2, CountFacts
      <4> QED
        BY <1>2, <2>4, <4>1 DEF HasBaseline
    <3> QED
      BY <1>1, <1>2, <2>1, <2>4, <3>1 DEF IInv, RunOK, Producing, Active
  <2>7. DiskOK'
    BY <1>1, <2>1, <2>2, <2>3, <2>4, CountFacts, TypeFacts DEF IInv, DiskOK
  <2>8. PublishedThere'
    BY <1>1, <2>1, <2>3, CountFacts DEF IInv, PublishedThere, Active
  <2>9. Undisturbed'
    <3> SUFFICES ASSUME caller = "desktop", others = 0 PROVE Undisturbed'
      BY <2>1 DEF Undisturbed
    <3>1. FilesKnown /\ FilesExact /\ Untouched
      BY <1>1, ChecksHold DEF IInv, RunOK, Undisturbed
    <3>2. Untouched'
      BY <1>1, <2>1, <2>4, <3>1 DEF Untouched
    <3>3. Absent(Final(NextItem))
      <4>1. NextItem <= N \/ NextItem = Manifest
        BY <1>1, <1>2
      <4> QED
        BY <1>1, <1>2, <2>1, <3>1, <4>1 DEF MayCreate, FilesKnown
    <3>4. FilesKnown'
      <4>1. record' = record /\ Active' = Active /\ disk'[Partial(NextItem)].id # 0
        BY <1>1, <2>1, <2>2, <2>3 DEF Active
      <4> QED
        BY <1>1, <1>2, <2>1, <2>3, <3>1, <3>3, <4>1, PartialFilled
    <3>5. FilesExact'
      BY <1>2, <2>1, <2>3, <2>4, <3>3 DEF FilesExact, Absent, file
    <3> QED
      BY <1>1, <2>1, <3>2, <3>4, <3>5 DEF Undisturbed
  <2> QED
    BY <1>1, <2>1, <2>3, <2>5, <2>6, <2>7, <2>8, <2>9, FinalsStay DEF IInv
<1> QED
  BY <1>3, <1>4

LEMMA RecordPartialKeeps ==
  ASSUME IInv, RecordPartial
  PROVE  IInv'
<1>1. /\ run.pc = "created" /\ Running /\ Active = NoActive /\ record.known
      /\ run.completed = record.completed /\ runs # 0 /\ outcome = "none"
      /\ disk[Final(Manifest)].id = 0 /\ run.item = Len(record.completed) + 1
  BY DEF RecordPartial, IInv, RunOK, DiskOK, Producing
<1>2. SUFFICES ASSUME record' = RecordedPartial(run.item),
                      run' = [run EXCEPT !.pc = "copy"], outcome' = outcome,
                      UNCHANGED <<caller, disk, place, source, others, sullied, runs, stranded>>
               PROVE  IInv'
  BY <1>1, EventCases DEF RecordPartial
<1>3. run.item \in Items /\ runs \in Runs /\ run.item # 0
  BY <1>1, TypeFacts, CountFacts DEF IInv, Runs
<1>4. /\ record'.known = record.known /\ record'.stamp = record.stamp
      /\ record'.place = record.place /\ record'.baseline = record.baseline
      /\ record'.completed = record.completed /\ record'.published = record.published
      /\ record'.active = [item |-> run.item, id |-> runs] /\ record' \in RecordType
  BY <1>2, <1>3 DEF RecordedPartial, IInv, Types, RecordType
<1>5. /\ run' \in RunType /\ run'.pc = "copy" /\ run'.item = run.item
      /\ run'.stamp = run.stamp /\ run'.place = run.place /\ run'.baseline = run.baseline
      /\ run'.completed = run.completed
  BY <1>2, GotoFrame DEF Goto, Pcs
<1>6. Types'
  BY <1>2, <1>4, <1>5 DEF IInv, Types
<1>7. RecordOK'
  BY <1>1, <1>4 DEF IInv, RecordOK, Active
<1>8. RunOK'
  <2>1. run.item = Manifest => HasBaseline(run.completed)'
    BY <1>1, <1>5 DEF IInv, RunOK, Producing, HasBaseline
  <2> QED
    BY <1>1, <1>2, <1>4, <1>5, <2>1 DEF IInv, RunOK, Producing, Active, NoActive
<1>9. DiskOK'
  BY <1>1, <1>2, <1>5 DEF IInv, DiskOK
<1>10. PublishedThere' /\ SlicesSurvive' /\ ManifestMeansWhole'
  <2>1. PublishedThere'
    BY <1>1, <1>2, <1>4 DEF IInv, PublishedThere
  <2>2. SlicesSurvive' /\ ManifestMeansWhole'
    BY <1>2, <1>4 DEF IInv, SlicesSurvive, Entry, ManifestMeansWhole, LeftByCommand
  <2> QED
    BY <2>1, <2>2
<1>11. Undisturbed'
  <2> SUFFICES ASSUME caller = "desktop", others = 0 PROVE Undisturbed'
    BY <1>2 DEF Undisturbed
  <2>1. FilesKnown /\ FilesExact /\ Untouched
    BY <1>1, ChecksHold DEF IInv, Undisturbed
  <2>2. Untouched'
    BY <1>1, <1>2, <1>4, <1>5, <2>1 DEF Untouched
  <2>3. FilesKnown'
    <3>1. Absent(Final(Manifest))
      BY <1>1, <2>1, CountFacts DEF FilesKnown
    <3>2. ASSUME NEW i \in Items, ~Absent(Final(i)) PROVE i <= Len(record.completed)
      <4>1. i # 0 /\ i # Manifest
        BY <3>1, <3>2, CountFacts
      <4> QED
        BY <1>1, <2>1, <3>2, <4>1 DEF FilesKnown, NoActive
    <3> QED
      BY <1>1, <1>2, <1>4, <2>1, <3>2 DEF FilesKnown, Absent
  <2>4. FilesExact'
    BY <1>1, <1>2, <1>5, <2>1 DEF FilesExact, Absent
  <2> QED
    BY <1>1, <1>2, <2>2, <2>3, <2>4 DEF Undisturbed
<1> QED
  BY <1>6, <1>7, <1>8, <1>9, <1>10, <1>11 DEF IInv

LEMMA CopyKeeps ==
  ASSUME IInv, Copy
  PROVE  IInv'
<1> DEFINE data == IF run.item <= N THEN source.content ELSE run.baseline
           old == disk[Partial(run.item)]
           file == IF old.id = runs THEN [id |-> runs, data |-> data] ELSE old
<1>1. /\ run.pc = "copy" /\ Running /\ record.known /\ run.completed = record.completed
      /\ Active = [item |-> run.item, id |-> runs] /\ Active # NoActive
      /\ runs # 0 /\ outcome = "none" /\ disk[Final(Manifest)].id = 0
  <2>1. run.pc = "copy"
    BY DEF Copy, Refused
  <2>2. /\ Running /\ record.known /\ run.completed = record.completed
        /\ Active = [item |-> run.item, id |-> runs]
        /\ runs # 0 /\ outcome = "none" /\ disk[Final(Manifest)].id = 0
    BY <2>1 DEF IInv, RunOK, DiskOK, Producing
  <2> QED
    BY <2>1, <2>2 DEF NoActive
<1>2. run.item \in Items /\ run.item = Len(record.completed) + 1
  BY <1>1, TypeFacts DEF IInv, RecordOK
<1>3. CASE Refused("copy", Copied)
  <2>1. ASSUME caller = "desktop", others = 0 PROVE Copied
    BY <1>1, <2>1, ChecksHold DEF Copied
  <2> QED
    BY <1>1, <1>3, <2>1, RefusedKeeps
<1>4. CASE ~Refused("copy", Copied)
  <2>1. /\ disk' = [disk EXCEPT ![Partial(run.item)].data = IF old.id = runs THEN data ELSE @]
        /\ run' = [run EXCEPT !.pc = "staged", !.data = data]
        /\ UNCHANGED <<caller, place, source, record, others, sullied, runs, outcome, stranded>>
    BY <1>4 DEF Copy
  <2>2. data \in Contents /\ (run.item = Manifest => data = run.baseline)
    BY <1>1, TypeFacts, CountFacts DEF IInv, RunOK
  <2>3. old \in Files /\ old.id \in 0..MaxRuns /\ old = [id |-> old.id, data |-> old.data]
    BY <1>2, NameFacts, TypeFacts, FileFacts DEF IInv
  <2> HIDE DEF data
  <2>4. file \in Files /\ file.id = old.id /\ (old.id = runs => file.data = data)
        /\ (old.id # runs => file = old)
    BY <2>2, <2>3, FileFacts DEF Data
  <2>5. disk' = [disk EXCEPT ![Partial(run.item)] = file]
    <3>1. [old EXCEPT !.data = IF old.id = runs THEN data ELSE old.data] = file
      BY <2>3
    <3>2. disk' = [disk EXCEPT ![Partial(run.item)] =
                     [old EXCEPT !.data = IF old.id = runs THEN data ELSE old.data]]
      BY <2>1
    <3> QED
      BY <3>1, <3>2
  <2>6. /\ disk' \in [Names -> Files]
        /\ \A j \in Items : /\ disk'[Final(j)] = disk[Final(j)]
                            /\ j # run.item => disk'[Partial(j)] = disk[Partial(j)]
        /\ disk'[Partial(run.item)] = file
        /\ \A name \in Names : disk'[name] \in {disk[name], file}
    BY <1>2, <2>4, <2>5, PartialChanged DEF IInv
  <2>7. /\ run'.pc = "staged" /\ run'.item = run.item /\ run'.data = data
        /\ run'.stamp = run.stamp /\ run'.place = run.place /\ run'.baseline = run.baseline
        /\ run'.completed = run.completed /\ run' \in RunType
    BY <2>1, <2>2 DEF IInv, Types, RunType, Pcs
  <2>8. old.id = 0 => old \in {NoFile, Foreign}
    BY <1>2, NameFacts DEF IInv, DiskOK
  <2> HIDE DEF file, old
  <2>9. Types'
    BY <2>1, <2>6, <2>7 DEF IInv, Types
  <2>10. RunOK'
    <3>1. run.item = Manifest => HasBaseline(run.completed)'
      BY <1>1, <2>7 DEF IInv, RunOK, Producing, HasBaseline
    <3> QED
      BY <1>1, <2>1, <2>2, <2>7, <3>1 DEF IInv, RunOK, Producing, Active
  <2>11. DiskOK'
    <3>1. /\ file.id = 0 => file \in {NoFile, Foreign}
          /\ file.id <= runs
      <4>1. Partial(run.item) \in Names
        BY <1>2, NameFacts
      <4> QED
        BY <1>1, <2>4, <2>8, <4>1 DEF IInv, DiskOK, old
    <3> QED
      BY <1>1, <2>1, <2>6, <2>7, <3>1, CountFacts DEF IInv, DiskOK
  <2>12. PublishedThere'
    <3>1. disk'[Partial(Manifest)].id = disk[Partial(Manifest)].id
      BY <2>4, <2>6, CountFacts DEF old
    <3> QED
      BY <1>1, <2>1, <2>6, <2>7, <3>1, CountFacts DEF IInv, PublishedThere, Active
  <2>13. Undisturbed'
    <3> SUFFICES ASSUME caller = "desktop", others = 0 PROVE Undisturbed'
      BY <2>1 DEF Undisturbed
    <3>1. FilesKnown /\ FilesExact /\ Untouched /\ run.baseline = source.content
      BY <1>1, ChecksHold DEF IInv, RunOK, Undisturbed
    <3>2. old = [id |-> runs, data |-> "torn"] /\ Absent(Final(run.item))
      BY <1>1, <3>1 DEF FilesExact, old
    <3>3. file = [id |-> runs, data |-> data] /\ data = source.content
      BY <3>1, <3>2 DEF file, data
    <3>4. Untouched'
      BY <1>1, <2>1, <2>7, <3>1 DEF Untouched
    <3>5. FilesKnown'
      <4>1. record' = record /\ Active' = Active /\ file.id # 0
        BY <1>1, <2>1, <3>3 DEF Active
      <4> QED
        BY <1>1, <1>2, <2>1, <2>6, <3>1, <3>2, <4>1, PartialFilled
    <3>6. FilesExact'
      BY <1>2, <2>1, <2>6, <2>7, <3>2, <3>3 DEF FilesExact, Absent, Staged
    <3> QED
      BY <1>1, <2>1, <3>4, <3>5, <3>6 DEF Undisturbed
  <2> QED
    BY <1>1, <2>1, <2>6, <2>9, <2>10, <2>11, <2>12, <2>13, FinalsStay DEF IInv
<1> QED
  BY <1>3, <1>4

\* What a rename does to the names of the destination.
LEMMA Renamed ==
  ASSUME Types, NEW i \in Items,
         disk' = [disk EXCEPT ![Final(i)] = disk[Partial(i)], ![Partial(i)] = NoFile]
  PROVE  /\ disk' \in [Names -> Files]
         /\ disk'[Final(i)] = disk[Partial(i)] /\ disk'[Partial(i)] = NoFile
         /\ \A j \in Items : j # i => /\ disk'[Final(j)] = disk[Final(j)]
                                      /\ disk'[Partial(j)] = disk[Partial(j)]
         /\ \A name \in Names : disk'[name] \in {disk[name], disk[Partial(i)], NoFile}
<1>1. disk \in [Names -> Files] /\ NoFile \in Files
  BY FileFacts DEF Types
<1>2. Final(i) \in Names /\ Partial(i) \in Names
      /\ \A j \in Items : Final(j) \in Names /\ Partial(j) \in Names
  BY NameFacts
<1>3. \A j \in Items : /\ Final(j) # Partial(i) /\ Partial(j) # Final(i)
                       /\ j # i => Final(j) # Final(i) /\ Partial(j) # Partial(i)
  BY NameFacts
<1> QED
  BY <1>1, <1>2, <1>3

\* The partial that is about to be renamed has been hashed and compared.
LEMMA CheckStagedKeeps ==
  ASSUME IInv, CheckStaged
  PROVE  IInv'
<1>1. run.pc = "staged" /\ record.known /\ outcome = "none"
  BY DEF CheckStaged, Refused, IInv, RunOK
<1>2. CASE Refused("staged", Staged)
  <2>1. ASSUME caller = "desktop", others = 0 PROVE Staged
    BY <1>1, <2>1, ChecksHold DEF FilesExact
  <2> QED
    BY <1>1, <1>2, <2>1, RefusedKeeps
<1>3. CASE ~Refused("staged", Staged)
  <2>1. /\ Staged /\ Goto("checked")
        /\ UNCHANGED <<caller, disk, place, source, record>>
        /\ UNCHANGED <<others, sullied, runs, outcome, stranded>>
    BY <1>3 DEF CheckStaged
  <2>2. /\ run' \in RunType /\ run'.pc = "checked" /\ run'.item = run.item
        /\ run'.data = run.data
        /\ run'.stamp = run.stamp /\ run'.place = run.place /\ run'.baseline = run.baseline
        /\ run'.completed = run.completed
    BY <2>1, GotoFrame DEF Pcs
  <2>3. Types'
    BY <2>1, <2>2 DEF IInv, Types
  <2>4. RunOK'
    BY <1>1, <2>1, <2>2 DEF IInv, RunOK, Producing, Active, HasBaseline
  <2>5. DiskOK' /\ PublishedThere'
    BY <1>1, <2>1, <2>2 DEF IInv, DiskOK, PublishedThere, Active
  <2>6. Undisturbed'
    <3> SUFFICES ASSUME caller = "desktop", others = 0 PROVE Undisturbed'
      BY <2>1 DEF Undisturbed
    <3>1. FilesKnown /\ FilesExact /\ Untouched
      BY <1>1, ChecksHold DEF IInv, Undisturbed
    <3>2. Untouched' /\ FilesKnown'
      BY <1>1, <2>1, <2>2, <3>1 DEF Untouched, FilesKnown, Absent, Active
    <3>3. FilesExact'
      BY <1>1, <2>1, <2>2, <3>1 DEF FilesExact, Absent, Staged
    <3> QED
      BY <1>1, <2>1, <3>2, <3>3 DEF Undisturbed
  <2> QED
    BY <1>1, <2>1, <2>3, <2>4, <2>5, <2>6, FinalsStay DEF IInv
<1> QED
  BY <1>2, <1>3

LEMMA RenameKeeps ==
  ASSUME IInv, ComparedOK, Rename
  PROVE  IInv'
<1>1. /\ run.pc = "checked" /\ record.known /\ run.completed = record.completed
      /\ Active = [item |-> run.item, id |-> runs] /\ Active # NoActive
      /\ runs # 0 /\ outcome = "none" /\ disk[Final(Manifest)].id = 0
      /\ run.data \in Contents /\ run.baseline \in Contents
      /\ run.item = Manifest => run.data = run.baseline /\ HasBaseline(run.completed)
  <2>1. run.pc = "checked"
    BY DEF Rename, Refused
  <2>2. /\ record.known /\ run.completed = record.completed
        /\ Active = [item |-> run.item, id |-> runs]
        /\ runs # 0 /\ outcome = "none" /\ disk[Final(Manifest)].id = 0
        /\ run.data \in Contents /\ run.baseline \in Contents
        /\ run.item = Manifest => run.data = run.baseline /\ HasBaseline(run.completed)
    BY <2>1 DEF IInv, RunOK, DiskOK, Producing
  <2> QED
    BY <2>1, <2>2 DEF NoActive
<1>2. /\ run.item \in Items /\ run.item = Len(record.completed) + 1
      /\ Len(record.completed) \in Nat /\ Len(record.completed) <= N
  BY <1>1, TypeFacts DEF IInv, RecordOK
<1>3. CASE Refused("checked", Renamable)
  <2>1. ASSUME caller = "desktop", others = 0 PROVE Renamable
    BY <1>1, <2>1, ChecksHold DEF Renamable, Staged, FilesExact, Absent, NoFile
  <2> QED
    BY <1>1, <1>3, <2>1, RefusedKeeps
<1>4. CASE ~Refused("checked", Renamable)
  <2>1. /\ disk' = [disk EXCEPT ![Final(run.item)] = disk[Partial(run.item)],
                                ![Partial(run.item)] = NoFile]
        /\ Goto("renamed")
        /\ UNCHANGED <<caller, place, source, record, others, runs, outcome, stranded>>
        /\ sullied' \in SUBSET Items
        /\ \A i \in Items \ sullied' : i # run.item => i \notin sullied
    BY <1>2, <1>4 DEF Rename, IInv, Types
  <2>11. /\ raced => run.item \in sullied'
         /\ ~raced => /\ disk[Partial(run.item)] = [id |-> runs, data |-> run.data]
                      /\ sullied' = sullied \ {run.item}
         /\ others = 0 => ~raced
    BY <1>1, <1>4 DEF Rename, ComparedOK, Staged
  <2>2. /\ disk' \in [Names -> Files]
        /\ disk'[Final(run.item)] = disk[Partial(run.item)]
        /\ disk'[Partial(run.item)] = NoFile
        /\ \A j \in Items : j # run.item => /\ disk'[Final(j)] = disk[Final(j)]
                                            /\ disk'[Partial(j)] = disk[Partial(j)]
        /\ \A name \in Names : disk'[name] \in {disk[name], disk[Partial(run.item)], NoFile}
    BY <1>2, <2>1, Renamed DEF IInv
  <2>3. /\ run' \in RunType /\ run'.pc = "renamed" /\ run'.item = run.item
        /\ run'.data = run.data
        /\ run'.stamp = run.stamp /\ run'.place = run.place /\ run'.baseline = run.baseline
        /\ run'.completed = run.completed
    BY <2>1, GotoFrame DEF Pcs
  <2>4. Types'
    BY <2>1, <2>2, <2>3 DEF IInv, Types
  <2>5. RecordOK' /\ RunOK'
    <3>1. run.item = Manifest => HasBaseline(run.completed)'
      BY <1>1, <2>3 DEF HasBaseline
    <3>2. RecordOK'
      BY <1>1, <2>1 DEF IInv, RecordOK, Active
    <3>3. RunOK'
      BY <1>1, <1>2, <2>1, <2>3, <3>1 DEF IInv, RunOK, Producing, Active
    <3> QED
      BY <3>2, <3>3
  <2>6. DiskOK'
    <3>1. \A name \in Names : /\ disk'[name].id = 0 => disk'[name] \in {NoFile, Foreign}
                              /\ disk'[name].id <= runs'
      BY <1>2, <2>1, <2>2, FileFacts, NameFacts, TypeFacts DEF IInv, DiskOK
    <3> QED
      BY <1>1, <2>1, <2>2, <2>3, <3>1, FileFacts, CountFacts DEF DiskOK
  <2>7. PublishedThere'
    <3>1. record.published => run.item = Manifest
      BY <1>1, <1>2, CountFacts DEF IInv, RecordOK
    <3> QED
      BY <1>1, <2>1, <2>2, <2>3, <2>11, <3>1, FileFacts DEF PublishedThere, Active
  <2>8. SlicesSurvive'
    <3>1. \A i \in DOMAIN record.completed : i \in Items /\ i # run.item
      BY <1>2, EntryFacts, CountFacts DEF IInv
    <3> QED
      BY <2>1, <2>2, <3>1 DEF IInv, SlicesSurvive, Entry
  <2>9. ManifestMeansWhole'
    <3>1. CASE run.item # Manifest
      BY <1>1, <2>2, <3>1, CountFacts DEF ManifestMeansWhole
    <3>2. CASE run.item = Manifest
      <4>1. Len(record.completed) = N /\ DOMAIN record.completed = 1..N
        BY <1>2, <3>2, CountFacts, TypeFacts DEF IInv
      <4>2. ASSUME NEW i \in 1..N \ sullied' PROVE disk'[Final(i)].data = run.baseline
        <5>1. i \in DOMAIN record.completed \ sullied /\ i # run.item /\ i \in Items
          BY <2>1, <3>2, <4>1, CountFacts
        <5>2. Entry(i) = record.completed[i] /\ Entry(i).data = disk[Final(i)].data
          BY <5>1 DEF IInv, SlicesSurvive, Entry
        <5>3. record.completed[i].data = run.baseline
          BY <1>1, <3>2, <5>1 DEF HasBaseline
        <5> QED
          BY <2>2, <5>1, <5>2, <5>3
      <4>3. Manifest \notin sullied' => disk'[Final(Manifest)].data = run.baseline
        BY <1>1, <2>2, <2>11, <3>2
      <4> QED
        BY <1>1, <4>2, <4>3 DEF ManifestMeansWhole
    <3> QED
      BY <3>1, <3>2
  <2>10. Undisturbed'
    <3> SUFFICES ASSUME caller = "desktop", others = 0 PROVE Undisturbed'
      BY <2>1 DEF Undisturbed
    <3>1. FilesKnown /\ FilesExact /\ Untouched
      BY <1>1, ChecksHold DEF IInv, RunOK, Undisturbed
    <3>2. Untouched'
      BY <1>1, <2>1, <2>3, <2>11, <3>1 DEF Untouched
    <3>3. run.data = source.content
          /\ disk[Partial(run.item)] = [id |-> runs, data |-> run.data]
      BY <1>1, <2>11, <3>1 DEF FilesExact
    <3>4. FilesKnown'
      <4>1. record' = record /\ Active' = Active /\ record.known
        BY <1>1, <2>1 DEF Active
      <4>2. /\ disk'[Partial(run.item)] = NoFile /\ disk'[Final(run.item)].id = runs
            /\ disk'[Final(run.item)].data = source.content
        BY <1>1, <2>2, <3>3
      <4>3. ASSUME NEW i \in Items
            PROVE  /\ disk'[Final(i)].id = 0 => disk'[Final(i)] = NoFile
                   /\ disk'[Partial(i)].id = 0 => disk'[Partial(i)] = NoFile
                   /\ disk'[Partial(i)] = NoFile
                   /\ disk'[Final(i)] # NoFile =>
                        /\ disk'[Final(i)].data = source.content
                        /\ \/ i <= Len(record.completed)
                           \/ Active = [item |-> i, id |-> disk'[Final(i)].id]
        <5>1. CASE i = run.item
          BY <1>1, <4>2, <5>1
        <5>2. CASE i # run.item
          <6>1. disk'[Final(i)] = disk[Final(i)] /\ disk'[Partial(i)] = disk[Partial(i)]
            BY <2>2, <5>2
          <6>2. Absent(Partial(i))
            BY <1>2, <3>1, <5>2 DEF FilesKnown
          <6> QED
            BY <1>1, <3>1, <6>1, <6>2 DEF FilesKnown, Absent
        <5> QED
          BY <5>1, <5>2
      <4> QED
        BY <2>1, <4>1, <4>3 DEF FilesKnown, Absent
    <3>5. FilesExact'
      BY <1>2, <2>1, <2>2, <2>3, <3>3 DEF FilesExact, Absent
    <3> QED
      BY <1>1, <2>1, <3>2, <3>4, <3>5 DEF Undisturbed
  <2> QED
    BY <2>4, <2>5, <2>6, <2>7, <2>8, <2>9, <2>10 DEF IInv
<1> QED
  BY <1>3, <1>4

LEMMA RecordSliceKeeps ==
  ASSUME IInv, RecordSlice
  PROVE  IInv'
<1> DEFINE entry == [id |-> runs, data |-> run.data]
           next == [run EXCEPT !.pc = "next", !.completed = Append(run.completed, entry)]
<1>1. /\ run.pc = "renamed" /\ Running /\ record.known /\ run.completed = record.completed
      /\ Active = [item |-> run.item, id |-> runs] /\ Active # NoActive
      /\ runs # 0 /\ run.data \in Contents /\ disk[Partial(run.item)].id = 0
      /\ run.item # Manifest => disk[Final(Manifest)].id = 0
  <2>1. run.pc = "renamed"
    BY DEF RecordSlice, Refused
  <2>2. /\ record.known /\ run.completed = record.completed
        /\ Active = [item |-> run.item, id |-> runs]
        /\ runs # 0 /\ run.data \in Contents /\ disk[Partial(run.item)].id = 0
        /\ run.item # Manifest => disk[Final(Manifest)].id = 0
    BY <2>1 DEF IInv, RunOK, DiskOK, Producing
  <2> QED
    BY <2>1, <2>2 DEF NoActive
<1>2. run.item \in Items /\ run.item = Len(record.completed) + 1
  BY <1>1, TypeFacts DEF IInv, RecordOK
<1>3. CASE Refused("renamed", Published)
  BY <1>1, <1>3, RefusedKeeps, ChecksHold DEF Published, FilesExact
<1>4. CASE run.item <= N /\ Published /\ Event(RecordedSlice(entry), next)
  <2>1. entry \in Entries /\ entry = Entry(run.item) /\ run.item # Manifest
    BY <1>1, <1>4, TypeFacts, CountFacts DEF Published, Entry, Entries, Runs, IInv
  <2>2. ASSUME caller = "desktop", others = 0
        PROVE  Absent(Partial(run.item)) /\ entry.data = source.content
    BY <1>1, <1>2, <2>2, ChecksHold DEF FilesKnown, FilesExact
  <2>3. CASE record' = RecordedSlice(entry) /\ run' = next /\ outcome' = outcome
    <3>1. UNCHANGED <<caller, disk, place, source, others, sullied, runs, stranded>>
      BY <1>4 DEF Event
    <3>2. Active.item = run.item /\ run.pc # "cleanup" /\ "next" \in {"recovered", "next"}
      BY <1>1
    <3> HIDE DEF entry
    <3> QED
      BY <1>1, <1>2, <1>4, <2>1, <2>2, <2>3, <3>1, <3>2, SliceRecorded
  <2> QED
    BY <1>1, <1>4, <2>3, EventCases
<1> QED
  BY <1>3, <1>4 DEF RecordSlice

\* The source of an undisturbed desktop task stays as it was, so that its
\* manifest is not withdrawn.
LEMMA DisownManifestKeeps ==
  ASSUME IInv, DisownManifest
  PROVE  IInv'
<1>1. /\ run.pc = "renamed" /\ run.item = Manifest /\ ~SourceUnchanged /\ Goto("withdraw")
      /\ UNCHANGED <<caller, disk, place, source, record>>
      /\ UNCHANGED <<others, sullied, runs, outcome, stranded>>
  BY DEF DisownManifest
<1>2. /\ run' \in RunType /\ run'.pc = "withdraw" /\ run'.item = run.item
      /\ run'.stamp = run.stamp /\ run'.place = run.place /\ run'.baseline = run.baseline
      /\ run'.completed = run.completed
  BY <1>1, GotoFrame DEF Pcs
<1>3. Types'
  BY <1>1, <1>2 DEF IInv, Types
<1>4. RunOK'
  BY <1>1, <1>2 DEF IInv, RunOK, Producing, Active, HasBaseline
<1>5. DiskOK' /\ PublishedThere'
  BY <1>1, <1>2 DEF IInv, DiskOK, PublishedThere, Active
<1>6. Undisturbed'
  BY <1>1, ChecksHold DEF Undisturbed
<1> QED
  BY <1>1, <1>3, <1>4, <1>5, <1>6, FinalsStay DEF IInv

LEMMA WithdrawManifestKeeps ==
  ASSUME IInv, WithdrawManifest
  PROVE  IInv'
<1>1. /\ run.pc = "withdraw" /\ run.item = Manifest
      /\ disk' = [disk EXCEPT ![Final(Manifest)] = NoFile]
      /\ run' = Failing /\ outcome' = "refused"
      /\ UNCHANGED <<caller, place, source, record, others, sullied, runs, stranded>>
      /\ Active = [item |-> Manifest, id |-> runs] /\ Active # NoActive
      /\ disk[Partial(Manifest)].id = 0 /\ record.known
  <2>1. /\ run.pc = "withdraw"
        /\ disk' = [disk EXCEPT ![Final(Manifest)] = NoFile]
        /\ run' = Failing /\ outcome' = "refused"
        /\ UNCHANGED <<caller, place, source, record, others, sullied, runs, stranded>>
    BY DEF WithdrawManifest
  <2>2. /\ Active = [item |-> Manifest, id |-> runs] /\ runs # 0 /\ run.item = Manifest
        /\ disk[Partial(Manifest)].id = 0 /\ record.known
    BY <2>1 DEF IInv, RunOK, DiskOK, Producing
  <2> QED
    BY <2>1, <2>2 DEF NoActive
<1>2. /\ run' \in RunType /\ run'.pc \in {"idle", "cleanup"}
      /\ run'.pc = "cleanup" => caller = "cli" /\ run'.baseline = run.baseline
  BY <1>1, EmptyTypes DEF IInv, Types, RunType, Pcs, Failing
<1>3. /\ disk' \in [Names -> Files] /\ disk'[Final(Manifest)] = NoFile
      /\ disk'[Partial(Manifest)] = disk[Partial(Manifest)]
      /\ \A i \in Items \ {Manifest} : disk'[Final(i)] = disk[Final(i)]
      /\ \A name \in Names : disk'[name] \in {disk[name], NoFile}
  <2>1. disk \in [Names -> Files] /\ NoFile \in Files
    BY FileFacts DEF IInv, Types
  <2>2. Final(Manifest) \in Names /\ Partial(Manifest) \in Names
        /\ Partial(Manifest) # Final(Manifest)
        /\ \A i \in Items \ {Manifest} : Final(i) \in Names /\ Final(i) # Final(Manifest)
    BY NameFacts, CountFacts
  <2> QED
    BY <1>1, <2>1, <2>2
<1>4. Types'
  BY <1>1, <1>2, <1>3 DEF IInv, Types, Outcomes
<1>5. RecordOK'
  BY <1>1 DEF IInv, RecordOK, Active
<1>6. RunOK'
  BY <1>1, <1>2 DEF IInv, RunOK, Producing
<1>7. DiskOK'
  BY <1>1, <1>2, <1>3, FileFacts, TypeFacts DEF IInv, DiskOK
<1>8. PublishedThere'
  BY <1>1, <1>2, <1>3 DEF PublishedThere, Active
<1>9. SlicesSurvive'
  <2>1. \A i \in DOMAIN record.completed : i \in Items \ {Manifest}
    BY EntryFacts, TypeFacts, CountFacts DEF IInv, RecordOK
  <2> QED
    BY <1>1, <1>3, <2>1 DEF IInv, SlicesSurvive, Entry
<1>10. ManifestMeansWhole'
  BY <1>3, FileFacts DEF ManifestMeansWhole
<1>11. Undisturbed'
  BY <1>1, ChecksHold DEF Undisturbed, FilesExact
<1> QED
  BY <1>4, <1>5, <1>6, <1>7, <1>8, <1>9, <1>10, <1>11 DEF IInv

LEMMA RecordManifestKeeps ==
  ASSUME IInv, RecordManifest
  PROVE  IInv'
<1>1. /\ run.pc = "renamed" /\ Running /\ run.item = Manifest /\ Published
      /\ run' = [run EXCEPT !.pc = "end"] /\ record' \in {RecordedManifest, record}
      /\ UNCHANGED <<caller, disk, place, source, others, sullied, runs, outcome, stranded>>
      /\ Active = [item |-> Manifest, id |-> runs] /\ Active # NoActive /\ runs # 0
      /\ disk[Partial(Manifest)].id = 0 /\ record.known
      /\ run.completed = record.completed
  <2>1. /\ run.pc = "renamed" /\ Running /\ run.item = Manifest /\ Published
        /\ run' = [run EXCEPT !.pc = "end"] /\ record' \in {RecordedManifest, record}
        /\ UNCHANGED <<caller, disk, place, source, others, sullied, runs, outcome, stranded>>
    BY DEF RecordManifest
  <2>2. /\ Active = [item |-> Manifest, id |-> runs] /\ runs # 0
        /\ disk[Partial(Manifest)].id = 0 /\ record.known
        /\ run.completed = record.completed
    BY <2>1 DEF IInv, RunOK, DiskOK, Producing
  <2> QED
    BY <2>1, <2>2 DEF NoActive
<1>2. Manifest = Len(record.completed) + 1 /\ Active.item = Manifest
  BY <1>1 DEF IInv, RecordOK
<1>3. disk[Final(Manifest)].id # 0
  BY <1>1 DEF Published
<1>4. record'.completed = record.completed
  BY <1>1 DEF RecordedManifest, IInv, Types, RecordType
<1>5. SlicesSurvive' /\ ManifestMeansWhole'
  BY <1>1, <1>4 DEF IInv, SlicesSurvive, Entry, ManifestMeansWhole, LeftByCommand
<1>6. caller = "desktop" /\ others = 0 =>
        Absent(Partial(Manifest)) /\ disk[Final(Manifest)].data = source.content
  BY <1>1, ChecksHold, CountFacts DEF FilesKnown, FilesExact
<1> QED
  BY <1>1, <1>2, <1>3, <1>5, <1>6, ManifestRecorded

-----------------------------------------------------------------------------
(* The end of a run, its cleanup, and others.                              *)

LEMMA SucceedKeeps ==
  ASSUME IInv, Succeed
  PROVE  IInv'
<1>1. /\ run.pc = "end" /\ Running /\ run' = Stopped /\ outcome' = "success"
      /\ UNCHANGED <<caller, disk, place, source, record, others, sullied, runs, stranded>>
      /\ outcome = "none" /\ record.known
  BY DEF Succeed, IInv, RunOK
<1>2. Types'
  BY <1>1, EmptyTypes DEF IInv, Types, Outcomes
<1>3. RecordOK' /\ SlicesSurvive'
  BY <1>1 DEF IInv, RecordOK, Active, SlicesSurvive, Entry
<1>4. RunOK' /\ DiskOK' /\ PublishedThere'
  BY <1>1, EmptyTypes DEF IInv, RunOK, Producing, DiskOK, PublishedThere, Active
<1>5. ManifestMeansWhole'
  BY <1>1 DEF IInv, ManifestMeansWhole, LeftByCommand
<1>6. Undisturbed'
  <2> SUFFICES ASSUME caller = "desktop", others = 0 PROVE Undisturbed'
    BY <1>1 DEF Undisturbed
  <2>1. Untouched /\ FilesKnown
    BY <1>1 DEF IInv, Undisturbed
  <2>2. Untouched' /\ FilesKnown'
    BY <1>1, <2>1, EmptyTypes DEF Untouched, FilesKnown, Absent, Active
  <2>3. FilesExact'
    BY <1>1, EmptyTypes DEF FilesExact
  <2> QED
    BY <1>1, <2>2, <2>3 DEF Undisturbed
<1> QED
  BY <1>2, <1>3, <1>4, <1>5, <1>6 DEF IInv

LEMMA FailKeeps ==
  ASSUME IInv, Fail
  PROVE  IInv'
BY StopKeeps DEF Fail

LEMMA CrashKeeps ==
  ASSUME IInv, Crash
  PROVE  IInv'
<1>1. CleaningUp => caller = "cli"
  BY DEF IInv, RunOK
<1> QED
  BY <1>1, StopKeeps DEF Crash

\* The file that is next in the cleanup: the partial, or the last slice.
LEMMA TrackedFacts ==
  ASSUME IInv, CommandOK, CleaningUp, Tracking
  PROVE  /\ Tracked.name \in Names /\ Tracked.id # 0 /\ record.known
         /\ Untracked \in RecordType
         /\ Untracked.known = record.known /\ Untracked.published = record.published
         /\ Untracked.active = NoActive
         /\ Len(Untracked.completed) <= N
         /\ \A i \in DOMAIN Untracked.completed :
              /\ i \in DOMAIN record.completed /\ Untracked.completed[i] = record.completed[i]
              /\ Tracked.name # Final(i)
         /\ record.published => Active = NoActive /\ Tracked.name # Final(Manifest)
<1>1. /\ record \in RecordType /\ record.completed \in Seq(Entries)
      /\ Len(record.completed) \in Nat /\ Len(record.completed) <= N
  BY TypeFacts DEF IInv, Types, RecordOK
<1>2. record.known
  BY EmptyTypes DEF IInv, RecordOK, Tracking, Active
<1>3. caller = "cli"
  BY DEF IInv, RunOK
<1>4. CASE Active # NoActive
  <2>1. /\ Tracked = [name |-> Partial(Active.item), id |-> Active.id]
        /\ Untracked = [record EXCEPT !.active = NoActive]
    BY <1>4 DEF Tracked, Untracked
  <2>2. Active.item \in Items /\ Active.id # 0
    BY <1>4, TypeFacts, CountFacts DEF IInv, Runs
  <2>3. /\ Untracked \in RecordType /\ Untracked.known = record.known
        /\ Untracked.published = record.published /\ Untracked.active = NoActive
        /\ Untracked.completed = record.completed
    BY <1>1, <2>1 DEF RecordType
  <2>4. Tracked.name \in Names /\ \A i : Tracked.name # Final(i)
    BY <2>1, <2>2, NameFacts
  <2> QED
    BY <1>1, <1>2, <1>3, <1>4, <2>1, <2>2, <2>3, <2>4 DEF CommandOK
<1>5. CASE Active = NoActive
  <2> DEFINE k == Len(record.completed)
             front == Front(record.completed)
  <2>1. /\ Tracked = [name |-> Final(k), id |-> Last(record.completed).id]
        /\ Untracked = [record EXCEPT !.completed = front]
        /\ record.completed # <<>>
    BY <1>5 DEF Tracked, Untracked, Tracking
  <2>2. /\ k \in 1..N /\ Last(record.completed) = record.completed[k]
        /\ front \in Seq(Entries) /\ Len(front) = k - 1
        /\ \A i \in 1..(k - 1) : front[i] = record.completed[i]
    <3>1. k \in 1..N
      BY <1>1, <2>1, CountFacts, EmptySeq
    <3>2. front = [i \in 1..(k - 1) |-> record.completed[i]]
      BY <1>1, <3>1 DEF Front
    <3>3. \A i \in 1..(k - 1) : record.completed[i] \in Entries
      BY <1>1
    <3> QED
      BY <1>1, <3>1, <3>2, <3>3 DEF Last
  <2>3. record.completed[k].id # 0 /\ k \in Items /\ k # Manifest
    BY <2>2, <1>1, EntryFacts, CountFacts DEF IInv, Runs
  <2>4. DOMAIN front = 1..(k - 1) /\ DOMAIN record.completed = 1..k
    BY <1>1, <2>2
  <2> HIDE DEF k, front
  <2>5. /\ Untracked \in RecordType /\ Untracked.known = record.known
        /\ Untracked.published = record.published /\ Untracked.active = record.active
        /\ Untracked.completed = front
    BY <1>1, <2>1, <2>2 DEF RecordType
  <2>6. /\ Tracked.name = Final(k) /\ Tracked.id # 0 /\ Tracked.name \in Names
        /\ \A i : i # k => Tracked.name # Final(i)
    BY <2>1, <2>2, <2>3, NameFacts
  <2>7. \A i \in DOMAIN front : i \in DOMAIN record.completed /\ i # k
                                /\ front[i] = record.completed[i]
    BY <2>2, <2>4, CountFacts
  <2>8. Len(front) <= N
    BY <2>2, CountFacts
  <2> QED
    BY <1>2, <1>5, <2>3, <2>5, <2>6, <2>7, <2>8 DEF Active
<1> QED
  BY <1>4, <1>5

\* What the cleanup of a command leaves: no name that its list still has
\* loses its file.
LEMMA TrackedGone ==
  ASSUME IInv, CommandOK, CleaningUp, Tracking, record' = Untracked,
         disk' \in {disk, [disk EXCEPT ![Tracked.name] = NoFile]}, run' \in RunType,
         run'.pc = "cleanup", run'.baseline = run.baseline,
         UNCHANGED <<caller, place, source, others, sullied, runs, outcome, stranded>>
  PROVE  IInv'
<1>1. /\ Tracked.name \in Names /\ record.known
      /\ Untracked \in RecordType
      /\ Untracked.known = record.known /\ Untracked.published = record.published
      /\ Untracked.active = NoActive
      /\ Len(Untracked.completed) <= N
      /\ \A i \in DOMAIN Untracked.completed :
           /\ i \in DOMAIN record.completed /\ Untracked.completed[i] = record.completed[i]
           /\ Tracked.name # Final(i)
      /\ record.published => Active = NoActive /\ Tracked.name # Final(Manifest)
  BY TrackedFacts
<1>2. caller = "cli" /\ outcome \in {"failed", "refused"}
      /\ runs # 0 /\ run.baseline \in Contents
  BY DEF IInv, RunOK
<1>3. /\ disk' \in [Names -> Files]
      /\ \A name \in Names : /\ disk'[name] \in {disk[name], NoFile}
                             /\ name # Tracked.name => disk'[name] = disk[name]
  BY <1>1, FileFacts DEF IInv, Types
<1>4. Types'
  BY <1>1, <1>3 DEF IInv, Types
<1>5. RecordOK'
  BY <1>1 DEF RecordOK, Active
<1>6. RunOK'
  BY <1>2 DEF RunOK, Producing
<1>7. DiskOK'
  BY <1>3, FileFacts, TypeFacts DEF IInv, DiskOK
<1>8. PublishedThere'
  <2>1. Final(Manifest) \in Names
    BY NameFacts, CountFacts
  <2> QED
    BY <1>1, <1>3, <2>1 DEF IInv, PublishedThere
<1>9. SlicesSurvive'
  <2>1. \A i \in DOMAIN record.completed : Final(i) \in Names
    BY EntryFacts, TypeFacts, CountFacts, NameFacts DEF IInv, RecordOK
  <2> QED
    BY <1>1, <1>3, <2>1 DEF IInv, SlicesSurvive, Entry
<1>10. ManifestMeansWhole'
  BY <1>2 DEF ManifestMeansWhole, LeftByCommand
<1>11. Undisturbed'
  BY <1>2 DEF Undisturbed
<1> QED
  BY <1>4, <1>5, <1>6, <1>7, <1>8, <1>9, <1>10, <1>11 DEF IInv

LEMMA CleanUpCompareKeeps ==
  ASSUME IInv, CommandOK, CleanUpCompare
  PROVE  IInv'
<1>1. /\ run.pc = "cleanup" /\ Tracking
      /\ UNCHANGED <<caller, disk, place, source, others, sullied, runs, outcome, stranded>>
      /\ \/ Goto("cleanOwned") /\ record' = record
         \/ record' = Untracked /\ run' = run
  BY DEF CleanUpCompare
<1>2. CASE Goto("cleanOwned") /\ record' = record
  <2>1. run' \in RunType /\ run'.pc = "cleanOwned" /\ run'.baseline = run.baseline
    BY <1>2, GotoFrame DEF Pcs
  <2>2. Types' /\ RecordOK'
    BY <1>1, <1>2, <2>1 DEF IInv, Types, RecordOK, Active
  <2>3. RunOK'
    BY <1>1, <1>2, <2>1 DEF IInv, RunOK, Producing, Tracking, Active
  <2>4. DiskOK' /\ PublishedThere'
    BY <1>1, <1>2, <2>1 DEF IInv, DiskOK, PublishedThere, Active
  <2>5. SlicesSurvive' /\ ManifestMeansWhole'
    BY <1>1, <1>2 DEF IInv, SlicesSurvive, Entry, ManifestMeansWhole, LeftByCommand
  <2>6. Undisturbed'
    BY <1>1 DEF IInv, RunOK, Undisturbed
  <2> QED
    BY <2>2, <2>3, <2>4, <2>5, <2>6 DEF IInv
<1>3. CASE record' = Untracked /\ run' = run
  BY <1>1, <1>3, TrackedGone DEF IInv, Types
<1> QED
  BY <1>1, <1>2, <1>3

LEMMA CleanUpRemoveKeeps ==
  ASSUME IInv, CommandOK, CleanUpRemove
  PROVE  IInv'
<1>1. /\ run.pc = "cleanOwned" /\ record' = Untracked /\ Goto("cleanup")
      /\ disk' \in {disk, [disk EXCEPT ![Tracked.name] = NoFile]}
      /\ UNCHANGED <<caller, place, source, others, sullied, runs, outcome, stranded>>
  BY DEF CleanUpRemove
<1>2. Tracking
  BY <1>1 DEF IInv, RunOK
<1>3. run' \in RunType /\ run'.pc = "cleanup" /\ run'.baseline = run.baseline
  BY <1>1, GotoFrame DEF Pcs
<1> QED
  BY <1>1, <1>2, <1>3, TrackedGone

LEMMA CleanUpDoneKeeps ==
  ASSUME IInv, CleanUpDone
  PROVE  IInv'
<1>1. /\ run.pc = "cleanup" /\ run' = Stopped /\ record' = NoRecord
      /\ UNCHANGED <<caller, disk, place, source, others, sullied, runs, outcome, stranded>>
      /\ caller = "cli" /\ outcome \in {"failed", "refused"}
  BY DEF CleanUpDone, IInv, RunOK
<1>2. Types'
  BY <1>1, EmptyTypes DEF IInv, Types
<1>3. RecordOK' /\ RunOK' /\ PublishedThere' /\ SlicesSurvive'
  BY <1>1, EmptyTypes, CountFacts
  DEF RecordOK, RunOK, Producing, PublishedThere, SlicesSurvive, Active
<1>4. DiskOK'
  BY <1>1, EmptyTypes DEF IInv, DiskOK
<1>5. ManifestMeansWhole'
  BY <1>1 DEF ManifestMeansWhole, LeftByCommand
<1>6. Undisturbed'
  BY <1>1 DEF Undisturbed
<1> QED
  BY <1>2, <1>3, <1>4, <1>5, <1>6 DEF IInv

\* A desktop task is removed with its partial; its package stays.
LEMMA RemoveTaskKeeps ==
  ASSUME IInv, RemoveTask
  PROVE  IInv'
<1>1. /\ caller = "desktop" /\ run.pc = "idle" /\ outcome \notin {"none", "success", "removed"}
      /\ UNCHANGED <<caller, disk, place, source, record>>
      /\ UNCHANGED <<runs, outcome, others, sullied, stranded>>
  BY DEF RemoveTask
<1>2. PICK pc \in {"removeOwned", "removeRow"} :
        Goto(pc) /\ (pc = "removeOwned" => Active # NoActive)
  BY DEF RemoveTask
<1>3. run' \in RunType /\ run'.pc = pc
  BY <1>2, GotoFrame DEF Pcs
<1>4. Types'
  BY <1>1, <1>3 DEF IInv, Types
<1>5. RunOK'
  BY <1>1, <1>2, <1>3 DEF RunOK, Producing, Active
<1>6. DiskOK' /\ PublishedThere'
  BY <1>1, <1>3 DEF IInv, DiskOK, PublishedThere, Active
<1>7. Undisturbed'
  <2> SUFFICES ASSUME others = 0 PROVE Undisturbed'
    BY <1>1 DEF Undisturbed
  <2>1. Untouched' /\ FilesKnown'
    BY <1>1, <1>3 DEF IInv, Undisturbed, Untouched, FilesKnown, Absent, Active
  <2>2. FilesExact'
    BY <1>3 DEF FilesExact
  <2> QED
    BY <1>1, <2>1, <2>2 DEF IInv, Undisturbed
<1> QED
  BY <1>1, <1>4, <1>5, <1>6, <1>7, FinalsStay DEF IInv

LEMMA RemoveOwnedKeeps ==
  ASSUME IInv, RemoveOwned
  PROVE  IInv'
<1>1. /\ run.pc = "removeOwned" /\ Goto("removeRow")
      /\ disk' = [disk EXCEPT ![Partial(Active.item)] = NoFile]
      /\ UNCHANGED <<caller, place, source, record, runs, outcome, others, sullied, stranded>>
      /\ Active # NoActive /\ caller = "desktop" /\ outcome \notin {"none", "success", "removed"}
  BY DEF RemoveOwned, IInv, RunOK
<1>2. Active.item \in Items
  BY <1>1, TypeFacts DEF IInv
<1>3. run' \in RunType /\ run'.pc = "removeRow"
  BY <1>1, GotoFrame DEF Pcs
<1>4. /\ disk' \in [Names -> Files]
      /\ \A j \in Items : /\ disk'[Final(j)] = disk[Final(j)]
                          /\ j # Active.item => disk'[Partial(j)] = disk[Partial(j)]
      /\ disk'[Partial(Active.item)] = NoFile
      /\ \A name \in Names : disk'[name] \in {disk[name], NoFile}
  BY <1>1, <1>2, FileFacts, PartialChanged DEF IInv
<1>5. Types'
  BY <1>1, <1>3, <1>4 DEF IInv, Types
<1>6. RunOK'
  BY <1>1, <1>3 DEF RunOK, Producing
<1>7. DiskOK'
  BY <1>1, <1>3, <1>4, FileFacts, TypeFacts DEF IInv, DiskOK
<1>8. PublishedThere'
  BY <1>1, <1>3, <1>4, CountFacts, FileFacts DEF IInv, PublishedThere, Active
<1>9. Undisturbed'
  <2> SUFFICES ASSUME others = 0 PROVE Undisturbed'
    BY <1>1 DEF Undisturbed
  <2>1. Untouched /\ FilesKnown /\ record' = record /\ Active' = Active
    BY <1>1 DEF IInv, Undisturbed, Active
  <2>2. Untouched'
    BY <1>1, <1>3, <2>1 DEF Untouched
  <2>3. FilesKnown'
    BY <1>1, <1>4, <2>1, EmptyTypes DEF FilesKnown, Absent, IInv, RecordOK, Active
  <2>4. FilesExact'
    BY <1>3 DEF FilesExact
  <2> QED
    BY <1>1, <2>2, <2>3, <2>4 DEF IInv, Undisturbed
<1> QED
  BY <1>1, <1>4, <1>5, <1>6, <1>7, <1>8, <1>9, FinalsStay DEF IInv

LEMMA RemoveRowKeeps ==
  ASSUME IInv, RemoveRow
  PROVE  IInv'
<1>1. /\ run.pc = "removeRow" /\ run' = Stopped /\ record' = NoRecord /\ outcome' = "removed"
      /\ UNCHANGED <<caller, disk, place, source, runs, others, sullied, stranded>>
      /\ caller = "desktop"
  BY DEF RemoveRow, IInv, RunOK
<1>2. Types'
  BY <1>1, EmptyTypes DEF IInv, Types, Outcomes
<1>3. RecordOK' /\ RunOK' /\ PublishedThere' /\ SlicesSurvive'
  BY <1>1, EmptyTypes, CountFacts
  DEF RecordOK, RunOK, Producing, PublishedThere, SlicesSurvive, Active
<1>4. DiskOK'
  BY <1>1, EmptyTypes DEF IInv, DiskOK
<1>5. ManifestMeansWhole'
  BY <1>1 DEF IInv, ManifestMeansWhole, LeftByCommand
<1>6. Undisturbed'
  <2> SUFFICES ASSUME others = 0 PROVE Undisturbed'
    BY <1>1 DEF Undisturbed
  <2>1. Untouched'
    BY <1>1, EmptyTypes DEF IInv, Undisturbed, Untouched
  <2>2. FilesExact'
    BY <1>1, EmptyTypes DEF FilesExact
  <2> QED
    BY <1>1, <2>1, <2>2 DEF Undisturbed
<1> QED
  BY <1>2, <1>3, <1>4, <1>5, <1>6 DEF IInv

LEMMA RemovalStopsKeeps ==
  ASSUME IInv, RemovalStops
  PROVE  IInv'
<1>1. /\ Removing /\ run' = Stopped /\ run'.pc = "idle"
      /\ UNCHANGED <<caller, disk, place, source, record>>
      /\ UNCHANGED <<runs, outcome, others, sullied, stranded>>
      /\ caller = "desktop" /\ outcome \notin {"none", "success", "removed"}
  BY EmptyTypes DEF RemovalStops, IInv, RunOK
<1>2. Types'
  BY <1>1, EmptyTypes DEF IInv, Types
<1>3. RunOK' /\ DiskOK' /\ PublishedThere'
  BY <1>1 DEF IInv, RunOK, Producing, DiskOK, PublishedThere, Active
<1>4. Undisturbed'
  <2> SUFFICES ASSUME others = 0 PROVE Undisturbed'
    BY <1>1 DEF Undisturbed
  <2>1. Untouched' /\ FilesKnown'
    BY <1>1 DEF IInv, Undisturbed, Untouched, FilesKnown, Absent, Active
  <2>2. FilesExact'
    BY <1>1 DEF FilesExact
  <2> QED
    BY <1>1, <2>1, <2>2 DEF IInv, Undisturbed
<1> QED
  BY <1>1, <1>2, <1>3, <1>4, FinalsStay DEF IInv

\* Others give no file the identity of a run's, and mark what they do to a
\* final file.
LEMMA OthersFacts ==
  ASSUME Types, Others
  PROVE  /\ others' # 0 /\ others' \in 0..MaxOthers
         /\ UNCHANGED <<caller, record, run, runs, outcome, stranded>>
         /\ disk' \in [Names -> Files] /\ place' \in {1, 2}
         /\ source' \in [content : Contents, stamp : {0, 1}]
         /\ sullied' \in SUBSET Items /\ sullied \subseteq sullied'
         /\ \A name \in Names :
              /\ disk'[name].id \in {0, disk[name].id}
              /\ disk'[name].id = 0 => disk'[name] \in {disk[name], NoFile, Foreign}
         /\ \A i \in Items \ sullied' : disk'[Final(i)] = disk[Final(i)]
<1>1. /\ others' # 0 /\ others' \in 0..MaxOthers
      /\ UNCHANGED <<caller, record, run, runs, outcome, stranded>>
  BY CountFacts DEF Others, Types
<1>2. CASE ChangeSource
  BY <1>1, <1>2 DEF ChangeSource, Types
<1>3. CASE ReplaceDestination
  BY <1>1, <1>3, FileFacts DEF ReplaceDestination, Types
<1>4. ASSUME NEW name \in Names, ChangeFile(name)
      PROVE  /\ disk' \in [Names -> Files] /\ place' \in {1, 2}
             /\ source' \in [content : Contents, stamp : {0, 1}]
             /\ sullied' \in SUBSET Items /\ sullied \subseteq sullied'
             /\ \A n \in Names :
                  /\ disk'[n].id \in {0, disk[n].id}
                  /\ disk'[n].id = 0 => disk'[n] \in {disk[n], NoFile, Foreign}
             /\ \A i \in Items \ sullied' : disk'[Final(i)] = disk[Final(i)]
  <2> DEFINE written == [disk[name] EXCEPT !.data = "foreign"]
  <2>1. /\ disk \in [Names -> Files] /\ disk[name] \in Files
        /\ disk[name] = [id |-> disk[name].id, data |-> disk[name].data]
        /\ disk[name].id \in 0..MaxRuns
    BY <1>4, FileFacts DEF Types
  <2>2. written = [id |-> disk[name].id, data |-> "foreign"]
    BY <2>1
  <2>3. written \in Files /\ written.id = disk[name].id
        /\ (written.id = 0 => written = Foreign)
    BY <2>1, <2>2, FileFacts DEF Data, Foreign
  <2>4. PICK file \in {NoFile, Foreign, written} : disk' = [disk EXCEPT ![name] = file]
    BY <1>4 DEF ChangeFile
  <2> HIDE DEF written
  <2>5. /\ file \in Files /\ file.id \in {0, disk[name].id}
        /\ file.id = 0 => file \in {NoFile, Foreign}
    BY <2>3, <2>4, FileFacts
  <2>6. /\ disk' \in [Names -> Files]
        /\ \A n \in Names : disk'[n] = IF n = name THEN file ELSE disk[n]
    BY <2>1, <2>4, <2>5
  <2>7. /\ place' \in {1, 2} /\ source' \in [content : Contents, stamp : {0, 1}]
        /\ sullied' = IF name[2] = "final" THEN sullied \cup {name[1]} ELSE sullied
        /\ sullied \in SUBSET Items
    BY <1>4 DEF ChangeFile, Types
  <2>8. /\ name[1] \in Items
        /\ \A i \in Items : name = Final(i) => name[2] = "final" /\ name[1] = i
    BY NameFacts
  <2>9. \A i \in Items \ sullied' : disk'[Final(i)] = disk[Final(i)]
    BY <2>6, <2>7, <2>8, NameFacts
  <2> QED
    BY <2>5, <2>6, <2>7, <2>8, <2>9
<1> QED
  BY <1>1, <1>2, <1>3, <1>4 DEF Others

LEMMA OthersKeep ==
  ASSUME IInv, Others
  PROVE  IInv'
<1>1. /\ others' # 0 /\ others' \in 0..MaxOthers
      /\ UNCHANGED <<caller, record, run, runs, outcome, stranded>>
      /\ disk' \in [Names -> Files] /\ place' \in {1, 2}
      /\ source' \in [content : Contents, stamp : {0, 1}]
      /\ sullied' \in SUBSET Items /\ sullied \subseteq sullied'
      /\ \A name \in Names : /\ disk'[name].id \in {0, disk[name].id}
                             /\ disk'[name].id = 0 => disk'[name] \in {disk[name], NoFile, Foreign}
      /\ \A i \in Items \ sullied' : disk'[Final(i)] = disk[Final(i)]
  BY OthersFacts DEF IInv
<1>2. Types'
  BY <1>1 DEF IInv, Types
<1>3. RecordOK' /\ RunOK'
  BY <1>1 DEF IInv, RecordOK, RunOK, Active, HasBaseline, Tracking
<1>4. DiskOK'
  <2>1. ASSUME NEW name \in Names
        PROVE  /\ disk'[name].id = 0 => disk'[name] \in {NoFile, Foreign}
               /\ disk'[name].id <= runs'
    BY <1>1, TypeFacts DEF IInv, DiskOK
  <2>2. Final(Manifest) \in Names /\ (run.item \in Items => Partial(run.item) \in Names)
    BY NameFacts, CountFacts
  <2>3. run.pc \in {"renamed", "withdraw"} => run.item \in Items
    <3>1. run.pc \in {"renamed", "withdraw"} =>
            Active = [item |-> run.item, id |-> runs] /\ runs # 0
      BY DEF IInv, RunOK, Producing
    <3> QED
      BY <3>1, TypeFacts DEF IInv, NoActive
  <2> QED
    BY <1>1, <2>1, <2>2, <2>3 DEF IInv, DiskOK
<1>5. PublishedThere'
  <2>1. Final(Manifest) \in Names /\ Partial(Manifest) \in Names /\ Manifest \in Items
    BY NameFacts, CountFacts
  <2> QED
    BY <1>1, <2>1 DEF IInv, PublishedThere, Active
<1>6. SlicesSurvive'
  <2>1. \A i \in DOMAIN record.completed : i \in Items
    BY EntryFacts, TypeFacts, CountFacts DEF IInv, RecordOK
  <2> QED
    BY <1>1, <2>1 DEF IInv, SlicesSurvive, Entry
<1>7. ManifestMeansWhole'
  BY <1>1, CountFacts DEF IInv, ManifestMeansWhole, LeftByCommand
<1>8. Undisturbed'
  BY <1>1 DEF Undisturbed
<1> QED
  BY <1>2, <1>3, <1>4, <1>5, <1>6, <1>7, <1>8 DEF IInv

-----------------------------------------------------------------------------
(* Comparisons, and the record of a command.                               *)

LEMMA SplitFrame ==
  ASSUME Next
  PROVE  caller' = caller /\ (Program => others' = others)
<1>1. ASSUME Begin \/ Recover \/ Produce PROVE UNCHANGED <<caller, others>>
  BY <1>1
  DEF Begin, Recover, Produce, Baseline, CheckResume, ComparePartial, RemovePartial, ClearPartial,
      AdoptSlice, AdoptManifest, RefuseAdoption, GoOn, VerifyAll, CreatePartial, RecordPartial,
      Copy, CheckStaged, Rename, RecordSlice, DisownManifest, WithdrawManifest, RecordManifest,
      Event, Refused
<1>2. ASSUME End PROVE UNCHANGED <<caller, others>>
  BY <1>2
  DEF End, Succeed, Fail, Crash, CleanUp, CleanUpCompare, CleanUpRemove, CleanUpDone,
      Removal, RemoveTask, RemoveOwned, RemoveRow, RemovalStops
<1>3. Others => caller' = caller
  BY DEF Others
<1> QED
  BY <1>1, <1>2, <1>3 DEF Next, Program

Compared == {"unlink", "checked", "withdraw", "cleanOwned", "removeOwned"}

\* The file that was compared is one of the destination.
LEMMA ComparedName ==
  ASSUME IInv, CommandOK, run.pc \in Compared
  PROVE  JustCompared \in Names
<1>1. CASE run.pc \in {"unlink", "removeOwned"}
  BY <1>1, TypeFacts, NameFacts DEF IInv, RunOK, JustCompared
<1>2. CASE run.pc = "checked"
  <2>1. Active = [item |-> run.item, id |-> runs] /\ runs # 0
    BY <1>2 DEF IInv, RunOK, Producing
  <2>2. run.item \in Items
    BY <2>1, TypeFacts DEF IInv, NoActive
  <2> QED
    BY <1>2, <2>2, NameFacts DEF JustCompared
<1>3. CASE run.pc = "withdraw"
  BY <1>3, NameFacts, CountFacts DEF JustCompared
<1>4. CASE run.pc = "cleanOwned"
  BY <1>4, TrackedFacts DEF IInv, RunOK, JustCompared
<1> QED
  BY <1>1, <1>2, <1>3, <1>4 DEF Compared

\* A comparison is made by one of five steps.
LEMMA JustComparedBy ==
  ASSUME IInv, Program, run'.pc \in Compared
  PROVE  /\ disk' = disk /\ record' = record /\ runs' = runs
         /\ run'.pc \in {"unlink", "removeOwned"} => Removable
         /\ run'.pc = "checked" => Staged /\ run'.item = run.item /\ run'.data = run.data
         /\ run'.pc = "withdraw" => disk[Final(Manifest)].id = runs
         /\ run'.pc = "cleanOwned" => Owned(Tracked.name, Tracked.id)
<1>1. run \in RunType /\ Stopped.pc = "idle" /\ Failing.pc \in {"idle", "cleanup"}
  BY EmptyTypes DEF IInv, Types, Failing, RunType
<1>2. \A pc \in Pcs : Goto(pc) =>
        run'.pc = pc /\ run'.item = run.item /\ run'.data = run.data
  BY GotoFrame
<1>3. CASE Begin
  BY <1>3 DEF Begin, Stopped, Compared
<1>4. CASE Recover
  <2>1. CASE ComparePartial
    BY <1>1, <1>2, <2>1 DEF ComparePartial, Refused, Compared, Pcs
  <2>2. CASE Baseline \/ ClearPartial \/ AdoptSlice
    BY <1>1, <2>2 DEF Baseline, ClearPartial, AdoptSlice, Event, Refused, RunType, Compared
  <2>3. CASE CheckResume \/ RemovePartial \/ GoOn
    BY <1>1, <1>2, <2>3 DEF CheckResume, RemovePartial, GoOn, Refused, Compared, Pcs
  <2>4. CASE AdoptManifest \/ RefuseAdoption
    BY <1>1, <2>4 DEF AdoptManifest, RefuseAdoption, Refused, RunType, Compared
  <2> QED
    BY <1>4, <2>1, <2>2, <2>3, <2>4 DEF Recover
<1>5. CASE Produce
  <2>1. CASE CheckStaged
    BY <1>1, <1>2, <2>1 DEF CheckStaged, Refused, Compared, Pcs
  <2>2. CASE DisownManifest
    BY <1>1, <1>2, <2>2 DEF DisownManifest, Published, Compared, Pcs
  <2>3. CASE VerifyAll \/ Rename
    BY <1>1, <1>2, <2>3 DEF VerifyAll, Rename, Refused, Compared, Pcs
  <2>4. CASE CreatePartial \/ RecordPartial
    BY <1>1, <2>4 DEF CreatePartial, RecordPartial, Event, Refused, RunType, Compared
  <2>5. CASE Copy
    BY <1>1, <2>5 DEF Copy, Refused, RunType, Compared
  <2>6. CASE RecordSlice
    BY <1>1, <2>6 DEF RecordSlice, Event, Refused, RunType, Compared
  <2>7. CASE WithdrawManifest \/ RecordManifest
    BY <1>1, <2>7 DEF WithdrawManifest, RecordManifest, RunType, Compared
  <2> QED
    BY <1>5, <2>1, <2>2, <2>3, <2>4, <2>5, <2>6, <2>7 DEF Produce
<1>6. CASE End
  <2>1. CASE Succeed \/ Fail \/ Crash
    BY <1>1, <2>1 DEF Succeed, Fail, Crash, Compared
  <2>2. CASE CleanUp
    BY <1>1, <1>2, <2>2
    DEF CleanUp, CleanUpCompare, CleanUpRemove, CleanUpDone, Compared, Pcs
  <2>3. CASE Removal
    BY <1>1, <1>2, <2>3
    DEF Removal, RemoveTask, RemoveOwned, RemoveRow, RemovalStops, Removable, Compared, Pcs
  <2> QED
    BY <1>6, <2>1, <2>2, <2>3 DEF End
<1> QED
  BY <1>3, <1>4, <1>5, <1>6 DEF Program

LEMMA ComparedStays ==
  ASSUME IInv, ComparedOK, CommandOK, Next
  PROVE  ComparedOK'
<1>1. CASE Program
  <2>1. raced' = FALSE
    BY <1>1 DEF Program
  <2>2. CASE run'.pc \in Compared
    <3>1. /\ disk' = disk /\ record' = record /\ runs' = runs
          /\ run'.pc \in {"unlink", "removeOwned"} => Removable
          /\ run'.pc = "checked" => Staged /\ run'.item = run.item /\ run'.data = run.data
          /\ run'.pc = "withdraw" => disk[Final(Manifest)].id = runs
          /\ run'.pc = "cleanOwned" => Owned(Tracked.name, Tracked.id)
      BY <1>1, <2>2, JustComparedBy
    <3>2. run'.pc \in {"unlink", "removeOwned"} => Removable'
      BY <3>1 DEF Removable, Owned, Active
    <3>3. run'.pc = "checked" => Staged'
      BY <3>1 DEF Staged
    <3>4. run'.pc = "cleanOwned" => Owned(Tracked.name, Tracked.id)'
      BY <3>1 DEF Owned, Tracked, Active
    <3> QED
      BY <2>1, <3>1, <3>2, <3>3, <3>4 DEF ComparedOK
  <2>3. CASE run'.pc \notin Compared
    BY <2>1, <2>3 DEF ComparedOK, Compared
  <2> QED
    BY <2>2, <2>3
<1>2. CASE Others
  <2>6. others' # 0 /\ UNCHANGED <<caller, record, run, runs, outcome, stranded>>
    BY <1>2, OthersFacts DEF IInv
  <2>7. JustCompared' = JustCompared
    BY <2>6 DEF JustCompared, Tracked, Active
  <2>1. /\ others' # 0 /\ UNCHANGED <<caller, record, run, runs, outcome, stranded>>
        /\ JustCompared' = JustCompared
    BY <2>6, <2>7
  <2>2. raced => raced'
    <3>1. \/ raced' = raced
          \/ raced' = (raced \/ JustCompared \in Names)
          \/ \E name \in Names : raced' = (raced \/ name = JustCompared)
      BY <1>2 DEF Others, ChangeFile, ChangeSource, ReplaceDestination
    <3> QED
      BY <3>1, Zenon
  <2>3. ASSUME ~raced', run.pc \in Compared PROVE disk'[JustCompared] = disk[JustCompared]
    <3>1. JustCompared \in Names
      BY <2>3, ComparedName
    <3>2. CASE ChangeSource
      BY <3>2 DEF ChangeSource
    <3>3. CASE ReplaceDestination
      BY <2>3, <3>1, <3>3 DEF ReplaceDestination
    <3>4. ASSUME NEW name \in Names, ChangeFile(name)
          PROVE  disk'[JustCompared] = disk[JustCompared]
      <4>1. name # JustCompared
        BY <2>3, <3>4 DEF ChangeFile
      <4>2. PICK file : disk' = [disk EXCEPT ![name] = file]
        BY <3>4 DEF ChangeFile
      <4> QED
        BY <3>1, <4>1, <4>2 DEF IInv, Types
    <3> QED
      BY <1>2, <3>2, <3>3, <3>4 DEF Others
  <2>4. CASE raced' \/ run.pc \notin Compared
    BY <2>1, <2>2, <2>4 DEF ComparedOK, Compared
  <2>5. CASE ~raced' /\ run.pc \in Compared
    <3>1. disk'[JustCompared] = disk[JustCompared] /\ ~raced
      BY <2>2, <2>3, <2>5
    <3>2. run.pc \in {"unlink", "removeOwned"} => Removable'
      BY <2>1, <3>1 DEF ComparedOK, Removable, Owned, Active, JustCompared
    <3>3. run.pc = "checked" => Staged'
      BY <2>1, <3>1 DEF ComparedOK, Staged, JustCompared
    <3>4. run.pc = "withdraw" => disk'[Final(Manifest)].id = runs
      BY <2>1, <3>1 DEF ComparedOK, JustCompared
    <3>5. run.pc = "cleanOwned" => Owned(Tracked.name, Tracked.id)'
      BY <2>1, <3>1 DEF ComparedOK, Owned, Tracked, Active, JustCompared
    <3> QED
      BY <2>1, <2>2, <3>2, <3>3, <3>4, <3>5 DEF ComparedOK
  <2> QED
    BY <2>4, <2>5
<1> QED
  BY <1>1, <1>2 DEF Next

LEMMA CommandStays ==
  ASSUME IInv, CommandOK, Next
  PROVE  CommandOK'
<1> SUFFICES ASSUME caller = "cli" PROVE CommandOK'
  BY SplitFrame DEF CommandOK
<1>1. /\ ~Running /\ outcome # "success" => record = NoRecord
      /\ run.pc \notin {"bound", "recover", "unlink", "clear", "recovered"}
      /\ record.published => Active = NoActive
                             /\ run.pc \in {"idle", "end", "cleanup", "cleanOwned"}
      /\ ~Removing
  BY DEF CommandOK, IInv, RunOK
<1>2. /\ run \in RunType /\ record \in RecordType /\ Stopped.pc = "idle"
      /\ Failing = [run EXCEPT !.pc = "cleanup"] /\ Failing.pc = "cleanup"
      /\ NoRecord.known = FALSE /\ NoRecord.published = FALSE
  BY EmptyTypes DEF IInv, Types, Failing, RunType
<1>3. \A pc \in Pcs : Goto(pc) => run'.pc = pc
  BY GotoFrame
<1>4. CASE Begin
  <2>1. record = NoRecord /\ record' = record /\ run'.pc = "fresh"
    BY <1>1, <1>2, <1>4 DEF Begin, Stopped
  <2> QED
    BY <1>2, <2>1 DEF CommandOK
<1>5. CASE Recover
  <2>1. Baseline
    BY <1>1, <1>5
    DEF Recover, CheckResume, ComparePartial, RemovePartial, ClearPartial, AdoptSlice,
        AdoptManifest, RefuseAdoption, GoOn, Refused
  <2>2. CASE Refused("fresh", DestinationHeld /\ NamesFree)
    BY <1>1, <1>2, <2>2 DEF Refused, CommandOK
  <2>3. CASE ~Refused("fresh", DestinationHeld /\ NamesFree)
    <3>1. record' = RecordedBaseline /\ run' = [run EXCEPT !.pc = "next"]
      BY <2>1, <2>3 DEF Baseline, Event
    <3>2. ~record'.published /\ run'.pc = "next"
      BY <1>2, <3>1 DEF RecordedBaseline, NoRecord, RunType
    <3> QED
      BY <3>2 DEF CommandOK
  <2> QED
    BY <2>2, <2>3
<1>6. CASE Produce
  <2>1. run.pc \in {"next", "verified"} \cup Producing
    BY <1>6
    DEF Produce, VerifyAll, CreatePartial, RecordPartial, Copy, CheckStaged, Rename, RecordSlice,
        DisownManifest, WithdrawManifest, RecordManifest, Refused, Producing
  <2>2. ~record.published
    BY <1>1, <2>1 DEF Producing
  <2>3. CASE RecordManifest
    <3>1. run'.pc = "end" /\ record' \in {RecordedManifest, record}
      BY <1>2, <2>3 DEF RecordManifest, RunType
    <3>2. RecordedManifest.active = NoActive
      BY <1>2 DEF RecordedManifest, RecordType
    <3> QED
      BY <2>2, <3>1, <3>2 DEF CommandOK, Active
  <2>4. CASE RecordPartial \/ RecordSlice
    <3>1. /\ run'.pc \in {"copy", "next", "cleanup"}
          /\ record' \in {record, RecordedPartial(run.item),
                          RecordedSlice([id |-> runs, data |-> run.data])}
      BY <1>2, <2>4 DEF RecordPartial, RecordSlice, Event, Refused, RunType
    <3>2. ~record'.published
      BY <1>2, <2>2, <3>1 DEF RecordedPartial, RecordedSlice, RecordType
    <3> QED
      BY <3>1, <3>2 DEF CommandOK
  <2>5. CASE VerifyAll \/ CheckStaged \/ Rename \/ DisownManifest
    <3>1. record' = record /\ run'.pc \in {"verified", "checked", "renamed", "withdraw", "cleanup"}
      BY <1>2, <1>3, <2>5 DEF VerifyAll, CheckStaged, Rename, DisownManifest, Refused, Pcs
    <3> QED
      BY <2>2, <3>1 DEF CommandOK
  <2>6. CASE CreatePartial \/ Copy \/ WithdrawManifest
    <3>1. record' = record /\ run'.pc \in {"created", "staged", "cleanup"}
      BY <1>2, <2>6 DEF CreatePartial, Copy, WithdrawManifest, Refused, RunType
    <3> QED
      BY <2>2, <3>1 DEF CommandOK
  <2> QED
    BY <1>6, <2>3, <2>4, <2>5, <2>6 DEF Produce
<1>7. CASE End
  <2>1. CASE Succeed
    BY <1>1, <1>2, <2>1 DEF Succeed, CommandOK, Active
  <2>2. CASE Fail
    BY <1>1, <1>2, <2>2 DEF Fail, CommandOK, Active
  <2>3. CASE Crash \/ CleanUpDone
    BY <1>2, <2>3 DEF Crash, CleanUpDone, CommandOK
  <2>4. CASE CleanUpCompare \/ CleanUpRemove
    <3>1. run.pc \in {"cleanup", "cleanOwned"} /\ Tracking
      BY <2>4 DEF CleanUpCompare, CleanUpRemove, IInv, RunOK
    <3>2. run'.pc \in {"cleanup", "cleanOwned"} /\ record' \in {record, Untracked}
      BY <1>2, <1>3, <2>4 DEF CleanUpCompare, CleanUpRemove, Pcs
    <3>3. Untracked.published = record.published /\ Untracked.active = NoActive
      BY <3>1, TrackedFacts
    <3> QED
      BY <1>1, <3>2, <3>3 DEF CommandOK, Active
  <2>5. ~Removal
    BY <1>1 DEF Removal, RemoveTask, RemoveOwned, RemoveRow, RemovalStops
  <2> QED
    BY <1>7, <2>1, <2>2, <2>3, <2>4, <2>5 DEF End, CleanUp
<1>8. CASE Others
  BY <1>1, <1>8 DEF Others, CommandOK, Active
<1> QED
  BY <1>4, <1>5, <1>6, <1>7, <1>8 DEF Next, Program

-----------------------------------------------------------------------------
(* The invariant, and what it means for the properties of the runs.        *)

LEMMA SplitStarts == Init => IInv /\ ComparedOK /\ CommandOK
<1> SUFFICES ASSUME Init PROVE IInv /\ ComparedOK /\ CommandOK
  OBVIOUS
<1>1. /\ \A name \in Names : disk[name] = NoFile
      /\ record = NoRecord /\ run = Stopped /\ runs = 0 /\ outcome = "none" /\ others = 0
      /\ sullied = {} /\ stranded = FALSE /\ place = 1 /\ caller \in Callers
      /\ source \in [content : Contents, stamp : {0}] /\ raced = FALSE
  BY DEF Init
<1>2. disk \in [Names -> Files]
  BY FileFacts DEF Init
<1>3. Types
  <2>1. record \in RecordType /\ run \in RunType
    BY <1>1, EmptyTypes
  <2>2. source \in [content : Contents, stamp : {0, 1}]
    BY <1>1
  <2>3. runs \in 0..MaxRuns /\ others \in 0..MaxOthers
    BY <1>1, CountFacts
  <2> QED
    BY <1>1, <1>2, <2>1, <2>2, <2>3 DEF Types, Outcomes
<1>4. RecordOK /\ RunOK /\ PublishedThere /\ SlicesSurvive
  BY <1>1, EmptyTypes, CountFacts
  DEF RecordOK, RunOK, Producing, PublishedThere, SlicesSurvive, Active
<1>5. DiskOK
  BY <1>1, EmptyTypes, FileFacts DEF DiskOK
<1>6. ManifestMeansWhole
  BY <1>1, FileFacts, NameFacts, CountFacts DEF ManifestMeansWhole
<1>7. Undisturbed
  <2>1. Untouched
    BY <1>1, EmptyTypes DEF Untouched
  <2>2. FilesKnown
    BY <1>1, NameFacts, EmptyTypes DEF FilesKnown, Absent
  <2>3. FilesExact
    BY <1>1, EmptyTypes DEF FilesExact
  <2> QED
    BY <1>1, <2>1, <2>2, <2>3 DEF Undisturbed
<1>8. ComparedOK /\ CommandOK
  BY <1>1, EmptyTypes DEF ComparedOK, CommandOK, Active
<1> QED
  BY <1>3, <1>4, <1>5, <1>6, <1>7, <1>8 DEF IInv

LEMMA SplitStutters ==
  ASSUME IInv, ComparedOK, CommandOK, UNCHANGED vars
  PROVE  IInv' /\ ComparedOK' /\ CommandOK'
<1>1. IInv'
  BY DEF vars, IInv, Types, RecordOK, RunOK, DiskOK, PublishedThere, SlicesSurvive,
     ManifestMeansWhole, Undisturbed, Untouched, FilesKnown, FilesExact, Active, Entry,
     HasBaseline, Absent, LeftByCommand, WholePackage, Stranded, Removable, Owned, Staged, Tracking
<1>2. ComparedOK' /\ CommandOK'
  BY DEF vars, ComparedOK, CommandOK, Removable, Owned, Staged, Tracked, Active
<1> QED
  BY <1>1, <1>2

LEMMA SplitSteps ==
  IInv /\ ComparedOK /\ CommandOK /\ [Next]_vars => IInv' /\ ComparedOK' /\ CommandOK'
<1> SUFFICES ASSUME IInv, ComparedOK, CommandOK, [Next]_vars
             PROVE  IInv' /\ ComparedOK' /\ CommandOK'
  OBVIOUS
<1>1. ASSUME Begin PROVE IInv'
  BY <1>1, BeginKeeps
<1>2. ASSUME Recover PROVE IInv'
  BY <1>2, BaselineKeeps, CheckResumeKeeps, ComparePartialKeeps, RemovePartialKeeps,
     ClearPartialKeeps, AdoptSliceKeeps, AdoptManifestKeeps, RefuseAdoptionKeeps, GoOnKeeps
  DEF Recover
<1>3. ASSUME Produce PROVE IInv'
  BY <1>3, VerifyAllKeeps, CreatePartialKeeps, RecordPartialKeeps, CopyKeeps, CheckStagedKeeps,
     RenameKeeps, RecordSliceKeeps, DisownManifestKeeps, WithdrawManifestKeeps, RecordManifestKeeps
  DEF Produce
<1>4. ASSUME End PROVE IInv'
  BY <1>4, SucceedKeeps, FailKeeps, CrashKeeps, CleanUpCompareKeeps, CleanUpRemoveKeeps,
     CleanUpDoneKeeps, RemoveTaskKeeps, RemoveOwnedKeeps, RemoveRowKeeps, RemovalStopsKeeps
  DEF End, CleanUp, Removal
<1>5. ASSUME Others PROVE IInv'
  BY <1>5, OthersKeep
<1>6. CASE UNCHANGED vars
  BY <1>6, SplitStutters
<1>7. Next => IInv'
  BY <1>1, <1>2, <1>3, <1>4, <1>5 DEF Next, Program
<1> QED
  BY <1>6, <1>7, ComparedStays, CommandStays

\* The inductive invariant holds in every state of a split, of every source
\* and with every number of runs and changes (resumable.rs, as a whole).
THEOREM SplitInvariant == Spec => [](IInv /\ ComparedOK /\ CommandOK)
BY SplitStarts, SplitSteps, PTL DEF Spec

\* Every variable keeps its type; the checkpoint never lists more files than
\* there are slices (resumable.rs, the state of a split).
THEOREM SplitTypes == Spec => []TypeOK
<1>1. IInv => TypeOK
  <2> SUFFICES ASSUME IInv PROVE TypeOK
    OBVIOUS
  <2>1. Types /\ RecordOK
    BY DEF IInv
  <2>2. record.completed \in BoundedSeq(Entries, N)
    <3>1. record.completed \in Seq(Entries) /\ Len(record.completed) \in 0..N
      BY <2>1, TypeFacts, CountFacts DEF RecordOK
    <3>2. record.completed \in [1..Len(record.completed) -> Entries]
      BY <3>1, LenProperties
    <3> QED
      BY <3>1, <3>2 DEF BoundedSeq, SeqOf
  <2>3. record.active \in {NoActive} \cup [item : Items, id : Runs]
    BY <2>1, TypeFacts DEF Active
  <2>4. record.active # NoActive \/ record.published => record.known
    BY <2>1, EmptyTypes DEF RecordOK
  <2> QED
    BY <2>1, <2>2, <2>3, <2>4 DEF TypeOK, Types, Entries, Outcomes
<1> QED
  BY <1>1, SplitInvariant, PTL

\* Wherever a manifest is, the slices it names are there, whole: after any
\* crash, failure or resume, and whatever happened to the source.
THEOREM ManifestIsMarker == Spec => []ManifestMeansWhole
<1>1. IInv => ManifestMeansWhole
  BY DEF IInv
<1> QED
  BY <1>1, SplitInvariant, PTL

\* What the checkpoint says is done is on disk, the same file with the same
\* data; the checkpoint may lag behind the disk, and never runs ahead of it.
THEOREM CheckpointIsTrue == Spec => []RecordedSurvives
<1>1. IInv => RecordedSurvives
  BY DEF IInv, SlicesSurvive, PublishedThere, RecordedSurvives
<1> QED
  BY <1>1, SplitInvariant, PTL

\* A desktop split that nobody interferes with is refused only when its run
\* began in one of the three windows (RefusedOnlyStranded).
THEOREM OnlyStrandedSplitRefused == Spec => []RefusedOnlyStranded
<1>1. IInv => RefusedOnlyStranded
  BY DEF IInv, Undisturbed, RefusedOnlyStranded
<1> QED
  BY <1>1, SplitInvariant, PTL

-----------------------------------------------------------------------------
(* Files of others.                                                        *)

\* What a removal or a renaming goes by is the comparison of the step before.
LEMMA ForeignStep ==
  ASSUME IInv, ComparedOK, CommandOK, [Next]_vars, others' = others,
         NEW name \in Names, disk[name].id = 0, ~Absent(name), ~(raced /\ name = JustCompared)
  PROVE  disk'[name] = disk[name]
<1>1. disk \in [Names -> Files] /\ Types
  BY DEF IInv, Types
<1>2. CASE Begin
  BY <1>2 DEF Begin, NamesSeen
<1>3. CASE Recover
  <2>1. CASE RemovePartial
    <3>1. /\ run.pc = "unlink" /\ disk' = [disk EXCEPT ![Partial(Active.item)] = NoFile]
          /\ JustCompared = Partial(Active.item)
      BY <2>1 DEF RemovePartial, JustCompared
    <3>2. Active.id # 0
      BY <3>1, TypeFacts, CountFacts DEF IInv, RunOK, Runs
    <3>3. ~raced => disk[Partial(Active.item)].id = Active.id
      BY <3>1 DEF ComparedOK, Removable, Owned
    <3>4. name # Partial(Active.item)
      BY <3>1, <3>2, <3>3 DEF ComparedOK
    <3> QED
      BY <1>1, <3>1, <3>4
  <2>2. CASE ~RemovePartial
    BY <1>3, <2>2
    DEF Recover, Baseline, CheckResume, ComparePartial, ClearPartial, AdoptSlice, AdoptManifest,
        RefuseAdoption, GoOn, Event, Refused
  <2> QED
    BY <2>1, <2>2
<1>4. CASE Produce /\ disk' # disk
  <2>1. run.pc \in {"next", "verified"} \cup Producing
    BY <1>4
    DEF Produce, VerifyAll, CreatePartial, RecordPartial, Copy, CheckStaged, Rename, RecordSlice,
        DisownManifest, WithdrawManifest, RecordManifest, Refused, Producing
  <2>7. runs # 0
    BY <2>1 DEF IInv, RunOK, Producing
  <2>2. CASE CreatePartial
    <3>1. /\ Absent(Partial(NextItem))
          /\ disk' = [disk EXCEPT ![Partial(NextItem)] = [id |-> runs, data |-> "torn"]]
      BY <1>4, <2>2 DEF CreatePartial, MayCreate, Refused
    <3>2. name # Partial(NextItem)
      BY <3>1 DEF Absent
    <3> QED
      BY <1>1, <3>1, <3>2
  <2>3. CASE Copy
    <3> DEFINE data == IF run.item <= N THEN source.content ELSE run.baseline
    <3>1. disk' = [disk EXCEPT ![Partial(run.item)].data =
                     IF disk[Partial(run.item)].id = runs THEN data ELSE @]
      BY <1>4, <2>3 DEF Copy, Refused
    <3>2. disk[name] = [disk[name] EXCEPT !.data = disk[name].data]
      BY <1>1, FileFacts
    <3> HIDE DEF data
    <3>3. CASE name = Partial(run.item)
      BY <1>1, <2>7, <3>1, <3>2, <3>3
    <3>4. CASE name # Partial(run.item)
      BY <1>1, <3>1, <3>4
    <3> QED
      BY <3>3, <3>4
  <2>4. CASE Rename
    <3>1. /\ run.pc = "checked" /\ JustCompared = Partial(run.item)
          /\ Absent(Final(run.item))
          /\ disk' = [disk EXCEPT ![Final(run.item)] = disk[Partial(run.item)],
                                  ![Partial(run.item)] = NoFile]
      BY <1>4, <2>4 DEF Rename, Renamable, Refused, JustCompared
    <3>2. ~raced => disk[Partial(run.item)].id = runs
      BY <3>1 DEF ComparedOK, Staged
    <3>3. name # Partial(run.item) /\ name # Final(run.item)
      BY <2>7, <3>1, <3>2 DEF Absent, ComparedOK
    <3> QED
      BY <1>1, <3>1, <3>3
  <2>5. CASE WithdrawManifest
    <3>1. /\ run.pc = "withdraw" /\ JustCompared = Final(Manifest)
          /\ disk' = [disk EXCEPT ![Final(Manifest)] = NoFile]
      BY <2>5 DEF WithdrawManifest, JustCompared
    <3>2. ~raced => disk[Final(Manifest)].id = runs
      BY <3>1 DEF ComparedOK
    <3>3. name # Final(Manifest)
      BY <2>7, <3>1, <3>2 DEF ComparedOK
    <3> QED
      BY <1>1, <3>1, <3>3
  <2>6. CASE VerifyAll \/ RecordPartial \/ CheckStaged \/ RecordSlice \/ DisownManifest
              \/ RecordManifest
    BY <1>4, <2>6
    DEF VerifyAll, RecordPartial, CheckStaged, RecordSlice, DisownManifest, RecordManifest, Event,
        Refused
  <2> QED
    BY <1>4, <2>2, <2>3, <2>4, <2>5, <2>6 DEF Produce
<1>5. CASE End
  <2>1. CASE CleanUpRemove
    <3>1. /\ run.pc = "cleanOwned" /\ JustCompared = Tracked.name
          /\ disk' \in {disk, [disk EXCEPT ![Tracked.name] = NoFile]}
      BY <2>1 DEF CleanUpRemove, JustCompared
    <3>2. Tracked.id # 0
      BY <3>1, TrackedFacts DEF IInv, RunOK
    <3>3. ~raced => disk[Tracked.name].id = Tracked.id
      BY <3>1 DEF ComparedOK, Owned
    <3>4. name # Tracked.name
      BY <3>1, <3>2, <3>3 DEF ComparedOK
    <3> QED
      BY <1>1, <3>1, <3>4
  <2>2. CASE RemoveOwned
    <3>1. /\ run.pc = "removeOwned" /\ disk' = [disk EXCEPT ![Partial(Active.item)] = NoFile]
          /\ JustCompared = Partial(Active.item)
      BY <2>2 DEF RemoveOwned, JustCompared
    <3>2. Active.id # 0
      BY <3>1, TypeFacts, CountFacts DEF IInv, RunOK, Runs
    <3>3. ~raced => disk[Partial(Active.item)].id = Active.id
      BY <3>1 DEF ComparedOK, Removable, Owned
    <3>4. name # Partial(Active.item)
      BY <3>1, <3>2, <3>3 DEF ComparedOK
    <3> QED
      BY <1>1, <3>1, <3>4
  <2>3. CASE Succeed \/ Fail \/ Crash \/ CleanUpCompare \/ CleanUpDone
    BY <2>3 DEF Succeed, Fail, Crash, CleanUpCompare, CleanUpDone
  <2>4. CASE RemoveTask \/ RemoveRow \/ RemovalStops
    BY <2>4 DEF RemoveTask, RemoveRow, RemovalStops
  <2> QED
    BY <1>5, <2>1, <2>2, <2>3, <2>4 DEF End, CleanUp, Removal
<1>6. CASE Others
  BY <1>1, <1>6 DEF Others, Types
<1>7. CASE disk' = disk
  BY <1>7
<1> QED
  BY <1>2, <1>3, <1>4, <1>5, <1>6, <1>7 DEF Next, Program, vars

\* No step of the program changes, replaces or removes a file of others,
\* but for one that took the place of its own between the comparison and the
\* removal or renaming by name (remove_owned_partial, create_new,
\* finalize_staged_output, the cleanup).
THEOREM ForeignFilesStay == Spec => ForeignUntouched
<1>1. IInv /\ ComparedOK /\ CommandOK /\ [Next]_vars =>
        [others' = others =>
           \A name \in Names :
             disk[name].id = 0 /\ ~Absent(name) =>
               disk'[name] = disk[name] \/ (raced /\ name = JustCompared)]_vars
  BY ForeignStep
<1> QED
  BY <1>1, SplitInvariant, PTL DEF Spec, ForeignUntouched

-----------------------------------------------------------------------------
(* The desktop's split implements AtomicPublication: the rename of the     *)
(* manifest is its publication, a run that stops without success its       *)
(* failure, the next run its retry.                                        *)

LEMMA SamePackage ==
  ASSUME caller' = caller, \A i \in Items : disk'[Final(i)] = disk[Final(i)]
  PROVE  Package' = Package
BY CountFacts DEF Package, WholePackage

LEMMA QuietSplit ==
  ASSUME Package' = Package, caller' = caller, outcome' = outcome, others' = others
  PROVE  UNCHANGED Publication!vars
BY DEF Publication!vars, Report

LEMMA StopPublishes ==
  ASSUME Package' = Package, caller' = caller, others' = others, outcome = "none",
         outcome' \in {"none", "failed", "refused", "crashed"}
  PROVE  Publication!Next \/ UNCHANGED Publication!vars
<1>1. CASE caller # "cli" /\ outcome' # "none"
  BY <1>1 DEF Publication!Next, Publication!Fail, Report
<1>2. CASE caller = "cli" \/ outcome' = "none"
  BY <1>2 DEF Publication!vars, Report
<1> QED
  BY <1>1, <1>2

\* The rename of a manifest publishes the package; that of a slice does not
\* show.
LEMMA RenamePublishes ==
  ASSUME IInv, IInv', ComparedOK, Rename, ~Refused("checked", Renamable), caller = "desktop"
  PROVE  Publication!Next \/ UNCHANGED Publication!vars
<1>1. /\ run.pc = "checked" /\ run'.pc = "renamed" /\ run'.item = run.item
      /\ UNCHANGED <<caller, source, others, outcome>>
      /\ outcome = "none" /\ disk[Final(Manifest)].id = 0
  BY GotoFrame DEF Rename, IInv, RunOK, DiskOK, Pcs
<1>2. Package = "none" /\ Report = "pending" /\ Report' = Report
  BY <1>1 DEF Package, Report
<1>3. CASE disk'[Final(Manifest)].id = 0
  BY <1>1, <1>2, <1>3 DEF Package, Publication!vars
<1>4. CASE disk'[Final(Manifest)].id # 0
  <2>1. Package' \in {"whole", "spoiled"}
    BY <1>1, <1>4 DEF Package
  <2>2. others = 0 => Package' = "whole"
    <3> SUFFICES ASSUME others = 0 PROVE Package' = "whole"
      OBVIOUS
    <3>1. sullied' = {} /\ caller' = "desktop" /\ ManifestMeansWhole'
      BY <1>1 DEF IInv, Undisturbed, Untouched
    <3>2. WholePackage'
      BY <1>4, <3>1 DEF ManifestMeansWhole, LeftByCommand, WholePackage
    <3> QED
      BY <1>4, <3>1, <3>2 DEF Package
  <2>3. others > 0 \/ others = 0
    BY TypeFacts DEF IInv
  <2> QED
    BY <1>1, <1>2, <2>1, <2>2, <2>3 DEF Publication!Next, Publication!Publish
<1> QED
  BY <1>3, <1>4

\* The withdrawal of a manifest follows a source that others changed.
LEMMA WithdrawPublishes ==
  ASSUME IInv, WithdrawManifest, caller = "desktop"
  PROVE  Publication!Next \/ UNCHANGED Publication!vars
<1>1. /\ run.pc = "withdraw" /\ others' = others /\ caller' = caller
      /\ disk' = [disk EXCEPT ![Final(Manifest)] = NoFile]
      /\ outcome = "none" /\ outcome' = "refused"
  BY DEF WithdrawManifest, IInv, RunOK
<1>2. others > 0
  <2>1. others # 0
    BY <1>1, ChecksHold DEF FilesExact
  <2> QED
    BY <2>1, TypeFacts DEF IInv
<1>3. disk'[Final(Manifest)].id = 0
  BY <1>1, NameFacts, CountFacts, FileFacts DEF IInv, Types
<1>4. Package' = "none" /\ Report = "pending" /\ Report' = "failed"
  BY <1>1, <1>3 DEF Package, Report
<1>5. CASE Package = "none"
  BY <1>1, <1>4, <1>5 DEF Publication!Next, Publication!Fail
<1>6. CASE Package # "none"
  BY <1>1, <1>2, <1>4, <1>6 DEF Publication!Next, Publication!Withdraw
<1> QED
  BY <1>5, <1>6

\* Every step of a split maps to a step of AtomicPublication or to a stutter.
LEMMA SplitStepPublishes ==
  ASSUME IInv, ComparedOK, IInv', Next
  PROVE  Publication!Next \/ UNCHANGED Publication!vars
<1>1. /\ Types /\ (AtWork => outcome = "none" /\ runs # 0)
      /\ CleaningUp => caller = "cli"
      /\ Removing => outcome \notin {"none", "success"}
      /\ others = 0 \/ others > 0
  BY TypeFacts DEF IInv, RunOK
<1>2. CASE Others
  <2>1. others' = others + 1 /\ outcome' = outcome /\ caller' = caller
    BY <1>2 DEF Others
  <2>2. Package' \in Publication!Results
    BY DEF Package, Publication!Results
  <2> QED
    BY <2>1, <2>2 DEF Publication!Next, Publication!Interfere, Report
<1>3. CASE caller = "cli" /\ ~Others
  <2>1. others' = others /\ caller' = caller
    BY <1>3, SplitFrame DEF Next
  <2> QED
    BY <1>3, <2>1 DEF Publication!vars, Package, Report
<1>8. caller = "cli" \/ caller = "desktop"
  BY <1>1, ConstantsAssumption DEF Types
<1>4. CASE caller = "desktop" /\ Begin
  <2>1. /\ caller' = caller /\ others' = others /\ outcome' = "none" /\ outcome # "success"
        /\ disk' = NamesSeen
    BY <1>4 DEF Begin
  <2>2. \A i \in Items : disk'[Final(i)] = disk[Final(i)]
    BY <1>4, <2>1, NameFacts DEF NamesSeen
  <2>3. Package' = Package
    BY <2>1, <2>2, SamePackage
  <2>4. CASE outcome = "none"
    BY <2>1, <2>3, <2>4, QuietSplit
  <2>5. CASE outcome # "none"
    <3>1. Report = "failed" /\ Report' = "pending"
      BY <1>4, <2>1, <2>5 DEF Report
    <3> QED
      BY <2>1, <2>3, <3>1 DEF Publication!Next, Publication!Retry
  <2> QED
    BY <2>4, <2>5
<1>5. CASE caller = "desktop" /\ Recover
  <2>1. /\ caller' = caller /\ others' = others
        /\ run.pc \in {"fresh", "bound", "recover", "unlink", "clear", "recovered"}
        /\ outcome' \in {outcome, "refused", "failed"}
    BY <1>5
    DEF Recover, Baseline, CheckResume, ComparePartial, RemovePartial, ClearPartial, AdoptSlice,
        AdoptManifest, RefuseAdoption, GoOn, Event, Refused
  <2>2. \A i \in Items : disk'[Final(i)] = disk[Final(i)]
    <3>1. CASE RemovePartial
      <4>1. disk' = [disk EXCEPT ![Partial(Active.item)] = NoFile]
        BY <3>1 DEF RemovePartial
      <4> QED
        BY <1>1, <4>1, NameFacts DEF Types
    <3>2. CASE ~RemovePartial
      BY <1>5, <3>2
      DEF Recover, Baseline, CheckResume, ComparePartial, ClearPartial, AdoptSlice, AdoptManifest,
          RefuseAdoption, GoOn, Event, Refused
    <3> QED
      BY <3>1, <3>2
  <2> QED
    BY <1>1, <2>1, <2>2, SamePackage, StopPublishes
<1>6. CASE caller = "desktop" /\ Produce
  <2>1. CASE Rename /\ ~Refused("checked", Renamable)
    BY <1>6, <2>1, RenamePublishes
  <2>2. CASE WithdrawManifest
    BY <1>6, <2>2, WithdrawPublishes
  <2>3. CASE Produce /\ ~(Rename /\ ~Refused("checked", Renamable)) /\ ~WithdrawManifest
    <3>1. /\ caller' = caller /\ others' = others
          /\ run.pc \in {"next", "verified"} \cup Producing
          /\ outcome' \in {outcome, "refused", "failed"}
      BY <2>3
      DEF Produce, VerifyAll, CreatePartial, RecordPartial, Copy, CheckStaged, Rename, RecordSlice,
          DisownManifest, RecordManifest, Event, Refused, Producing
    <3>2. \A i \in Items : disk'[Final(i)] = disk[Final(i)]
      <4>1. CASE CreatePartial /\ disk' # disk
        <5>1. disk' = [disk EXCEPT ![Partial(NextItem)] = [id |-> runs, data |-> "torn"]]
          BY <4>1 DEF CreatePartial, Refused
        <5> QED
          BY <1>1, <5>1, NameFacts DEF Types
      <4>2. CASE Copy /\ disk' # disk
        <5>1. PICK data : disk' = [disk EXCEPT ![Partial(run.item)].data =
                            IF disk[Partial(run.item)].id = runs THEN data ELSE @]
          BY <4>2 DEF Copy, Refused
        <5> QED
          BY <1>1, <5>1, NameFacts DEF Types
      <4>3. CASE disk' = disk
        BY <4>3
      <4>4. disk' = disk \/ CreatePartial \/ Copy
        BY <2>3
        DEF Produce, VerifyAll, RecordPartial, CheckStaged, Rename, RecordSlice, DisownManifest,
            RecordManifest, Event, Refused
      <4> QED
        BY <4>1, <4>2, <4>3, <4>4
    <3> QED
      BY <1>1, <3>1, <3>2, SamePackage, StopPublishes DEF Producing
  <2> QED
    BY <1>6, <2>1, <2>2, <2>3
<1>7. CASE caller = "desktop" /\ End
  <2>1. CASE Succeed
    <3>1. /\ disk' = disk /\ caller' = caller /\ others' = others
          /\ outcome' = "success" /\ run.pc = "end"
      BY <2>1 DEF Succeed
    <3>2. Report = "pending" /\ Report' = "success" /\ Package' = Package
      BY <1>1, <1>7, <3>1, SamePackage DEF Report
    <3>3. Package = "whole" \/ others > 0
      BY <1>1, <1>7, <3>1 DEF Package, IInv, Undisturbed, FilesExact
    <3> QED
      BY <3>1, <3>2, <3>3 DEF Publication!Next, Publication!Succeed
  <2>2. CASE Fail
    <3>1. /\ disk' = disk /\ caller' = caller /\ others' = others
          /\ AtWork /\ outcome' \in {"failed", "crashed"}
      BY <2>2 DEF Fail
    <3> QED
      BY <1>1, <1>7, <3>1, SamePackage, StopPublishes
  <2>3. CASE Crash
    <3>1. /\ disk' = disk /\ caller' = caller /\ others' = others
          /\ AtWork /\ outcome' \in {"failed", "crashed"}
      BY <1>1, <1>7, <2>3 DEF Crash
    <3> QED
      BY <1>1, <1>7, <3>1, SamePackage, StopPublishes
  <2>4. CASE CleanUp
    BY <1>1, <1>7, <2>4 DEF CleanUp, CleanUpCompare, CleanUpRemove, CleanUpDone
  <2>5. CASE RemoveOwned
    <3>1. /\ caller' = caller /\ others' = others /\ outcome' = outcome
          /\ disk' = [disk EXCEPT ![Partial(Active.item)] = NoFile]
      BY <2>5 DEF RemoveOwned
    <3>2. \A i \in Items : disk'[Final(i)] = disk[Final(i)]
      BY <1>1, <3>1, NameFacts DEF Types
    <3> QED
      BY <3>1, <3>2, SamePackage, QuietSplit
  <2>6. CASE RemoveTask \/ RemoveRow \/ RemovalStops
    <3>1. /\ caller' = caller /\ others' = others /\ disk' = disk
          /\ outcome' = outcome \/ (Removing /\ outcome' = "removed")
      BY <2>6 DEF RemoveTask, RemoveRow, RemovalStops
    <3>2. Report' = Report /\ Package' = Package
      BY <1>1, <3>1, SamePackage DEF Report
    <3> QED
      BY <3>1, <3>2 DEF Publication!vars
  <2> QED
    BY <1>7, <2>1, <2>2, <2>3, <2>4, <2>5, <2>6 DEF End, Removal
<1> QED
  BY <1>2, <1>3, <1>4, <1>5, <1>6, <1>7, <1>8 DEF Next, Program

\* The desktop's split publishes its package atomically: the package appears
\* whole with its manifest or not at all, success is reported of a whole
\* package only and is final, and a failure leaves the package as it is.
THEOREM SplitPublishesAtomically == Spec => SplitIsAtomic
<1>1. Init => Publication!Init
  BY FileFacts, NameFacts, CountFacts DEF Init, Publication!Init, Package, Report
<1>2. IInv /\ ComparedOK /\ IInv' /\ [Next]_vars => [Publication!Next]_(Publication!vars)
  <2> SUFFICES ASSUME IInv, ComparedOK, IInv', [Next]_vars
               PROVE  [Publication!Next]_(Publication!vars)
    OBVIOUS
  <2>1. CASE UNCHANGED vars
    BY <2>1, SamePackage, QuietSplit DEF vars
  <2> QED
    BY <2>1, SplitStepPublishes
<1> QED
  BY <1>1, <1>2, SplitInvariant, PTL DEF Spec, SplitIsAtomic, Publication!Spec

=============================================================================
