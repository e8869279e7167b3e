-------------------------- MODULE PlainSplitProofs --------------------------
(***************************************************************************)
(* Proofs about PlainSplit, for every plan, any content of the source, any *)
(* number of changes by others, and any failure, cancellation or crash.    *)
(*                                                                         *)
(* What may be at the final names depends on where the call is: `IsOut'    *)
(* says which items it may have published, `IsWhole' which of them still   *)
(* hold what it staged unless others touched them.  Others never make a    *)
(* file of the call's identity, so the two survive whatever they do.       *)
(***************************************************************************)
EXTENDS PlainSplit, TLAPS

-----------------------------------------------------------------------------
(* The inductive invariant.                                                *)

Preparing == {"opened", "named", "bound", "hashed", "next", "copy", "streamed", "staged"}
Publishing == {"publish", "checked", "renamed", "published"}
TakingBack == {"rollback", "owned"}
Places == {"idle"} \cup Preparing \cup Publishing \cup TakingBack

Outcomes == {"none", "success", "failed", "changed", "crashed"}
Runs ==
  [pc : Places, item : Items, stamp : {0, 1}, baseline : Contents \cup {"none"},
   data : [Items -> Contents \cup {"none"}]]

RunOK == run \in Runs /\ outcome \in Outcomes

DiskOK ==
  /\ disk \in [Names -> Files]
  /\ source \in [content : Contents, stamp : {0, 1}]
  /\ others \in 0..MaxOthers /\ sullied \subseteq Items /\ kept \subseteq Items

FirstPlaces == {"opened", "named", "bound", "hashed", "staged"}

\* What the call remembers of the source: the baseline since it was hashed, and
\* the same data of every item once the stream was compared with it.
MemoryOK ==
  /\ run.pc \in {"hashed", "next", "copy", "streamed", "staged"} \cup Publishing \cup TakingBack
       => run.baseline \in Contents
  /\ run.pc \in {"next", "copy"} /\ run.item = Manifest
       => \A i \in 1..N : run.data[i] = run.baseline
  /\ run.pc \in {"staged"} \cup Publishing \cup TakingBack
       => \A i \in Items : run.data[i] = run.baseline
  /\ (run.pc \in FirstPlaces \/ (run.pc = "idle" /\ outcome = "none")) => run.item = 1
  /\ run.pc = "published" => run.item = Manifest
  /\ run.pc = "idle" \/ outcome = "none"

\* The items of which a file of this call may be at the final name.
IsOut(i) ==
  \/ run.pc \in {"publish", "checked"} /\ i < run.item
  \/ run.pc = "renamed" /\ i <= run.item
  \/ run.pc = "published"
  \/ run.pc \in TakingBack /\ (i <= run.item \/ i \in kept)
  \/ run.pc = "idle" /\ outcome # "none" /\ (outcome = "changed" => i \in kept)

OutOK == \A i \in Items : disk[Final(i)].id = 1 => IsOut(i)

\* The published items that hold what was staged, if others left them alone.
IsWhole(i) ==
  \/ run.pc \in Publishing /\ IsOut(i)
  \/ run.pc \in TakingBack /\ run.item = Manifest

WholeOK ==
  \A i \in Items \ sullied : IsWhole(i) => disk[Final(i)] = Own(run.baseline)

\* What the comparison before a publication or a removal found is still so,
\* if others left the file alone.
ComparedOK ==
  /\ run.pc = "checked" /\ run.item \notin sullied
       => disk[Partial(run.item)] = Own(run.baseline)
  /\ run.pc = "checked" /\ ~raced => disk[Partial(run.item)].id = 1
  /\ run.pc = "owned" /\ ~raced => disk[Final(run.item)].id = 1

IInv == RunOK /\ DiskOK /\ MemoryOK /\ OutOK /\ WholeOK /\ ComparedOK /\ ManifestMeansWhole

LEMMA CountIsNat == N \in Nat /\ Manifest \in Nat \ {0} /\ Manifest \in Items /\ 1 \in Items
<1>1. ASSUME NEW a \in Nat, NEW b \in Nat \ {0} PROVE a \div b \in Nat
  BY <1>1
<1>2. N \in Nat
  BY <1>1, ConstantsAssumption DEF N, ExpectedSliceCount
<1> QED
  BY <1>2 DEF Manifest, Items

\* Every item has two names, and no two items share one.
LEMMA NamesApart ==
  ASSUME NEW i \in Items, NEW j \in Items
  PROVE  /\ Final(i) \in Names /\ Partial(i) \in Names
         /\ Final(i) = Final(j) <=> i = j
         /\ Partial(i) = Partial(j) <=> i = j
         /\ Final(i) # Partial(j)
BY DEF Final, Partial, Names

LEMMA FileTypes ==
  /\ NoFile \in Files /\ Foreign \in Files /\ NoFile.id = 0 /\ Foreign.id = 0
  /\ \A d \in Contents \cup {"torn", "foreign"} :
       Own(d) \in Files /\ Own(d).id = 1 /\ Own(d).data = d
  /\ \A f \in Files, d \in Contents \cup {"torn", "foreign"} :
       /\ [f EXCEPT !.data = d] \in Files /\ [f EXCEPT !.data = d].id = f.id
       /\ f.id \in {0, 1} /\ (f.id = 1 => f = Own(f.data) /\ f # NoFile)
<1>1. \A f \in Files : \/ f = NoFile
                       \/ f \in [id : {0, 1}, data : Contents \cup {"torn", "foreign"}]
  BY DEF Files
<1> QED
  BY <1>1 DEF Files, NoFile, Foreign, Own

LEMMA TypeSplit == RunOK /\ DiskOK => TypeOK
BY DEF RunOK, Runs, DiskOK, TypeOK, Outcomes

LEMMA InitHolds == Init => IInv
<1> SUFFICES ASSUME Init PROVE IInv
  OBVIOUS
<1> USE CountIsNat
<1>1. RunOK /\ MemoryOK
  BY DEF Init, RunOK, Runs, Outcomes, Places, MemoryOK, Preparing, Publishing, TakingBack
<1>2. DiskOK
  BY FileTypes, ConstantsAssumption DEF Init, DiskOK
<1>3. \A i \in Items : disk[Final(i)] = NoFile
  BY NamesApart DEF Init
<1>4. OutOK /\ WholeOK /\ ComparedOK
  BY <1>3, FileTypes
  DEF Init, OutOK, WholeOK, ComparedOK, IsWhole, Publishing, TakingBack
<1>5. ManifestMeansWhole
  BY <1>3, FileTypes DEF ManifestMeansWhole
<1> QED
  BY <1>1, <1>2, <1>4, <1>5 DEF IInv

-----------------------------------------------------------------------------
(* Types.                                                                  *)

\* Where a step of the call may go, and the types of what it carries there.
LEMMA RunType ==
  ASSUME RunOK,
         NEW pc \in Places
  PROVE  /\ [run EXCEPT !.pc = pc] \in Runs
         /\ [run EXCEPT !.pc = pc].pc = pc
         /\ [run EXCEPT !.pc = pc].item = run.item
         /\ [run EXCEPT !.pc = pc].baseline = run.baseline
         /\ [run EXCEPT !.pc = pc].data = run.data
         /\ [run EXCEPT !.pc = pc].stamp = run.stamp
         /\ \A i \in Items : /\ [run EXCEPT !.pc = pc, !.item = i] \in Runs
                             /\ [run EXCEPT !.pc = pc, !.item = i].pc = pc
                             /\ [run EXCEPT !.pc = pc, !.item = i].item = i
                             /\ [run EXCEPT !.pc = pc, !.item = i].baseline = run.baseline
                             /\ [run EXCEPT !.pc = pc, !.item = i].data = run.data
BY DEF RunOK, Runs
-----------------------------------------------------------------------------
(* The preparation publishes nothing.                                      *)

\* Where no item is published nothing is said of the final names.
NothingOut == \A i \in Items : disk[Final(i)].id # 1

LEMMA PreparingIsEmpty ==
  ASSUME OutOK, run.pc \in Preparing \/ (run.pc = "idle" /\ outcome = "none")
  PROVE  NothingOut
BY DEF OutOK, IsOut, NothingOut, Preparing, TakingBack

LEMMA EmptyKeeps ==
  ASSUME NothingOut',
         \/ run'.pc \in Preparing \cup {"idle"}
         \/ run'.pc = "publish" /\ run'.item = 1
  PROVE  OutOK' /\ WholeOK' /\ ComparedOK' /\ ManifestMeansWhole'
<1>1. OutOK' /\ ManifestMeansWhole'
  BY CountIsNat DEF NothingOut, OutOK, ManifestMeansWhole
<1>2. WholeOK' /\ ComparedOK'
  BY CountIsNat
  DEF WholeOK, IsWhole, IsOut, ComparedOK, Preparing, Publishing, TakingBack, Items
<1> QED
  BY <1>1, <1>2

\* What is left to show of a preparing step.
Prepared ==
  /\ RunOK' /\ DiskOK' /\ MemoryOK'
  /\ \A i \in Items : disk'[Final(i)] = disk[Final(i)]
  /\ \/ run'.pc \in Preparing \cup {"idle"}
     \/ run'.pc = "publish" /\ run'.item = 1

\* A call that ends, for whatever reason, keeps what it remembers.
LEMMA ReturnTypes ==
  ASSUME RunOK, MemoryOK, NEW result \in Outcomes \ {"none"}, Return(result)
  PROVE  RunOK' /\ MemoryOK' /\ run'.pc = "idle" /\ run'.item = run.item /\ outcome' = result
BY RunType
DEF RunOK, MemoryOK, FirstPlaces, Return, Places, Preparing, Publishing, TakingBack

LEMMA GotoTypes ==
  ASSUME RunOK, NEW pc \in Places, Goto(pc)
  PROVE  /\ RunOK' /\ run'.pc = pc /\ outcome' = outcome
         /\ UNCHANGED <<run.item, run.baseline, run.data, run.stamp>>
BY RunType DEF RunOK, Goto

\* A partial name gets another file: the final names stay as they are.
LEMMA PartialChanges ==
  ASSUME DiskOK, NEW i \in Items, NEW file \in Files,
         disk' = [disk EXCEPT ![Partial(i)] = file]
  PROVE  /\ disk' \in [Names -> Files]
         /\ \A j \in Items : disk'[Final(j)] = disk[Final(j)]
         /\ disk'[Partial(i)] = file
BY NamesApart DEF DiskOK

LEMMA DiskKept ==
  ASSUME DiskOK, UNCHANGED <<disk, source>>, History
  PROVE  DiskOK' /\ \A i \in Items : disk'[Final(i)] = disk[Final(i)]
BY DEF DiskOK, History

LEMMA PreparationPrepares ==
  ASSUME RunOK, DiskOK, MemoryOK,
         \/ Open \/ CheckNames \/ CheckSource \/ HashSource
         \/ CreatePartial \/ Copy \/ CheckStream
  PROVE  Prepared
<1> USE CountIsNat
<1>1. CASE Open
  <2>1. RunOK' /\ run'.pc = "opened" /\ run'.item = run.item /\ outcome' = "none"
    BY <1>1 DEF Open, RunOK, Runs, DiskOK, Places, Preparing
  <2>3. run.item = 1
    BY <1>1 DEF Open, Running, MemoryOK
  <2>2. MemoryOK'
    BY <2>1, <2>3 DEF MemoryOK, FirstPlaces, Publishing, TakingBack
  <2> QED
    BY <1>1, <2>1, <2>2, DiskKept DEF Open, Prepared, Preparing
<1>2. CASE CheckNames
  <2>1. Goto("named") \/ Return("failed")
    BY <1>2 DEF CheckNames
  <2>2. RunOK' /\ MemoryOK' /\ run'.pc \in {"named", "idle"}
    <3>1. CASE Goto("named")
      <4>1. RunOK' /\ run'.pc = "named" /\ outcome' = outcome /\ run'.item = run.item
        BY <3>1, GotoTypes DEF Places, Preparing
      <4> QED
        BY <1>2, <4>1 DEF CheckNames, MemoryOK, FirstPlaces, Publishing, TakingBack
    <3>2. CASE Return("failed")
      BY <3>2, ReturnTypes DEF Outcomes
    <3> QED
      BY <2>1, <3>1, <3>2
  <2> QED
    BY <1>2, <2>2, DiskKept DEF CheckNames, Prepared, Preparing
<1>3. CASE CheckSource
  <2>1. \/ Return("changed")
        \/ run.pc = "named" /\ Goto("bound")
        \/ run.pc = "hashed" /\ N # 0 /\ Goto("next")
        \/ run.pc = "hashed" /\ N = 0 /\ Goto("streamed")
        \/ run.pc = "staged" /\ Goto("publish")
    BY <1>3 DEF CheckSource, AfterCheck
  <2>2. CASE Return("changed")
    BY <1>3, <2>2, ReturnTypes, DiskKept DEF CheckSource, Outcomes, Prepared
  <2>3. ASSUME NEW pc \in {"bound", "next", "streamed", "publish"}, Goto(pc),
               \/ run.pc = "named" /\ pc = "bound"
               \/ run.pc = "hashed" /\ N # 0 /\ pc = "next"
               \/ run.pc = "hashed" /\ N = 0 /\ pc = "streamed"
               \/ run.pc = "staged" /\ pc = "publish"
        PROVE  Prepared
    <3>1. RunOK' /\ run'.pc = pc /\ outcome' = outcome
          /\ UNCHANGED <<run.item, run.baseline, run.data, run.stamp>>
      BY <2>3, GotoTypes DEF Places, Preparing, Publishing
    <3>2. run.item = 1
      BY <2>3 DEF MemoryOK, FirstPlaces
    <3>3. MemoryOK'
      BY <2>3, <3>1, <3>2 DEF MemoryOK, FirstPlaces, Publishing, TakingBack, Manifest
    <3> QED
      BY <1>3, <2>3, <3>1, <3>2, <3>3, DiskKept DEF CheckSource, Prepared, Preparing
  <2> QED
    BY <2>1, <2>2, <2>3
<1>4. CASE HashSource
  <2>1. /\ RunOK' /\ run'.pc = "hashed" /\ outcome' = outcome /\ run'.item = run.item
        /\ run'.baseline \in Contents
    BY <1>4 DEF HashSource, RunOK, Runs, DiskOK, Places, Preparing
  <2>2. MemoryOK'
    BY <1>4, <2>1 DEF HashSource, MemoryOK, FirstPlaces, Publishing, TakingBack
  <2> QED
    BY <1>4, <2>1, <2>2, DiskKept DEF HashSource, Prepared, Preparing
<1>5. CASE CreatePartial
  <2>1. run.item \in Items
    BY DEF RunOK, Runs
  <2>2. CASE Return("failed") /\ UNCHANGED disk
    BY <1>5, <2>2, ReturnTypes, DiskKept DEF CreatePartial, Outcomes, Prepared
  <2>3. CASE disk' = [disk EXCEPT ![Partial(run.item)] = Own("torn")] /\ Goto("copy")
    <3>1. RunOK' /\ run'.pc = "copy" /\ outcome' = outcome
          /\ UNCHANGED <<run.item, run.baseline, run.data, run.stamp>>
      BY <2>3, GotoTypes DEF Places, Preparing
    <3>2. MemoryOK'
      BY <1>5, <3>1 DEF CreatePartial, MemoryOK, FirstPlaces, Publishing, TakingBack
    <3>3. /\ disk' \in [Names -> Files]
          /\ \A j \in Items : disk'[Final(j)] = disk[Final(j)]
      BY <2>1, <2>3, FileTypes, PartialChanges
    <3>4. DiskOK'
      BY <1>5, <3>3 DEF CreatePartial, DiskOK, History
    <3> QED
      BY <3>1, <3>2, <3>3, <3>4 DEF Prepared, Preparing
  <2> QED
    BY <1>5, <2>2, <2>3 DEF CreatePartial
<1>6. CASE Copy
  <2> DEFINE i == run.item
             data == IF i = Manifest THEN run.baseline ELSE source.content
             file == [disk[Partial(i)] EXCEPT !.data = IF disk[Partial(i)].id = 1 THEN data ELSE @]
  <2>1. i \in Items /\ i \in Nat /\ i \in 1..Manifest
    BY DEF RunOK, Runs, Items
  <2>2. data \in Contents
    BY <1>6 DEF Copy, MemoryOK, DiskOK
  <2>3. CASE Return("changed") /\ UNCHANGED disk
    BY <1>6, <2>3, ReturnTypes, DiskKept DEF Copy, Outcomes, Prepared
  <2>4. CASE /\ disk' = [disk EXCEPT ![Partial(i)].data =
                           IF disk[Partial(i)].id = 1 THEN data ELSE @]
             /\ run' = [run EXCEPT
                          !.pc = IF i < N THEN "next" ELSE IF i = N THEN "streamed" ELSE "staged",
                          !.item = IF i < N THEN i + 1 ELSE IF i = N THEN i ELSE 1,
                          !.data[i] = data]
             /\ outcome' = outcome
    <3>1. disk' = [disk EXCEPT ![Partial(i)] = file]
      BY <2>4
    <3>2. file \in Files
      <4>1. disk[Partial(i)] \in Files
        BY <2>1, NamesApart DEF DiskOK
      <4>2. disk[Partial(i)].id = 1 => file = [disk[Partial(i)] EXCEPT !.data = data]
        OBVIOUS
      <4>3. disk[Partial(i)].id # 1 => file = disk[Partial(i)]
        BY <4>1 DEF Files, NoFile
      <4> HIDE DEF file
      <4> QED
        BY <2>2, <4>1, <4>2, <4>3, FileTypes
    <3> HIDE DEF file, data
    <3>3. /\ disk' \in [Names -> Files]
          /\ \A j \in Items : disk'[Final(j)] = disk[Final(j)]
      BY <2>1, <3>1, <3>2, PartialChanges
    <3>4. DiskOK'
      BY <1>6, <3>3 DEF Copy, DiskOK, History
    <3>5. /\ run' \in Runs
          /\ run'.data = [run.data EXCEPT ![i] = data] /\ run'.baseline = run.baseline
          /\ \/ i < N /\ run'.pc = "next" /\ run'.item = i + 1
             \/ i = N /\ run'.pc = "streamed" /\ run'.item = i
             \/ i = Manifest /\ run'.pc = "staged" /\ run'.item = 1
      <4> DEFINE pc == IF i < N THEN "next" ELSE IF i = N THEN "streamed" ELSE "staged"
                 item == IF i < N THEN i + 1 ELSE IF i = N THEN i ELSE 1
                 read == [run.data EXCEPT ![i] = data]
      <4>1. pc \in Places /\ item \in Items
        BY <2>1 DEF Places, Preparing, Items, Manifest
      <4>2. read \in [Items -> Contents \cup {"none"}]
        BY <2>1, <2>2 DEF RunOK, Runs
      <4>3. run' = [run EXCEPT !.pc = pc, !.item = item, !.data = read]
        BY <2>4 DEF RunOK, Runs
      <4>4. \/ i < N /\ pc = "next" /\ item = i + 1
            \/ i = N /\ pc = "streamed" /\ item = i
            \/ i = Manifest /\ pc = "staged" /\ item = 1
        BY <2>1 DEF Manifest
      <4> HIDE DEF pc, item, read
      <4>5. /\ run' \in Runs /\ run'.data = read /\ run'.baseline = run.baseline
            /\ run'.pc = pc /\ run'.item = item
        BY <4>1, <4>2, <4>3 DEF RunOK, Runs
      <4> QED
        BY <4>4, <4>5 DEF read
    <3>6. MemoryOK'
      <4>1. run.pc = "copy" /\ outcome = "none" /\ run.baseline \in Contents
        BY <1>6 DEF Copy, MemoryOK
      <4>2. CASE i < N
        <5>1. run'.pc = "next" /\ run'.item = i + 1 /\ i + 1 # Manifest
          BY <2>1, <3>5, <4>2 DEF Manifest
        <5> QED
          BY <2>4, <3>5, <4>1, <5>1 DEF MemoryOK, FirstPlaces, Publishing, TakingBack
      <4>3. CASE i = N
        <5>1. run'.pc = "streamed"
          BY <2>1, <3>5, <4>3 DEF Manifest
        <5> QED
          BY <2>4, <3>5, <4>1, <5>1 DEF MemoryOK, FirstPlaces, Publishing, TakingBack
      <4>4. CASE i = Manifest
        <5>1. run'.pc = "staged" /\ run'.item = 1
          BY <2>1, <3>5, <4>4 DEF Manifest
        <5>2. \A k \in 1..N : run.data[k] = run.baseline
          BY <4>1, <4>4 DEF MemoryOK
        <5>3. data = run.baseline
          BY <4>4 DEF data
        <5>4. \A k \in Items : run'.data[k] = run'.baseline
          BY <2>1, <3>5, <4>4, <5>2, <5>3 DEF RunOK, Runs, Items, Manifest
        <5> QED
          BY <2>4, <3>5, <4>1, <5>1, <5>4 DEF MemoryOK, FirstPlaces, Publishing, TakingBack
      <4> QED
        BY <3>5, <4>2, <4>3, <4>4
    <3>7. RunOK'
      BY <2>4, <3>5 DEF RunOK
    <3> QED
      BY <3>3, <3>4, <3>5, <3>6, <3>7 DEF Prepared, Preparing
  <2> QED
    BY <1>6, <2>3, <2>4 DEF Copy
<1>7. CASE CheckStream
  <2>1. CASE Return("changed")
    BY <1>7, <2>1, ReturnTypes, DiskKept DEF CheckStream, Outcomes, Prepared
  <2>2. CASE /\ StreamedBaseline /\ outcome' = outcome
             /\ run' = [run EXCEPT !.pc = "next", !.item = Manifest]
    <3>1. /\ run' \in Runs /\ run'.pc = "next" /\ run'.item = Manifest
          /\ run'.data = run.data /\ run'.baseline = run.baseline
      BY <2>2 DEF RunOK, Runs, Places, Preparing
    <3>2. MemoryOK'
      BY <1>7, <2>2, <3>1
      DEF CheckStream, StreamedBaseline, MemoryOK, FirstPlaces, Publishing, TakingBack
    <3> QED
      BY <1>7, <2>2, <3>1, <3>2, DiskKept DEF CheckStream, RunOK, Prepared, Preparing
  <2> QED
    BY <1>7, <2>1, <2>2 DEF CheckStream
<1> QED
  BY <1>1, <1>2, <1>3, <1>4, <1>5, <1>6, <1>7

LEMMA PreparationKeeps ==
  ASSUME IInv,
         \/ Open \/ CheckNames \/ CheckSource \/ HashSource
         \/ CreatePartial \/ Copy \/ CheckStream
  PROVE  IInv'
<1>1. Prepared
  BY PreparationPrepares DEF IInv
<1>2. run.pc \in Preparing \/ (run.pc = "idle" /\ outcome = "none")
  BY DEF Open, CheckNames, CheckSource, AfterCheck, HashSource, CreatePartial, Copy, CheckStream,
     Running, Preparing
<1>3. NothingOut
  BY <1>2, PreparingIsEmpty DEF IInv
<1>4. NothingOut'
  BY <1>1, <1>3 DEF Prepared, NothingOut
<1> QED
  BY <1>1, <1>4, EmptyKeeps DEF Prepared, IInv

-----------------------------------------------------------------------------
(* The publication and what may end it.                                    *)

\* While the call is under way, and after a rollback, that a manifest means
\* every slice follows from the rest of the invariant: the manifest is out only
\* where all are whole.
LEMMA OutIsWhole ==
  ASSUME RunOK', MemoryOK', OutOK', WholeOK', run'.pc # "idle" \/ outcome' = "changed"
  PROVE  ManifestMeansWhole'
<1> USE CountIsNat
<1> DEFINE m == disk'[Final(Manifest)]
<1> SUFFICES ASSUME m.id = 1, Manifest \notin sullied' \cup kept'
             PROVE  m.data \in Contents /\ \A i \in 1..N \ sullied' : disk'[Final(i)] = Own(m.data)
  BY DEF ManifestMeansWhole
<1>1. IsOut(Manifest)'
  BY DEF OutOK
<1>2. run'.item \in 1..Manifest
  BY DEF RunOK, Runs, Items
<1>3. \/ run'.pc = "renamed" /\ run'.item = Manifest
      \/ run'.pc = "published"
      \/ run'.pc \in TakingBack /\ run'.item = Manifest
  BY <1>1, <1>2 DEF IsOut
<1>4. run'.baseline \in Contents
  BY <1>3 DEF MemoryOK, Publishing
<1>5. \A i \in Items : IsWhole(i)'
  BY <1>3 DEF IsWhole, IsOut, Publishing, Items
<1>6. \A i \in Items \ sullied' : disk'[Final(i)] = Own(run'.baseline)
  BY <1>5 DEF WholeOK
<1>7. m.data = run'.baseline
  BY <1>6 DEF Own
<1> HIDE DEF m
<1> QED
  BY <1>4, <1>6, <1>7 DEF Items, Manifest

\* A call that succeeds, fails or dies leaves the files as they are.
LEMMA EndKeeps ==
  ASSUME IInv, NEW result \in {"success", "failed", "crashed"}, Return(result),
         UNCHANGED <<disk, source>>, History
  PROVE  IInv'
<1>1. RunOK' /\ MemoryOK' /\ run'.pc = "idle" /\ outcome' = result
  BY ReturnTypes DEF IInv, Outcomes
<1>2. DiskOK'
  BY DiskKept DEF IInv
<1>3. OutOK' /\ WholeOK' /\ ComparedOK'
  BY <1>1 DEF OutOK, IsOut, WholeOK, IsWhole, ComparedOK, Publishing, TakingBack
<1>4. ManifestMeansWhole'
  BY DEF IInv, ManifestMeansWhole, History
<1> QED
  BY <1>1, <1>2, <1>3, <1>4 DEF IInv

LEMMA FailureKeeps ==
  ASSUME IInv, Fail \/ Crash
  PROVE  IInv'
BY EndKeeps DEF Fail, Crash

LEMMA CheckStagedKeeps ==
  ASSUME IInv, CheckStaged
  PROVE  IInv'
<1> DEFINE i == run.item
<1>1. CASE Return("failed") /\ UNCHANGED <<sullied, raced>>
  BY <1>1, EndKeeps DEF CheckStaged, History
<1>2. CASE /\ Staged(Partial(i)) /\ Goto("checked")
           /\ sullied' = sullied \ {i} /\ raced' = FALSE
  <2>1. /\ RunOK' /\ run'.pc = "checked" /\ outcome' = outcome
        /\ UNCHANGED <<run.item, run.baseline, run.data, run.stamp>>
    BY <1>2, GotoTypes DEF IInv, Places, Publishing
  <2>2. i \in Items /\ run.baseline \in Contents /\ run.data[i] = run.baseline
    BY DEF CheckStaged, IInv, RunOK, Runs, MemoryOK, Publishing
  <2>3. MemoryOK'
    BY <2>1 DEF CheckStaged, IInv, MemoryOK, FirstPlaces, Publishing
  <2>4. DiskOK'
    BY <1>2 DEF CheckStaged, IInv, DiskOK
  <2>5. OutOK'
    BY <2>1 DEF CheckStaged, IInv, OutOK, IsOut, TakingBack
  <2>6. WholeOK'
    <3> SUFFICES ASSUME NEW j \in Items \ sullied', IsWhole(j)'
                 PROVE  disk[Final(j)] = Own(run.baseline)
      BY <2>1 DEF CheckStaged, WholeOK
    <3>1. j < i
      BY <2>1 DEF IsWhole, IsOut, TakingBack
    <3>2. j \notin sullied /\ IsWhole(j)
      BY <1>2, <2>2, <3>1 DEF CheckStaged, IsWhole, IsOut, Publishing, Items
    <3> QED
      BY <3>2 DEF IInv, WholeOK
  <2>7. ComparedOK'
    BY <1>2, <2>1, <2>2 DEF CheckStaged, Staged, Own, ComparedOK
  <2> QED
    BY <2>1, <2>3, <2>4, <2>5, <2>6, <2>7, OutIsWhole DEF IInv
<1> QED
  BY <1>1, <1>2 DEF CheckStaged

LEMMA RenameKeeps ==
  ASSUME IInv, Rename
  PROVE  IInv'
<1> DEFINE i == run.item
<1>1. CASE Return("failed") /\ UNCHANGED disk
  BY <1>1, EndKeeps DEF Rename
<1>2. CASE /\ disk' = [disk EXCEPT ![Final(i)] = disk[Partial(i)], ![Partial(i)] = NoFile]
           /\ Goto("renamed")
  <2>1. /\ RunOK' /\ run'.pc = "renamed" /\ outcome' = outcome
        /\ UNCHANGED <<run.item, run.baseline, run.data, run.stamp>>
    BY <1>2, GotoTypes DEF IInv, Places, Publishing
  <2>2. i \in Items
    BY DEF IInv, RunOK, Runs
  <2>3. MemoryOK'
    BY <2>1 DEF Rename, IInv, MemoryOK, FirstPlaces, Publishing
  <2>4. /\ disk' \in [Names -> Files]
        /\ disk'[Final(i)] = disk[Partial(i)]
        /\ \A j \in Items : j # i => disk'[Final(j)] = disk[Final(j)]
    BY <1>2, <2>2, NamesApart, FileTypes DEF IInv, DiskOK
  <2>5. DiskOK'
    BY <2>4 DEF Rename, IInv, DiskOK, History
  <2>6. OutOK'
    <3> SUFFICES ASSUME NEW j \in Items, disk'[Final(j)].id = 1
                 PROVE  IsOut(j)'
      BY DEF OutOK
    <3>1. j = i \/ IsOut(j)
      BY <2>4 DEF IInv, OutOK
    <3> QED
      BY <2>1, <2>2, <3>1 DEF Rename, IInv, MemoryOK, IsOut, TakingBack, Items
  <2>7. WholeOK'
    <3> SUFFICES ASSUME NEW j \in Items \ sullied, IsWhole(j)'
                 PROVE  disk'[Final(j)] = Own(run.baseline)
      BY <2>1 DEF Rename, History, WholeOK
    <3>1. CASE j = i
      BY <2>4, <3>1 DEF Rename, IInv, ComparedOK
    <3>2. CASE j # i
      <4>1. IsWhole(j)
        BY <2>1, <2>2, <3>2 DEF Rename, IsWhole, IsOut, Publishing, TakingBack, Items
      <4> QED
        BY <2>4, <3>2, <4>1 DEF IInv, WholeOK
    <3> QED
      BY <3>1, <3>2
  <2>8. ComparedOK'
    BY <2>1 DEF ComparedOK
  <2> QED
    BY <2>1, <2>3, <2>5, <2>6, <2>7, <2>8, OutIsWhole DEF IInv
<1> QED
  BY <1>1, <1>2 DEF Rename

LEMMA VerifyKeeps ==
  ASSUME IInv, Verify
  PROVE  IInv'
<1> USE CountIsNat
<1> DEFINE i == run.item
<1>1. CASE Return("failed") /\ sullied' = sullied
  BY <1>1, EndKeeps DEF Verify, History
<1>2. CASE /\ Staged(Final(i)) /\ outcome' = outcome /\ sullied' = sullied \ {i}
           /\ run' = IF i = Manifest THEN [run EXCEPT !.pc = "published"]
                     ELSE [run EXCEPT !.pc = "publish", !.item = i + 1]
  <2>1. i \in 1..Manifest /\ run.data[i] = run.baseline
    BY DEF Verify, IInv, RunOK, Runs, MemoryOK, Publishing, Items
  <2>2. /\ run' \in Runs /\ run'.baseline = run.baseline /\ run'.data = run.data
        /\ \/ i = Manifest /\ run'.pc = "published" /\ run'.item = i
           \/ i < Manifest /\ run'.pc = "publish" /\ run'.item = i + 1
    <3>1. CASE i = Manifest
      BY <1>2, <3>1 DEF IInv, RunOK, Runs, Places, Publishing
    <3>2. CASE i # Manifest
      <4>1. i + 1 \in Items /\ i < Manifest
        BY <2>1, <3>2 DEF Items
      <4>2. run' = [run EXCEPT !.pc = "publish", !.item = i + 1]
        BY <1>2, <3>2
      <4> QED
        BY <4>1, <4>2 DEF IInv, RunOK, Runs, Places, Publishing
    <3> QED
      BY <3>1, <3>2
  <2>3. RunOK'
    BY <1>2, <2>2 DEF IInv, RunOK
  <2>4. MemoryOK'
    BY <1>2, <2>2 DEF Verify, IInv, MemoryOK, FirstPlaces, Publishing, TakingBack
  <2>5. DiskOK'
    BY <1>2 DEF Verify, IInv, DiskOK
  <2>6. \A j \in Items : IsOut(j)' <=> j <= i
    BY <2>1, <2>2 DEF IsOut, TakingBack, Items
  <2>7. OutOK'
    BY <2>6 DEF Verify, IInv, OutOK, IsOut, TakingBack
  <2>8. WholeOK'
    <3> SUFFICES ASSUME NEW j \in Items \ sullied', IsWhole(j)'
                 PROVE  disk[Final(j)] = Own(run.baseline)
      BY <2>2 DEF Verify, WholeOK
    <3>1. CASE j = i
      BY <1>2, <2>1, <3>1 DEF Staged
    <3>2. CASE j # i
      <4>1. IsOut(j)'
        BY <2>2 DEF IsWhole, TakingBack
      <4>2. IsWhole(j) /\ j \notin sullied
        BY <1>2, <2>6, <3>2, <4>1 DEF Verify, IsWhole, IsOut, Publishing
      <4> QED
        BY <4>2 DEF IInv, WholeOK
    <3> QED
      BY <3>1, <3>2
  <2>9. ComparedOK'
    BY <2>2 DEF ComparedOK
  <2> QED
    BY <2>2, <2>3, <2>4, <2>5, <2>7, <2>8, <2>9, OutIsWhole DEF IInv
<1> QED
  BY <1>1, <1>2 DEF Verify

LEMMA ConcludeKeeps ==
  ASSUME IInv, Conclude
  PROVE  IInv'
<1> USE CountIsNat
<1>1. CASE Return("success")
  BY <1>1, EndKeeps DEF Conclude
<1>2. CASE run' = [run EXCEPT !.pc = "rollback", !.item = Manifest] /\ outcome' = outcome
  <2>1. /\ run' \in Runs /\ run'.pc = "rollback" /\ run'.item = Manifest
        /\ run'.baseline = run.baseline /\ run'.data = run.data
    BY <1>2 DEF IInv, RunOK, Runs, Places, TakingBack
  <2>2. RunOK' /\ MemoryOK'
    BY <1>2, <2>1
    DEF Conclude, IInv, RunOK, MemoryOK, FirstPlaces, Publishing, TakingBack
  <2>3. DiskOK'
    BY DiskKept DEF Conclude, IInv
  <2>4. OutOK' /\ ComparedOK'
    BY <2>1 DEF Conclude, IInv, OutOK, IsOut, ComparedOK, TakingBack, Items
  <2>5. \A j \in Items : IsWhole(j)
    BY DEF Conclude, IsWhole, IsOut, Publishing
  <2>6. WholeOK'
    BY <2>1, <2>5 DEF Conclude, History, IInv, WholeOK
  <2> QED
    BY <2>1, <2>2, <2>3, <2>4, <2>6, OutIsWhole DEF IInv
<1> QED
  BY <1>1, <1>2 DEF Conclude

-----------------------------------------------------------------------------
(* The rollback.                                                           *)

\* The rollback goes on to the item below, or ends after the first.
LEMMA GoOnBackTypes ==
  ASSUME IInv, run.pc \in TakingBack, GoOnBack
  PROVE  /\ RunOK' /\ MemoryOK'
         /\ \/ run'.pc = "rollback" /\ run'.item = run.item - 1 /\ outcome' = outcome
            \/ run.item = 1 /\ run'.pc = "idle" /\ outcome' = "changed"
         /\ run'.pc = "rollback" => run'.item # Manifest
<1> USE CountIsNat
<1>1. run \in Runs /\ run.item \in 1..Manifest
  BY DEF IInv, RunOK, Runs, Items
<1>2. CASE run.item = 1
  <2>1. run' = [run EXCEPT !.pc = "idle"]
    BY <1>2 DEF GoOnBack, RolledBack
  <2>2. /\ run' \in Runs /\ run'.pc = "idle"
    BY <1>1, <2>1 DEF Runs, Places
  <2> QED
    BY <1>2, <2>2
    DEF GoOnBack, RunOK, Outcomes, MemoryOK, FirstPlaces, Publishing, TakingBack
<1>3. CASE run.item # 1
  <2>1. run' = [run EXCEPT !.pc = "rollback", !.item = run.item - 1]
    BY <1>3 DEF GoOnBack, RolledBack
  <2>2. run.item - 1 \in Items /\ run.item - 1 # Manifest
    BY <1>1, <1>3 DEF Items
  <2>3. /\ run' \in Runs /\ run'.pc = "rollback" /\ run'.item = run.item - 1
        /\ run'.baseline = run.baseline /\ run'.data = run.data
    BY <1>1, <2>1, <2>2 DEF Runs, Places, TakingBack
  <2>4. outcome' = outcome
    BY <2>3 DEF GoOnBack
  <2> QED
    BY <2>2, <2>3, <2>4 DEF IInv, RunOK, MemoryOK, FirstPlaces, Publishing, TakingBack
<1> QED
  BY <1>2, <1>3

\* It may do so once no file of this call is left at the item, or the item is
\* one whose removal failed.
LEMMA GoOnBackKeeps ==
  ASSUME IInv, run.pc \in TakingBack, GoOnBack,
         DiskOK', kept \subseteq kept', sullied' = sullied,
         \A j \in Items : disk'[Final(j)].id = 1 => disk[Final(j)].id = 1,
         disk'[Final(run.item)].id # 1 \/ run.item \in kept'
  PROVE  IInv'
<1>1. /\ RunOK' /\ MemoryOK'
      /\ \/ run'.pc = "rollback" /\ run'.item = run.item - 1 /\ outcome' = outcome
         \/ run.item = 1 /\ run'.pc = "idle" /\ outcome' = "changed"
      /\ run'.pc = "rollback" => run'.item # Manifest
  BY GoOnBackTypes
<1>2. run.item \in Items
  BY DEF IInv, RunOK, Runs
<1>3. OutOK'
  <2> SUFFICES ASSUME NEW j \in Items, disk'[Final(j)].id = 1
               PROVE  IsOut(j)'
    BY DEF OutOK
  <2>1. IsOut(j)
    BY DEF IInv, OutOK
  <2>2. j <= run.item \/ j \in kept
    BY <2>1 DEF IsOut, TakingBack
  <2>3. j # run.item \/ j \in kept'
    OBVIOUS
  <2>4. j < run.item \/ j \in kept'
    BY <1>2, <2>2, <2>3, CountIsNat DEF Items
  <2> QED
    BY <1>1, <1>2, <2>4, CountIsNat DEF IsOut, TakingBack, Items
<1>4. WholeOK' /\ ComparedOK'
  BY <1>1 DEF WholeOK, IsWhole, ComparedOK, Publishing, TakingBack
<1> QED
  BY <1>1, <1>3, <1>4, OutIsWhole DEF IInv

LEMMA CheckOwnedKeeps ==
  ASSUME IInv, CheckOwned
  PROVE  IInv'
<1> USE CountIsNat
<1>1. run.item \in Items /\ run.pc = "rollback"
  BY DEF CheckOwned, IInv, RunOK, Runs
<1>2. CASE ~Owned /\ GoOnBack /\ UNCHANGED <<raced, kept>>
  <2>1. DiskOK'
    BY <1>2 DEF CheckOwned, IInv, DiskOK
  <2> QED
    BY <1>1, <1>2, <2>1, GoOnBackKeeps DEF CheckOwned, Owned, TakingBack
<1>3. CASE GoOnBack /\ kept' = kept \cup {run.item}
  <2>1. DiskOK'
    BY <1>1, <1>3 DEF CheckOwned, IInv, DiskOK
  <2> QED
    BY <1>1, <1>3, <2>1, GoOnBackKeeps DEF CheckOwned, TakingBack
<1>4. CASE Owned /\ Goto("owned") /\ raced' = FALSE /\ kept' = kept
  <2>1. /\ RunOK' /\ run'.pc = "owned" /\ outcome' = outcome
        /\ UNCHANGED <<run.item, run.baseline, run.data, run.stamp>>
    BY <1>4, GotoTypes DEF IInv, Places, TakingBack
  <2>2. MemoryOK'
    BY <1>1, <2>1 DEF IInv, MemoryOK, FirstPlaces, Publishing, TakingBack
  <2>3. DiskOK'
    BY <1>4 DEF CheckOwned, IInv, DiskOK
  <2>4. OutOK'
    BY <1>1, <1>4, <2>1 DEF CheckOwned, IInv, OutOK, IsOut, TakingBack
  <2>5. WholeOK'
    BY <1>1, <2>1 DEF CheckOwned, IInv, WholeOK, IsWhole, Publishing, TakingBack
  <2>6. ComparedOK'
    BY <1>4, <2>1 DEF CheckOwned, Owned, ComparedOK
  <2> QED
    BY <2>1, <2>2, <2>3, <2>4, <2>5, <2>6, OutIsWhole DEF IInv
<1> QED
  BY <1>2, <1>3, <1>4 DEF CheckOwned

LEMMA RemoveOwnedKeeps ==
  ASSUME IInv, RemoveOwned
  PROVE  IInv'
<1>1. run.item \in Items /\ run.pc = "owned"
  BY DEF RemoveOwned, IInv, RunOK, Runs
<1>2. CASE disk' = [disk EXCEPT ![Final(run.item)] = NoFile] /\ kept' = kept
  <2>1. /\ disk' \in [Names -> Files]
        /\ disk'[Final(run.item)].id = 0
        /\ \A j \in Items : j # run.item => disk'[Final(j)] = disk[Final(j)]
    BY <1>1, <1>2, NamesApart, FileTypes DEF IInv, DiskOK
  <2>2. DiskOK'
    BY <1>2, <2>1 DEF RemoveOwned, IInv, DiskOK
  <2>3. \A j \in Items : disk'[Final(j)].id = 1 => disk[Final(j)].id = 1
    BY <2>1
  <2> QED
    BY <1>1, <1>2, <2>1, <2>2, <2>3, GoOnBackKeeps DEF RemoveOwned, TakingBack
<1>3. CASE kept' = kept \cup {run.item} /\ disk' = disk
  <2>1. DiskOK'
    BY <1>1, <1>3 DEF RemoveOwned, IInv, DiskOK
  <2> QED
    BY <1>1, <1>3, <2>1, GoOnBackKeeps DEF RemoveOwned, TakingBack
<1> QED
  BY <1>2, <1>3 DEF RemoveOwned

-----------------------------------------------------------------------------
(* Others.                                                                 *)

\* Others never make a file of this call, and note every item they touch; the
\* file just compared is theirs to change too, but not unnoticed.
LEMMA ChangeFileEffects ==
  ASSUME DiskOK, NEW name \in Names, ChangeFile(name)
  PROVE  /\ disk' \in [Names -> Files]
         /\ \A other \in Names : other # name => disk'[other] = disk[other]
         /\ disk'[name].id = 1 => disk[name].id = 1
         /\ sullied' = sullied \cup {name[1]} /\ name[1] \in Items
<1>1. PICK file \in {NoFile, Foreign, [disk[name] EXCEPT !.data = "foreign"]} :
        disk' = [disk EXCEPT ![name] = file]
  BY DEF ChangeFile
<1>2. disk[name] \in Files
  BY DEF DiskOK
<1>3. file \in Files /\ (file.id = 1 => disk[name].id = 1)
  <2>1. CASE file = NoFile \/ file = Foreign
    BY <2>1, FileTypes
  <2>2. CASE file = [disk[name] EXCEPT !.data = "foreign"]
    BY <1>2, <2>2, FileTypes
  <2> QED
    BY <1>1, <2>1, <2>2
<1>4. name[1] \in Items
  BY DEF Names
<1> QED
  BY <1>1, <1>3, <1>4 DEF DiskOK, ChangeFile

LEMMA OthersKeeps ==
  ASSUME IInv, Others
  PROVE  IInv'
<1> USE CountIsNat
<1>1. RunOK' /\ MemoryOK' /\ UNCHANGED <<run, outcome, kept>>
  BY DEF Others, IInv, RunOK, MemoryOK
<1>2. others' \in 0..MaxOthers
  BY ConstantsAssumption DEF Others, IInv, DiskOK
<1>3. CASE ChangeSource
  <2>1. DiskOK' /\ UNCHANGED <<disk, sullied, raced>>
    BY <1>1, <1>2, <1>3 DEF ChangeSource, IInv, DiskOK
  <2>2. OutOK' /\ WholeOK' /\ ComparedOK' /\ ManifestMeansWhole'
    BY <1>1, <2>1
    DEF IInv, OutOK, IsOut, WholeOK, IsWhole, ComparedOK, ManifestMeansWhole
  <2> QED
    BY <1>1, <2>1, <2>2 DEF IInv
<1>4. ASSUME NEW name \in Names, ChangeFile(name)
      PROVE  IInv'
  <2>1. /\ disk' \in [Names -> Files]
        /\ \A other \in Names : other # name => disk'[other] = disk[other]
        /\ disk'[name].id = 1 => disk[name].id = 1
        /\ sullied' = sullied \cup {name[1]} /\ name[1] \in Items
    BY <1>4, ChangeFileEffects DEF IInv
  <2>2. /\ \A other \in Names : disk'[other].id = 1 => disk[other].id = 1
        /\ \A i \in Items \ sullied' : /\ i \notin sullied
                                       /\ disk'[Final(i)] = disk[Final(i)]
                                       /\ disk'[Partial(i)] = disk[Partial(i)]
    BY <2>1, NamesApart DEF Final, Partial
  <2>3. DiskOK'
    BY <1>1, <1>2, <1>4, <2>1 DEF IInv, DiskOK, ChangeFile
  <2>4. OutOK'
    BY <1>1, <2>2, NamesApart DEF IInv, OutOK, IsOut
  <2>5. WholeOK'
    BY <1>1, <2>2 DEF IInv, WholeOK, IsWhole, IsOut
  <2>6. ComparedOK'
    <3>1. run.item \in Items
      BY DEF IInv, RunOK, Runs
    <3>2. run.pc = "checked" => JustCompared = Partial(run.item)
      BY DEF JustCompared
    <3>3. run.pc = "owned" => JustCompared = Final(run.item)
      BY DEF JustCompared
    <3>4. ~raced' => ~raced /\ name # JustCompared
      BY <1>4 DEF ChangeFile
    <3>5. run.pc = "checked" /\ ~raced' => disk'[Partial(run.item)].id = 1
      BY <2>1, <3>1, <3>2, <3>4, NamesApart DEF IInv, ComparedOK
    <3>6. run.pc = "owned" /\ ~raced' => disk'[Final(run.item)].id = 1
      BY <2>1, <3>1, <3>3, <3>4, NamesApart DEF IInv, ComparedOK
    <3>7. run.pc = "checked" /\ run.item \notin sullied'
            => disk'[Partial(run.item)] = Own(run.baseline)
      BY <2>2, <3>1 DEF IInv, ComparedOK
    <3> QED
      BY <1>1, <3>5, <3>6, <3>7 DEF ComparedOK
  <2>7. ManifestMeansWhole'
    BY <1>1, <2>2 DEF IInv, ManifestMeansWhole, Items, Manifest
  <2> QED
    BY <1>1, <2>3, <2>4, <2>5, <2>6, <2>7 DEF IInv
<1> QED
  BY <1>3, <1>4 DEF Others

LEMMA StepKeeps ==
  ASSUME IInv, [Next]_vars
  PROVE  IInv'
<1>1. CASE \/ Open \/ CheckNames \/ CheckSource \/ HashSource
           \/ CreatePartial \/ Copy \/ CheckStream
  BY <1>1, PreparationKeeps
<1>2. CASE CheckStaged
  BY <1>2, CheckStagedKeeps
<1>3. CASE Rename
  BY <1>3, RenameKeeps
<1>4. CASE Verify
  BY <1>4, VerifyKeeps
<1>5. CASE Conclude
  BY <1>5, ConcludeKeeps
<1>6. CASE CheckOwned
  BY <1>6, CheckOwnedKeeps
<1>7. CASE RemoveOwned
  BY <1>7, RemoveOwnedKeeps
<1>8. CASE Fail \/ Crash
  BY <1>8, FailureKeeps
<1>9. CASE Others
  BY <1>9, OthersKeeps
<1>10. CASE UNCHANGED vars
  BY <1>10
  DEF vars, IInv, RunOK, DiskOK, MemoryOK, OutOK, IsOut, WholeOK, IsWhole, ComparedOK,
      ManifestMeansWhole
<1> QED
  BY <1>1, <1>2, <1>3, <1>4, <1>5, <1>6, <1>7, <1>8, <1>9, <1>10 DEF Next, Returned

-----------------------------------------------------------------------------
(* The theorems.                                                           *)

\* The inductive invariant holds of every plan, including that of an empty
\* file, whatever others, faults, cancellations and crashes do.
THEOREM PlainInvariant == Spec => []IInv
BY InitHolds, StepKeeps, PTL DEF Spec

THEOREM PlainTypes == Spec => []TypeOK
<1>1. IInv => TypeOK
  BY TypeSplit DEF IInv
<1> QED
  BY <1>1, PlainInvariant, PTL

\* A manifest of the call at its final name means that every slice is there,
\* with the content it names (split_file_with_progress).
THEOREM ManifestIsWhole == Spec => []ManifestMeansWhole
<1>1. IInv => ManifestMeansWhole
  BY DEF IInv
<1> QED
  BY <1>1, PlainInvariant, PTL

\* A call that reports a changed source has taken back what it published, but
\* for the files whose removal failed (rollback_owned_published_outputs).
THEOREM ChangedIsTakenBack == Spec => []ChangedLeavesPartials
<1>1. IInv => ChangedLeavesPartials
  <2> SUFFICES ASSUME IInv, outcome = "changed", NEW i \in Items \ kept
               PROVE  disk[Final(i)].id = 0
    BY DEF ChangedLeavesPartials
  <2>1. run.pc = "idle"
    BY DEF IInv, MemoryOK
  <2>2. disk[Final(i)].id # 1
    BY <2>1 DEF IInv, OutOK, IsOut, TakingBack
  <2>3. disk[Final(i)] \in Files
    BY NamesApart DEF IInv, DiskOK
  <2> QED
    BY <2>2, <2>3, FileTypes, ConstantsAssumption
<1> QED
  BY <1>1, PlainInvariant, PTL

\* What a step of the call does to a file of others.
LEMMA ForeignStep ==
  ASSUME IInv, Next, others' = others,
         NEW name \in Names, disk[name].id = 0, ~Absent(name)
  PROVE  disk'[name] = disk[name] \/ (raced /\ name = JustCompared)
<1> DEFINE i == run.item
<1>1. i \in Items /\ disk \in [Names -> Files]
  BY DEF IInv, RunOK, Runs, DiskOK
<1>2. CASE UNCHANGED disk
  BY <1>2
<1>3. CASE CreatePartial
  BY <1>1, <1>3, NamesApart DEF CreatePartial, Absent
<1>4. CASE Copy /\ ~UNCHANGED disk
  <2>1. PICK data : disk' = [disk EXCEPT ![Partial(i)] =
                       [disk[Partial(i)] EXCEPT !.data =
                          IF disk[Partial(i)].id = 1 THEN data ELSE disk[Partial(i)].data]]
    BY <1>4 DEF Copy
  <2>2. CASE name # Partial(i)
    BY <1>1, <2>1, <2>2, NamesApart
  <2>3. CASE name = Partial(i)
    <3>1. disk'[name] = [disk[name] EXCEPT !.data = disk[name].data]
      BY <1>1, <2>1, <2>3, NamesApart
    <3>2. disk[name] \in Files
      BY <1>1
    <3> QED
      BY <3>1, <3>2 DEF Files, NoFile
  <2> QED
    BY <2>2, <2>3
<1>5. CASE Rename
  <2>1. raced \/ disk[Partial(i)].id = 1
    BY <1>5 DEF Rename, IInv, ComparedOK
  <2>2. JustCompared = Partial(i)
    BY <1>5 DEF Rename, JustCompared
  <2>3. CASE name = Partial(i)
    BY <2>1, <2>2, <2>3
  <2>4. CASE name # Partial(i)
    BY <1>1, <1>5, <2>4, NamesApart DEF Rename, Absent
  <2> QED
    BY <2>3, <2>4
<1>6. CASE RemoveOwned
  <2>1. raced \/ disk[Final(i)].id = 1
    BY <1>6 DEF RemoveOwned, IInv, ComparedOK
  <2>2. JustCompared = Final(i)
    BY <1>6 DEF RemoveOwned, JustCompared
  <2>3. CASE name = Final(i)
    BY <2>1, <2>2, <2>3
  <2>4. CASE name # Final(i)
    BY <1>1, <1>6, <2>4, NamesApart DEF RemoveOwned
  <2> QED
    BY <2>3, <2>4
<1>7. ~Others
  BY ConstantsAssumption DEF Others, IInv, DiskOK
<1> QED
  BY <1>2, <1>3, <1>4, <1>5, <1>6, <1>7
  DEF Next, Open, CheckNames, CheckSource, HashSource, CheckStream, CheckStaged, Verify, Conclude,
      CheckOwned, Fail, Crash, Returned, vars

\* No step of the call changes, replaces or removes a file of others, but one
\* that came between the comparison and what it decides
\* (finalize_staged_output, rollback_owned_published_outputs).
THEOREM ForeignFilesKept == Spec => ForeignUntouched
<1>1. IInv /\ [Next]_vars =>
        [others' = others =>
           \A name \in Names :
             disk[name].id = 0 /\ ~Absent(name) =>
               disk'[name] = disk[name] \/ (raced /\ name = JustCompared)]_vars
  BY ForeignStep
<1> QED
  BY <1>1, PlainInvariant, PTL DEF Spec, ForeignUntouched

-----------------------------------------------------------------------------
(* What a reported success stands for.                                     *)

\* The manifest and all slices are there, with the content that was hashed,
\* but for what others have touched since the call compared it.
SuccessMeansWhole ==
  outcome = "success" =>
    run.baseline \in Contents /\ \A i \in Items \ sullied : disk[Final(i)] = Own(run.baseline)

LEMMA SuccessKept ==
  ASSUME IInv, SuccessMeansWhole, [Next]_vars
  PROVE  SuccessMeansWhole'
<1> SUFFICES ASSUME outcome' = "success"
             PROVE  /\ run'.baseline \in Contents
                    /\ \A i \in Items \ sullied' : disk'[Final(i)] = Own(run'.baseline)
  BY DEF SuccessMeansWhole
<1>1. CASE outcome = "success"
  <2>1. run.pc = "idle"
    BY <1>1 DEF IInv, MemoryOK
  <2>2. Others \/ UNCHANGED vars
    BY <1>1, <2>1
    DEF Next, Open, CheckNames, CheckSource, AfterCheck, HashSource, CreatePartial, Copy,
        CheckStream, CheckStaged, Rename, Verify, Conclude, CheckOwned, RemoveOwned, Fail, Crash,
        Running, Returned
  <2>3. CASE UNCHANGED vars
    BY <1>1, <2>3 DEF vars, SuccessMeansWhole
  <2>4. CASE Others
    <3>1. run' = run
      BY <2>4 DEF Others
    <3>2. ASSUME NEW i \in Items \ sullied'
          PROVE  i \notin sullied /\ disk'[Final(i)] = disk[Final(i)]
      <4>1. CASE ChangeSource
        BY <3>2, <4>1 DEF ChangeSource
      <4>2. ASSUME NEW name \in Names, ChangeFile(name)
            PROVE  i \notin sullied /\ disk'[Final(i)] = disk[Final(i)]
        BY <3>2, <4>2, ChangeFileEffects, NamesApart DEF IInv, Final
      <4> QED
        BY <2>4, <4>1, <4>2 DEF Others
    <3> QED
      BY <1>1, <3>1, <3>2 DEF SuccessMeansWhole
  <2> QED
    BY <2>2, <2>3, <2>4
<1>2. CASE outcome # "success"
  <2>1. Conclude /\ Return("success")
    BY <1>2
    DEF Next, Open, CheckNames, CheckSource, HashSource, CreatePartial, Copy, CheckStream,
        CheckStaged, Rename, Verify, Conclude, CheckOwned, RemoveOwned, GoOnBack, Fail, Crash,
        Others, Returned, Goto, Return, vars
  <2>2. run.pc = "published" /\ run'.baseline = run.baseline
    BY <2>1 DEF Conclude, Return, IInv, RunOK, Runs
  <2>3. run.baseline \in Contents
    BY <2>2 DEF IInv, MemoryOK, Publishing
  <2>4. \A i \in Items \ sullied : disk[Final(i)] = Own(run.baseline)
    BY <2>2 DEF IInv, WholeOK, IsWhole, IsOut, Publishing
  <2> QED
    BY <2>1, <2>2, <2>3, <2>4 DEF Conclude, History
<1> QED
  BY <1>1, <1>2

\* A call that returns success has left a whole package (SplitResult of
\* split_file_with_progress).
THEOREM SuccessIsWhole == Spec => []SuccessMeansWhole
<1>1. Init => SuccessMeansWhole
  BY DEF Init, SuccessMeansWhole
<1> QED
  BY <1>1, SuccessKept, PlainInvariant, PTL DEF Spec

=============================================================================
