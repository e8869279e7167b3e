--------------------------- MODULE WebTasksProofs ---------------------------
(***************************************************************************)
(* Proofs about WebTasks for any tasks, any number of Clear All clicks and *)
(* of incidents.                                                           *)
(*                                                                         *)
(* A record passes through two queues before it is written, and either may *)
(* be overtaken by Clear All.  SaveOK ties the queues to each other,       *)
(* GenerationOK and WritingOK say which generations may still be written.  *)
(* ExpectOK and LastOK say of every task what its last request, or else    *)
(* its record, must show.                                                  *)
(***************************************************************************)
EXTENDS WebTasks, TLAPS

-----------------------------------------------------------------------------
(* The inductive invariant.                                                *)

\* Only the head of a queue has begun; the marking is never behind another.
QueueOK ==
  /\ \A i \in DOMAIN queue :
       /\ queue[i].stage # "queued" => i = 1 /\ queue[i].kind = "save"
       /\ queue[i].kind = "mark" => i = 1
       /\ queue[i].kind = "discard" => queue[i].task \in Tasks
  /\ \A i \in DOMAIN persisting : persisting[i].stage # "queued" => i = 1

\* The store's queue holds at most one save, that of the page's first request.
SaveOK ==
  /\ \A i, j \in DOMAIN queue : queue[i].kind = "save" /\ queue[j].kind = "save" => i = j
  /\ \A i \in DOMAIN queue : queue[i].kind = "save" =>
       /\ persisting # <<>>
       /\ persisting[1].stage = "saving" /\ persisting[1].task = queue[i].task
       /\ persisting[1].generation = queue[i].generation
       /\ persisting[1].status = queue[i].status

\* Generations only grow, and Clear All begins a new one.
GenerationOK ==
  /\ cleared <= generation
  /\ clearing => cleared < generation
  /\ \A i \in DOMAIN queue : queue[i].kind = "clear" => queue[i].generation <= generation
  /\ \A i \in DOMAIN persisting : persisting[i].generation <= generation
  /\ \A t \in Tasks : context[t].generation <= generation

\* What is being written belongs to no generation that has been removed.
WritingOK ==
  \A i \in DOMAIN queue : queue[i].stage # "queued" => queue[i].generation >= cleared

\* A task is started once; who is active, is to be stopped or has its record
\* changed has been started.
StartOK ==
  /\ \A t \in Tasks : context[t].status = "none" => context[t] = NoContext
  /\ active # NoTask => Live(active)
  /\ clear.task # NoTask => context[clear.task] # NoContext
  /\ \A i \in DOMAIN persisting :
       IF persisting[i].starts
       THEN /\ context[persisting[i].task] = NoContext
            /\ persisting[i].status = "running"
            /\ \A j \in DOMAIN persisting : persisting[j].task = persisting[i].task => i = j
       ELSE /\ context[persisting[i].task] # NoContext
            /\ context[persisting[i].task].generation = persisting[i].generation

\* A record that says that its task runs has a start behind it.
OrphanOK ==
  (generation = cleared /\ (marked \/ cleared > 0)) =>
    \A t \in Tasks : store[t].status \in Unfinished =>
      \/ context[t] # NoContext
      \/ \E i \in DOMAIN persisting :
           persisting[i].task = t /\ persisting[i].generation = generation

\* Only a task that is listened to has a worker with messages.
WorkerOK ==
  \A t \in Tasks :
    IF Live(t) THEN worker[t].state \in {"loading", "running", "ended", "crashed"}
    ELSE /\ worker[t].state \in {"none", "terminated"}
         /\ worker[t].inbox = <<>> /\ worker[t].outbox = <<>>

\* Expectations: those of a task that was started; none is left of an earlier
\* generation, nor of a page that listens to two workers.
ExpectOK ==
  \A t \in Tasks :
    /\ context[t] # NoContext => expected[t] # "none"
    /\ context[t] # NoContext /\ ~IsCurrent(context[t].generation) => expected[t] = "any"
    /\ context[t].clearing => expected[t] = "any"
    /\ Live(t) /\ active # t => expected[t] = "any"
    /\ Live(t) /\ active = t /\ expected[t] # "any" =>
         /\ context[t].status = expected[t]
         /\ \A u \in Tasks \ {t} : ~Live(u)

Requested(t) == \E i \in DOMAIN persisting : persisting[i].task = t

\* The last request of a task says what is expected, and so does its record
\* once there is none.
LastOK ==
  /\ \A i \in DOMAIN persisting :
       \/ persisting[i].starts
       \/ expected[persisting[i].task] \in {"any", persisting[i].status}
       \/ \E j \in DOMAIN persisting : i < j /\ persisting[j].task = persisting[i].task
  /\ \A t \in Tasks :
       store[t] = NoRecord \/ Requested(t) \/ expected[t] \in {"any", store[t].status}

\* A request whose write has ended is in its record, and before the marking is
\* over nothing is expected of a record.
WrittenOK ==
  /\ persisting # <<>> /\ persisting[1].stage = "estimating" =>
       store[persisting[1].task] = NoRecord
         \/ store[persisting[1].task].status = persisting[1].status
  /\ \A i \in DOMAIN queue : queue[i].kind = "mark" =>
       /\ persisting # <<>> => persisting[1].stage # "estimating"
       /\ \A t \in Tasks : store[t] = NoRecord \/ expected[t] = "any"

IInv ==
  /\ TypeOK /\ QueueOK /\ SaveOK /\ GenerationOK /\ WritingOK /\ StartOK
  /\ ClearedStaysCleared /\ OrphanOK /\ WorkerOK /\ ExpectOK /\ LastOK /\ WrittenOK

-----------------------------------------------------------------------------
(* Queues.                                                                 *)

LEMMA Appended ==
  ASSUME NEW S, NEW s \in Seq(S), NEW e \in S
  PROVE  /\ Append(s, e) \in Seq(S) /\ Append(s, e) # <<>>
         /\ Len(s) \in Nat /\ DOMAIN s = 1..Len(s) /\ DOMAIN Append(s, e) = 1..(Len(s) + 1)
         /\ \A i \in 1..Len(s) : Append(s, e)[i] = s[i]
         /\ Append(s, e)[Len(s) + 1] = e
OBVIOUS

LEMMA Dropped ==
  ASSUME NEW S, NEW s \in Seq(S), s # <<>>
  PROVE  /\ Tail(s) \in Seq(S)
         /\ Len(s) \in Nat \ {0} /\ DOMAIN s = 1..Len(s) /\ DOMAIN Tail(s) = 1..(Len(s) - 1)
         /\ \A i \in 1..(Len(s) - 1) : Tail(s)[i] = s[i + 1]
         /\ Head(s) = s[1] /\ s[1] \in S
OBVIOUS

LEMMA Requests ==
  ASSUME NEW s \in Seq(RequestType), s # <<>>, NEW x \in {"queued", "saving", "estimating"}
  PROVE  LET r == [s EXCEPT ![1].stage = x]
         IN /\ r \in Seq(RequestType) /\ r # <<>> /\ DOMAIN r = DOMAIN s
            /\ \A i \in DOMAIN s \ {1} : r[i] = s[i]
            /\ r[1] = [s[1] EXCEPT !.stage = x]
            /\ Head(s) = s[1] /\ s[1] \in RequestType /\ 1 \in DOMAIN s
<1>1. /\ Len(s) \in Nat \ {0} /\ DOMAIN s = 1..Len(s) /\ 1 \in DOMAIN s
      /\ Head(s) = s[1] /\ s[1] \in RequestType
  OBVIOUS
<1>2. [s[1] EXCEPT !.stage = x] \in RequestType
  BY <1>1 DEF RequestType
<1> QED
  BY <1>1, <1>2

LEMMA Operations ==
  ASSUME NEW s \in Seq(OperationType), s # <<>>, NEW x \in {"queued", "writing", "undoing"}
  PROVE  LET r == [s EXCEPT ![1].stage = x]
         IN /\ r \in Seq(OperationType) /\ r # <<>> /\ DOMAIN r = DOMAIN s
            /\ \A i \in DOMAIN s \ {1} : r[i] = s[i]
            /\ r[1] = [s[1] EXCEPT !.stage = x]
            /\ Head(s) = s[1] /\ s[1] \in OperationType /\ 1 \in DOMAIN s
<1>1. /\ Len(s) \in Nat \ {0} /\ DOMAIN s = 1..Len(s) /\ 1 \in DOMAIN s
      /\ Head(s) = s[1] /\ s[1] \in OperationType
  OBVIOUS
<1>2. [s[1] EXCEPT !.stage = x] \in OperationType
  BY <1>1 DEF OperationType
<1> QED
  BY <1>1, <1>2
-----------------------------------------------------------------------------
(* The end of a request (Resolve).                                         *)

LEMMA Behind ==
  ASSUME IInv, persisting # <<>>
  PROVE  /\ persisting[1] \in RequestType /\ 1 \in DOMAIN persisting
         /\ Head(persisting) = persisting[1]
         /\ Tail(persisting) \in Seq(RequestType)
         /\ \A i \in DOMAIN Tail(persisting) :
              /\ i + 1 \in DOMAIN persisting /\ Tail(persisting)[i] = persisting[i + 1]
              /\ i \in Nat /\ Tail(persisting)[i].stage = "queued"
         /\ \A i \in DOMAIN persisting :
              \/ i = 1
              \/ /\ i - 1 \in DOMAIN Tail(persisting)
                 /\ Tail(persisting)[i - 1] = persisting[i]
<1>1. persisting \in Seq(RequestType)
  BY DEF IInv, TypeOK, StoreTypes
<1>2. \A i \in DOMAIN persisting : persisting[i].stage # "queued" => i = 1
  BY DEF IInv, QueueOK
<1> QED
  BY <1>1, <1>2, Dropped

\* A step in which the call for the page's first request ends.
Resolves(valid, written) ==
  /\ persisting # <<>> /\ Resolve(valid, written)
  /\ valid => IsCurrent(persisting[1].generation)
  /\ UNCHANGED <<generation, clearing, clear, barrierFailed, marked, cleared>>

\* What it does to the page.
LEMMA ResolvePage ==
  ASSUME IInv, NEW valid \in BOOLEAN, NEW written \in BOOLEAN, Resolves(valid, written)
  PROVE  LET r == persisting[1]
         IN /\ persisting' = Tail(persisting)
            /\ IF r.starts /\ valid
               THEN /\ active' = r.task
                    /\ context' = [context EXCEPT ![r.task] =
                         [status |-> "running", generation |-> r.generation,
                          clearing |-> FALSE, acknowledge |-> FALSE]]
                    /\ worker' = [worker EXCEPT ![r.task] =
                         [state |-> "loading", paused |-> FALSE, cancelled |-> FALSE,
                          slice |-> 0, inbox |-> <<"start">>, outbox |-> <<>>]]
                    /\ expected' = IF \E u \in Tasks \ {r.task} : Live(u)
                                   THEN [Unknown(Tasks) EXCEPT ![r.task] = "any"]
                                   ELSE [expected EXCEPT ![r.task] =
                                          IF written THEN "running" ELSE "any"]
               ELSE /\ UNCHANGED <<active, context, worker>>
                    /\ expected' = IF r.starts \/ ~written
                                   THEN [expected EXCEPT ![r.task] = "any"]
                                   ELSE expected
<1>1. Head(persisting) = persisting[1] /\ persisting[1] \in RequestType
  BY Behind DEF Resolves
<1>2. persisting[1].starts \in BOOLEAN
  BY <1>1 DEF RequestType
<1> QED
  BY <1>1, <1>2 DEF Resolves, Resolve, Launch, NoContext, NoWorker, pageVars

LEMMA ResolveExpects ==
  ASSUME IInv, NEW valid \in BOOLEAN, NEW written \in BOOLEAN, Resolves(valid, written)
  PROVE  LET r == persisting[1]
         IN /\ expected' \in [Tasks -> {"none", "any"} \cup Spoken]
            /\ \A t \in Tasks \ {r.task} :
                 \/ expected'[t] = expected[t]
                 \/ (expected[t] # "none" /\ expected'[t] = "any")
            /\ \/ expected'[r.task] = "any"
               \/ /\ expected'[r.task] = expected[r.task]
                  /\ ~r.starts /\ written
               \/ /\ expected'[r.task] = "running"
                  /\ r.starts /\ valid /\ written
                  /\ \A u \in Tasks \ {r.task} : ~Live(u)
            /\ r.starts /\ valid /\ (\E u \in Tasks \ {r.task} : Live(u)) =>
                 \A t \in Tasks : expected[t] # "none" => expected'[t] = "any"
<1> DEFINE r == persisting[1]
<1>1. r \in RequestType /\ r.task \in Tasks /\ r.starts \in BOOLEAN
  BY Behind DEF Resolves, RequestType
<1>2. expected \in [Tasks -> {"none", "any"} \cup Spoken]
  BY DEF IInv, TypeOK, PageTypes
<1>3. /\ Unknown(Tasks) \in [Tasks -> {"none", "any"} \cup Spoken]
      /\ \A t \in Tasks : Unknown(Tasks)[t] = IF expected[t] # "none" THEN "any"
                                                                      ELSE expected[t]
  BY <1>2 DEF Unknown
<1>4. /\ r.starts /\ valid =>
           expected' = IF \E u \in Tasks \ {r.task} : Live(u)
                       THEN [Unknown(Tasks) EXCEPT ![r.task] = "any"]
                       ELSE [expected EXCEPT ![r.task] = IF written THEN "running" ELSE "any"]
      /\ ~(r.starts /\ valid) =>
           expected' = IF r.starts \/ ~written THEN [expected EXCEPT ![r.task] = "any"]
                       ELSE expected
  BY ResolvePage
<1> DEFINE heard == \E u \in Tasks \ {r.task} : Live(u)
<1>5. CASE r.starts /\ valid /\ heard
  <2>1. expected' = [Unknown(Tasks) EXCEPT ![r.task] = "any"]
    BY <1>4, <1>5
  <2>2. /\ expected' \in [Tasks -> {"none", "any"} \cup Spoken]
        /\ expected'[r.task] = "any"
        /\ \A t \in Tasks \ {r.task} : expected'[t] = Unknown(Tasks)[t]
    BY <1>1, <1>3, <2>1
  <2> QED
    BY <1>3, <2>2
<1>6. CASE r.starts /\ valid /\ ~heard
  <2> DEFINE e == IF written THEN "running" ELSE "any"
  <2>1. expected' = [expected EXCEPT ![r.task] = e]
    BY <1>4, <1>6
  <2>2. e \in {"any"} \cup Spoken /\ (e = "any" \/ (e = "running" /\ written))
    BY DEF Spoken
  <2>3. /\ expected' \in [Tasks -> {"none", "any"} \cup Spoken]
        /\ expected'[r.task] = e
        /\ \A t \in Tasks \ {r.task} : expected'[t] = expected[t]
    <3> HIDE DEF e
    <3> QED
      BY <1>1, <1>2, <2>1, <2>2
  <2> HIDE DEF e
  <2> QED
    BY <1>6, <2>2, <2>3
<1>7. CASE ~(r.starts /\ valid) /\ (r.starts \/ ~written)
  <2>1. expected' = [expected EXCEPT ![r.task] = "any"]
    BY <1>4, <1>7
  <2>2. /\ expected' \in [Tasks -> {"none", "any"} \cup Spoken]
        /\ expected'[r.task] = "any"
        /\ \A t \in Tasks \ {r.task} : expected'[t] = expected[t]
    BY <1>1, <1>2, <2>1
  <2> QED
    BY <1>7, <2>2
<1>8. CASE ~(r.starts \/ ~written)
  <2>1. expected' = expected
    BY <1>4, <1>8
  <2> QED
    BY <1>1, <1>2, <1>8, <2>1
<1> QED
  BY <1>5, <1>6, <1>7, <1>8

LEMMA ResolveTypes ==
  ASSUME IInv, NEW valid \in BOOLEAN, NEW written \in BOOLEAN, Resolves(valid, written),
         incidents' \in Nat
  PROVE  PageTypes' /\ WorkerOK' /\ persisting' \in Seq(RequestType)
<1> DEFINE r == persisting[1]
<1>1. r \in RequestType /\ persisting' \in Seq(RequestType)
  BY Behind, ResolvePage DEF Resolves
<1>2. PageTypes /\ WorkerOK
  BY DEF IInv, TypeOK
<1>3. expected' \in [Tasks -> {"none", "any"} \cup Spoken]
  BY ResolveExpects
<1>4. /\ r.task \in Tasks /\ r.generation \in Nat
  BY <1>1 DEF RequestType
<1>5. UNCHANGED <<clear, barrierFailed, marked, cleared>>
  BY DEF Resolves
<1>6. CASE r.starts /\ valid
  <2> DEFINE c == [status |-> "running", generation |-> r.generation,
                   clearing |-> FALSE, acknowledge |-> FALSE]
             w == [state |-> "loading", paused |-> FALSE, cancelled |-> FALSE,
                   slice |-> 0, inbox |-> <<"start">>, outbox |-> <<>>]
  <2>1. /\ active' = r.task /\ context' = [context EXCEPT ![r.task] = c]
        /\ worker' = [worker EXCEPT ![r.task] = w]
    BY <1>6, ResolvePage
  <2>2. c \in ContextType
    BY <1>4 DEF ContextType, Spoken
  <2>3. w \in WorkerType
    <3>1. <<"start">> \in Seq(Commands) /\ <<>> \in Seq(MessageType)
      BY DEF Commands
    <3> QED
      BY <3>1 DEF WorkerType
  <2>4. context' \in [Tasks -> ContextType] /\ worker' \in [Tasks -> WorkerType]
    BY <1>2, <2>1, <2>2, <2>3 DEF PageTypes
  <2>5. WorkerOK'
    BY <1>2, <1>4, <2>1 DEF WorkerOK, Live, PageTypes
  <2> QED
    BY <1>1, <1>2, <1>3, <1>4, <1>5, <2>1, <2>4, <2>5 DEF PageTypes
<1>7. CASE ~(r.starts /\ valid)
  <2>1. UNCHANGED <<active, context, worker>>
    BY <1>7, ResolvePage
  <2> QED
    BY <1>1, <1>2, <1>3, <1>5, <2>1 DEF PageTypes, WorkerOK, Live
<1> QED
  BY <1>6, <1>7
LEMMA ResolveStarts ==
  ASSUME IInv, NEW valid \in BOOLEAN, NEW written \in BOOLEAN, Resolves(valid, written)
  PROVE  StartOK' /\ (\A t \in Tasks : context'[t].generation <= generation)
<1> DEFINE r == persisting[1]
           q == Tail(persisting)
<1>1. /\ r \in RequestType /\ r.task \in Tasks /\ r.generation \in Nat /\ r.starts \in BOOLEAN
      /\ r.generation <= generation /\ 1 \in DOMAIN persisting /\ persisting' = q
  BY Behind, ResolvePage DEF Resolves, RequestType, IInv, GenerationOK
<1>2. StartOK /\ clear' = clear /\ context \in [Tasks -> ContextType]
      /\ clear.task \in Tasks \cup {NoTask} /\ NoTask \notin Tasks
  BY ConstantsAssumption DEF IInv, Resolves, TypeOK, PageTypes
<1>3. \A t \in Tasks : context[t].generation <= generation
  BY DEF IInv, GenerationOK
<1>4. \A i \in DOMAIN q : /\ i + 1 \in DOMAIN persisting /\ q[i] = persisting[i + 1]
                          /\ i \in Nat /\ i # 0 /\ q[i].task \in Tasks
  <2>1. q \in Seq(RequestType)
    BY Behind DEF Resolves
  <2>2. \A i \in DOMAIN q : i \in Nat /\ i # 0 /\ q[i] \in RequestType
    <3> HIDE DEF q
    <3> QED
      BY <2>1
  <2> QED
    BY <2>2, Behind DEF Resolves, RequestType
<1>5. CASE r.starts /\ valid
  <2> DEFINE c == [status |-> "running", generation |-> r.generation,
                   clearing |-> FALSE, acknowledge |-> FALSE]
  <2>1. active' = r.task /\ context' = [context EXCEPT ![r.task] = c]
    BY <1>5, ResolvePage
  <2>2. \A t \in Tasks : context'[t] = IF t = r.task THEN c ELSE context[t]
    BY <1>1, <1>2, <2>1
  <2>3. c # NoContext /\ c.status = "running" /\ c.generation = r.generation
    BY DEF NoContext
  <2>4. \A i \in DOMAIN q : q[i].task # r.task
    BY <1>1, <1>2, <1>4, <1>5 DEF StartOK
  <2> HIDE DEF c
  <2>5. \A t \in Tasks : context'[t].status = "none" => context'[t] = NoContext
    BY <1>2, <2>2, <2>3 DEF StartOK
  <2>6. active' # NoTask => Live(active)'
    BY <1>1, <2>1, <2>2, <2>3 DEF Live
  <2>7. clear'.task # NoTask => context'[clear'.task] # NoContext
    BY <1>2, <2>2, <2>3 DEF StartOK
  <2>8. ASSUME NEW i \in DOMAIN q
        PROVE  IF q[i].starts
               THEN /\ context'[q[i].task] = NoContext
                    /\ q[i].status = "running"
                    /\ \A j \in DOMAIN q : q[j].task = q[i].task => i = j
               ELSE /\ context'[q[i].task] # NoContext
                    /\ context'[q[i].task].generation = q[i].generation
    <3>1. context'[q[i].task] = context[q[i].task]
      BY <1>4, <2>2, <2>4
    <3>2. q[i] = persisting[i + 1] /\ i + 1 \in DOMAIN persisting
      BY <1>4
    <3>3. \A j \in DOMAIN q : q[j].task = q[i].task /\ q[i].starts => i = j
      <4> TAKE j \in DOMAIN q
      <4>1. q[j] = persisting[j + 1] /\ j + 1 \in DOMAIN persisting /\ i \in Nat /\ j \in Nat
        BY <1>4
      <4>2. q[j].task = q[i].task /\ q[i].starts => i + 1 = j + 1
        BY <1>2, <3>2, <4>1 DEF StartOK
      <4> QED
        BY <4>1, <4>2
    <3> QED
      BY <1>2, <3>1, <3>2, <3>3 DEF StartOK
  <2>9. \A t \in Tasks : context'[t].generation <= generation
    BY <1>1, <1>3, <2>2, <2>3
  <2> QED
    BY <1>1, <2>5, <2>6, <2>7, <2>8, <2>9 DEF StartOK
<1>6. CASE ~(r.starts /\ valid)
  <2>1. UNCHANGED <<active, context>>
    BY <1>6, ResolvePage
  <2>2. ASSUME NEW i \in DOMAIN q
        PROVE  IF q[i].starts
               THEN /\ context[q[i].task] = NoContext
                    /\ q[i].status = "running"
                    /\ \A j \in DOMAIN q : q[j].task = q[i].task => i = j
               ELSE /\ context[q[i].task] # NoContext
                    /\ context[q[i].task].generation = q[i].generation
    <3>1. q[i] = persisting[i + 1] /\ i + 1 \in DOMAIN persisting
      BY <1>4
    <3>2. \A j \in DOMAIN q : q[j].task = q[i].task /\ q[i].starts => i = j
      <4> TAKE j \in DOMAIN q
      <4>1. q[j] = persisting[j + 1] /\ j + 1 \in DOMAIN persisting /\ i \in Nat /\ j \in Nat
        BY <1>4
      <4>2. q[j].task = q[i].task /\ q[i].starts => i + 1 = j + 1
        BY <1>2, <3>1, <4>1 DEF StartOK
      <4> QED
        BY <4>1, <4>2
    <3> QED
      BY <1>2, <3>1, <3>2 DEF StartOK
  <2> QED
    BY <1>1, <1>2, <1>3, <2>1, <2>2 DEF StartOK, Live
<1> QED
  BY <1>5, <1>6

LEMMA ResolveKeepsExpect ==
  ASSUME IInv, NEW valid \in BOOLEAN, NEW written \in BOOLEAN, Resolves(valid, written)
  PROVE  ExpectOK'
<1> DEFINE r == persisting[1]
<1>1. /\ r.task \in Tasks /\ r.starts \in BOOLEAN /\ 1 \in DOMAIN persisting
      /\ r.generation \in Nat
  BY Behind DEF Resolves, RequestType
<1>2. ExpectOK /\ StartOK /\ context \in [Tasks -> ContextType]
      /\ UNCHANGED <<generation, clearing>> /\ NoTask \notin Tasks
      /\ active \in Tasks \cup {NoTask}
  BY ConstantsAssumption DEF IInv, Resolves, TypeOK, PageTypes
<1>3. CASE r.starts /\ valid
  <2> DEFINE c == [status |-> "running", generation |-> r.generation,
                   clearing |-> FALSE, acknowledge |-> FALSE]
  <2>1. active' = r.task /\ context' = [context EXCEPT ![r.task] = c]
    BY <1>3, ResolvePage
  <2>2. \A t \in Tasks : context'[t] = IF t = r.task THEN c ELSE context[t]
    BY <1>1, <1>2, <2>1
  <2>3. c.status = "running" /\ c.generation = r.generation /\ c.clearing = FALSE
    OBVIOUS
  <2>4. r.generation = generation' /\ ~clearing'
    BY <1>2, <1>3 DEF Resolves, IsCurrent
  <2>5. expected'[r.task] \in {"any", "running"}
    BY <1>3, ResolveExpects
  <2>6. context[r.task] = NoContext /\ ~Live(r.task)
    BY <1>1, <1>2, <1>3 DEF StartOK, Live, NoContext
  <2> HIDE DEF c
  <2>7. \A t \in Tasks : Live(t)' <=> (t = r.task \/ Live(t))
    BY <2>2, <2>3 DEF Live
  <2>8. ASSUME NEW t \in Tasks, t # r.task
        PROVE  /\ context'[t] # NoContext => expected'[t] # "none"
               /\ context'[t] # NoContext /\ ~IsCurrent(context[t].generation)'
                    => expected'[t] = "any"
               /\ context'[t].clearing => expected'[t] = "any"
               /\ Live(t)' => expected'[t] = "any"
    <3>1. context'[t] = context[t]
      BY <2>2, <2>8
    <3>2. \/ expected'[t] = expected[t]
          \/ (expected[t] # "none" /\ expected'[t] = "any")
      BY <2>8, ResolveExpects
    <3>3. Live(t)' => Live(t) /\ context[t] # NoContext
      BY <2>7, <2>8 DEF Live, NoContext
    <3>4. Live(t) => expected[t] # "none"
      BY <1>2, <3>3, <2>7 DEF ExpectOK
    <3>5. Live(t) => expected'[t] = "any"
      BY <1>3, <2>8, <3>4, ResolveExpects
    <3>6. IsCurrent(context[t].generation)' <=> IsCurrent(context[t].generation)
      BY <1>2, <3>1 DEF IsCurrent
    <3> QED
      BY <1>2, <3>1, <3>2, <3>3, <3>5, <3>6 DEF ExpectOK
  <2>9. /\ expected'[r.task] # "none"
        /\ context'[r.task].generation = generation' /\ ~clearing'
        /\ ~context'[r.task].clearing
        /\ expected'[r.task] # "any" =>
             /\ context'[r.task].status = expected'[r.task]
             /\ \A u \in Tasks \ {r.task} : ~Live(u)'
    <3>1. context'[r.task] = c
      BY <1>1, <2>2
    <3>2. context'[r.task].generation = generation' /\ ~clearing'
      BY <2>3, <2>4, <3>1
    <3>3. expected'[r.task] # "any" => \A u \in Tasks \ {r.task} : ~Live(u)
      BY <1>3, ResolveExpects
    <3> QED
      BY <2>3, <2>5, <2>7, <3>1, <3>2, <3>3
  <2> QED
    BY <2>1, <2>8, <2>9 DEF ExpectOK, IsCurrent
<1>4. CASE ~(r.starts /\ valid)
  <2>1. UNCHANGED <<active, context>>
    BY <1>4, ResolvePage
  <2>2. \A t \in Tasks : expected'[t] = expected[t] \/ expected'[t] = "any"
    BY <1>1, <1>4, ResolveExpects
  <2>3. \A t \in Tasks : Live(t)' <=> Live(t)
    BY <2>1 DEF Live
  <2>4. \A t \in Tasks : IsCurrent(context[t].generation)' <=> IsCurrent(context[t].generation)
    BY <1>2, <2>1 DEF IsCurrent
  <2> QED
    BY <1>2, <2>1, <2>2, <2>3, <2>4 DEF ExpectOK
<1> QED
  BY <1>3, <1>4

\* The records, and what is still to be said of them.
LEMMA ResolveLast ==
  ASSUME IInv, NEW valid \in BOOLEAN, NEW written \in BOOLEAN, Resolves(valid, written),
         \A t \in Tasks \ {persisting[1].task} : store'[t] = store[t],
         \/ store'[persisting[1].task] = NoRecord
         \/ ~written
         \/ /\ store'[persisting[1].task] = store[persisting[1].task]
            /\ persisting[1].stage = "estimating" \/ ~IsCurrent(persisting[1].generation)
  PROVE  LastOK'
<1> DEFINE r == persisting[1]
           q == Tail(persisting)
<1>1. /\ r \in RequestType /\ r.task \in Tasks /\ r.starts \in BOOLEAN
      /\ r.generation \in Nat
      /\ 1 \in DOMAIN persisting /\ persisting' = q /\ persisting # <<>>
  BY Behind, ResolvePage DEF Resolves, RequestType
<1>2. LastOK /\ StartOK /\ WrittenOK /\ ExpectOK
  BY DEF IInv
<1>3. \A i \in DOMAIN q : /\ i + 1 \in DOMAIN persisting /\ q[i] = persisting[i + 1]
                          /\ i \in Nat /\ i # 0 /\ q[i].task \in Tasks
  <2>1. q \in Seq(RequestType)
    BY Behind DEF Resolves
  <2>2. \A i \in DOMAIN q : i \in Nat /\ i # 0 /\ q[i] \in RequestType
    <3> HIDE DEF q
    <3> QED
      BY <2>1
  <2> QED
    BY <2>2, Behind DEF Resolves, RequestType
<1>4. \A i \in DOMAIN persisting : /\ i \in Nat
                                   /\ i = 1 \/ (i - 1 \in DOMAIN q /\ q[i - 1] = persisting[i])
  <2>1. persisting \in Seq(RequestType)
    BY DEF IInv, TypeOK, StoreTypes
  <2> QED
    BY <2>1, Behind DEF Resolves
<1>5. \A t \in Tasks : \/ expected'[t] = expected[t]
                       \/ expected'[t] = "any"
                       \/ t = r.task /\ r.starts
  BY <1>1, ResolveExpects
<1> HIDE DEF r, q
<1>6. ASSUME NEW i \in DOMAIN q
      PROVE  \/ q[i].starts
             \/ expected'[q[i].task] \in {"any", q[i].status}
             \/ \E j \in DOMAIN q : i < j /\ q[j].task = q[i].task
  <2> DEFINE t == q[i].task
  <2>1. q[i] = persisting[i + 1] /\ i + 1 \in DOMAIN persisting /\ i \in Nat /\ i # 0
        /\ t \in Tasks
    BY <1>3
  <2>2. t = r.task => ~r.starts
    BY <1>1, <1>2, <2>1 DEF StartOK, r
  <2>3. expected'[t] = expected[t] \/ expected'[t] = "any"
    BY <1>5, <2>1, <2>2
  <2>4. CASE \E j \in DOMAIN persisting : i + 1 < j /\ persisting[j].task = t
    <3>1. PICK j \in DOMAIN persisting : i + 1 < j /\ persisting[j].task = t
      BY <2>4
    <3>2. j - 1 \in DOMAIN q /\ q[j - 1] = persisting[j] /\ i < j - 1
      BY <1>4, <2>1, <3>1
    <3> QED
      BY <3>1, <3>2
  <2>5. CASE ~\E j \in DOMAIN persisting : i + 1 < j /\ persisting[j].task = t
    BY <1>2, <2>1, <2>3, <2>5 DEF LastOK
  <2> QED
    BY <2>4, <2>5
<1>7. ASSUME NEW t \in Tasks
      PROVE  \/ store'[t] = NoRecord
             \/ \E i \in DOMAIN q : q[i].task = t
             \/ expected'[t] \in {"any", store'[t].status}
  <2>1. CASE t # r.task
    <3>1. store'[t] = store[t]
      BY <2>1 DEF r
    <3>2. Requested(t) => \E i \in DOMAIN q : q[i].task = t
      BY <1>1, <1>4, <2>1 DEF Requested, r
    <3> QED
      BY <1>2, <1>5, <2>1, <3>1, <3>2 DEF LastOK
  <2>2. CASE t = r.task /\ ~\E i \in DOMAIN q : q[i].task = t
    <3>1. r.starts \/ expected[t] \in {"any", r.status}
      <4>1. ~\E j \in DOMAIN persisting : 1 < j /\ persisting[j].task = r.task
        BY <1>4, <2>2
      <4> QED
        BY <1>1, <1>2, <2>2, <4>1 DEF LastOK, r
    <3>2. r.starts => r.status = "running"
      BY <1>1, <1>2 DEF StartOK, r
    <3>3. \/ expected'[t] = "any"
          \/ expected'[t] = expected[t] /\ ~r.starts /\ written
          \/ expected'[t] = "running" /\ r.starts /\ valid /\ written
      BY <2>2, ResolveExpects DEF r
    <3>4. CASE store'[t] = NoRecord \/ ~written
      BY <3>3, <3>4
    <3>5. CASE store'[t] = store[t] /\ r.stage = "estimating"
      <4>1. store[t] = NoRecord \/ store[t].status = r.status
        BY <1>1, <1>2, <2>2, <3>5 DEF WrittenOK, r
      <4> QED
        BY <3>1, <3>2, <3>3, <3>5, <4>1
    <3>6. CASE ~IsCurrent(r.generation)
      <4>1. ~valid
        BY <3>6 DEF Resolves, r
      <4>2. ~r.starts => expected[t] = "any"
        BY <1>1, <1>2, <2>2, <3>6 DEF StartOK, ExpectOK, r
      <4> QED
        BY <3>3, <4>1, <4>2
    <3> QED
      BY <2>2, <3>4, <3>5, <3>6 DEF r
  <2> QED
    BY <2>1, <2>2
<1> QED
  BY <1>1, <1>6, <1>7 DEF LastOK, Requested

LEMMA ResolveOrphans ==
  ASSUME IInv, NEW valid \in BOOLEAN, NEW written \in BOOLEAN, Resolves(valid, written),
         \A t \in Tasks \ {persisting[1].task} : store'[t] = store[t],
         \/ store'[persisting[1].task] = NoRecord
         \/ /\ store'[persisting[1].task] = store[persisting[1].task]
            /\ valid \/ ~IsCurrent(persisting[1].generation)
  PROVE  OrphanOK'
<1> DEFINE r == persisting[1]
           q == Tail(persisting)
<1>1. /\ r \in RequestType /\ r.task \in Tasks /\ r.starts \in BOOLEAN
      /\ r.generation \in Nat
      /\ 1 \in DOMAIN persisting /\ persisting' = q /\ persisting # <<>>
  BY Behind, ResolvePage DEF Resolves, RequestType
<1>2. OrphanOK /\ StartOK /\ GenerationOK /\ context \in [Tasks -> ContextType]
  BY DEF IInv, TypeOK, PageTypes
<1>3. UNCHANGED <<generation, clearing, marked, cleared>>
  BY DEF Resolves
<1>4. SUFFICES ASSUME generation = cleared, marked \/ cleared > 0,
                      NEW t \in Tasks, store'[t].status \in Unfinished
               PROVE  \/ context'[t] # NoContext
                      \/ \E i \in DOMAIN q : q[i].task = t /\ q[i].generation = generation
  BY <1>1, <1>3 DEF OrphanOK
<1>5. store'[t] = store[t] /\ (t = r.task => valid \/ ~IsCurrent(r.generation))
  BY <1>4 DEF NoRecord, Unfinished
<1>6. \/ context[t] # NoContext
      \/ \E i \in DOMAIN persisting :
           persisting[i].task = t /\ persisting[i].generation = generation
  BY <1>2, <1>4, <1>5 DEF OrphanOK
<1>7. ~clearing /\ generation \in Nat
  BY <1>2, <1>4 DEF GenerationOK, IInv, TypeOK, StoreTypes
<1>8. context[t] # NoContext => context'[t] # NoContext
  <2> DEFINE c == [status |-> "running", generation |-> r.generation,
                   clearing |-> FALSE, acknowledge |-> FALSE]
  <2>1. c # NoContext
    BY DEF NoContext
  <2>2. context' = [context EXCEPT ![r.task] = c] \/ context' = context
    BY ResolvePage
  <2> HIDE DEF c
  <2> QED
    BY <1>1, <1>2, <2>1, <2>2
<1>9. CASE context[t] = NoContext
  <2>1. PICK i \in DOMAIN persisting :
          persisting[i].task = t /\ persisting[i].generation = generation
    BY <1>6, <1>9
  <2>2. CASE i = 1
    <3>1. valid /\ r.task = t
      BY <1>5, <1>7, <2>1, <2>2 DEF IsCurrent
    <3>2. r.starts
      BY <1>1, <1>2, <1>9, <2>1, <2>2 DEF StartOK
    <3>3. context' = [context EXCEPT ![t] =
                        [status |-> "running", generation |-> r.generation,
                         clearing |-> FALSE, acknowledge |-> FALSE]]
      BY <3>1, <3>2, ResolvePage
    <3>4. context'[t].status = "running"
      BY <1>2, <3>3
    <3> QED
      BY <3>4 DEF NoContext
  <2>3. CASE i # 1
    BY <2>1, <2>3, Behind DEF Resolves
  <2> QED
    BY <2>2, <2>3
<1> QED
  BY <1>8, <1>9

\* What is behind the head of the store's queue.
LEMMA Waiting ==
  ASSUME IInv, queue # <<>>
  PROVE  /\ queue[1] \in OperationType /\ Head(queue) = queue[1] /\ 1 \in DOMAIN queue
         /\ Tail(queue) \in Seq(OperationType)
         /\ \A i \in DOMAIN Tail(queue) :
              /\ i \in Nat /\ i # 0 /\ i + 1 \in DOMAIN queue
              /\ Tail(queue)[i] = queue[i + 1]
              /\ Tail(queue)[i].stage = "queued" /\ Tail(queue)[i].kind # "mark"
              /\ queue[1].kind = "save" => Tail(queue)[i].kind # "save"
<1>1. queue \in Seq(OperationType) /\ QueueOK /\ SaveOK
  BY DEF IInv, TypeOK, StoreTypes
<1>2. /\ queue[1] \in OperationType /\ Head(queue) = queue[1] /\ 1 \in DOMAIN queue
      /\ Tail(queue) \in Seq(OperationType)
      /\ \A i \in DOMAIN Tail(queue) :
           i \in Nat /\ i # 0 /\ i + 1 \in DOMAIN queue /\ Tail(queue)[i] = queue[i + 1]
  BY <1>1, Dropped
<1>3. ASSUME NEW i \in DOMAIN Tail(queue)
      PROVE  /\ queue[i + 1].stage = "queued" /\ queue[i + 1].kind # "mark"
             /\ queue[1].kind = "save" => queue[i + 1].kind # "save"
  <2>1. i + 1 \in DOMAIN queue /\ i + 1 # 1 /\ 1 \in DOMAIN queue
    BY <1>2
  <2> QED
    BY <1>1, <2>1 DEF QueueOK, SaveOK
<1> QED
  BY <1>2, <1>3

\* The invariant of a queue that loses its head, other than a save that goes on.
LEMMA QueueMovesOn ==
  ASSUME IInv, queue # <<>>, queue' = Tail(queue), persisting' = persisting,
         queue[1].kind # "save"
  PROVE  QueueOK' /\ SaveOK' /\ queue' \in Seq(OperationType)
<1>1. \A i \in DOMAIN queue' :
        /\ i \in Nat /\ i # 0 /\ i + 1 \in DOMAIN queue /\ queue'[i] = queue[i + 1]
        /\ queue'[i].stage = "queued" /\ queue'[i].kind # "mark"
  BY Waiting
<1>2. QueueOK /\ SaveOK
  BY DEF IInv
<1>3. QueueOK'
  BY <1>1, <1>2 DEF QueueOK
<1>4. ASSUME NEW i \in DOMAIN queue', NEW j \in DOMAIN queue',
             queue'[i].kind = "save", queue'[j].kind = "save"
      PROVE  i = j
  <2>1. /\ queue[i + 1].kind = "save" /\ queue[j + 1].kind = "save"
        /\ i + 1 \in DOMAIN queue /\ j + 1 \in DOMAIN queue /\ i \in Nat /\ j \in Nat
    BY <1>1, <1>4
  <2>2. i + 1 = j + 1
    BY <1>2, <2>1 DEF SaveOK
  <2> QED
    BY <2>1, <2>2
<1>5. SaveOK'
  BY <1>1, <1>2, <1>4 DEF SaveOK
<1> QED
  BY <1>3, <1>5, Waiting

LEMMA ResolveKeeps ==
  ASSUME IInv, NEW valid \in BOOLEAN, NEW written \in BOOLEAN, Resolves(valid, written),
         incidents' \in Nat, store' \in [Tasks -> RecordType], ClearedStaysCleared',
         \A t \in Tasks \ {persisting[1].task} : store'[t] = store[t],
         \/ store'[persisting[1].task] = NoRecord
         \/ /\ store'[persisting[1].task] = store[persisting[1].task]
            /\ valid \/ ~IsCurrent(persisting[1].generation)
            /\ \/ ~written
               \/ persisting[1].stage = "estimating"
               \/ ~IsCurrent(persisting[1].generation),
         \/ queue' = queue /\ store' = store /\ persisting[1].stage = "estimating"
         \/ queue' = queue /\ store' = store /\ persisting[1].stage = "queued" /\ ~valid
         \/ queue' = Tail(queue) /\ queue # <<>> /\ queue[1].kind = "save"
  PROVE  IInv'
<1> DEFINE r == persisting[1]
<1>1. /\ r \in RequestType /\ 1 \in DOMAIN persisting /\ persisting' = Tail(persisting)
      /\ persisting # <<>> /\ r.task \in Tasks
  BY Behind, ResolvePage DEF Resolves, RequestType
<1>2. \A i \in DOMAIN persisting' :
        /\ persisting'[i] = persisting[i + 1] /\ i + 1 \in DOMAIN persisting
        /\ persisting'[i].stage = "queued"
  BY <1>1, Behind
<1>3. /\ TypeOK /\ QueueOK /\ SaveOK /\ GenerationOK /\ WritingOK /\ WrittenOK
      /\ generation' = generation /\ clearing' = clearing /\ cleared' = cleared
  BY DEF IInv, Resolves
<1>4. PageTypes' /\ WorkerOK' /\ persisting' \in Seq(RequestType)
  BY ResolveTypes
<1>5. StartOK' /\ ExpectOK' /\ LastOK' /\ OrphanOK'
  BY ResolveStarts, ResolveKeepsExpect, ResolveLast, ResolveOrphans
<1>6. /\ queue' \in Seq(OperationType)
      /\ \A i \in DOMAIN queue' :
           /\ queue'[i].stage = "queued" /\ queue'[i].kind # "save"
           /\ queue'[i].kind = "mark" =>
                /\ i = 1 /\ queue' = queue /\ store' = store
                /\ r.stage = "queued" /\ ~valid
           /\ \E j \in DOMAIN queue : queue'[i] = queue[j]
  <2>1. CASE /\ queue' = queue /\ store' = store
             /\ r.stage = "estimating" \/ (r.stage = "queued" /\ ~valid)
    <3>1. \A i \in DOMAIN queue : queue[i].kind # "save" /\ queue[i].stage = "queued"
      BY <1>3, <2>1 DEF SaveOK, QueueOK
    <3>2. \A i \in DOMAIN queue : queue[i].kind = "mark" => i = 1 /\ r.stage # "estimating"
      BY <1>1, <1>3 DEF QueueOK, WrittenOK
    <3> QED
      BY <1>3, <2>1, <3>1, <3>2 DEF TypeOK, StoreTypes
  <2>2. CASE queue' = Tail(queue) /\ queue # <<>> /\ queue[1].kind = "save"
    <3>1. /\ queue' \in Seq(OperationType)
          /\ \A i \in DOMAIN queue' :
               /\ i + 1 \in DOMAIN queue /\ queue'[i] = queue[i + 1]
               /\ queue'[i].stage = "queued" /\ queue'[i].kind \notin {"mark", "save"}
      BY <2>2, Waiting
    <3> QED
      BY <3>1
  <2> QED
    BY <2>1, <2>2
<1>7. TypeOK'
  BY <1>3, <1>4, <1>6 DEF TypeOK, StoreTypes
<1>8. QueueOK' /\ SaveOK' /\ WritingOK'
  <2>1. \A i \in DOMAIN queue' : queue'[i].kind = "discard" => queue'[i].task \in Tasks
    BY <1>3, <1>6 DEF QueueOK
  <2> QED
    BY <1>2, <1>6, <2>1 DEF QueueOK, SaveOK, WritingOK
<1>9. GenerationOK'
  <2>1. \A t \in Tasks : context'[t].generation <= generation
    BY ResolveStarts
  <2>2. \A i \in DOMAIN queue' : queue'[i].kind = "clear" => queue'[i].generation <= generation
    BY <1>3, <1>6 DEF GenerationOK
  <2>3. \A i \in DOMAIN persisting' : persisting'[i].generation <= generation
    BY <1>2, <1>3 DEF GenerationOK
  <2> QED
    BY <1>3, <2>1, <2>2, <2>3 DEF GenerationOK
<1>10. WrittenOK'
  <2>1. persisting' # <<>> => persisting'[1].stage = "queued"
    <3>1. persisting' # <<>> => 1 \in DOMAIN persisting'
      <4> HIDE DEF r
      <4> QED
        BY <1>4
    <3> QED
      BY <1>2, <3>1
  <2>2. ASSUME NEW i \in DOMAIN queue', queue'[i].kind = "mark", NEW t \in Tasks
        PROVE  store'[t] = NoRecord \/ expected'[t] = "any"
    <3>1. queue' = queue /\ store' = store /\ ~valid
      BY <1>6, <2>2
    <3>2. store[t] = NoRecord \/ expected[t] = "any"
      BY <1>3, <2>2, <3>1 DEF WrittenOK
    <3>3. expected'[t] = "any" \/ expected'[t] = expected[t]
      BY <1>1, <3>1, ResolveExpects
    <3> QED
      BY <3>1, <3>2, <3>3
  <2> QED
    BY <2>1, <2>2 DEF WrittenOK
<1> QED
  BY <1>5, <1>7, <1>8, <1>9, <1>10, <1>4 DEF IInv
-----------------------------------------------------------------------------
(* Requests and saves.                                                     *)

LEMMA PersistBeginsKeeps == IInv /\ PersistBegins => IInv'
<1> SUFFICES ASSUME IInv, PersistBegins PROVE IInv'
  OBVIOUS
<1> DEFINE r == persisting[1]
<1>1. /\ persisting # <<>> /\ Head(persisting) = r /\ r \in RequestType /\ r.stage = "queued"
      /\ 1 \in DOMAIN persisting
  BY Behind DEF PersistBegins
<1>2. UNCHANGED <<store, generation, clearing, clear, barrierFailed, marked, cleared, incidents>>
  BY DEF PersistBegins, clearVars
<1>3. TypeOK /\ store \in [Tasks -> RecordType] /\ incidents \in Nat /\ ClearedStaysCleared
  BY DEF IInv, TypeOK, StoreTypes, PageTypes
<1>4. CASE ~IsCurrent(r.generation)
  <2>1. queue' = queue /\ Resolve(FALSE, TRUE)
    BY <1>1, <1>4 DEF PersistBegins
  <2>2. Resolves(FALSE, TRUE)
    BY <1>1, <1>2, <2>1 DEF Resolves
  <2>3. ClearedStaysCleared'
    BY <1>2, <1>3 DEF ClearedStaysCleared
  <2> QED
    BY <1>1, <1>2, <1>3, <1>4, <2>1, <2>2, <2>3, ResolveKeeps
<1>5. CASE IsCurrent(r.generation)
  <2> DEFINE s == Operation("save", r.task, r.status, r.generation)
  <2>1. /\ persisting' = [persisting EXCEPT ![1].stage = "saving"]
        /\ queue' = Append(queue, s) /\ UNCHANGED <<active, context, worker, expected>>
    BY <1>1, <1>5 DEF PersistBegins, pageVars
  <2>2. s \in OperationType /\ s.kind = "save" /\ s.stage = "queued"
        /\ s.task = r.task /\ s.status = r.status /\ s.generation = r.generation
    BY <1>1 DEF Operation, OperationType, RequestType
  <2> HIDE DEF s
  <2>3. persisting \in Seq(RequestType) /\ queue \in Seq(OperationType)
    BY <1>3 DEF TypeOK, StoreTypes
  <2>4. /\ persisting' \in Seq(RequestType) /\ persisting' # <<>>
        /\ DOMAIN persisting' = DOMAIN persisting
        /\ \A i \in DOMAIN persisting \ {1} : persisting'[i] = persisting[i]
        /\ persisting'[1] = [r EXCEPT !.stage = "saving"]
    BY <1>1, <2>1, <2>3, Requests
  <2>5. /\ persisting'[1].stage = "saving" /\ persisting'[1].task = r.task
        /\ persisting'[1].status = r.status /\ persisting'[1].generation = r.generation
        /\ persisting'[1].starts = r.starts
    BY <1>1, <2>4 DEF RequestType
  <2>6. \A i \in DOMAIN persisting :
          /\ persisting'[i].task = persisting[i].task
          /\ persisting'[i].status = persisting[i].status
          /\ persisting'[i].generation = persisting[i].generation
          /\ persisting'[i].starts = persisting[i].starts
    BY <2>4, <2>5
  <2>7. /\ queue' \in Seq(OperationType) /\ Len(queue) \in Nat /\ DOMAIN queue = 1..Len(queue)
        /\ DOMAIN queue' = 1..(Len(queue) + 1)
        /\ \A i \in 1..Len(queue) : queue'[i] = queue[i]
        /\ queue'[Len(queue) + 1] = s
    BY <2>1, <2>2, <2>3, Appended
  <2>8. \A i \in DOMAIN queue : queue[i].kind # "save"
    BY <1>1 DEF IInv, SaveOK
  <2>9. \A i \in DOMAIN queue' : \/ i \in DOMAIN queue /\ queue'[i] = queue[i]
                                                     /\ queue'[i].kind # "save"
                                 \/ i = Len(queue) + 1 /\ queue'[i] = s
    BY <2>7, <2>8
  <2> HIDE DEF r
  <2>10. TypeOK'
    BY <1>2, <1>3, <2>1, <2>4, <2>7 DEF TypeOK, StoreTypes, PageTypes
  <2>11. QueueOK'
    BY <2>2, <2>4, <2>9 DEF IInv, QueueOK
  <2>12. SaveOK'
    BY <2>2, <2>4, <2>5, <2>9 DEF SaveOK
  <2>13. GenerationOK'
    BY <1>2, <2>1, <2>2, <2>4, <2>6, <2>9 DEF IInv, GenerationOK
  <2>14. WritingOK'
    BY <1>2, <2>2, <2>9 DEF IInv, WritingOK
  <2>15. StartOK'
    BY <1>2, <2>1, <2>4, <2>6 DEF IInv, StartOK, Live
  <2>16. ClearedStaysCleared' /\ WorkerOK' /\ ExpectOK'
    BY <1>2, <2>1 DEF IInv, ClearedStaysCleared, WorkerOK, ExpectOK, Live, IsCurrent
  <2>17. OrphanOK'
    BY <1>2, <2>1, <2>4, <2>6 DEF IInv, OrphanOK
  <2>18. LastOK'
    <3>1. LastOK
      BY DEF IInv
    <3>2. \A t : Requested(t)' <=> Requested(t)
      BY <2>4, <2>6 DEF Requested
    <3> QED
      BY <1>2, <2>1, <2>4, <2>6, <3>1, <3>2 DEF LastOK
  <2>19. WrittenOK'
    BY <1>2, <2>1, <2>2, <2>5, <2>9 DEF IInv, WrittenOK
  <2> QED
    BY <2>10, <2>11, <2>12, <2>13, <2>14, <2>15, <2>16, <2>17, <2>18, <2>19 DEF IInv
<1> QED
  BY <1>4, <1>5

LEMMA PersistEndsKeeps == IInv /\ PersistEnds => IInv'
<1> SUFFICES ASSUME IInv, PersistEnds PROVE IInv'
  OBVIOUS
<1> DEFINE r == persisting[1]
           v == IsCurrent(r.generation)
<1>1. /\ persisting # <<>> /\ Head(persisting) = r /\ r \in RequestType
      /\ r.stage = "estimating"
  BY Behind DEF PersistEnds
<1>2. /\ UNCHANGED <<store, queue, generation, clearing, clear, barrierFailed, marked, cleared,
                     incidents>>
  BY DEF PersistEnds, clearVars, storeVars
<1>3. store \in [Tasks -> RecordType] /\ incidents \in Nat /\ ClearedStaysCleared
  BY DEF IInv, TypeOK, StoreTypes, PageTypes
<1>4. ClearedStaysCleared'
  BY <1>2, <1>3 DEF ClearedStaysCleared
<1>5. v \in BOOLEAN /\ Resolve(v, TRUE)
  BY <1>1 DEF PersistEnds, IsCurrent
<1>6. Resolves(v, TRUE)
  BY <1>1, <1>2, <1>5 DEF Resolves
<1> HIDE DEF v
<1> QED
  BY <1>1, <1>2, <1>3, <1>4, <1>5, <1>6, ResolveKeeps DEF v

\* What a save at the head of the store's queue is.
LEMMA Saving ==
  ASSUME IInv, queue # <<>>, Head(queue).kind = "save"
  PROVE  /\ queue[1] \in OperationType /\ Head(queue) = queue[1] /\ queue[1].kind = "save"
         /\ queue[1].task \in Tasks
         /\ persisting # <<>> /\ persisting[1].stage = "saving"
         /\ persisting[1].task = queue[1].task
         /\ persisting[1].generation = queue[1].generation
         /\ persisting[1].status = queue[1].status
         /\ persisting[1] \in RequestType
BY Waiting, Behind DEF IInv, SaveOK, RequestType

\* The steps of a save that end it.
LEMMA SaveEnds ==
  ASSUME IInv, queue # <<>>, Head(queue).kind = "save", queue' = Tail(queue),
         NEW valid \in BOOLEAN, NEW written \in BOOLEAN, Resolve(valid, written),
         valid => IsCurrent(Head(queue).generation),
         UNCHANGED <<generation, clearing, clear, barrierFailed, marked, cleared>>,
         incidents' \in Nat,
         \/ store' = [store EXCEPT ![Head(queue).task] = NoRecord]
         \/ /\ store' = store
            /\ valid \/ ~IsCurrent(Head(queue).generation)
            /\ ~written \/ ~IsCurrent(Head(queue).generation)
  PROVE  IInv'
<1>1. /\ persisting # <<>> /\ persisting[1] \in RequestType /\ Head(queue) = queue[1]
      /\ persisting[1].task = queue[1].task
      /\ persisting[1].generation = queue[1].generation
      /\ queue[1].task \in Tasks /\ queue[1].kind = "save"
  BY Saving
<1>2. Resolves(valid, written)
  BY <1>1 DEF Resolves
<1>3. store \in [Tasks -> RecordType] /\ ClearedStaysCleared
  BY DEF IInv, TypeOK, StoreTypes
<1>4. NoRecord \in RecordType
  BY DEF NoRecord, RecordType
<1>5. store' \in [Tasks -> RecordType] /\ ClearedStaysCleared'
  BY <1>1, <1>3, <1>4 DEF ClearedStaysCleared
<1>6. /\ \A t \in Tasks \ {persisting[1].task} : store'[t] = store[t]
      /\ \/ store'[persisting[1].task] = NoRecord
         \/ /\ store'[persisting[1].task] = store[persisting[1].task]
            /\ valid \/ ~IsCurrent(persisting[1].generation)
            /\ ~written \/ ~IsCurrent(persisting[1].generation)
  BY <1>1, <1>3
<1> QED
  BY <1>1, <1>2, <1>5, <1>6, ResolveKeeps

LEMMA SaveIsUndoneKeeps == IInv /\ SaveIsUndone => IInv'
<1> SUFFICES ASSUME IInv, SaveIsUndone PROVE IInv'
  OBVIOUS
<1>1. /\ queue # <<>> /\ Head(queue).kind = "save" /\ queue' = Tail(queue)
      /\ Resolve(FALSE, TRUE) /\ store' = [store EXCEPT ![Head(queue).task] = NoRecord]
      /\ UNCHANGED <<generation, clearing, clear, barrierFailed, marked, cleared, incidents>>
  BY DEF SaveIsUndone, Serving, clearVars
<1>2. incidents \in Nat
  BY DEF IInv, TypeOK, PageTypes
<1> QED
  BY <1>1, <1>2, SaveEnds

LEMMA SaveFailsKeeps == IInv /\ SaveFails => IInv'
<1> SUFFICES ASSUME IInv, SaveFails PROVE IInv'
  OBVIOUS
<1>1. /\ queue # <<>> /\ Head(queue).kind = "save" /\ queue' = Tail(queue)
      /\ Resolve(IsCurrent(Head(queue).generation), FALSE) /\ store' = store
      /\ UNCHANGED <<generation, clearing, clear, barrierFailed, marked, cleared>>
      /\ incidents' \in Nat
  <2>1. queue # <<>> /\ Head(queue).kind = "save"
    BY DEF SaveFails, Serving
  <2>2. /\ queue' = Tail(queue) /\ store' = store
        /\ Resolve(IsCurrent(Head(queue).generation), FALSE)
    BY DEF SaveFails
  <2>3. UNCHANGED <<generation, clearing, clear, barrierFailed, marked, cleared>>
    BY DEF SaveFails, clearVars
  <2>4. incidents' \in Nat
    BY DEF SaveFails, Incident, IInv, TypeOK, PageTypes
  <2> QED
    BY <2>1, <2>2, <2>3, <2>4
<1>2. CASE IsCurrent(Head(queue).generation)
  <2>1. IsCurrent(Head(queue).generation) = TRUE
    BY <1>2 DEF IsCurrent
  <2>2. Resolve(TRUE, FALSE)
    BY <1>1, <2>1
  <2> QED
    BY <1>1, <1>2, <2>2, SaveEnds
<1>3. CASE ~IsCurrent(Head(queue).generation)
  <2>1. IsCurrent(Head(queue).generation) = FALSE
    BY <1>3 DEF IsCurrent
  <2>2. Resolve(FALSE, FALSE)
    BY <1>1, <2>1
  <2> QED
    BY <1>1, <1>3, <2>2, SaveEnds
<1> QED
  BY <1>2, <1>3

LEMMA SaveBeginsKeeps == IInv /\ SaveBegins => IInv'
<1> SUFFICES ASSUME IInv, SaveBegins PROVE IInv'
  OBVIOUS
<1> DEFINE s == queue[1]
<1>1. /\ queue # <<>> /\ Head(queue) = s /\ s.kind = "save" /\ s.stage = "queued"
      /\ s \in OperationType /\ 1 \in DOMAIN queue
  BY Waiting DEF SaveBegins, Serving
<1>2. UNCHANGED <<store, generation, clearing, clear, barrierFailed, marked, cleared, incidents>>
  BY DEF SaveBegins, clearVars
<1>3. incidents \in Nat
  BY DEF IInv, TypeOK, PageTypes
<1>4. CASE ~IsCurrent(s.generation)
  <2>1. queue' = Tail(queue) /\ Resolve(FALSE, TRUE)
    BY <1>1, <1>4 DEF SaveBegins
  <2> QED
    BY <1>1, <1>2, <1>3, <1>4, <2>1, SaveEnds
<1>5. CASE IsCurrent(s.generation)
  <2>1. /\ queue' = [queue EXCEPT ![1].stage = "writing"]
        /\ UNCHANGED <<persisting, active, context, worker, expected>>
    BY <1>1, <1>5 DEF SaveBegins, pageVars
  <2>2. queue \in Seq(OperationType)
    BY DEF IInv, TypeOK, StoreTypes
  <2>3. /\ queue' \in Seq(OperationType) /\ DOMAIN queue' = DOMAIN queue
        /\ \A i \in DOMAIN queue \ {1} : queue'[i] = queue[i]
        /\ queue'[1] = [s EXCEPT !.stage = "writing"]
    BY <1>1, <2>1, <2>2, Operations
  <2>4. \A i \in DOMAIN queue : /\ queue'[i].kind = queue[i].kind
                                /\ queue'[i].task = queue[i].task
                                /\ queue'[i].status = queue[i].status
                                /\ queue'[i].generation = queue[i].generation
                                /\ i # 1 => queue'[i].stage = queue[i].stage
    BY <1>1, <2>3 DEF OperationType
  <2>5. s.generation >= cleared
    BY <1>5 DEF IsCurrent, IInv, GenerationOK, TypeOK, StoreTypes, PageTypes
  <2>6. TypeOK'
    BY <1>2, <2>1, <2>3 DEF IInv, TypeOK, StoreTypes, PageTypes
  <2>7. QueueOK' /\ SaveOK'
    BY <1>1, <2>1, <2>3, <2>4 DEF IInv, QueueOK, SaveOK
  <2>8. GenerationOK' /\ StartOK' /\ ClearedStaysCleared'
    BY <1>2, <2>1, <2>3, <2>4
    DEF IInv, GenerationOK, StartOK, ClearedStaysCleared, Live
  <2>9. WritingOK'
    BY <1>2, <2>3, <2>4, <2>5 DEF IInv, WritingOK
  <2>10. OrphanOK' /\ WorkerOK' /\ ExpectOK' /\ LastOK'
    BY <1>2, <2>1
    DEF IInv, OrphanOK, WorkerOK, ExpectOK, LastOK, Live, IsCurrent, Requested
  <2>11. WrittenOK'
    BY <1>2, <2>1, <2>3, <2>4 DEF IInv, WrittenOK
  <2> QED
    BY <2>6, <2>7, <2>8, <2>9, <2>10, <2>11 DEF IInv
<1> QED
  BY <1>4, <1>5

LEMMA SaveWritesKeeps == IInv /\ SaveWrites => IInv'
<1> SUFFICES ASSUME IInv, SaveWrites PROVE IInv'
  OBVIOUS
<1> DEFINE s == queue[1]
           new == [status |-> s.status, generation |-> s.generation]
<1>1. /\ queue # <<>> /\ Head(queue) = s /\ s.kind = "save" /\ s.stage = "writing"
      /\ s \in OperationType /\ 1 \in DOMAIN queue /\ s.task \in Tasks
      /\ persisting # <<>> /\ persisting[1].stage = "saving"
      /\ persisting[1].task = s.task /\ persisting[1].status = s.status
      /\ persisting[1].generation = s.generation /\ persisting[1] \in RequestType
  BY Waiting, Saving DEF SaveWrites, Serving
<1>2. /\ UNCHANGED <<generation, clearing, active, context, worker, clear, barrierFailed, marked,
                     cleared, expected, incidents>>
      /\ store' = [store EXCEPT ![s.task] = new]
  BY <1>1 DEF SaveWrites, clearVars, pageVars, historyVars
<1>3. new \in RecordType /\ new.status = s.status /\ new.generation = s.generation
  BY <1>1 DEF RecordType, OperationType, RequestType
<1>4. s.generation >= cleared
  BY <1>1 DEF IInv, WritingOK
<1> HIDE DEF new
<1>5. store \in [Tasks -> RecordType] /\ queue \in Seq(OperationType)
      /\ persisting \in Seq(RequestType)
  BY DEF IInv, TypeOK, StoreTypes
<1>6. store' \in [Tasks -> RecordType]
      /\ \A t \in Tasks : store'[t] = IF t = s.task THEN new ELSE store[t]
  BY <1>1, <1>2, <1>3, <1>5
<1>7. \A i \in DOMAIN queue : queue[i].kind # "mark"
  BY <1>1 DEF IInv, QueueOK
<1>8. 1 \in DOMAIN persisting
  BY <1>1, <1>5
<1>9. /\ queue' \in Seq(OperationType)
      /\ \A i \in DOMAIN queue' :
           /\ queue'[i].kind # "mark"
           /\ queue'[i].stage # "queued" => queue'[i].generation >= cleared
           /\ queue'[i].kind = "clear" => queue'[i].generation <= generation
      /\ persisting' \in Seq(RequestType) /\ persisting' # <<>>
      /\ DOMAIN persisting' = DOMAIN persisting
      /\ \A i \in DOMAIN persisting : /\ persisting'[i].task = persisting[i].task
                                      /\ persisting'[i].status = persisting[i].status
                                      /\ persisting'[i].generation = persisting[i].generation
                                      /\ persisting'[i].starts = persisting[i].starts
                                      /\ i # 1 => persisting'[i].stage = persisting[i].stage
      /\ QueueOK' /\ SaveOK'
  <2>1. CASE IsCurrent(s.generation)
    <3>1. queue' = Tail(queue) /\ persisting' = [persisting EXCEPT ![1].stage = "estimating"]
      BY <1>1, <2>1 DEF SaveWrites
    <3>2. /\ queue' \in Seq(OperationType)
          /\ \A i \in DOMAIN queue' : /\ i + 1 \in DOMAIN queue /\ queue'[i] = queue[i + 1]
                                      /\ queue'[i].stage = "queued"
                                      /\ queue'[i].kind \notin {"mark", "save"}
      BY <1>1, <3>1, Waiting
    <3>3. /\ persisting' \in Seq(RequestType) /\ persisting' # <<>>
          /\ DOMAIN persisting' = DOMAIN persisting
          /\ \A i \in DOMAIN persisting \ {1} : persisting'[i] = persisting[i]
          /\ persisting'[1] = [persisting[1] EXCEPT !.stage = "estimating"]
      BY <1>1, <1>5, <3>1, Requests
    <3>4. \A i \in DOMAIN persisting : /\ persisting'[i].task = persisting[i].task
                                       /\ persisting'[i].status = persisting[i].status
                                       /\ persisting'[i].generation = persisting[i].generation
                                       /\ persisting'[i].starts = persisting[i].starts
                                       /\ i # 1 => persisting'[i].stage = persisting[i].stage
      BY <1>1, <3>3 DEF RequestType
    <3>5. QueueOK' /\ SaveOK'
      BY <3>2, <3>3, <3>4 DEF IInv, QueueOK, SaveOK
    <3> QED
      BY <3>2, <3>3, <3>4, <3>5 DEF IInv, GenerationOK
  <2>2. CASE ~IsCurrent(s.generation)
    <3>1. queue' = [queue EXCEPT ![1].stage = "undoing"] /\ persisting' = persisting
      BY <1>1, <2>2 DEF SaveWrites
    <3>2. /\ queue' \in Seq(OperationType) /\ DOMAIN queue' = DOMAIN queue
          /\ \A i \in DOMAIN queue \ {1} : queue'[i] = queue[i]
          /\ queue'[1] = [s EXCEPT !.stage = "undoing"]
      BY <1>1, <1>5, <3>1, Operations
    <3>3. \A i \in DOMAIN queue : /\ queue'[i].kind = queue[i].kind
                                  /\ queue'[i].task = queue[i].task
                                  /\ queue'[i].status = queue[i].status
                                  /\ queue'[i].generation = queue[i].generation
                                  /\ i # 1 => queue'[i].stage = queue[i].stage
      BY <1>1, <3>2 DEF OperationType
    <3>4. QueueOK' /\ SaveOK'
      BY <1>1, <3>1, <3>2, <3>3 DEF IInv, QueueOK, SaveOK
    <3>5. \A i \in DOMAIN queue' :
            /\ queue'[i].kind # "mark"
            /\ queue'[i].stage # "queued" => queue'[i].generation >= cleared
            /\ queue'[i].kind = "clear" => queue'[i].generation <= generation
      BY <1>4, <1>7, <3>2, <3>3 DEF IInv, GenerationOK, WritingOK
    <3> QED
      BY <1>1, <1>5, <3>1, <3>2, <3>4, <3>5
  <2> QED
    BY <2>1, <2>2
<1>10. TypeOK'
  BY <1>2, <1>6, <1>9 DEF IInv, TypeOK, StoreTypes, PageTypes
<1>11. GenerationOK' /\ WritingOK' /\ StartOK'
  BY <1>2, <1>9 DEF IInv, GenerationOK, WritingOK, StartOK, Live
<1>12. ClearedStaysCleared'
  BY <1>2, <1>3, <1>4, <1>6 DEF IInv, ClearedStaysCleared
<1>13. WorkerOK' /\ ExpectOK'
  BY <1>2 DEF IInv, WorkerOK, ExpectOK, Live, IsCurrent
<1>14. OrphanOK'
  <2>1. SUFFICES ASSUME generation = cleared, marked \/ cleared > 0,
                        NEW t \in Tasks, store'[t].status \in Unfinished
                 PROVE  \/ context[t] # NoContext
                        \/ \E i \in DOMAIN persisting :
                             persisting[i].task = t /\ persisting[i].generation = generation
    BY <1>2, <1>9 DEF OrphanOK
  <2>2. CASE t = s.task
    <3>1. s.generation = generation
      BY <1>1, <1>4, <1>8, <2>1
      DEF IInv, GenerationOK, TypeOK, StoreTypes, PageTypes, RequestType
    <3> QED
      BY <1>1, <1>8, <2>2, <3>1
  <2>3. CASE t # s.task
    BY <1>6, <2>1, <2>3 DEF IInv, OrphanOK
  <2> QED
    BY <2>2, <2>3
<1>15. LastOK'
  <2>1. LastOK
    BY DEF IInv
  <2>2. \A t : Requested(t)' <=> Requested(t)
    BY <1>9 DEF Requested
  <2>3. Requested(s.task)
    BY <1>1, <1>8 DEF Requested
  <2>4. \A t \in Tasks : \/ store'[t] = NoRecord
                         \/ Requested(t)
                         \/ expected[t] \in {"any", store'[t].status}
    BY <1>6, <2>1, <2>3 DEF LastOK
  <2> QED
    BY <1>2, <1>9, <2>1, <2>2, <2>4 DEF LastOK
<1>16. WrittenOK'
  BY <1>1, <1>3, <1>6, <1>8, <1>9 DEF WrittenOK
<1> QED
  BY <1>9, <1>10, <1>11, <1>12, <1>13, <1>14, <1>15, <1>16 DEF IInv

-----------------------------------------------------------------------------
(* The store's other operations.                                           *)

LEMMA ClearRemovesKeeps == IInv /\ ClearRemoves => IInv'
<1> SUFFICES ASSUME IInv, ClearRemoves PROVE IInv'
  OBVIOUS
<1>1. /\ queue # <<>> /\ queue[1].kind = "clear" /\ queue[1] \in OperationType
      /\ queue' = Tail(queue) /\ 1 \in DOMAIN queue
  BY Waiting DEF ClearRemoves, Serving
<1>2. /\ store' = [t \in Tasks |-> NoRecord] /\ clearing' = FALSE
      /\ clear' = [clear EXCEPT !.outcome = "removed"] /\ cleared' = queue[1].generation
      /\ UNCHANGED <<generation, persisting, active, context, worker, barrierFailed, marked,
                     expected, incidents>>
  BY <1>1, Waiting DEF ClearRemoves, pageVars
<1>3. QueueOK' /\ SaveOK' /\ queue' \in Seq(OperationType)
  BY <1>1, <1>2, QueueMovesOn
<1>4. \A i \in DOMAIN queue' :
        /\ i + 1 \in DOMAIN queue /\ queue'[i] = queue[i + 1]
        /\ queue'[i].stage = "queued" /\ queue'[i].kind # "mark"
  BY <1>1, Waiting
<1>5. cleared' \in Nat /\ cleared' <= generation
  BY <1>1, <1>2 DEF OperationType, IInv, GenerationOK
<1>6. NoRecord \in RecordType /\ NoRecord.status = "none"
  BY DEF NoRecord, RecordType
<1>7. TypeOK'
  BY <1>2, <1>3, <1>5, <1>6 DEF IInv, TypeOK, StoreTypes, PageTypes
<1>8. GenerationOK'
  BY <1>2, <1>4, <1>5 DEF IInv, GenerationOK
<1>9. WritingOK'
  BY <1>4 DEF WritingOK
<1>10. StartOK' /\ WorkerOK'
  <2>1. clear'.task = clear.task
    BY <1>2 DEF IInv, TypeOK, PageTypes
  <2> QED
    BY <1>2, <2>1 DEF IInv, StartOK, WorkerOK, Live
<1>11. ExpectOK'
  BY <1>2 DEF IInv, ExpectOK, Live, IsCurrent
<1>12. ClearedStaysCleared' /\ OrphanOK' /\ LastOK' /\ WrittenOK'
  <2>1. \A t \in Tasks : store'[t] = NoRecord
    BY <1>2
  <2>2. ClearedStaysCleared' /\ OrphanOK'
    BY <1>6, <2>1 DEF ClearedStaysCleared, OrphanOK, Unfinished
  <2>3. LastOK'
    BY <1>2, <2>1 DEF IInv, LastOK, Requested
  <2>4. persisting # <<>> => persisting[1].task \in Tasks
    BY Behind DEF RequestType
  <2>5. WrittenOK'
    BY <1>2, <1>4, <2>1, <2>4 DEF WrittenOK
  <2> QED
    BY <2>2, <2>3, <2>5
<1> QED
  BY <1>3, <1>7, <1>8, <1>9, <1>10, <1>11, <1>12 DEF IInv

LEMMA ClearCannotRemoveKeeps == IInv /\ ClearCannotRemove => IInv'
<1> SUFFICES ASSUME IInv, ClearCannotRemove PROVE IInv'
  OBVIOUS
<1>1. /\ queue # <<>> /\ queue[1].kind = "clear" /\ queue' = Tail(queue)
  BY Waiting DEF ClearCannotRemove, Serving
<1>2. /\ clearing' = FALSE /\ clear' = [clear EXCEPT !.outcome = "failed"]
      /\ incidents' \in Nat
      /\ UNCHANGED <<store, generation, persisting, active, context, worker, barrierFailed,
                     marked, cleared, expected>>
  BY DEF ClearCannotRemove, pageVars, historyVars, Incident, IInv, TypeOK, PageTypes
<1>3. QueueOK' /\ SaveOK' /\ queue' \in Seq(OperationType)
  BY <1>1, <1>2, QueueMovesOn
<1>4. \A i \in DOMAIN queue' :
        /\ i + 1 \in DOMAIN queue /\ queue'[i] = queue[i + 1]
        /\ queue'[i].stage = "queued" /\ queue'[i].kind # "mark"
  BY <1>1, Waiting
<1>5. TypeOK'
  BY <1>2, <1>3 DEF IInv, TypeOK, StoreTypes, PageTypes
<1>6. GenerationOK' /\ WritingOK'
  BY <1>2, <1>4 DEF IInv, GenerationOK, WritingOK
<1>7. StartOK' /\ WorkerOK'
  <2>1. clear'.task = clear.task
    BY <1>2 DEF IInv, TypeOK, PageTypes
  <2> QED
    BY <1>2, <2>1 DEF IInv, StartOK, WorkerOK, Live
<1>8. ExpectOK'
  BY <1>2 DEF IInv, ExpectOK, Live, IsCurrent
<1>9. ClearedStaysCleared' /\ OrphanOK' /\ LastOK' /\ WrittenOK'
  BY <1>2, <1>4
  DEF IInv, ClearedStaysCleared, OrphanOK, LastOK, WrittenOK, Requested
<1> QED
  BY <1>3, <1>5, <1>6, <1>7, <1>8, <1>9 DEF IInv

LEMMA DiscardRemovesKeeps == IInv /\ DiscardRemoves => IInv'
<1> SUFFICES ASSUME IInv, DiscardRemoves PROVE IInv'
  OBVIOUS
<1> DEFINE d == queue[1].task
<1>1. /\ queue # <<>> /\ queue[1].kind = "discard" /\ queue' = Tail(queue)
      /\ 1 \in DOMAIN queue
  BY Waiting DEF DiscardRemoves, Serving
<1>2. /\ store' = [store EXCEPT ![d] = NoRecord]
      /\ UNCHANGED <<generation, clearing, persisting, active, context, worker, clear,
                     barrierFailed, marked, cleared, expected, incidents>>
  BY <1>1, Waiting DEF DiscardRemoves, pageVars, clearVars, historyVars
<1>3. QueueOK' /\ SaveOK' /\ queue' \in Seq(OperationType)
  BY <1>1, <1>2, QueueMovesOn
<1>4. \A i \in DOMAIN queue' :
        /\ i + 1 \in DOMAIN queue /\ queue'[i] = queue[i + 1]
        /\ queue'[i].stage = "queued" /\ queue'[i].kind # "mark"
  BY <1>1, Waiting
<1>5. d \in Tasks /\ store \in [Tasks -> RecordType]
  BY <1>1 DEF IInv, QueueOK, TypeOK, StoreTypes
<1>6. NoRecord \in RecordType /\ NoRecord.status = "none"
  BY DEF NoRecord, RecordType
<1>7. store' \in [Tasks -> RecordType]
      /\ \A t \in Tasks : store'[t] = store[t] \/ store'[t] = NoRecord
  BY <1>2, <1>5, <1>6
<1>8. TypeOK'
  BY <1>2, <1>3, <1>7 DEF IInv, TypeOK, StoreTypes, PageTypes
<1>9. GenerationOK' /\ WritingOK'
  BY <1>2, <1>4 DEF IInv, GenerationOK, WritingOK
<1>10. StartOK' /\ WorkerOK' /\ ExpectOK'
  BY <1>2 DEF IInv, StartOK, WorkerOK, ExpectOK, Live, IsCurrent
<1>11. ClearedStaysCleared' /\ OrphanOK'
  BY <1>2, <1>6, <1>7 DEF IInv, ClearedStaysCleared, OrphanOK, Unfinished
<1>12. LastOK'
  BY <1>2, <1>7 DEF IInv, LastOK, Requested
<1>13. WrittenOK'
  <2>1. persisting # <<>> => persisting[1].task \in Tasks
    BY Behind DEF RequestType
  <2> QED
    BY <1>2, <1>4, <1>7, <2>1 DEF IInv, WrittenOK
<1> QED
  BY <1>3, <1>8, <1>9, <1>10, <1>11, <1>12, <1>13 DEF IInv

LEMMA MarkWritesKeeps == ASSUME NEW t \in Tasks PROVE IInv /\ MarkWrites(t) => IInv'
<1> SUFFICES ASSUME IInv, MarkWrites(t) PROVE IInv'
  OBVIOUS
<1>1. /\ queue # <<>> /\ queue[1].kind = "mark" /\ 1 \in DOMAIN queue
  BY Waiting DEF MarkWrites, Serving
<1>2. /\ store' = [store EXCEPT ![t].status = "interrupted"]
      /\ store[t].status \in Unfinished
      /\ UNCHANGED <<queue, generation, clearing, persisting, active, context, worker, clear,
                     barrierFailed, marked, cleared, expected, incidents>>
  BY DEF MarkWrites, pageVars, clearVars, historyVars, Interrupted
<1>3. store \in [Tasks -> RecordType]
  BY DEF IInv, TypeOK, StoreTypes
<1>4. /\ store' \in [Tasks -> RecordType]
      /\ \A u \in Tasks \ {t} : store'[u] = store[u]
      /\ store'[t].status = "interrupted" /\ store'[t].generation = store[t].generation
      /\ store[t] # NoRecord
  BY <1>2, <1>3 DEF RecordType, Unfinished, NoRecord
<1>5. \A u \in Tasks : store[u] = NoRecord \/ expected[u] = "any"
  BY <1>1 DEF IInv, WrittenOK
<1>6. persisting # <<>> => persisting[1].stage # "estimating" /\ persisting[1].task \in Tasks
  BY <1>1, Behind DEF IInv, WrittenOK, RequestType
<1>7. TypeOK'
  BY <1>2, <1>4 DEF IInv, TypeOK, StoreTypes, PageTypes
<1>8. QueueOK' /\ SaveOK' /\ GenerationOK' /\ WritingOK'
  BY <1>2 DEF IInv, QueueOK, SaveOK, GenerationOK, WritingOK
<1>9. StartOK' /\ WorkerOK' /\ ExpectOK'
  BY <1>2 DEF IInv, StartOK, WorkerOK, ExpectOK, Live, IsCurrent
<1>10. ClearedStaysCleared' /\ OrphanOK'
  BY <1>2, <1>4 DEF IInv, ClearedStaysCleared, OrphanOK, Unfinished
<1>11. LastOK'
  BY <1>2, <1>4, <1>5 DEF IInv, LastOK, Requested
<1>12. WrittenOK'
  BY <1>2, <1>4, <1>5, <1>6 DEF WrittenOK
<1> QED
  BY <1>7, <1>8, <1>9, <1>10, <1>11, <1>12 DEF IInv

LEMMA MarkEndsKeeps == IInv /\ MarkEnds => IInv'
<1> SUFFICES ASSUME IInv, MarkEnds PROVE IInv'
  OBVIOUS
<1>1. /\ queue # <<>> /\ queue[1].kind = "mark" /\ queue' = Tail(queue)
  BY Waiting DEF MarkEnds, Serving
<1>2. /\ marked' = (Interrupted = {}) /\ incidents' \in Nat
      /\ UNCHANGED <<store, generation, clearing, persisting, active, context, worker, clear,
                     barrierFailed, cleared, expected>>
  BY DEF MarkEnds, pageVars, clearVars, Incident, IInv, TypeOK, PageTypes
<1>3. QueueOK' /\ SaveOK' /\ queue' \in Seq(OperationType)
  BY <1>1, <1>2, QueueMovesOn
<1>4. \A i \in DOMAIN queue' :
        /\ i + 1 \in DOMAIN queue /\ queue'[i] = queue[i + 1]
        /\ queue'[i].stage = "queued" /\ queue'[i].kind # "mark"
  BY <1>1, Waiting
<1>5. TypeOK'
  BY <1>2, <1>3 DEF IInv, TypeOK, StoreTypes, PageTypes
<1>6. GenerationOK' /\ WritingOK'
  BY <1>2, <1>4 DEF IInv, GenerationOK, WritingOK
<1>7. StartOK' /\ WorkerOK' /\ ExpectOK'
  BY <1>2 DEF IInv, StartOK, WorkerOK, ExpectOK, Live, IsCurrent
<1>8. ClearedStaysCleared' /\ LastOK' /\ WrittenOK'
  BY <1>2, <1>4 DEF IInv, ClearedStaysCleared, LastOK, WrittenOK, Requested
<1>9. OrphanOK'
  BY <1>2 DEF IInv, OrphanOK, Interrupted
<1> QED
  BY <1>3, <1>5, <1>6, <1>7, <1>8, <1>9 DEF IInv
-----------------------------------------------------------------------------
(* Steps of a worker.                                                      *)

LEMMA WorkerMoves ==
  ASSUME IInv, NEW t \in Tasks, Live(t), NEW w \in WorkerType,
         w.state \in {"loading", "running", "ended", "crashed"},
         worker' = [worker EXCEPT ![t] = w],
         UNCHANGED <<storeVars, persisting, active, context, clearVars, historyVars>>,
         incidents' \in Nat
  PROVE  IInv'
<1>1. UNCHANGED <<store, queue, generation, clearing, persisting, active, context, clear,
                  barrierFailed, marked, cleared, expected>>
  BY DEF storeVars, clearVars, historyVars
<1>2. worker \in [Tasks -> WorkerType]
  BY DEF IInv, TypeOK, PageTypes
<1>3. TypeOK'
  BY <1>1, <1>2 DEF IInv, TypeOK, StoreTypes, PageTypes
<1>4. WorkerOK'
  BY <1>1, <1>2 DEF IInv, WorkerOK, Live
<1>5. QueueOK' /\ SaveOK' /\ GenerationOK' /\ WritingOK' /\ StartOK'
  BY <1>1 DEF IInv, QueueOK, SaveOK, GenerationOK, WritingOK, StartOK, Live
<1>6. ClearedStaysCleared' /\ OrphanOK' /\ ExpectOK' /\ LastOK' /\ WrittenOK'
  BY <1>1
  DEF IInv, ClearedStaysCleared, OrphanOK, ExpectOK, LastOK, WrittenOK, Live, IsCurrent,
      Requested
<1> QED
  BY <1>3, <1>4, <1>5, <1>6 DEF IInv

LEMMA Counted ==
  ASSUME IInv, Incident \/ UNCHANGED incidents
  PROVE  incidents' \in Nat
BY DEF Incident, IInv, TypeOK, PageTypes

\* The worker of a task, which is listened to while there is any.
LEMMA Working ==
  ASSUME IInv, NEW t \in Tasks
  PROVE  /\ worker[t] \in WorkerType
         /\ worker[t].state \in {"loading", "running", "ended", "crashed"} => Live(t)
         /\ worker[t].inbox # <<>> \/ worker[t].outbox # <<>> =>
              Live(t) /\ worker[t].state \in {"loading", "running", "ended", "crashed"}
BY DEF IInv, TypeOK, PageTypes, WorkerOK

LEMMA Posted ==
  ASSUME NEW w \in WorkerType, NEW m \in MessageType
  PROVE  Post(w, m) \in WorkerType /\ Post(w, m).state = w.state
<1>1. w.outbox \in Seq(MessageType)
  BY DEF WorkerType
<1>2. Append(w.outbox, m) \in Seq(MessageType)
  BY <1>1
<1> QED
  BY <1>2 DEF Post, WorkerType

LEMMA Messages ==
  ASSUME NEW type \in {"state", "progress", "result", "error", "crash", "stale"},
         NEW status \in Spoken
  PROVE  Message(type, status) \in MessageType
BY DEF Message, MessageType

LEMMA GoneOver ==
  ASSUME NEW w \in WorkerType, NEW s \in {"ended", "crashed"}
  PROVE  Over(w, s) \in WorkerType /\ Over(w, s).state = s
BY DEF Over, WorkerType

LEMMA Applied ==
  ASSUME NEW w \in WorkerType, NEW command \in Commands
  PROVE  Apply(w, command) \in WorkerType /\ Apply(w, command).state = w.state
<1>1. ApplyCancel(w) \in WorkerType /\ ApplyCancel(w).state = w.state
  BY DEF ApplyCancel, WorkerType
<1> DEFINE p == [w EXCEPT !.paused = TRUE]
           r == [w EXCEPT !.paused = FALSE]
<1>2. p \in WorkerType /\ p.state = w.state /\ r \in WorkerType /\ r.state = w.state
  BY DEF WorkerType
<1>3. Message("state", "paused") \in MessageType /\ Message("state", "running") \in MessageType
  BY Messages DEF Spoken
<1>4. /\ Post(p, Message("state", "paused")) \in WorkerType
      /\ Post(p, Message("state", "paused")).state = w.state
      /\ Post(r, Message("state", "running")) \in WorkerType
      /\ Post(r, Message("state", "running")).state = w.state
  <2> HIDE DEF p, r
  <2> QED
    BY <1>2, <1>3, Posted
<1> QED
  BY <1>1, <1>4 DEF Apply

LEMMA WorkerReceivesKeeps == ASSUME NEW t \in Tasks PROVE IInv /\ WorkerReceives(t) => IInv'
<1> SUFFICES ASSUME IInv, WorkerReceives(t) PROVE IInv'
  OBVIOUS
<1> DEFINE w == worker[t]
           rest == [w EXCEPT !.inbox = Tail(@)]
           loaded == [rest EXCEPT !.state = "running"]
<1>1. /\ w \in WorkerType /\ Live(t) /\ w.inbox # <<>>
      /\ w.state \in {"loading", "running", "ended"}
  BY Working DEF WorkerReceives
<1>2. Tail(w.inbox) \in Seq(Commands) /\ Head(w.inbox) \in Commands
  BY <1>1 DEF WorkerType
<1>3. rest \in WorkerType /\ rest.state = w.state
  BY <1>1, <1>2 DEF WorkerType
<1>4. loaded \in WorkerType /\ loaded.state = "running"
  <2> HIDE DEF rest
  <2> QED
    BY <1>3 DEF WorkerType
<1>5. Message("state", "running") \in MessageType /\ Message("stale", "failed") \in MessageType
  BY Messages DEF Spoken, Ended
<1>6. /\ w.state = "loading" =>
           worker' = [worker EXCEPT ![t] = Post(loaded, Message("state", "running"))]
      /\ w.state = "running" => worker' = [worker EXCEPT ![t] = Apply(rest, Head(w.inbox))]
      /\ w.state = "ended" =>
           worker' = [worker EXCEPT ![t] = Post(rest, Message("stale", "failed"))]
  BY DEF WorkerReceives
<1>7. /\ UNCHANGED <<storeVars, persisting, active, context, clearVars, historyVars>>
      /\ incidents' \in Nat
  BY Counted DEF WorkerReceives
<1> HIDE DEF w, rest, loaded
<1>8. CASE w.state = "loading"
  <2> DEFINE n == Post(loaded, Message("state", "running"))
  <2>1. n \in WorkerType /\ n.state = "running" /\ worker' = [worker EXCEPT ![t] = n]
    BY <1>4, <1>5, <1>6, <1>8, Posted
  <2> HIDE DEF n
  <2> QED
    BY <1>1, <1>7, <2>1, WorkerMoves
<1>9. CASE w.state = "running"
  <2> DEFINE n == Apply(rest, Head(w.inbox))
  <2>1. n \in WorkerType /\ n.state = "running" /\ worker' = [worker EXCEPT ![t] = n]
    BY <1>2, <1>3, <1>6, <1>9, Applied
  <2> HIDE DEF n
  <2> QED
    BY <1>1, <1>7, <2>1, WorkerMoves
<1>10. CASE w.state = "ended"
  <2> DEFINE n == Post(rest, Message("stale", "failed"))
  <2>1. n \in WorkerType /\ n.state = "ended" /\ worker' = [worker EXCEPT ![t] = n]
    BY <1>3, <1>5, <1>6, <1>10, Posted
  <2> HIDE DEF n
  <2> QED
    BY <1>1, <1>7, <2>1, WorkerMoves
<1> QED
  BY <1>1, <1>8, <1>9, <1>10

LEMMA WorkerReadsKeeps == ASSUME NEW t \in Tasks PROVE IInv /\ WorkerReads(t) => IInv'
<1> SUFFICES ASSUME IInv, WorkerReads(t) PROVE IInv'
  OBVIOUS
<1> DEFINE w == worker[t]
           read == [w EXCEPT !.slice = @ + 1]
           next == IF w.slice = 0 THEN read ELSE Post(read, Message("progress", "running"))
           last == Post(Over(next, "ended"), Message("result", "completed"))
<1>1. w \in WorkerType /\ w.state = "running" /\ Live(t)
  BY Working DEF WorkerReads
<1>2. read \in WorkerType /\ read.state = "running"
  BY <1>1 DEF WorkerType
<1>3. Message("progress", "running") \in MessageType
      /\ Message("result", "completed") \in MessageType
  BY Messages DEF Spoken, Ended
<1>4. next \in WorkerType /\ next.state = "running"
  <2> HIDE DEF read
  <2> QED
    BY <1>2, <1>3, Posted
<1>5. last \in WorkerType /\ last.state = "ended"
  <2> HIDE DEF next
  <2>1. Over(next, "ended") \in WorkerType /\ Over(next, "ended").state = "ended"
    BY <1>4, GoneOver
  <2> QED
    BY <1>3, <2>1, Posted
<1>6. worker' = [worker EXCEPT ![t] = next] \/ worker' = [worker EXCEPT ![t] = last]
  BY DEF WorkerReads
<1>7. /\ UNCHANGED <<storeVars, persisting, active, context, clearVars, historyVars>>
      /\ incidents' \in Nat
  BY Counted DEF WorkerReads
<1> HIDE DEF next, last
<1> QED
  BY <1>1, <1>4, <1>5, <1>6, <1>7, WorkerMoves

LEMMA WorkerThrowsKeeps ==
  ASSUME IInv, NEW t \in Tasks, NEW status \in Spoken, WorkerThrows(t, status),
         worker[t].state = "running", incidents' \in Nat
  PROVE  IInv'
<1> DEFINE n == Post(Over(worker[t], "ended"), Message("error", status))
<1>1. worker[t] \in WorkerType /\ Live(t)
  BY Working
<1>2. Over(worker[t], "ended") \in WorkerType /\ Over(worker[t], "ended").state = "ended"
  BY <1>1, GoneOver
<1>3. n \in WorkerType /\ n.state = "ended"
  BY <1>2, Messages, Posted
<1>4. worker' = [worker EXCEPT ![t] = n]
  BY DEF WorkerThrows
<1>5. UNCHANGED <<storeVars, persisting, active, context, clearVars, historyVars>>
  BY DEF WorkerThrows
<1> HIDE DEF n
<1> QED
  BY <1>1, <1>3, <1>4, <1>5, WorkerMoves

LEMMA WorkerEndsKeeps ==
  ASSUME NEW t \in Tasks
  PROVE  IInv /\ (WorkerStops(t) \/ WorkerFails(t)) => IInv'
<1>1. ASSUME IInv, WorkerStops(t) PROVE IInv'
  <2>1. worker[t].state = "running" /\ WorkerThrows(t, "cancelled") /\ incidents' \in Nat
    BY <1>1, Counted DEF WorkerStops
  <2>2. "cancelled" \in Spoken
    BY DEF Spoken, Ended
  <2> QED
    BY <1>1, <2>1, <2>2, WorkerThrowsKeeps
<1>2. ASSUME IInv, WorkerFails(t) PROVE IInv'
  <2> DEFINE status == IF worker[t].cancelled THEN "cancelled" ELSE "failed"
  <2>1. worker[t].state = "running" /\ WorkerThrows(t, status) /\ incidents' \in Nat
    BY <1>2, Counted DEF WorkerFails
  <2>2. status \in Spoken
    BY DEF Spoken, Ended
  <2> HIDE DEF status
  <2> QED
    BY <1>2, <2>1, <2>2, WorkerThrowsKeeps
<1> QED
  BY <1>1, <1>2

LEMMA WorkerCrashesKeeps == ASSUME NEW t \in Tasks PROVE IInv /\ WorkerCrashes(t) => IInv'
<1> SUFFICES ASSUME IInv, WorkerCrashes(t) PROVE IInv'
  OBVIOUS
<1> DEFINE o == Over(worker[t], "crashed")
           e == [o EXCEPT !.inbox = <<>>]
           n == Post(e, Message("crash", "failed"))
<1>1. worker[t] \in WorkerType /\ Live(t)
  BY Working DEF WorkerCrashes
<1>2. o \in WorkerType /\ o.state = "crashed"
  BY <1>1, GoneOver
<1>3. e \in WorkerType /\ e.state = "crashed"
  <2> HIDE DEF o
  <2>1. <<>> \in Seq(Commands)
    OBVIOUS
  <2> QED
    BY <1>2, <2>1 DEF WorkerType
<1>4. n \in WorkerType /\ n.state = "crashed"
  <2>1. Message("crash", "failed") \in MessageType
    BY Messages DEF Spoken, Ended
  <2> HIDE DEF e
  <2> QED
    BY <1>3, <2>1, Posted
<1>5. worker' = [worker EXCEPT ![t] = n]
  BY DEF WorkerCrashes
<1>6. /\ UNCHANGED <<storeVars, persisting, active, context, clearVars, historyVars>>
      /\ incidents' \in Nat
  BY Counted DEF WorkerCrashes
<1> HIDE DEF n
<1> QED
  BY <1>1, <1>4, <1>5, <1>6, WorkerMoves

LEMMA ControlKeeps ==
  ASSUME NEW command \in {"pause", "resume", "cancel"}
  PROVE  IInv /\ Control(command) => IInv'
<1> SUFFICES ASSUME IInv, Control(command) PROVE IInv'
  OBVIOUS
<1> DEFINE w == worker[active]
           n == [w EXCEPT !.inbox = Append(@, command)]
<1>1. active \in Tasks /\ Live(active)
  BY DEF Control, IInv, StartOK, TypeOK, PageTypes
<1>2. w \in WorkerType /\ w.state \in {"loading", "running", "ended", "crashed"}
  BY <1>1, Working DEF IInv, WorkerOK
<1>3. n \in WorkerType /\ n.state = w.state
  <2>1. Append(w.inbox, command) \in Seq(Commands)
    BY <1>2 DEF WorkerType, Commands
  <2> QED
    BY <1>2, <2>1 DEF WorkerType
<1>4. worker' = [worker EXCEPT ![active] = n]
  BY DEF Control
<1>5. /\ UNCHANGED <<storeVars, persisting, active, context, clearVars, historyVars>>
      /\ incidents' \in Nat
  BY Counted DEF Control
<1> HIDE DEF w, n
<1> QED
  BY <1>1, <1>2, <1>3, <1>4, <1>5, WorkerMoves
-----------------------------------------------------------------------------
(* Steps of the page that may ask for one more record.                     *)

NewRequests == DOMAIN persisting' \ DOMAIN persisting

\* The page's queue, with at most one request more.
Longer ==
  /\ persisting' \in Seq(RequestType)
  /\ \A i \in DOMAIN persisting : i \in DOMAIN persisting' /\ persisting'[i] = persisting[i]
  /\ \A i \in NewRequests :
       /\ persisting'[i].stage = "queued" /\ persisting'[i] \in RequestType
       /\ \A j \in DOMAIN persisting : j < i
       /\ \A j \in NewRequests : i = j
  /\ persisting # <<>> => persisting' # <<>> /\ persisting'[1] = persisting[1]
  /\ persisting = <<>> /\ persisting' # <<>> => 1 \in NewRequests

LEMMA LongerByOne ==
  ASSUME IInv, NEW r \in RequestType, r.stage = "queued", persisting' = Append(persisting, r)
  PROVE  Longer /\ (\A i \in NewRequests : persisting'[i] = r) /\ NewRequests # {}
<1>1. persisting \in Seq(RequestType)
  BY DEF IInv, TypeOK, StoreTypes
<1> DEFINE n == Len(persisting)
<1>2. /\ persisting' \in Seq(RequestType) /\ persisting' # <<>>
      /\ n \in Nat /\ DOMAIN persisting = 1..n /\ DOMAIN persisting' = 1..(n + 1)
      /\ \A i \in 1..n : persisting'[i] = persisting[i]
      /\ persisting'[n + 1] = r
      /\ persisting = <<>> => n = 0
      /\ persisting # <<>> => n # 0
  BY <1>1, Appended
<1>3. NewRequests = {n + 1}
  BY <1>2 DEF NewRequests
<1> HIDE DEF n
<1> QED
  BY <1>2, <1>3 DEF Longer

LEMMA LongerByNone ==
  ASSUME IInv, persisting' = persisting
  PROVE  Longer /\ NewRequests = {}
BY DEF Longer, NewRequests, IInv, TypeOK, StoreTypes

LEMMA LongerQueues ==
  ASSUME IInv, Longer, queue' = queue
  PROVE  /\ QueueOK' /\ SaveOK'
         /\ \A i \in DOMAIN persisting' : i \in DOMAIN persisting \/ i \in NewRequests
         /\ persisting' # <<>> /\ persisting'[1].stage = "estimating" =>
              persisting # <<>> /\ persisting'[1] = persisting[1]
<1>1. \A i \in DOMAIN persisting' : i \in DOMAIN persisting \/ i \in NewRequests
  BY DEF NewRequests
<1>2. QueueOK'
  BY <1>1 DEF IInv, QueueOK, Longer
<1>3. SaveOK'
  BY DEF IInv, SaveOK, Longer
<1>4. persisting' # <<>> /\ persisting'[1].stage = "estimating" =>
        persisting # <<>> /\ persisting'[1] = persisting[1]
  BY DEF Longer
<1> QED
  BY <1>1, <1>2, <1>3, <1>4

LEMMA StartClickKeeps == ASSUME NEW t \in Tasks PROVE IInv /\ StartClick(t) => IInv'
<1> SUFFICES ASSUME IInv, StartClick(t) PROVE IInv'
  OBVIOUS
<1> DEFINE r == Persist(t, "running", generation, TRUE)
<1>1. UNCHANGED <<store, queue, generation, clearing, active, context, worker, clear,
                  barrierFailed, marked, cleared, expected, incidents>>
  BY DEF StartClick, storeVars, pageVars, clearVars, historyVars
<1>2. /\ context[t] = NoContext
      /\ \A i \in DOMAIN persisting : persisting[i].task # t
  BY DEF StartClick, Fresh
<1>3. /\ r \in RequestType /\ r.stage = "queued" /\ r.task = t /\ r.status = "running"
      /\ r.generation = generation /\ r.starts
  BY DEF Persist, RequestType, Spoken, IInv, TypeOK, StoreTypes
<1>4. persisting' = Append(persisting, r)
  BY DEF StartClick
<1> HIDE DEF r
<1>5. /\ Longer /\ QueueOK' /\ SaveOK'
      /\ \A i \in NewRequests : persisting'[i] = r
      /\ \A i \in DOMAIN persisting' : i \in DOMAIN persisting \/ i \in NewRequests
      /\ persisting' # <<>> /\ persisting'[1].stage = "estimating" =>
           persisting # <<>> /\ persisting'[1] = persisting[1]
  BY <1>1, <1>3, <1>4, LongerByOne, LongerQueues
<1>6. TypeOK'
  BY <1>1, <1>5 DEF IInv, TypeOK, StoreTypes, PageTypes, Longer
<1>7. GenerationOK' /\ WritingOK'
  <2>1. \A i \in DOMAIN persisting' : persisting'[i].generation <= generation
    <3>1. generation \in Nat
      BY DEF IInv, TypeOK, StoreTypes
    <3> QED
      BY <1>3, <1>5, <3>1 DEF IInv, GenerationOK, Longer
  <2> QED
    BY <1>1, <2>1 DEF IInv, GenerationOK, WritingOK
<1>8. StartOK'
  <2>1. ASSUME NEW i \in DOMAIN persisting'
        PROVE  IF persisting'[i].starts
               THEN /\ context[persisting'[i].task] = NoContext
                    /\ persisting'[i].status = "running"
                    /\ \A j \in DOMAIN persisting' :
                         persisting'[j].task = persisting'[i].task => i = j
               ELSE /\ context[persisting'[i].task] # NoContext
                    /\ context[persisting'[i].task].generation = persisting'[i].generation
    <3>1. CASE i \in NewRequests
      BY <1>2, <1>3, <1>5, <3>1 DEF Longer
    <3>2. CASE i \in DOMAIN persisting
      <4>1. persisting'[i] = persisting[i] /\ persisting[i].task # t
        BY <1>2, <1>5, <3>2 DEF Longer
      <4>2. IF persisting[i].starts
            THEN /\ context[persisting[i].task] = NoContext
                 /\ persisting[i].status = "running"
                 /\ \A j \in DOMAIN persisting : persisting[j].task = persisting[i].task => i = j
            ELSE /\ context[persisting[i].task] # NoContext
                 /\ context[persisting[i].task].generation = persisting[i].generation
        BY <3>2 DEF IInv, StartOK
      <4>3. \A j \in DOMAIN persisting' :
              persisting'[j].task = persisting[i].task =>
                j \in DOMAIN persisting /\ persisting'[j] = persisting[j]
        BY <1>3, <1>5, <4>1 DEF Longer
      <4> QED
        BY <4>1, <4>2, <4>3
    <3> QED
      BY <1>5, <3>1, <3>2
  <2> QED
    BY <1>1, <2>1 DEF IInv, StartOK, Live
<1>9. ClearedStaysCleared' /\ WorkerOK' /\ ExpectOK'
  BY <1>1 DEF IInv, ClearedStaysCleared, WorkerOK, ExpectOK, Live, IsCurrent
<1>10. OrphanOK'
  BY <1>1, <1>5 DEF IInv, OrphanOK, Longer
<1>11. LastOK'
  <2>1. \A u \in Tasks : Requested(u) => Requested(u)'
    BY <1>5 DEF Requested, Longer
  <2> QED
    BY <1>1, <1>3, <1>5, <2>1 DEF IInv, LastOK, Longer
<1>12. WrittenOK'
  BY <1>1, <1>3, <1>5 DEF IInv, WrittenOK, Longer
<1> QED
  BY <1>5, <1>6, <1>7, <1>8, <1>9, <1>10, <1>11, <1>12 DEF IInv

\* What the page does with a message of a worker.
LEMMA PageMoves ==
  ASSUME IInv, NEW t \in Tasks, Live(t), Longer,
         \A i \in NewRequests :
           /\ ~persisting'[i].starts
           /\ context[persisting'[i].task] # NoContext
           /\ context[persisting'[i].task].generation = persisting'[i].generation
           /\ expected'[persisting'[i].task] \in {"any", persisting'[i].status},
         UNCHANGED <<store, queue, generation, clearing, clear, barrierFailed, marked, cleared,
                     incidents>>,
         context' \in [Tasks -> ContextType], worker' \in [Tasks -> WorkerType],
         expected' \in [Tasks -> {"none", "any"} \cup Spoken],
         \A u \in Tasks :
           /\ context'[u].generation = context[u].generation
           /\ context'[u].clearing => context[u].clearing
           /\ IF context[u] = NoContext THEN context'[u] = NoContext
                                        ELSE context'[u].status # "none"
           /\ Live(u)' => Live(u),
         \A u \in Tasks \ {t} : worker'[u] = worker[u] /\ (Live(u) => Live(u)'),
         \/ Live(t)' /\ active' = active /\ worker'[t].state = worker[t].state
         \/ /\ ~Live(t)' /\ active' = (IF active = t THEN NoTask ELSE active)
            /\ worker'[t].state = "terminated"
            /\ worker'[t].inbox = <<>> /\ worker'[t].outbox = <<>>,
         \A u \in Tasks :
           /\ expected[u] = "any" => expected'[u] = "any"
           /\ expected[u] # "none" => expected'[u] # "none"
           /\ expected'[u] = expected[u] \/ (\E i \in NewRequests : persisting'[i].task = u)
           /\ Live(u)' /\ active' = u /\ expected'[u] # "any" => context'[u].status = expected'[u]
  PROVE  IInv'
<1>1. /\ QueueOK' /\ SaveOK'
      /\ \A i \in DOMAIN persisting' : i \in DOMAIN persisting \/ i \in NewRequests
      /\ persisting' # <<>> /\ persisting'[1].stage = "estimating" =>
           persisting # <<>> /\ persisting'[1] = persisting[1]
  BY LongerQueues
<1>0. /\ \A i \in DOMAIN persisting : persisting[i].task \in Tasks
      /\ \A i \in DOMAIN persisting' : persisting'[i].task \in Tasks
  <2>1. persisting \in Seq(RequestType) /\ persisting' \in Seq(RequestType)
    BY DEF IInv, TypeOK, StoreTypes, Longer
  <2>2. /\ \A i \in DOMAIN persisting : persisting[i] \in RequestType
        /\ \A i \in DOMAIN persisting' : persisting'[i] \in RequestType
    BY <2>1
  <2> QED
    BY <2>2 DEF RequestType
<1>2. \A u \in Tasks : context'[u] # NoContext <=> context[u] # NoContext
  BY DEF NoContext
<1>3. /\ active' \in {active, NoTask} /\ active' \in Tasks \cup {NoTask}
      /\ active' # NoTask => Live(active)'
  <2>1. active # NoTask => active \in Tasks /\ Live(active)
    BY DEF IInv, StartOK, TypeOK, PageTypes
  <2>2. active' = active \/ active' = NoTask
    OBVIOUS
  <2>3. ASSUME active' = active, active # NoTask PROVE Live(active)'
    <3>1. CASE active = t
      <4>1. Live(t)'
        BY <2>3, <3>1, ConstantsAssumption
      <4> QED
        BY <2>3, <3>1, <4>1 DEF Live
    <3>2. CASE active # t
      <4>1. \A u \in Tasks \ {t} : Live(u) => Live(u)'
        OBVIOUS
      <4> QED
        BY <2>1, <2>3, <3>2, <4>1 DEF Live
    <3> QED
      BY <3>1, <3>2
  <2> QED
    BY <2>1, <2>2, <2>3
<1>4. TypeOK'
  BY <1>3 DEF IInv, TypeOK, StoreTypes, PageTypes, Longer
<1>5. GenerationOK' /\ WritingOK'
  <2>1. \A i \in DOMAIN persisting' : persisting'[i].generation <= generation
    <3>1. ASSUME NEW i \in NewRequests PROVE persisting'[i].generation <= generation
      <4>1. persisting'[i].task \in Tasks
        BY <1>0 DEF NewRequests
      <4> QED
        BY <4>1 DEF IInv, GenerationOK
    <3> QED
      BY <1>1, <3>1 DEF IInv, GenerationOK, Longer
  <2> QED
    BY <2>1 DEF IInv, GenerationOK, WritingOK
<1>6. StartOK'
  <2>1. \A u \in Tasks : context'[u].status = "none" => context'[u] = NoContext
    BY DEF IInv, StartOK
  <2>2. clear.task # NoTask => context'[clear.task] # NoContext
    BY <1>2 DEF IInv, StartOK, TypeOK, PageTypes
  <2>3. ASSUME NEW i \in DOMAIN persisting'
        PROVE  IF persisting'[i].starts
               THEN /\ context'[persisting'[i].task] = NoContext
                    /\ persisting'[i].status = "running"
                    /\ \A j \in DOMAIN persisting' :
                         persisting'[j].task = persisting'[i].task => i = j
               ELSE /\ context'[persisting'[i].task] # NoContext
                    /\ context'[persisting'[i].task].generation = persisting'[i].generation
    <3>1. persisting'[i].task \in Tasks
      BY <1>0
    <3>2. CASE i \in NewRequests
      <4>1. /\ ~persisting'[i].starts
            /\ context[persisting'[i].task] # NoContext
            /\ context[persisting'[i].task].generation = persisting'[i].generation
        BY <3>2
      <4>2. /\ context'[persisting'[i].task] # NoContext
            /\ context'[persisting'[i].task].generation = persisting'[i].generation
        BY <1>2, <3>1, <4>1
      <4> QED
        BY <4>1, <4>2
    <3>3. CASE i \in DOMAIN persisting
      <4>1. persisting'[i] = persisting[i]
        BY <3>3 DEF Longer
      <4>2. IF persisting[i].starts
            THEN /\ context[persisting[i].task] = NoContext
                 /\ persisting[i].status = "running"
                 /\ \A j \in DOMAIN persisting : persisting[j].task = persisting[i].task => i = j
            ELSE /\ context[persisting[i].task] # NoContext
                 /\ context[persisting[i].task].generation = persisting[i].generation
        BY <3>3 DEF IInv, StartOK
      <4>3. ASSUME persisting[i].starts, NEW j \in DOMAIN persisting',
                   persisting'[j].task = persisting[i].task
            PROVE  j \in DOMAIN persisting /\ persisting'[j] = persisting[j]
        <5>1. j \notin NewRequests
          BY <4>2, <4>3
        <5> QED
          BY <1>1, <5>1 DEF Longer
      <4> QED
        BY <1>2, <3>1, <4>1, <4>2, <4>3
    <3> QED
      BY <1>1, <3>2, <3>3
  <2> QED
    BY <1>3, <2>1, <2>2, <2>3 DEF StartOK
<1>7. ClearedStaysCleared'
  BY DEF IInv, ClearedStaysCleared
<1>8. OrphanOK'
  BY <1>2 DEF IInv, OrphanOK, Longer
<1>9. WorkerOK'
  BY DEF IInv, WorkerOK
<1>10. ExpectOK'
  <2>1. ASSUME NEW u \in Tasks
        PROVE  /\ context'[u] # NoContext => expected'[u] # "none"
               /\ context'[u] # NoContext /\ ~IsCurrent(context[u].generation)' =>
                    expected'[u] = "any"
               /\ context'[u].clearing => expected'[u] = "any"
               /\ Live(u)' /\ active' # u => expected'[u] = "any"
    <3>1. /\ context[u] # NoContext => expected[u] # "none"
          /\ context[u] # NoContext /\ ~IsCurrent(context[u].generation) => expected[u] = "any"
          /\ context[u].clearing => expected[u] = "any"
          /\ Live(u) /\ active # u => expected[u] = "any"
      BY DEF IInv, ExpectOK
    <3>2. Live(u)' /\ active' # u => Live(u) /\ active # u
      BY <1>3
    <3>3. IsCurrent(context[u].generation)' <=> IsCurrent(context[u].generation)
      BY DEF IsCurrent
    <3> QED
      BY <1>2, <3>1, <3>2, <3>3
  <2>2. ASSUME NEW u \in Tasks, Live(u)', active' = u, expected'[u] # "any"
        PROVE  /\ context'[u].status = expected'[u]
               /\ \A v \in Tasks \ {u} : ~Live(v)'
    <3>1. Live(u) /\ active = u /\ expected[u] # "any"
      BY <1>3, <2>2, ConstantsAssumption
    <3> QED
      BY <2>2, <3>1 DEF IInv, ExpectOK
  <2> QED
    BY <2>1, <2>2 DEF ExpectOK
<1>11. LastOK'
  <2>1. \A u \in Tasks : Requested(u) => Requested(u)'
    BY DEF Requested, Longer
  <2>2. \A u \in Tasks : (\E i \in NewRequests : persisting'[i].task = u) => Requested(u)'
    BY DEF Requested, NewRequests
  <2>3. ASSUME NEW i \in DOMAIN persisting'
        PROVE  \/ persisting'[i].starts
               \/ expected'[persisting'[i].task] \in {"any", persisting'[i].status}
               \/ \E j \in DOMAIN persisting' :
                    i < j /\ persisting'[j].task = persisting'[i].task
    <3>1. CASE i \in NewRequests
      BY <3>1
    <3>2. CASE i \in DOMAIN persisting
      <4>1. persisting'[i] = persisting[i] /\ persisting[i].task \in Tasks
        BY <1>0, <3>2 DEF Longer
      <4>2. \/ persisting[i].starts
            \/ expected[persisting[i].task] \in {"any", persisting[i].status}
            \/ \E j \in DOMAIN persisting : i < j /\ persisting[j].task = persisting[i].task
        BY <3>2 DEF IInv, LastOK
      <4>3. CASE \E j \in DOMAIN persisting : i < j /\ persisting[j].task = persisting[i].task
        BY <4>1, <4>3 DEF Longer
      <4>4. CASE \E j \in NewRequests : persisting'[j].task = persisting[i].task
        BY <3>2, <4>1, <4>4 DEF Longer, NewRequests
      <4>5. CASE expected'[persisting[i].task] = expected[persisting[i].task]
        BY <4>1, <4>2, <4>3, <4>5
      <4> QED
        BY <4>1, <4>4, <4>5
    <3> QED
      BY <1>1, <3>1, <3>2
  <2>4. \A u \in Tasks :
          store'[u] = NoRecord \/ Requested(u)' \/ expected'[u] \in {"any", store'[u].status}
    BY <2>1, <2>2 DEF IInv, LastOK
  <2> QED
    BY <2>3, <2>4 DEF LastOK
<1>12. WrittenOK'
  <2>1. persisting # <<>> => persisting[1].task \in Tasks
    BY Behind DEF RequestType
  <2> QED
    BY <1>1, <2>1 DEF IInv, WrittenOK, Longer
<1> QED
  BY <1>1, <1>4, <1>5, <1>6, <1>7, <1>8, <1>9, <1>10, <1>11, <1>12 DEF IInv

LEMMA Listening ==
  ASSUME IInv, NEW t \in Tasks, worker[t].outbox # <<>>
  PROVE  /\ Live(t) /\ context[t] # NoContext /\ Head(worker[t].outbox) \in MessageType
         /\ active # NoTask => active \in Tasks /\ Live(active) /\ context[active] # NoContext
         /\ active # t => expected[t] = "any" /\ (active # NoTask => expected[active] = "any")
         /\ Fenced(t) => expected[t] = "any"
         /\ active = t /\ ~Fenced(t) => Updates
         /\ expected[t] # "none"
<1>1. Live(t) /\ worker[t] \in WorkerType
  BY Working
<1>2. \A u \in Tasks : Live(u) => context[u] # NoContext
  BY DEF Live, NoContext
<1>3. active # NoTask => active \in Tasks /\ Live(active)
  BY DEF IInv, StartOK, TypeOK, PageTypes
<1>4. Head(worker[t].outbox) \in MessageType
  <2>1. worker[t].outbox \in Seq(MessageType)
    BY <1>1 DEF WorkerType
  <2> QED
    BY <2>1
<1>5. /\ expected[t] # "none"
      /\ active # t => expected[t] = "any"
      /\ Fenced(t) => expected[t] = "any"
  BY <1>1, <1>2 DEF IInv, ExpectOK, Fenced
<1>6. active # t /\ active # NoTask => expected[active] = "any"
  BY <1>1, <1>3 DEF IInv, ExpectOK
<1>7. active = t /\ ~Fenced(t) => Updates
  BY ConstantsAssumption DEF Updates, Fenced
<1> QED
  BY <1>1, <1>2, <1>3, <1>4, <1>5, <1>6, <1>7

LEMMA Persists ==
  ASSUME IInv, NEW status \in Spoken, persisting' = Persisted(status)
  PROVE  /\ Longer
         /\ \A i \in NewRequests :
              /\ Updates /\ ~persisting'[i].starts /\ persisting'[i].task = active
              /\ persisting'[i].status = status
              /\ persisting'[i].generation = context[active].generation
         /\ Updates => NewRequests # {}
<1>1. CASE Updates
  <2> DEFINE r == Persist(active, status, context[active].generation, FALSE)
  <2>1. active \in Tasks /\ context[active] \in ContextType
    BY <1>1 DEF Updates, IInv, TypeOK, PageTypes
  <2>2. /\ r \in RequestType /\ r.stage = "queued" /\ ~r.starts /\ r.task = active
        /\ r.status = status /\ r.generation = context[active].generation
    BY <2>1 DEF Persist, RequestType, ContextType
  <2>3. persisting' = Append(persisting, r)
    BY <1>1 DEF Persisted
  <2> HIDE DEF r
  <2> QED
    BY <1>1, <2>2, <2>3, LongerByOne
<1>2. CASE ~Updates
  BY <1>2, LongerByNone DEF Persisted
<1> QED
  BY <1>1, <1>2

\* The contexts after updateActiveTask.
LEMMA UpdatedContexts ==
  ASSUME IInv, NEW status \in Spoken
  PROVE  LET c == Updated(status)
         IN /\ c \in [Tasks -> ContextType]
            /\ \A u \in Tasks :
                 /\ c[u].generation = context[u].generation
                 /\ c[u].clearing = context[u].clearing
                 /\ c[u].status \in {context[u].status, status}
                 /\ u # active => c[u] = context[u]
            /\ Updates => c[active].status = status
            /\ ~Updates => c = context
<1>1. context \in [Tasks -> ContextType]
  BY DEF IInv, TypeOK, PageTypes
<1>2. CASE Updates
  <2>1. active \in Tasks
    BY <1>2 DEF Updates, IInv, TypeOK, PageTypes
  <2>2. Updated(status) = [context EXCEPT ![active].status = status]
    BY <1>2 DEF Updated
  <2>3. [context[active] EXCEPT !.status = status] \in ContextType
    BY <1>1, <2>1 DEF ContextType
  <2> QED
    BY <1>1, <1>2, <2>1, <2>2, <2>3 DEF ContextType
<1>3. CASE ~Updates
  BY <1>1, <1>3 DEF Updated
<1> QED
  BY <1>2, <1>3

LEMMA ReceivedMessage ==
  ASSUME IInv, NEW t \in Tasks, worker[t].outbox # <<>>, worker' = Received(t)
  PROVE  /\ worker' \in [Tasks -> WorkerType] /\ worker'[t].state = worker[t].state
         /\ \A u \in Tasks \ {t} : worker'[u] = worker[u]
<1>1. worker \in [Tasks -> WorkerType]
  BY DEF IInv, TypeOK, PageTypes
<1>2. Tail(worker[t].outbox) \in Seq(MessageType)
  <2>1. worker[t].outbox \in Seq(MessageType)
    BY <1>1 DEF WorkerType
  <2> QED
    BY <2>1
<1> DEFINE n == [worker[t] EXCEPT !.outbox = Tail(@)]
<1>3. n \in WorkerType /\ n.state = worker[t].state
  BY <1>1, <1>2 DEF WorkerType
<1>4. worker' = [worker EXCEPT ![t] = n]
  BY DEF Received
<1> HIDE DEF n
<1> QED
  BY <1>1, <1>3, <1>4

LEMMA FinishedTask ==
  ASSUME IInv, NEW t \in Tasks, NEW contexts \in [Tasks -> ContextType], Finish(t, contexts)
  PROVE  /\ worker' \in [Tasks -> WorkerType]
         /\ worker'[t].state = "terminated"
         /\ worker'[t].inbox = <<>> /\ worker'[t].outbox = <<>>
         /\ context' \in [Tasks -> ContextType]
         /\ context'[t].status = "finished" /\ ~context'[t].clearing
         /\ context'[t].generation = contexts[t].generation
         /\ \A u \in Tasks \ {t} : worker'[u] = worker[u] /\ context'[u] = contexts[u]
         /\ active' = IF active = t THEN NoTask ELSE active
<1>1. worker \in [Tasks -> WorkerType]
  BY DEF IInv, TypeOK, PageTypes
<1> DEFINE w == [NoWorker EXCEPT !.state = "terminated"]
           c == Finished(contexts[t])
<1>2. /\ w \in WorkerType /\ w.state = "terminated" /\ w.inbox = <<>> /\ w.outbox = <<>>
  <2>1. <<>> \in Seq(Commands) /\ <<>> \in Seq(MessageType)
    OBVIOUS
  <2> QED
    BY <2>1 DEF NoWorker, WorkerType
<1>3. /\ c \in ContextType /\ c.status = "finished" /\ ~c.clearing
      /\ c.generation = contexts[t].generation
  BY DEF Finished, NoContext, ContextType
<1>4. /\ worker' = [worker EXCEPT ![t] = w] /\ context' = [contexts EXCEPT ![t] = c]
      /\ active' = IF active = t THEN NoTask ELSE active
  BY DEF Finish
<1> HIDE DEF w, c
<1> QED
  BY <1>1, <1>2, <1>3, <1>4

LEMMA HeardOf ==
  ASSUME IInv, NEW t \in Tasks, NEW status \in Spoken, expected' = Heard(t, status)
  PROVE  /\ expected' \in [Tasks -> {"none", "any"} \cup Spoken]
         /\ expected'[t] = IF expected[t] = "any" THEN "any" ELSE status
         /\ \A u \in Tasks \ {t} : expected'[u] = expected[u]
         /\ status # "none" /\ status # "any"
<1>1. expected \in [Tasks -> {"none", "any"} \cup Spoken]
  BY DEF IInv, TypeOK, PageTypes
<1> DEFINE e == IF expected[t] = "any" THEN "any" ELSE status
<1>2. expected' = [expected EXCEPT ![t] = e] /\ e \in {"none", "any"} \cup Spoken
  BY DEF Heard
<1>3. status # "none" /\ status # "any"
  BY DEF Spoken, Ended
<1> HIDE DEF e
<1>4. /\ expected' \in [Tasks -> {"none", "any"} \cup Spoken] /\ expected'[t] = e
      /\ \A u \in Tasks \ {t} : expected'[u] = expected[u]
  BY <1>1, <1>2
<1> QED
  BY <1>3, <1>4 DEF e

\* Nothing else moves.
Still == UNCHANGED <<store, queue, generation, clearing, clear, barrierFailed, marked, cleared,
                     incidents>>

LEMMA HandleFencedKeeps ==
  ASSUME IInv, NEW t \in Tasks, worker[t].outbox # <<>>, NEW message \in MessageType,
         HandleFenced(t, message), Still
  PROVE  IInv'
<1>1. /\ Live(t) /\ context[t] # NoContext
      /\ Longer /\ NewRequests = {} /\ expected' = expected
  BY Listening, LongerByNone DEF HandleFenced
<1>2. /\ context \in [Tasks -> ContextType]
      /\ expected \in [Tasks -> {"none", "any"} \cup Spoken]
  BY DEF IInv, TypeOK, PageTypes
<1>3. \A u \in Tasks : Live(u) /\ active = u /\ expected[u] # "any" =>
                         context[u].status = expected[u]
  BY DEF IInv, ExpectOK
<1>4. CASE message.type = "crash"
  <2>1. Finish(t, context)
    BY <1>4 DEF HandleFenced
  <2>2. /\ worker' \in [Tasks -> WorkerType] /\ context' \in [Tasks -> ContextType]
        /\ worker'[t].state = "terminated"
        /\ worker'[t].inbox = <<>> /\ worker'[t].outbox = <<>>
        /\ context'[t].status = "finished" /\ ~context'[t].clearing
        /\ context'[t].generation = context[t].generation
        /\ \A u \in Tasks \ {t} : worker'[u] = worker[u] /\ context'[u] = context[u]
        /\ active' = IF active = t THEN NoTask ELSE active
    BY <1>2, <2>1, FinishedTask
  <2>3. /\ ~Live(t)'
        /\ \A u \in Tasks \ {t} : Live(u)' <=> Live(u)
    BY <2>2 DEF Live
  <2>4. \A u \in Tasks :
          /\ context'[u].generation = context[u].generation
          /\ context'[u].clearing => context[u].clearing
          /\ IF context[u] = NoContext THEN context'[u] = NoContext
                                       ELSE context'[u].status # "none"
          /\ Live(u)' => Live(u)
    BY <1>1, <2>2, <2>3 DEF IInv, StartOK
  <2>5. \A u \in Tasks : Live(u)' /\ active' = u /\ expected[u] # "any" =>
                           context'[u].status = expected[u]
    BY <1>3, <2>2, <2>3, ConstantsAssumption
  <2> QED
    BY <1>1, <1>2, <2>2, <2>3, <2>4, <2>5, PageMoves DEF Still
<1>5. CASE message.type # "crash"
  <2>1. /\ worker' = Received(t) /\ active' = active
        /\ \/ context' = [context EXCEPT ![t].acknowledge = FALSE]
           \/ context' = context
    BY <1>5 DEF HandleFenced
  <2>2. /\ worker' \in [Tasks -> WorkerType] /\ worker'[t].state = worker[t].state
        /\ \A u \in Tasks \ {t} : worker'[u] = worker[u]
    BY <2>1, ReceivedMessage
  <2>3. /\ context' \in [Tasks -> ContextType]
        /\ context'[t].status = context[t].status
        /\ context'[t].generation = context[t].generation
        /\ context'[t].clearing = context[t].clearing
        /\ \A u \in Tasks \ {t} : context'[u] = context[u]
    <3>1. [context[t] EXCEPT !.acknowledge = FALSE] \in ContextType
      BY <1>2 DEF ContextType
    <3> QED
      BY <1>2, <2>1, <3>1 DEF ContextType
  <2>4. \A u \in Tasks : Live(u)' <=> Live(u)
    BY <2>3 DEF Live
  <2>5. \A u \in Tasks :
          /\ context'[u].generation = context[u].generation
          /\ context'[u].clearing => context[u].clearing
          /\ IF context[u] = NoContext THEN context'[u] = NoContext
                                       ELSE context'[u].status # "none"
          /\ Live(u)' => Live(u)
    BY <1>1, <2>3, <2>4 DEF IInv, StartOK
  <2>6. \A u \in Tasks : Live(u)' /\ active' = u /\ expected[u] # "any" =>
                           context'[u].status = expected[u]
    BY <1>3, <2>1, <2>3, <2>4
  <2> QED
    BY <1>1, <1>2, <2>1, <2>2, <2>3, <2>4, <2>5, <2>6, PageMoves DEF Still
<1> QED
  BY <1>4, <1>5

LEMMA HandleStateKeeps ==
  ASSUME IInv, NEW t \in Tasks, worker[t].outbox # <<>>, NEW message \in MessageType,
         HandleState(t, message), Still
  PROVE  IInv'
<1> DEFINE status == IF message.type = "state" THEN message.status
                     ELSE IF Updates THEN context[active].status ELSE "none"
<1>1. /\ Live(t) /\ context[t] # NoContext /\ expected[t] # "none"
      /\ active # NoTask => active \in Tasks /\ Live(active) /\ context[active] # NoContext
      /\ active # t => expected[t] = "any" /\ (active # NoTask => expected[active] = "any")
      /\ active = t => Updates
  BY Listening DEF HandleState
<1>2. /\ persisting' = Persisted(status) /\ context' = Updated(status)
      /\ expected' = (IF message.type = "state" THEN Heard(t, message.status) ELSE expected)
      /\ worker' = Received(t) /\ active' = active
  BY DEF HandleState
<1>3. /\ worker' \in [Tasks -> WorkerType] /\ worker'[t].state = worker[t].state
      /\ \A u \in Tasks \ {t} : worker'[u] = worker[u]
  BY <1>2, ReceivedMessage
<1>4. /\ context \in [Tasks -> ContextType]
      /\ expected \in [Tasks -> {"none", "any"} \cup Spoken]
  BY DEF IInv, TypeOK, PageTypes
<1>5. \A u \in Tasks : Live(u) /\ active = u /\ expected[u] # "any" =>
                         context[u].status = expected[u]
  BY DEF IInv, ExpectOK
<1>6. message.status \in Spoken
  BY DEF MessageType
<1>7. CASE ~Updates /\ message.type # "state"
  <2>1. persisting' = persisting /\ context' = context /\ expected' = expected
    BY <1>2, <1>7 DEF Persisted, Updated
  <2>2. Longer /\ NewRequests = {}
    BY <2>1, LongerByNone
  <2>3. \A u \in Tasks : Live(u)' <=> Live(u)
    BY <2>1 DEF Live
  <2>4. \A u \in Tasks : context[u] = NoContext \/ context[u].status # "none"
    BY DEF IInv, StartOK
  <2> QED
    BY <1>1, <1>2, <1>3, <1>4, <1>5, <2>1, <2>2, <2>3, <2>4, PageMoves DEF Still
<1>8. CASE Updates \/ message.type = "state"
  <2>1. status \in Spoken
    <3>1. CASE message.type = "state"
      BY <1>6, <3>1
    <3>2. CASE message.type # "state"
      <4>1. Updates /\ active # NoTask /\ active \in Tasks /\ Live(active)
        BY <1>1, <1>8, <3>2 DEF Updates
      <4> QED
        BY <1>4, <3>2, <4>1 DEF Live, ContextType
    <3> QED
      BY <3>1, <3>2
  <2>2. message.type # "state" => Updates /\ status = context[active].status
    BY <1>8
  <2>3. message.type = "state" => status = message.status
    OBVIOUS
  <2> HIDE DEF status
  <2>4. /\ Longer
        /\ \A i \in NewRequests :
             /\ Updates /\ ~persisting'[i].starts /\ persisting'[i].task = active
             /\ persisting'[i].status = status
             /\ persisting'[i].generation = context[active].generation
        /\ Updates => NewRequests # {}
    BY <1>2, <2>1, Persists
  <2>5. /\ context' \in [Tasks -> ContextType]
        /\ \A u \in Tasks :
             /\ context'[u].generation = context[u].generation
             /\ context'[u].clearing = context[u].clearing
             /\ context'[u].status \in {context[u].status, status}
             /\ u # active => context'[u] = context[u]
        /\ Updates => context'[active].status = status
        /\ ~Updates => context' = context
    BY <1>2, <2>1, UpdatedContexts
  <2>6. Updates => active # NoTask
    BY DEF Updates
  <2>7. /\ expected' \in [Tasks -> {"none", "any"} \cup Spoken]
        /\ \A u \in Tasks \ {t} : expected'[u] = expected[u]
        /\ expected[t] = "any" => expected'[t] = "any"
        /\ expected'[t] # "none"
        /\ active # t => expected'[t] = expected[t]
        /\ active = t => expected'[t] \in {"any", status}
    <3>1. CASE message.type = "state"
      <4>1. expected' = Heard(t, message.status)
        BY <1>2, <3>1
      <4>2. /\ expected' \in [Tasks -> {"none", "any"} \cup Spoken]
            /\ expected'[t] = IF expected[t] = "any" THEN "any" ELSE message.status
            /\ \A u \in Tasks \ {t} : expected'[u] = expected[u]
            /\ message.status # "none"
        BY <1>6, <4>1, HeardOf
      <4> QED
        BY <1>1, <2>3, <3>1, <4>2
    <3>2. CASE message.type # "state"
      <4>1. expected' = expected
        BY <1>2, <3>2
      <4> QED
        BY <1>1, <1>4, <1>5, <2>2, <3>2, <4>1
    <3> QED
      BY <3>1, <3>2
  <2>8. status \notin {"none", "finished"}
    BY <2>1 DEF Spoken, Ended
  <2>9. \A u \in Tasks : Live(u)' <=> Live(u)
    BY <1>1, <2>5, <2>6, <2>8 DEF Live
  <2>10. \A u \in Tasks :
           IF context[u] = NoContext THEN context'[u] = NoContext
                                     ELSE context'[u].status # "none"
    BY <1>1, <2>5, <2>6, <2>8 DEF IInv, StartOK
  <2>11. \A i \in NewRequests :
           /\ ~persisting'[i].starts
           /\ context[persisting'[i].task] # NoContext
           /\ context[persisting'[i].task].generation = persisting'[i].generation
           /\ expected'[persisting'[i].task] \in {"any", persisting'[i].status}
    BY <1>1, <2>4, <2>6, <2>7
  <2>12. \A u \in Tasks :
           /\ expected[u] = "any" => expected'[u] = "any"
           /\ expected[u] # "none" => expected'[u] # "none"
           /\ expected'[u] = expected[u] \/ (\E i \in NewRequests : persisting'[i].task = u)
    BY <1>1, <2>4, <2>7
  <2>13. \A u \in Tasks : Live(u)' /\ active' = u /\ expected'[u] # "any" =>
                            context'[u].status = expected'[u]
    BY <1>1, <1>2, <2>5, <2>7, ConstantsAssumption
  <2> QED
    BY <1>1, <1>2, <1>3, <2>4, <2>5, <2>7, <2>9, <2>10, <2>11, <2>12, <2>13, PageMoves
    DEF Still
<1> QED
  BY <1>7, <1>8

LEMMA HandleEndKeeps ==
  ASSUME IInv, NEW t \in Tasks, worker[t].outbox # <<>>, NEW message \in MessageType,
         HandleEnd(t, message), Still
  PROVE  IInv'
<1> DEFINE status == message.status
<1>1. /\ Live(t) /\ context[t] # NoContext /\ expected[t] # "none"
      /\ active # NoTask => active \in Tasks /\ Live(active) /\ context[active] # NoContext
      /\ active # t => expected[t] = "any" /\ (active # NoTask => expected[active] = "any")
      /\ active = t => Updates \/ expected[t] = "any"
  BY Listening
<1>2. /\ persisting' = Persisted(status) /\ Finish(t, Updated(status))
      /\ expected' = Heard(t, status)
  BY DEF HandleEnd
<1>3. status \in Spoken
  BY DEF MessageType
<1> DEFINE c == Updated(status)
<1>4. /\ c \in [Tasks -> ContextType]
      /\ \A u \in Tasks :
           /\ c[u].generation = context[u].generation
           /\ c[u].clearing = context[u].clearing
           /\ c[u].status \in {context[u].status, status}
           /\ u # active => c[u] = context[u]
  BY <1>3, UpdatedContexts
<1> HIDE DEF c
<1>5. /\ worker' \in [Tasks -> WorkerType] /\ context' \in [Tasks -> ContextType]
      /\ worker'[t].state = "terminated"
      /\ worker'[t].inbox = <<>> /\ worker'[t].outbox = <<>>
      /\ context'[t].status = "finished" /\ ~context'[t].clearing
      /\ context'[t].generation = c[t].generation
      /\ \A u \in Tasks \ {t} : worker'[u] = worker[u] /\ context'[u] = c[u]
      /\ active' = IF active = t THEN NoTask ELSE active
  <2>1. Finish(t, c)
    BY <1>2 DEF c
  <2> QED
    BY <1>4, <2>1, FinishedTask
<1>6. /\ expected' \in [Tasks -> {"none", "any"} \cup Spoken]
      /\ expected'[t] = IF expected[t] = "any" THEN "any" ELSE status
      /\ \A u \in Tasks \ {t} : expected'[u] = expected[u]
      /\ status # "none" /\ status # "any"
  BY <1>2, <1>3, HeardOf
<1>7. /\ Longer
      /\ \A i \in NewRequests :
           /\ Updates /\ ~persisting'[i].starts /\ persisting'[i].task = active
           /\ persisting'[i].status = status
           /\ persisting'[i].generation = context[active].generation
      /\ Updates => NewRequests # {}
  BY <1>2, <1>3, Persists
<1>8. Updates => active # NoTask
  BY DEF Updates
<1>9. status \notin {"none", "finished"}
  BY <1>3 DEF Spoken, Ended
<1> HIDE DEF status
<1>10. /\ ~Live(t)'
       /\ \A u \in Tasks \ {t} : Live(u)' <=> Live(u)
  <2>1. ~Live(t)'
    BY <1>5 DEF Live
  <2>2. ASSUME NEW u \in Tasks \ {t} PROVE Live(u)' <=> Live(u)
    <3>1. context'[u] = c[u]
      BY <1>5
    <3>2. CASE u = active
      <4>1. Live(u)
        BY <1>1, <3>2, ConstantsAssumption
      <4>2. c[u].status \notin {"none", "finished"}
        BY <1>4, <1>9, <4>1 DEF Live
      <4> QED
        BY <3>1, <4>1, <4>2 DEF Live
    <3>3. CASE u # active
      BY <1>4, <3>1, <3>3 DEF Live
    <3> QED
      BY <3>2, <3>3
  <2> QED
    BY <2>1, <2>2
<1>11. \A u \in Tasks :
         /\ context'[u].generation = context[u].generation
         /\ context'[u].clearing => context[u].clearing
         /\ IF context[u] = NoContext THEN context'[u] = NoContext
                                      ELSE context'[u].status # "none"
         /\ Live(u)' => Live(u)
  <2>1. \A u \in Tasks : context[u] # NoContext => context[u].status # "none"
    BY DEF IInv, StartOK
  <2>2. \A u \in Tasks : context[u] = NoContext => u # active
    BY <1>1, ConstantsAssumption
  <2> QED
    BY <1>1, <1>4, <1>5, <1>9, <1>10, <2>1, <2>2
<1>12. \A i \in NewRequests :
         /\ ~persisting'[i].starts
         /\ context[persisting'[i].task] # NoContext
         /\ context[persisting'[i].task].generation = persisting'[i].generation
         /\ expected'[persisting'[i].task] \in {"any", persisting'[i].status}
  <2>1. active # NoTask => expected'[active] \in {"any", status}
    BY <1>1, <1>6
  <2> QED
    BY <1>1, <1>7, <1>8, <2>1
<1>13. \A u \in Tasks :
         /\ expected[u] = "any" => expected'[u] = "any"
         /\ expected[u] # "none" => expected'[u] # "none"
         /\ expected'[u] = expected[u] \/ (\E i \in NewRequests : persisting'[i].task = u)
  BY <1>1, <1>6, <1>7
<1>14. ASSUME NEW u \in Tasks, Live(u)', active' = u, expected'[u] # "any"
       PROVE  context'[u].status = expected'[u]
  <2>1. u # t /\ active = u
    BY <1>5, <1>10, <1>14, ConstantsAssumption
  <2>2. expected[u] = "any"
    BY <1>1, <2>1, ConstantsAssumption
  <2> QED
    BY <1>13, <1>14, <2>2
<1> QED
  BY <1>1, <1>5, <1>6, <1>7, <1>10, <1>11, <1>12, <1>13, <1>14, PageMoves DEF Still

LEMMA PageReceivesKeeps == ASSUME NEW t \in Tasks PROVE IInv /\ PageReceives(t) => IInv'
<1> SUFFICES ASSUME IInv, PageReceives(t) PROVE IInv'
  OBVIOUS
<1> DEFINE message == Head(worker[t].outbox)
<1>1. /\ worker[t].outbox # <<>> /\ Still
      /\ HandleFenced(t, message) \/ HandleState(t, message) \/ HandleEnd(t, message)
  BY DEF PageReceives, Still, storeVars, clearVars
<1>2. message \in MessageType
  BY <1>1, Listening
<1> HIDE DEF message
<1> QED
  BY <1>1, <1>2, HandleFencedKeeps, HandleStateKeeps, HandleEndKeeps
-----------------------------------------------------------------------------
(* The user's other commands.                                              *)

LEMMA QueueGrows ==
  ASSUME IInv, NEW o \in OperationType, o.stage = "queued", o.kind \in {"clear", "discard"},
         o.kind = "discard" => o.task \in Tasks,
         queue' = Append(queue, o), persisting' = persisting
  PROVE  /\ QueueOK' /\ SaveOK' /\ queue' \in Seq(OperationType)
         /\ \A i \in DOMAIN queue' :
              \/ i \in DOMAIN queue /\ queue'[i] = queue[i]
              \/ queue'[i] = o
<1>1. queue \in Seq(OperationType)
  BY DEF IInv, TypeOK, StoreTypes
<1>2. /\ queue' \in Seq(OperationType)
      /\ \A i \in DOMAIN queue' :
           \/ i \in DOMAIN queue /\ queue'[i] = queue[i]
           \/ queue'[i] = o
  BY <1>1, Appended
<1>3. QueueOK' /\ SaveOK'
  BY <1>2 DEF IInv, QueueOK, SaveOK
<1> QED
  BY <1>2, <1>3

LEMMA DiscardClickKeeps == ASSUME NEW t \in Tasks PROVE IInv /\ DiscardClick(t) => IInv'
<1> SUFFICES ASSUME IInv, DiscardClick(t) PROVE IInv'
  OBVIOUS
<1> DEFINE o == Operation("discard", t, "none", generation)
<1>1. /\ UNCHANGED <<store, generation, clearing, persisting, active, context, worker, clear,
                     barrierFailed, marked, cleared, expected>>
      /\ incidents' \in Nat
  BY Counted DEF DiscardClick, pageVars, clearVars, historyVars
<1>2. o \in OperationType /\ o.stage = "queued" /\ o.kind = "discard" /\ o.task = t
  BY DEF Operation, OperationType, IInv, TypeOK, StoreTypes
<1>3. queue' = Append(queue, o)
  BY DEF DiscardClick
<1> HIDE DEF o
<1>4. /\ QueueOK' /\ SaveOK' /\ queue' \in Seq(OperationType)
      /\ \A i \in DOMAIN queue' :
           \/ i \in DOMAIN queue /\ queue'[i] = queue[i]
           \/ queue'[i] = o
  BY <1>1, <1>2, <1>3, QueueGrows
<1>5. TypeOK'
  BY <1>1, <1>4 DEF IInv, TypeOK, StoreTypes, PageTypes
<1>6. GenerationOK' /\ WritingOK' /\ StartOK'
  BY <1>1, <1>2, <1>4 DEF IInv, GenerationOK, WritingOK, StartOK, Live
<1>7. ClearedStaysCleared' /\ OrphanOK' /\ WorkerOK' /\ ExpectOK'
  BY <1>1 DEF IInv, ClearedStaysCleared, OrphanOK, WorkerOK, ExpectOK, Live, IsCurrent
<1>8. LastOK' /\ WrittenOK'
  BY <1>1, <1>2, <1>4 DEF IInv, LastOK, WrittenOK, Requested
<1> QED
  BY <1>4, <1>5, <1>6, <1>7, <1>8 DEF IInv

LEMMA ClearClickKeeps == IInv /\ ClearClick => IInv'
<1> SUFFICES ASSUME IInv, ClearClick PROVE IInv'
  OBVIOUS
<1> DEFINE o == Operation("clear", NoTask, "none", generation + 1)
<1>1. /\ generation' = generation + 1 /\ clearing' = TRUE /\ queue' = Append(queue, o)
      /\ clear' = [phase |-> "waiting", task |-> active, outcome |-> "none"]
      /\ expected' = Unknown(Tasks)
      /\ UNCHANGED <<store, persisting, active, barrierFailed, marked, cleared, incidents>>
  BY DEF ClearClick
<1>2. /\ generation \in Nat /\ context \in [Tasks -> ContextType]
      /\ worker \in [Tasks -> WorkerType]
      /\ expected \in [Tasks -> {"none", "any"} \cup Spoken]
      /\ active # NoTask => active \in Tasks /\ Live(active)
  BY DEF IInv, TypeOK, StoreTypes, PageTypes, StartOK
<1>3. /\ o \in OperationType /\ o.stage = "queued" /\ o.kind = "clear"
      /\ o.generation = generation + 1
  BY <1>2 DEF Operation, OperationType
<1> HIDE DEF o
<1>4. /\ QueueOK' /\ SaveOK' /\ queue' \in Seq(OperationType)
      /\ \A i \in DOMAIN queue' :
           \/ i \in DOMAIN queue /\ queue'[i] = queue[i]
           \/ queue'[i] = o
  BY <1>1, <1>3, QueueGrows
<1>5. /\ context' \in [Tasks -> ContextType] /\ worker' \in [Tasks -> WorkerType]
      /\ \A u \in Tasks :
           /\ context'[u].status = context[u].status
           /\ context'[u].generation = context[u].generation
           /\ u # active => context'[u] = context[u] /\ worker'[u] = worker[u]
           /\ worker'[u].state = worker[u].state
  <2>1. CASE active = NoTask
    BY <1>2, <2>1, ConstantsAssumption DEF ClearClick
  <2>2. CASE active # NoTask
    <3> DEFINE c == [[context[active] EXCEPT !.clearing = TRUE] EXCEPT !.acknowledge = TRUE]
               w == [worker[active] EXCEPT !.inbox = Append(@, "cancel")]
    <3>1. context' = [context EXCEPT ![active] = c] /\ worker' = [worker EXCEPT ![active] = w]
      BY <1>2, <2>2 DEF ClearClick
    <3>2. /\ c \in ContextType /\ c.status = context[active].status
          /\ c.generation = context[active].generation
      BY <1>2, <2>2 DEF ContextType
    <3>3. w \in WorkerType /\ w.state = worker[active].state
      <4>1. worker[active].inbox \in Seq(Commands) /\ "cancel" \in Commands
        BY <1>2, <2>2 DEF WorkerType, Commands
      <4>2. Append(worker[active].inbox, "cancel") \in Seq(Commands)
        BY <4>1
      <4> QED
        BY <1>2, <2>2, <4>2 DEF WorkerType
    <3> HIDE DEF c, w
    <3> QED
      BY <1>2, <2>2, <3>1, <3>2, <3>3
  <2> QED
    BY <2>1, <2>2
<1>6. /\ expected' \in [Tasks -> {"none", "any"} \cup Spoken]
      /\ \A u \in Tasks : expected'[u] = IF expected[u] # "none" THEN "any" ELSE expected[u]
  BY <1>1, <1>2 DEF Unknown
<1>7. \A u \in Tasks : Live(u)' <=> Live(u)
  BY <1>5 DEF Live
<1>8. \A u \in Tasks : context'[u] = NoContext <=> context[u] = NoContext
  <2>1. NoContext.status = "none"
    BY DEF NoContext
  <2>2. \A u \in Tasks : Live(u) => context[u] # NoContext /\ context'[u] # NoContext
    BY <1>5, <2>1 DEF Live
  <2>3. active # NoTask => context[active] # NoContext /\ context'[active] # NoContext
    BY <1>2, <2>2
  <2>4. \A u \in Tasks : u = active => active # NoTask
    BY ConstantsAssumption
  <2> QED
    BY <1>5, <2>3, <2>4
<1>9. TypeOK'
  <2>1. generation' \in Nat /\ clearing' \in BOOLEAN
    BY <1>1, <1>2
  <2>2. StoreTypes'
    BY <1>1, <1>4, <2>1 DEF IInv, TypeOK, StoreTypes
  <2>3. PageTypes'
    BY <1>1, <1>5, <1>6 DEF IInv, TypeOK, PageTypes
  <2> QED
    BY <2>2, <2>3 DEF TypeOK
<1>10. GenerationOK' /\ WritingOK'
  <2>1. cleared \in Nat /\ \A u \in Tasks : context[u].generation \in Nat
    BY <1>2 DEF IInv, TypeOK, PageTypes, ContextType
  <2>2. /\ \A i \in DOMAIN queue : queue[i].generation \in Nat
        /\ \A i \in DOMAIN persisting : persisting[i].generation \in Nat
    <3>1. queue \in Seq(OperationType) /\ persisting \in Seq(RequestType)
      BY DEF IInv, TypeOK, StoreTypes
    <3>2. /\ \A i \in DOMAIN queue : queue[i] \in OperationType
          /\ \A i \in DOMAIN persisting : persisting[i] \in RequestType
      BY <3>1
    <3> QED
      BY <3>2 DEF OperationType, RequestType
  <2>3. WritingOK'
    BY <1>1, <1>3, <1>4 DEF IInv, WritingOK
  <2>4. \A i \in DOMAIN queue' : queue'[i].kind = "clear" => queue'[i].generation <= generation'
    BY <1>1, <1>2, <1>3, <1>4, <2>2 DEF IInv, GenerationOK
  <2>5. \A i \in DOMAIN persisting' : persisting'[i].generation <= generation'
    BY <1>1, <1>2, <2>2 DEF IInv, GenerationOK
  <2>6. \A u \in Tasks : context'[u].generation <= generation'
    BY <1>1, <1>2, <1>5, <2>1 DEF IInv, GenerationOK
  <2>7. cleared' < generation'
    BY <1>1, <1>2, <2>1 DEF IInv, GenerationOK
  <2> QED
    BY <1>1, <1>2, <2>1, <2>3, <2>4, <2>5, <2>6, <2>7 DEF GenerationOK
<1>11. StartOK'
  <2>1. \A i \in DOMAIN persisting : persisting[i].task \in Tasks
    <3>1. persisting \in Seq(RequestType)
      BY DEF IInv, TypeOK, StoreTypes
    <3>2. \A i \in DOMAIN persisting : persisting[i] \in RequestType
      BY <3>1
    <3> QED
      BY <3>2 DEF RequestType
  <2>2. \A u \in Tasks : context'[u].status = "none" => context'[u] = NoContext
    BY <1>5, <1>8 DEF IInv, StartOK
  <2>3. active' # NoTask => Live(active)'
    BY <1>1, <1>2, <1>7 DEF Live
  <2>4. clear'.task # NoTask => context'[clear'.task] # NoContext
    BY <1>1, <1>2, <1>8 DEF Live, NoContext
  <2> QED
    BY <1>1, <1>5, <1>8, <2>1, <2>2, <2>3, <2>4 DEF IInv, StartOK
<1>12. ClearedStaysCleared' /\ OrphanOK'
  <2>1. generation' # cleared'
    <3>1. cleared \in Nat /\ cleared <= generation
      BY DEF IInv, TypeOK, PageTypes, GenerationOK
    <3> QED
      BY <1>1, <1>2, <3>1
  <2> QED
    BY <1>1, <2>1 DEF IInv, ClearedStaysCleared, OrphanOK
<1>13. WorkerOK'
  <2>1. ASSUME NEW u \in Tasks, ~Live(u) PROVE worker'[u] = worker[u]
    BY <1>2, <1>5, <2>1, ConstantsAssumption
  <2> QED
    BY <1>5, <1>7, <2>1 DEF IInv, WorkerOK
<1>14. ExpectOK'
  <2>1. \A u \in Tasks : context'[u] # NoContext => expected'[u] = "any"
    BY <1>6, <1>8 DEF IInv, ExpectOK
  <2>2. \A u \in Tasks : context'[u].clearing \/ Live(u)' => context'[u] # NoContext
    BY DEF NoContext, Live
  <2> QED
    BY <2>1, <2>2 DEF ExpectOK
<1>15. LastOK' /\ WrittenOK'
  <2>1. \A u \in Tasks : Requested(u)' <=> Requested(u)
    BY <1>1 DEF Requested
  <2>2. \A i \in DOMAIN persisting : ~persisting[i].starts =>
          expected'[persisting[i].task] = "any"
    <3>1. \A i \in DOMAIN persisting : persisting[i].task \in Tasks
      <4>1. persisting \in Seq(RequestType)
        BY DEF IInv, TypeOK, StoreTypes
      <4>2. \A i \in DOMAIN persisting : persisting[i] \in RequestType
        BY <4>1
      <4> QED
        BY <4>2 DEF RequestType
    <3> QED
      BY <1>6, <3>1 DEF IInv, StartOK, ExpectOK
  <2>3. \A u \in Tasks : expected'[u] \in {"any", expected[u]}
    BY <1>6
  <2>4. \A u \in Tasks :
          store'[u] = NoRecord \/ Requested(u)' \/ expected'[u] \in {"any", store'[u].status}
    BY <1>1, <2>1, <2>3 DEF IInv, LastOK
  <2>5. LastOK'
    BY <1>1, <2>2, <2>4 DEF LastOK
  <2>6. WrittenOK'
    BY <1>1, <1>3, <1>4, <2>3 DEF IInv, WrittenOK
  <2> QED
    BY <2>5, <2>6
<1> QED
  BY <1>4, <1>9, <1>10, <1>11, <1>12, <1>13, <1>14, <1>15 DEF IInv

\* The end of Clear All: the worker of the task that was active is gone.
LEMMA StopKeeps ==
  ASSUME IInv, Stop(clear.task), UNCHANGED <<storeVars, persisting, historyVars, incidents>>,
         clear' \in [phase : {"none", "waiting", "failing"}, task : Tasks \cup {NoTask},
                     outcome : {"none", "removed", "failed"}],
         clear'.task \in {clear.task, NoTask}, barrierFailed' \in BOOLEAN
  PROVE  IInv'
<1>1. UNCHANGED <<store, queue, generation, clearing, persisting, marked, cleared, expected,
                  incidents>>
  BY DEF storeVars, historyVars
<1>2. /\ context \in [Tasks -> ContextType] /\ worker \in [Tasks -> WorkerType]
      /\ active \in Tasks \cup {NoTask} /\ clear.task \in Tasks \cup {NoTask}
  BY DEF IInv, TypeOK, PageTypes
<1>3. /\ context' \in [Tasks -> ContextType] /\ worker' \in [Tasks -> WorkerType]
      /\ active' \in {active, NoTask}
      /\ \A u \in Tasks :
           /\ context'[u].generation = context[u].generation
           /\ context'[u].clearing => context[u].clearing
           /\ context'[u] = NoContext <=> context[u] = NoContext
           /\ \/ context'[u] = context[u] /\ worker'[u] = worker[u]
                 /\ (active = u => active' = u)
              \/ /\ context'[u].status = "finished" /\ active' # u
                 /\ worker'[u].state = "terminated"
                 /\ worker'[u].inbox = <<>> /\ worker'[u].outbox = <<>>
  <2>1. CASE clear.task = NoTask
    <3>1. UNCHANGED <<active, context, worker>>
      BY <2>1 DEF Stop, pageVars
    <3> QED
      BY <1>2, <3>1
  <2>2. CASE clear.task # NoTask
    <3> DEFINE s == clear.task
    <3>1. s \in Tasks /\ context[s] # NoContext /\ Finish(s, context)
      BY <1>2, <2>2 DEF Stop, IInv, StartOK
    <3> HIDE DEF s
    <3>2. /\ worker' \in [Tasks -> WorkerType] /\ context' \in [Tasks -> ContextType]
          /\ worker'[s].state = "terminated"
          /\ worker'[s].inbox = <<>> /\ worker'[s].outbox = <<>>
          /\ context'[s].status = "finished" /\ ~context'[s].clearing
          /\ context'[s].generation = context[s].generation
          /\ \A u \in Tasks \ {s} : worker'[u] = worker[u] /\ context'[u] = context[u]
          /\ active' = IF active = s THEN NoTask ELSE active
      BY <1>2, <3>1, FinishedTask
    <3>3. context'[s] # NoContext
      BY <3>2 DEF NoContext
    <3>4. active' # s
      BY <3>1, <3>2, ConstantsAssumption
    <3> QED
      BY <3>1, <3>2, <3>3, <3>4
  <2> QED
    BY <2>1, <2>2
<1>4. /\ \A u \in Tasks : Live(u)' => Live(u)
      /\ active' # NoTask => active' = active /\ Live(active)'
  <2>1. \A u \in Tasks : Live(u)' => Live(u)
    BY <1>3 DEF Live
  <2>2. ASSUME active' # NoTask PROVE active' = active /\ Live(active)'
    <3>1. active' = active /\ active \in Tasks /\ Live(active)
      BY <1>2, <1>3, <2>2 DEF IInv, StartOK
    <3>2. context'[active] = context[active]
      BY <1>3, <3>1
    <3> QED
      BY <3>1, <3>2 DEF Live
  <2> QED
    BY <2>1, <2>2
<1>5. TypeOK'
  <2>1. StoreTypes'
    BY <1>1 DEF IInv, TypeOK, StoreTypes
  <2>2. PageTypes'
    BY <1>1, <1>3 DEF IInv, TypeOK, PageTypes
  <2> QED
    BY <2>1, <2>2 DEF TypeOK
<1>6. QueueOK' /\ SaveOK' /\ GenerationOK' /\ WritingOK'
  BY <1>1, <1>3 DEF IInv, QueueOK, SaveOK, GenerationOK, WritingOK
<1>7. StartOK'
  <2>1. \A i \in DOMAIN persisting : persisting[i].task \in Tasks
    <3>1. persisting \in Seq(RequestType)
      BY DEF IInv, TypeOK, StoreTypes
    <3>2. \A i \in DOMAIN persisting : persisting[i] \in RequestType
      BY <3>1
    <3> QED
      BY <3>2 DEF RequestType
  <2>2. \A u \in Tasks : context'[u].status = "none" => context'[u] = NoContext
    BY <1>3 DEF IInv, StartOK
  <2>3. active' # NoTask => Live(active)'
    BY <1>4
  <2>4. clear'.task # NoTask => context'[clear'.task] # NoContext
    BY <1>2, <1>3 DEF IInv, StartOK
  <2> QED
    BY <1>1, <1>3, <1>4, <2>1, <2>2, <2>4 DEF IInv, StartOK, Live
<1>8. ClearedStaysCleared' /\ OrphanOK'
  BY <1>1, <1>3 DEF IInv, ClearedStaysCleared, OrphanOK
<1>9. WorkerOK'
  <2>1. ASSUME NEW u \in Tasks
        PROVE  IF Live(u)' THEN worker'[u].state \in {"loading", "running", "ended", "crashed"}
               ELSE /\ worker'[u].state \in {"none", "terminated"}
                    /\ worker'[u].inbox = <<>> /\ worker'[u].outbox = <<>>
    <3>1. CASE context'[u] = context[u] /\ worker'[u] = worker[u]
      BY <3>1 DEF IInv, WorkerOK, Live
    <3>2. CASE /\ context'[u].status = "finished" /\ worker'[u].state = "terminated"
               /\ worker'[u].inbox = <<>> /\ worker'[u].outbox = <<>>
      BY <3>2 DEF Live
    <3> QED
      BY <1>3, <3>1, <3>2
  <2> QED
    BY <2>1 DEF WorkerOK
<1>10. ExpectOK'
  <2>1. ASSUME NEW u \in Tasks
        PROVE  /\ context'[u] # NoContext => expected[u] # "none"
               /\ context'[u] # NoContext /\ ~IsCurrent(context[u].generation)' =>
                    expected[u] = "any"
               /\ context'[u].clearing => expected[u] = "any"
    <3>1. IsCurrent(context[u].generation)' <=> IsCurrent(context[u].generation)
      BY <1>1, <1>3 DEF IsCurrent
    <3> QED
      BY <1>3, <3>1 DEF IInv, ExpectOK
  <2>2. ASSUME NEW u \in Tasks, Live(u)' PROVE context'[u] = context[u] /\ Live(u)
                                                /\ (active = u => active' = u)
    BY <1>3, <1>4, <2>2 DEF Live
  <2>3. ASSUME NEW u \in Tasks, Live(u)', active' # u PROVE expected[u] = "any"
    BY <2>2, <2>3 DEF IInv, ExpectOK
  <2>4. ASSUME NEW u \in Tasks, Live(u)', active' = u, expected[u] # "any"
        PROVE  /\ context'[u].status = expected[u]
               /\ \A v \in Tasks \ {u} : ~Live(v)'
    <3>1. active = u /\ Live(u) /\ context'[u] = context[u]
      BY <1>4, <2>2, <2>4, ConstantsAssumption
    <3> QED
      BY <1>4, <2>4, <3>1 DEF IInv, ExpectOK
  <2> QED
    BY <1>1, <2>1, <2>3, <2>4 DEF ExpectOK
<1>11. LastOK' /\ WrittenOK'
  BY <1>1 DEF IInv, LastOK, WrittenOK, Requested
<1> QED
  BY <1>5, <1>6, <1>7, <1>8, <1>9, <1>10, <1>11 DEF IInv

LEMMA ClearOverKeeps == IInv /\ (ClearSucceeds \/ ClearFails \/ ClearGivesUp) => IInv'
<1> DEFINE C == [phase : {"none", "waiting", "failing"}, task : Tasks \cup {NoTask},
                 outcome : {"none", "removed", "failed"}]
<1>1. NoClear \in C /\ NoClear.task = NoTask
  BY DEF NoClear
<1>2. ASSUME IInv PROVE clear \in C /\ barrierFailed \in BOOLEAN
  BY <1>2 DEF IInv, TypeOK, PageTypes
<1>3. ASSUME IInv, ClearSucceeds PROVE IInv'
  BY <1>1, <1>3, StopKeeps DEF ClearSucceeds
<1>4. ASSUME IInv, ClearFails PROVE IInv'
  <2>1. clear' \in C /\ clear'.task = clear.task
    BY <1>2, <1>4 DEF ClearFails
  <2>2. barrierFailed' \in BOOLEAN /\ UNCHANGED <<storeVars, persisting, historyVars, incidents>>
    BY <1>2, <1>4 DEF ClearFails
  <2>3. Stop(clear.task)
    BY <1>4 DEF ClearFails
  <2> QED
    BY <1>4, <2>1, <2>2, <2>3, StopKeeps
<1>5. ASSUME IInv, ClearGivesUp PROVE IInv'
  <2>1. /\ UNCHANGED <<store, queue, generation, clearing, persisting, active, context, worker,
                       marked, cleared, expected, incidents>>
        /\ clear' = NoClear /\ barrierFailed' \in BOOLEAN
    BY <1>5 DEF ClearGivesUp, storeVars, pageVars, historyVars
  <2>2. TypeOK' /\ StartOK'
    BY <1>1, <1>5, <2>1 DEF IInv, TypeOK, StoreTypes, PageTypes, StartOK, Live
  <2>3. QueueOK' /\ SaveOK' /\ GenerationOK' /\ WritingOK' /\ ClearedStaysCleared' /\ OrphanOK'
    BY <1>5, <2>1
    DEF IInv, QueueOK, SaveOK, GenerationOK, WritingOK, ClearedStaysCleared, OrphanOK
  <2>4. WorkerOK' /\ ExpectOK' /\ LastOK' /\ WrittenOK'
    BY <1>5, <2>1
    DEF IInv, WorkerOK, ExpectOK, LastOK, WrittenOK, Live, IsCurrent, Requested
  <2> QED
    BY <2>2, <2>3, <2>4 DEF IInv
<1> QED
  BY <1>3, <1>4, <1>5

-----------------------------------------------------------------------------
(* Opening the page.                                                       *)

Opened ==
  /\ queue = <<MarkInterrupted>> /\ generation = 0 /\ clearing = FALSE /\ persisting = <<>>
  /\ active = NoTask
  /\ context = [t \in Tasks |-> NoContext] /\ worker = [t \in Tasks |-> NoWorker]
  /\ clear = NoClear /\ barrierFailed = FALSE /\ marked = FALSE /\ cleared = 0
  /\ incidents \in Nat
  /\ store \in [Tasks -> RecordType] /\ expected \in [Tasks -> {"none", "any"}]
  /\ \A t \in Tasks : store[t] = NoRecord \/ expected[t] = "any"

LEMMA OpenedIsFine == Opened => IInv
<1> SUFFICES ASSUME Opened PROVE IInv
  OBVIOUS
<1>1. /\ MarkInterrupted \in OperationType /\ MarkInterrupted.kind = "mark"
      /\ MarkInterrupted.stage = "queued"
  BY DEF MarkInterrupted, Operation, OperationType
<1>2. /\ queue \in Seq(OperationType) /\ DOMAIN queue = {1} /\ queue[1] = MarkInterrupted
  BY <1>1 DEF Opened
<1>3. NoContext \in ContextType /\ NoContext.status = "none" /\ NoContext.generation = 0
      /\ ~NoContext.clearing
  BY DEF NoContext, ContextType
<1>4. NoWorker \in WorkerType
  <2>1. <<>> \in Seq(Commands) /\ <<>> \in Seq(MessageType)
    OBVIOUS
  <2> QED
    BY <2>1 DEF NoWorker, WorkerType
<1>5. /\ persisting \in Seq(RequestType) /\ DOMAIN persisting = {} /\ persisting = <<>>
  BY DEF Opened
<1>6. \A t \in Tasks : context[t] = NoContext /\ worker[t] = NoWorker /\ ~Live(t)
  BY <1>3 DEF Opened, Live
<1>7. TypeOK
  <2>1. StoreTypes
    BY <1>2, <1>5 DEF Opened, StoreTypes
  <2>2. PageTypes
    BY <1>3, <1>4 DEF Opened, PageTypes, NoClear
  <2> QED
    BY <2>1, <2>2 DEF TypeOK
<1>8. QueueOK /\ SaveOK /\ WritingOK
  BY <1>1, <1>2, <1>5 DEF QueueOK, SaveOK, WritingOK
<1>9. GenerationOK
  BY <1>1, <1>2, <1>3, <1>5, <1>6 DEF Opened, GenerationOK
<1>10. StartOK
  BY <1>5, <1>6 DEF Opened, StartOK, NoClear
<1>11. ClearedStaysCleared
  <2>1. \A t \in Tasks : store[t].generation \in Nat
    BY DEF Opened, RecordType
  <2> QED
    BY <2>1 DEF Opened, ClearedStaysCleared
<1>12. OrphanOK
  BY DEF Opened, OrphanOK
<1>13. WorkerOK
  BY <1>6 DEF WorkerOK, NoWorker
<1>14. ExpectOK
  BY <1>3, <1>6 DEF ExpectOK
<1>15. LastOK /\ WrittenOK
  BY <1>5 DEF Opened, LastOK, WrittenOK
<1> QED
  BY <1>7, <1>8, <1>9, <1>10, <1>11, <1>12, <1>13, <1>14, <1>15 DEF IInv

LEMMA InitIsFine == Init => IInv
<1> SUFFICES ASSUME Init PROVE Opened
  BY OpenedIsFine
<1>1. NoRecord \in RecordType
  BY DEF NoRecord, RecordType
<1> QED
  BY <1>1 DEF Init, Opened

\* What is left by an operation that is cut short: nothing of a task that is fresh.
LEMMA CutShortLeaves ==
  ASSUME IInv, NEW left \in CutShort
  PROVE  left \in [Tasks -> RecordType] /\ (\A t \in Tasks : Fresh(t) => left[t] = NoRecord)
<1>1. /\ store \in [Tasks -> RecordType] /\ NoRecord \in RecordType
      /\ \A t \in Tasks : Fresh(t) => store[t] = NoRecord
  BY DEF IInv, TypeOK, StoreTypes, NoRecord, RecordType, Fresh
<1>2. CASE Serving("save", "writing")
  <2> DEFINE save == Head(queue)
             n == [status |-> save.status, generation |-> 0]
  <2>1. /\ persisting # <<>> /\ save = queue[1] /\ save \in OperationType /\ save.task \in Tasks
        /\ persisting[1].task = save.task
    BY <1>2, Saving, Waiting DEF Serving
  <2>2. ~Fresh(save.task)
    <3>1. 1 \in DOMAIN persisting
      BY <2>1, Behind
    <3> QED
      BY <2>1, <3>1 DEF Fresh
  <2>3. n \in RecordType
    BY <2>1 DEF OperationType, RecordType
  <2>4. left \in {store, [store EXCEPT ![save.task] = n]}
    BY <1>2 DEF CutShort
  <2> HIDE DEF save, n
  <2> QED
    BY <1>1, <2>1, <2>2, <2>3, <2>4
<1>3. CASE /\ ~Serving("save", "writing")
           /\ Serving("save", "undoing") \/ Serving("discard", "queued")
  <2>1. Head(queue).task \in Tasks
    <3>1. CASE Serving("save", "undoing")
      BY <3>1, Saving DEF Serving
    <3>2. CASE Serving("discard", "queued")
      BY <3>2, Waiting DEF Serving, IInv, QueueOK
    <3> QED
      BY <1>3, <3>1, <3>2
  <2>2. left \in {store, [store EXCEPT ![Head(queue).task] = NoRecord]}
    BY <1>3 DEF CutShort
  <2> QED
    BY <1>1, <2>1, <2>2
<1>4. CASE ~Serving("save", "writing") /\ ~Serving("save", "undoing")
           /\ ~Serving("discard", "queued") /\ Serving("clear", "queued")
  <2>1. PICK gone \in SUBSET Tasks :
          left = [t \in Tasks |-> IF t \in gone THEN NoRecord ELSE store[t]]
    BY <1>4 DEF CutShort
  <2> QED
    BY <1>1, <2>1
<1>5. CASE ~Serving("save", "writing") /\ ~Serving("save", "undoing")
           /\ ~Serving("discard", "queued") /\ ~Serving("clear", "queued")
  <2>1. left = store
    BY <1>5 DEF CutShort
  <2> QED
    BY <1>1, <2>1
<1> QED
  BY <1>2, <1>3, <1>4, <1>5

LEMMA ReloadKeeps == IInv /\ Reload => IInv'
<1> SUFFICES ASSUME IInv, Reload PROVE Opened'
  <2>1. Opened' => IInv'
    BY OpenedIsFine, PTL
  <2> QED
    BY <2>1
<1>1. PICK left \in CutShort : store' = [t \in Tasks |-> [left[t] EXCEPT !.generation = 0]]
  BY DEF Reload
<1>2. left \in [Tasks -> RecordType] /\ (\A t \in Tasks : Fresh(t) => left[t] = NoRecord)
  BY CutShortLeaves
<1>3. store' \in [Tasks -> RecordType]
  <2>1. \A t \in Tasks : [left[t] EXCEPT !.generation = 0] \in RecordType
    BY <1>2 DEF RecordType
  <2> QED
    BY <1>1, <2>1
<1>4. /\ expected' = [t \in Tasks |-> IF Fresh(t) THEN "none" ELSE "any"]
      /\ incidents' \in Nat
  BY Counted DEF Reload
<1>5. \A t \in Tasks : store'[t] = NoRecord \/ expected'[t] = "any"
  <2>1. [NoRecord EXCEPT !.generation = 0] = NoRecord
    BY DEF NoRecord
  <2> QED
    BY <1>1, <1>2, <1>4, <2>1
<1>6. expected' \in [Tasks -> {"none", "any"}]
  BY <1>4
<1> QED
  BY <1>3, <1>4, <1>5, <1>6 DEF Reload, Opened
-----------------------------------------------------------------------------
(* The theorems.                                                           *)

LEMMA StutterKeeps == IInv /\ UNCHANGED vars => IInv'
<1> SUFFICES ASSUME IInv, UNCHANGED vars PROVE IInv'
  OBVIOUS
<1>1. UNCHANGED <<store, queue, generation, clearing, persisting, active, context, worker,
                  clear, barrierFailed, marked, cleared, expected, incidents>>
  BY DEF vars, storeVars, pageVars, clearVars, historyVars
<1>2. TypeOK' /\ StartOK'
  BY <1>1 DEF IInv, TypeOK, StoreTypes, PageTypes, StartOK, Live
<1>3. QueueOK' /\ SaveOK' /\ GenerationOK' /\ WritingOK' /\ ClearedStaysCleared' /\ OrphanOK'
  BY <1>1
  DEF IInv, QueueOK, SaveOK, GenerationOK, WritingOK, ClearedStaysCleared, OrphanOK
<1>4. WorkerOK' /\ ExpectOK' /\ LastOK' /\ WrittenOK'
  BY <1>1
  DEF IInv, WorkerOK, ExpectOK, LastOK, WrittenOK, Live, IsCurrent, Requested
<1> QED
  BY <1>2, <1>3, <1>4 DEF IInv

LEMMA PageKeeps == IInv /\ Page => IInv'
<1> SUFFICES ASSUME IInv, Page PROVE IInv'
  OBVIOUS
<1>1. CASE Reactions
  BY <1>1, PersistBeginsKeeps, SaveBeginsKeeps DEF Reactions
<1>2. CASE Storage
  BY <1>2, SaveWritesKeeps, SaveIsUndoneKeeps, SaveFailsKeeps, ClearRemovesKeeps,
     ClearCannotRemoveKeeps, DiscardRemovesKeeps, MarkWritesKeeps, MarkEndsKeeps
  DEF Storage
<1>3. CASE PersistEnds
  BY <1>3, PersistEndsKeeps
<1>4. CASE \E t \in Tasks : PageReceives(t)
  BY <1>4, PageReceivesKeeps
<1>5. CASE ClearSucceeds \/ ClearFails \/ ClearGivesUp
  BY <1>5, ClearOverKeeps
<1> QED
  BY <1>1, <1>2, <1>3, <1>4, <1>5 DEF Page

LEMMA NextKeeps == IInv /\ [Next]_vars => IInv'
<1> SUFFICES ASSUME IInv, [Next]_vars PROVE IInv'
  OBVIOUS
<1>1. CASE Page
  BY <1>1, PageKeeps
<1>2. CASE User
  BY <1>2, StartClickKeeps, DiscardClickKeeps, ControlKeeps, ClearClickKeeps DEF User
<1>3. CASE Reload
  BY <1>3, ReloadKeeps
<1>4. CASE \E t \in Tasks : WorkerRuns(t) \/ WorkerFails(t) \/ WorkerCrashes(t)
  BY <1>4, WorkerReceivesKeeps, WorkerReadsKeeps, WorkerEndsKeeps, WorkerCrashesKeeps
  DEF WorkerRuns
<1>5. CASE UNCHANGED vars
  BY <1>5, StutterKeeps
<1> QED
  BY <1>1, <1>2, <1>3, <1>4, <1>5 DEF Next

\* What holds of the page, its queues, its workers and the records in every
\* reachable state.
THEOREM WebInvariant == Spec => []IInv
<1>1. Init => IInv
  BY InitIsFine
<1>2. IInv /\ [Next]_vars => IInv'
  BY NextKeeps
<1> QED
  BY <1>1, <1>2, PTL DEF Spec

\* Every variable of the page, the store and the workers has its type.
THEOREM WebTypes == Spec => []TypeOK
<1>1. IInv => TypeOK
  BY DEF IInv
<1> QED
  BY <1>1, WebInvariant, PTL

\* A record that is in the store belongs to a generation that has not been
\* cleared away (isCurrentGeneration before each write and after it).
THEOREM ClearIsABarrier == Spec => []ClearedStaysCleared
<1>1. IInv => ClearedStaysCleared
  BY DEF IInv
<1> QED
  BY <1>1, WebInvariant, PTL

\* After markInterrupted, or after Clear All, a record says that its task runs
\* or is paused only when this page has started that task.
THEOREM MarkingLeavesNoOrphans == Spec => []NoOrphanRuns
<1>1. IInv => NoOrphanRuns
  <2> SUFFICES ASSUME IInv, generation = cleared, marked \/ cleared > 0,
                      NEW t \in Tasks, store[t].status \in {"running", "paused"}
               PROVE  \/ context[t] # NoContext
                      \/ \E i \in DOMAIN persisting : persisting[i].task = t
    BY DEF NoOrphanRuns
  <2> QED
    BY DEF IInv, OrphanOK, Unfinished
<1> QED
  BY <1>1, WebInvariant, PTL

\* Once nothing waits to be written, the record of a task says what the page
\* last heard from its worker (updateActiveTask and persistTask).
THEOREM RecordsAreTrue == Spec => []RecordsTellOutcome
<1>1. IInv => RecordsTellOutcome
  <2> SUFFICES ASSUME IInv, persisting = <<>>, NEW t \in Tasks,
                      store[t] # NoRecord, expected[t] # "any"
               PROVE  store[t].status = expected[t]
    BY DEF RecordsTellOutcome
  <2>1. ~Requested(t)
    BY DEF Requested
  <2> QED
    BY <2>1 DEF IInv, LastOK
<1> QED
  BY <1>1, WebInvariant, PTL

=============================================================================
