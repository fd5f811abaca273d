-------------------------- MODULE LibraryIndexProofs --------------------------
(* Proofs about LibraryIndex, for every library, file and number of greenlets. *)
EXTENDS LibraryIndex, TLAPS

(* What putting a task at the end of the queue does.                         *)
LEMMA Put ==
  ASSUME NEW S, NEW q \in Seq(S), NEW e \in S, e \notin Elements(q), Distinct(q)
  PROVE  /\ Append(q, e) \in Seq(S)
         /\ Elements(Append(q, e)) = Elements(q) \cup {e}
         /\ Distinct(Append(q, e))
<1>1. /\ Append(q, e) \in Seq(S)
      /\ DOMAIN Append(q, e) = DOMAIN q \cup {Len(q) + 1}
      /\ \A i \in DOMAIN q : Append(q, e)[i] = q[i]
      /\ Append(q, e)[Len(q) + 1] = e
  OBVIOUS
<1>2. Elements(Append(q, e)) = Elements(q) \cup {e}
  BY <1>1 DEF Elements
<1>3. Distinct(Append(q, e))
  BY <1>1 DEF Elements, Distinct
<1> QED
  BY <1>1, <1>2, <1>3

(* What taking the first task of the queue does.                             *)
LEMMA Take ==
  ASSUME NEW S, NEW q \in Seq(S), q # <<>>, Distinct(q)
  PROVE  /\ Head(q) \in S \cap Elements(q)
         /\ Tail(q) \in Seq(S)
         /\ Elements(Tail(q)) = Elements(q) \ {Head(q)}
         /\ Distinct(Tail(q))
<1>1. /\ Head(q) = q[1]
      /\ Tail(q) \in Seq(S)
      /\ DOMAIN q = 1..Len(q) /\ Len(q) \in Nat \ {0}
      /\ DOMAIN Tail(q) = 1..(Len(q) - 1)
      /\ \A i \in 1..(Len(q) - 1) : Tail(q)[i] = q[i + 1]
  OBVIOUS
<1>2. Head(q) \in S \cap Elements(q)
  BY <1>1 DEF Elements
<1>3. Elements(Tail(q)) = Elements(q) \ {Head(q)}
  <2>1. ASSUME NEW x \in Elements(Tail(q)) PROVE x \in Elements(q) \ {Head(q)}
    <3>1. PICK i \in 1..(Len(q) - 1) : x = q[i + 1]
      BY <1>1 DEF Elements
    <3>2. i + 1 \in DOMAIN q /\ 1 \in DOMAIN q /\ i + 1 # 1
      BY <1>1
    <3> QED
      BY <1>1, <3>1, <3>2 DEF Elements, Distinct
  <2>2. ASSUME NEW x \in Elements(q), x # Head(q) PROVE x \in Elements(Tail(q))
    <3>1. PICK i \in 1..Len(q) : x = q[i]
      BY <1>1 DEF Elements
    <3>2. i # 1
      BY <1>1, <2>2, <3>1
    <3>3. i - 1 \in 1..(Len(q) - 1) /\ Tail(q)[i - 1] = q[(i - 1) + 1] /\ (i - 1) + 1 = i
      BY <1>1, <3>2
    <3> QED
      BY <1>1, <3>1, <3>3 DEF Elements
  <2> QED
    BY <2>1, <2>2
<1>4. Distinct(Tail(q))
  <2> SUFFICES ASSUME NEW i \in 1..(Len(q) - 1), NEW j \in 1..(Len(q) - 1),
                      q[i + 1] = q[j + 1]
               PROVE  i = j
    BY <1>1 DEF Distinct
  <2> i + 1 \in DOMAIN q /\ j + 1 \in DOMAIN q
    BY <1>1
  <2> i + 1 = j + 1
    BY DEF Distinct
  <2> QED
    OBVIOUS
<1> QED
  BY <1>1, <1>2, <1>3, <1>4

(* Starting a category keeps the books on queue and statuses, whoever does it. *)
LEMMA StartKeeps ==
  ASSUME IInv, NEW c \in Categories, StartAsyncIndexing(c),
         drained' = drained, WorkedOn' = WorkedOn
  PROVE  /\ async_status' \in [Categories -> {"none", "running", "complete", "error"}]
         /\ index_queue' \in Seq(Categories)
         /\ indexing_paused' \in BOOLEAN
         /\ OneTaskPerCategory' /\ RunningIsExplained'
<1> USE DEF IInv, TypeOK, OneTaskPerCategory, RunningIsExplained, Queued
<1>1. CASE async_status[c] = "running"
  BY <1>1 DEF StartAsyncIndexing
<1>2. CASE async_status[c] # "running"
  <2>1. /\ async_status' = [async_status EXCEPT ![c] = "running"]
        /\ index_queue' = Append(index_queue, c)
        /\ indexing_paused' = FALSE
    BY <1>2 DEF StartAsyncIndexing
  <2>2. c \notin Elements(index_queue) \cup WorkedOn \cup drained
    BY <1>2
  <2>3. /\ index_queue' \in Seq(Categories)
        /\ Elements(index_queue') = Elements(index_queue) \cup {c}
        /\ Distinct(index_queue')
    BY <2>1, <2>2, Put
  <2>4. Queued' = Queued \cup {c}
    BY <2>3
  <2>5. OneTaskPerCategory'
    BY <2>2, <2>3, <2>4
  <2>6. RunningIsExplained'
    BY <2>1, <2>4
  <2> QED
    BY <2>1, <2>3, <2>5, <2>6
<1> QED
  BY <1>1, <1>2

(* No task is the record of no task.                                         *)
LEMMA TaskIsSomething == Nothing \notin Task
  BY NothingAssumption DEF Task

LEMMA WalkedIsTask ==
  ASSUME NEW c \in Categories
  PROVE  /\ Walked(c) \in Task /\ Walked(c).category = c
         /\ [Walked(c) EXCEPT !.phase = "count"] \in Task
         /\ [Walked(c) EXCEPT !.phase = "count"].category = c
<1>1. ChildrenOf(c) \subseteq Categories
  BY AutoAssumption, ChildrenAssumption DEF ChildrenOf
<1> QED
  BY <1>1 DEF Walked, Task

(* Beginning a task changes the rows and the greenlet's task only.           *)
LEMMA BeginKeeps ==
  ASSUME TypeOK, NEW g \in Greenlets, NEW c \in Categories, Begin(g, c)
  PROVE  /\ index' \subseteq Files
         /\ task' \in [Greenlets -> Task \cup {Nothing}]
         /\ task'[g] # Nothing /\ task'[g].category = c
         /\ \A h \in Greenlets \ {g} : task'[h] = task[h]
         /\ index' \ disk \subseteq index \ disk
<1>1. task'[g] \in Task /\ task'[g].category = c /\ task' = [task EXCEPT ![g] = task'[g]]
  <2>1. CASE c \in AutoIds
    BY <2>1, WalkedIsTask DEF Begin, TypeOK
  <2>2. CASE c \notin AutoIds
    BY <2>2, WalkedIsTask DEF Begin, TypeOK
  <2> QED
    BY <2>1, <2>2
<1>2. index' \subseteq Files /\ index' \ disk \subseteq index \ disk
  BY DEF Begin, TypeOK, Of
<1> QED
  BY <1>1, <1>2, TaskIsSomething DEF TypeOK

(* A walk goes on with its category.                                         *)
LEMMA WalkKeeps ==
  ASSUME TypeOK, NEW g \in Greenlets, ListDirectory(g) \/ WalkChunk(g) \/ EndWalk(g) \/ QueueChild(g)
  PROVE  /\ task' \in [Greenlets -> Task \cup {Nothing}]
         /\ task[g] \in Task
         /\ task'[g] # Nothing /\ task'[g].category = task[g].category
         /\ \A h \in Greenlets \ {g} : task'[h] = task[h]
<1>1. task[g] \in Task
  BY DEF TypeOK, Busy, ListDirectory, WalkChunk, EndWalk, QueueChild
<1>2. task'[g] \in Task /\ task'[g].category = task[g].category /\ task' = [task EXCEPT ![g] = task'[g]]
  <2>1. CASE ListDirectory(g)
    BY <1>1, <2>1 DEF ListDirectory, TypeOK, Task, Of
  <2>2. CASE WalkChunk(g)
    <3>1. PICK f \in task[g].todo :
             task' = [task EXCEPT ![g] = [task[g] EXCEPT !.todo = task[g].todo \ {f},
                                                     !.seen = task[g].seen \cup {f}]]
      BY <1>1, <2>2 DEF WalkChunk, TypeOK, Task
    <3>2. f \in Files /\ task[g].todo \ {f} \subseteq Files /\ task[g].seen \cup {f} \subseteq Files
      BY <1>1 DEF Task
    <3> QED
      BY <1>1, <3>1, <3>2 DEF TypeOK, Task
  <2>3. CASE EndWalk(g)
    <3>1. task[g].category \in Categories /\ task' = [task EXCEPT ![g] = Walked(task[g].category)]
      BY <1>1, <2>3 DEF EndWalk, Task
    <3> QED
      BY <3>1, WalkedIsTask DEF TypeOK
  <2>4. CASE QueueChild(g)
    <3>1. PICK c \in task[g].children :
             task' = [task EXCEPT ![g] = [task[g] EXCEPT !.children = task[g].children \ {c}]]
      BY <1>1, <2>4 DEF QueueChild, TypeOK, Task
    <3>2. task[g].children \ {c} \subseteq Categories
      BY <1>1 DEF Task
    <3> QED
      BY <1>1, <3>1, <3>2 DEF TypeOK, Task
  <2> QED
    BY <2>1, <2>2, <2>3, <2>4
<1> QED
  BY <1>1, <1>2, TaskIsSomething DEF TypeOK

(* The worker's task, as WorkedOn and active_tasks see it.                   *)
LEMMA WorkedOnKept ==
  ASSUME TypeOK,
         task'[Worker] = task[Worker]
           \/ (task[Worker] # Nothing /\ task'[Worker] # Nothing
                /\ task'[Worker].category = task[Worker].category)
  PROVE  /\ WorkedOn' = WorkedOn
         /\ task'[Worker] = Nothing <=> task[Worker] = Nothing
  BY DEF WorkedOn

LEMMA InitHolds == Init => IInv /\ NoGhostRows
<1> SUFFICES ASSUME Init PROVE IInv /\ NoGhostRows
  OBVIOUS
<1>1. Elements(index_queue) = {} /\ Distinct(index_queue)
  BY DEF Init, Elements, Distinct
<1>2. TypeOK
  <2>1. index_queue \in Seq(Categories) /\ active_tasks \in 0..1
    BY DEF Init
  <2>2. /\ task \in [Greenlets -> Task \cup {Nothing}]
        /\ backlog \in [Reindexers -> SUBSET Categories]
        /\ async_status \in [Categories -> {"none", "running", "complete", "error"}]
        /\ <<changes, reindexes, failures>> \in Nat \X Nat \X Nat
    BY DEF Init
  <2> QED
    BY <2>1, <2>2 DEF Init, TypeOK
<1>3. WorkedOn = {} /\ ActiveIsBusy
  BY DEF Init, WorkedOn, ActiveIsBusy, Greenlets
<1> QED
  BY <1>1, <1>2, <1>3
  DEF Init, IInv, OneTaskPerCategory, RunningIsExplained, Queued, NoGhostRows

(* Where neither the queue, the statuses nor the worker change, neither do the books. *)
LEMMA BooksUntouched ==
  ASSUME IInv, UNCHANGED <<index_queue, async_status, active_tasks, drained>>,
         task'[Worker] = task[Worker]
           \/ (task[Worker] # Nothing /\ task'[Worker] # Nothing
                /\ task'[Worker].category = task[Worker].category)
  PROVE  OneTaskPerCategory' /\ RunningIsExplained' /\ ActiveIsBusy'
<1>1. WorkedOn' = WorkedOn /\ (task'[Worker] = Nothing <=> task[Worker] = Nothing)
  BY WorkedOnKept DEF IInv
<1> QED
  BY <1>1 DEF IInv, OneTaskPerCategory, RunningIsExplained, ActiveIsBusy, Queued

(* What leaves the queue by the front is the head, and it was "running".     *)
LEMMA DequeueTakes ==
  ASSUME IInv, Dequeue
  PROVE  /\ Head(index_queue) \in Categories \cap Queued
         /\ Head(index_queue) \notin drained
         /\ task[Worker] = Nothing /\ WorkedOn = {} /\ active_tasks = 0
         /\ index_queue' \in Seq(Categories)
         /\ Queued' = Queued \ {Head(index_queue)}
         /\ Distinct(index_queue')
<1>1. index_queue \in Seq(Categories) /\ index_queue # <<>> /\ Distinct(index_queue)
  BY DEF Dequeue, IInv, TypeOK, OneTaskPerCategory
<1>2. /\ Head(index_queue) \in Categories \cap Elements(index_queue)
      /\ Tail(index_queue) \in Seq(Categories)
      /\ Elements(Tail(index_queue)) = Elements(index_queue) \ {Head(index_queue)}
      /\ Distinct(Tail(index_queue))
  BY <1>1, Take
<1> QED
  BY <1>1, <1>2 DEF Dequeue, IInv, OneTaskPerCategory, Queued, WorkedOn, ActiveIsBusy

LEMMA StartStepKeeps ==
  ASSUME IInv, NEW c \in Categories, StartAsyncIndexing(c),
         UNCHANGED <<active_tasks, drained>>,
         UNCHANGED <<disk, index, events, unannounced, reindex, bounds>>,
         backlog' = backlog, library_scan' \subseteq Categories,
         task' \in [Greenlets -> Task \cup {Nothing}],
         task'[Worker] = task[Worker]
           \/ (task[Worker] # Nothing /\ task'[Worker] # Nothing
                /\ task'[Worker].category = task[Worker].category)
  PROVE  IInv'
<1>1. WorkedOn' = WorkedOn /\ (task'[Worker] = Nothing <=> task[Worker] = Nothing)
  BY WorkedOnKept DEF IInv
<1>2. /\ async_status' \in [Categories -> {"none", "running", "complete", "error"}]
      /\ index_queue' \in Seq(Categories)
      /\ indexing_paused' \in BOOLEAN
      /\ OneTaskPerCategory' /\ RunningIsExplained'
  BY <1>1, StartKeeps
<1>3. TypeOK'
  BY <1>2 DEF IInv, TypeOK, bounds
<1>4. ActiveIsBusy'
  BY <1>1 DEF IInv, ActiveIsBusy
<1> QED
  BY <1>2, <1>3, <1>4 DEF IInv

LEMMA WorkerStep ==
  ASSUME IInv, WorkerTakes \/ WorkerCompletes \/ WorkerFails \/ DirectoryMissing
  PROVE  IInv'
<1> USE DEF IInv, OneTaskPerCategory, RunningIsExplained
<1>w. Worker \in Greenlets
  BY DEF Greenlets
<1>1. CASE WorkerTakes
  <2> DEFINE c == Head(index_queue)
  <2>1. Dequeue /\ Begin(Worker, c) /\ active_tasks' = active_tasks + 1
        /\ UNCHANGED <<disk, events, unannounced, async_status, indexing_paused, drained, backlog,
                       library_scan, reindex, bounds>>
    BY <1>1 DEF WorkerTakes
  <2>2. /\ c \in Categories \cap Queued /\ c \notin drained
        /\ task[Worker] = Nothing /\ WorkedOn = {} /\ active_tasks = 0
        /\ index_queue' \in Seq(Categories)
        /\ Queued' = Queued \ {c}
        /\ Distinct(index_queue')
    BY <2>1, DequeueTakes
  <2> HIDE DEF c
  <2>3. /\ index' \subseteq Files
        /\ task' \in [Greenlets -> Task \cup {Nothing}]
        /\ task'[Worker] # Nothing /\ task'[Worker].category = c
    BY <2>1, <2>2, <1>w, BeginKeeps
  <2>4. WorkedOn' = {c} /\ ActiveIsBusy'
    BY <2>1, <2>2, <2>3 DEF WorkedOn, ActiveIsBusy
  <2>5. TypeOK'
    BY <2>1, <2>2, <2>3 DEF TypeOK, bounds
  <2>6. OneTaskPerCategory' /\ RunningIsExplained'
    BY <2>1, <2>2, <2>4
  <2> QED
    BY <2>4, <2>5, <2>6
<1>2. ASSUME NEW status \in {"complete", "error"}, WorkerEnds(status), Busy(Worker, "rest"),
             <<changes, reindexes, failures>>' \in Nat \X Nat \X Nat
      PROVE  IInv'
  <2> DEFINE c == task[Worker].category
  <2>1. task[Worker] # Nothing /\ task[Worker] \in Task /\ c \in Categories
    BY <1>2, <1>w DEF Busy, TypeOK, Task
  <2>2. WorkedOn = {c} /\ active_tasks = 1
    BY <2>1 DEF WorkedOn, ActiveIsBusy
  <2>3. WorkedOn' = {} /\ ActiveIsBusy' /\ TypeOK'
    BY <1>2, <1>w, <2>1, <2>2 DEF WorkerEnds, WorkedOn, ActiveIsBusy, TypeOK, files
  <2>4. OneTaskPerCategory'
    BY <1>2, <2>3 DEF WorkerEnds, Queued
  <2>5. RunningIsExplained'
    BY <1>2, <2>1, <2>2, <2>3 DEF WorkerEnds, Queued, TypeOK
  <2> QED
    BY <2>3, <2>4, <2>5
<1>3. CASE WorkerCompletes
  BY <1>3, <1>2 DEF WorkerCompletes, bounds, TypeOK
<1>4. CASE WorkerFails
  BY <1>4, <1>2 DEF WorkerFails, Fail, TypeOK
<1>5. CASE DirectoryMissing
  <2> DEFINE c == Head(index_queue)
  <2>1. /\ Dequeue /\ async_status' = [async_status EXCEPT ![c] = "error"]
        /\ UNCHANGED <<disk, index, events, unannounced, indexing_paused, active_tasks, drained,
                       task, backlog, library_scan, reindex>>
        /\ <<changes, reindexes, failures>>' \in Nat \X Nat \X Nat
    BY <1>5 DEF DirectoryMissing, Fail, files, TypeOK
  <2>2. /\ c \in Categories \cap Queued /\ c \notin drained
        /\ WorkedOn = {}
        /\ index_queue' \in Seq(Categories)
        /\ Queued' = Queued \ {c}
        /\ Distinct(index_queue')
    BY <2>1, DequeueTakes
  <2> HIDE DEF c
  <2>3. WorkedOn' = WorkedOn /\ ActiveIsBusy'
    BY <2>1 DEF WorkedOn, ActiveIsBusy
  <2>4. TypeOK'
    BY <2>1, <2>2 DEF TypeOK
  <2>5. OneTaskPerCategory'
    BY <2>1, <2>2, <2>3
  <2>6. RunningIsExplained'
    BY <2>1, <2>2, <2>3 DEF TypeOK
  <2> QED
    BY <2>3, <2>4, <2>5, <2>6
<1> QED
  BY <1>1, <1>3, <1>4, <1>5

(* Where only a walk, the files, a reindexer or the admin's request move on. *)
LEMMA OtherStep ==
  ASSUME IInv, TypeOK',
         UNCHANGED <<index_queue, async_status, active_tasks, drained>>,
         task'[Worker] = task[Worker]
           \/ (task[Worker] # Nothing /\ task'[Worker] # Nothing
                /\ task'[Worker].category = task[Worker].category)
  PROVE  IInv'
  BY BooksUntouched DEF IInv

LEMMA WalkStep ==
  ASSUME IInv, NEW g \in Greenlets, Walks(g)
  PROVE  IInv'
<1>w. Worker \in Greenlets
  BY DEF Greenlets
<1>1. /\ task' \in [Greenlets -> Task \cup {Nothing}]
      /\ task[g] \in Task
      /\ task'[g] # Nothing /\ task'[g].category = task[g].category
      /\ \A h \in Greenlets \ {g} : task'[h] = task[h]
  BY WalkKeeps DEF Walks, IInv
<1>2. task'[Worker] = task[Worker]
        \/ (task[Worker] # Nothing /\ task'[Worker] # Nothing
             /\ task'[Worker].category = task[Worker].category)
  BY <1>1, <1>w, TaskIsSomething
<1>3. CASE QueueChild(g)
  <2>1. PICK c \in task[g].children : StartAsyncIndexing(c)
    BY <1>3 DEF QueueChild
  <2>2. c \in Categories
    BY <1>1 DEF Task
  <2>3. /\ UNCHANGED <<active_tasks, drained>>
        /\ UNCHANGED <<disk, index, events, unannounced, reindex, bounds>>
        /\ backlog' = backlog /\ library_scan' \subseteq Categories
    BY <1>3 DEF QueueChild, files, IInv, TypeOK
  <2> QED
    BY <1>1, <1>2, <2>1, <2>2, <2>3, StartStepKeeps
<1>4. ASSUME ListDirectory(g) \/ WalkChunk(g) \/ EndWalk(g)
      PROVE  IInv'
  <2>1. index' \subseteq Files
    <3>1. CASE ListDirectory(g)
      BY <3>1 DEF ListDirectory, files, IInv, TypeOK
    <3>2. CASE WalkChunk(g)
      BY <3>2, <1>1 DEF WalkChunk, IInv, TypeOK, Task
    <3>3. CASE EndWalk(g)
      BY <3>3 DEF EndWalk, IInv, TypeOK
    <3> QED
      BY <1>4, <3>1, <3>2, <3>3
  <2>2. UNCHANGED <<disk, events, unannounced, runtime, backlog, library_scan, reindex, bounds>>
    BY <1>4 DEF ListDirectory, WalkChunk, EndWalk, files
  <2>3. TypeOK'
    BY <1>1, <2>1, <2>2 DEF IInv, TypeOK, runtime, bounds
  <2> QED
    BY <1>2, <2>2, <2>3, OtherStep DEF runtime
<1> QED
  BY <1>3, <1>4 DEF Walks

LEMMA ReindexerStep ==
  ASSUME IInv, NEW r \in Reindexers, ReindexerTakes(r) \/ ReindexerEnds(r) \/ ReindexerFails(r)
  PROVE  IInv'
<1>w. Worker \in Greenlets /\ r \in Greenlets /\ r # Worker
  BY WorkerAssumption DEF Greenlets
<1>1. CASE ReindexerTakes(r)
  <2> DEFINE c == First(backlog[r])
  <2>1. c \in Categories
    BY <1>1 DEF ReindexerTakes, First, IInv, TypeOK
  <2>2. /\ Begin(r, c) /\ backlog' = [backlog EXCEPT ![r] = @ \ {c}]
        /\ UNCHANGED <<disk, events, unannounced, runtime, library_scan, reindex, bounds>>
    BY <1>1 DEF ReindexerTakes
  <2> HIDE DEF c
  <2>3. /\ index' \subseteq Files
        /\ task' \in [Greenlets -> Task \cup {Nothing}]
        /\ task'[Worker] = task[Worker]
    BY <1>w, <2>1, <2>2, BeginKeeps DEF IInv
  <2>4. TypeOK'
    BY <2>2, <2>3 DEF IInv, TypeOK, runtime, bounds
  <2> QED
    BY <2>2, <2>3, <2>4, OtherStep DEF runtime
<1>2. CASE ReindexerEnds(r) \/ ReindexerFails(r)
  <2>1. /\ task' = [task EXCEPT ![r] = Nothing]
        /\ backlog' \in [Reindexers -> SUBSET Categories]
        /\ UNCHANGED <<files, runtime, library_scan, reindex>>
        /\ <<changes, reindexes, failures>>' \in Nat \X Nat \X Nat
    BY <1>2 DEF ReindexerEnds, ReindexerFails, Fail, IInv, TypeOK, bounds
  <2>2. /\ task' \in [Greenlets -> Task \cup {Nothing}]
        /\ task'[Worker] = task[Worker]
    BY <1>w, <2>1 DEF IInv, TypeOK
  <2>3. TypeOK'
    BY <2>1, <2>2 DEF IInv, TypeOK, files, runtime
  <2> QED
    BY <2>1, <2>2, <2>3, OtherStep DEF runtime
<1> QED
  BY <1>1, <1>2

LEMMA StartStep ==
  ASSUME IInv, LibraryScan \/ \E c \in Categories : Browse(c)
  PROVE  IInv'
<1>1. CASE LibraryScan
  <2>1. PICK left, c : /\ left = IF library_scan = {} THEN Categories ELSE library_scan
                       /\ c = First(left) /\ left # {}
                       /\ StartAsyncIndexing(c)
                       /\ library_scan' = left \ {c}
    BY <1>1 DEF LibraryScan
  <2>2. left \subseteq Categories /\ c \in Categories
    BY <2>1 DEF First, IInv, TypeOK
  <2>3. /\ UNCHANGED <<active_tasks, drained, task>>
        /\ UNCHANGED <<disk, index, events, unannounced, reindex, bounds>>
        /\ backlog' = backlog /\ library_scan' \subseteq Categories
    BY <1>1, <2>1, <2>2 DEF LibraryScan, files
  <2> QED
    BY <2>1, <2>2, <2>3, StartStepKeeps DEF IInv, TypeOK
<1>2. ASSUME NEW c \in Categories, Browse(c) PROVE IInv'
  <2>1. /\ StartAsyncIndexing(c)
        /\ UNCHANGED <<active_tasks, drained, task>>
        /\ UNCHANGED <<disk, index, events, unannounced, reindex, bounds>>
        /\ backlog' = backlog /\ library_scan' \subseteq Categories
    BY <1>2 DEF Browse, files, IInv, TypeOK
  <2> QED
    BY <2>1, StartStepKeeps DEF IInv, TypeOK
<1> QED
  BY <1>1, <1>2

(* A drained queue goes to the history, whole; nothing on it was worked on.  *)
LEMMA AdminStep ==
  ASSUME IInv, QuiesceIndexing \/ (\E r \in Reindexers : ReindexMedia(r)) \/ ReindexRefused
  PROVE  IInv'
<1>1. CASE QuiesceIndexing
  <2>1. /\ UNCHANGED <<index_queue, async_status, active_tasks, drained, task>>
        /\ TypeOK'
    BY <1>1 DEF QuiesceIndexing, IInv, TypeOK, files
  <2> QED
    BY <2>1, OtherStep
<1>2. ASSUME DrainQueue, UNCHANGED <<async_status, active_tasks, task, indexing_paused>>, TypeOK'
      PROVE  IInv'
  <2>1. Queued' = {} /\ Distinct(index_queue') /\ WorkedOn' = WorkedOn
        /\ drained' = drained \cup Queued
    BY <1>2 DEF DrainQueue, Queued, Elements, Distinct, WorkedOn
  <2> QED
    BY <1>2, <2>1 DEF IInv, OneTaskPerCategory, RunningIsExplained, ActiveIsBusy
<1>3. DrainQueue => index_queue' \in Seq(Categories) /\ drained' \subseteq Categories
  <2>1. Elements(index_queue) \subseteq Categories
    BY DEF IInv, TypeOK, Elements
  <2> QED
    BY <2>1 DEF DrainQueue, IInv, TypeOK
<1>4. ASSUME NEW r \in Reindexers, ReindexMedia(r) PROVE IInv'
  <2>1. backlog' \in [Reindexers -> SUBSET Categories] /\ index' \subseteq Files
    BY <1>4 DEF ReindexMedia, IInv, TypeOK
  <2>2. TypeOK'
    BY <1>3, <1>4, <2>1 DEF ReindexMedia, IInv, TypeOK, bounds
  <2> QED
    BY <1>2, <1>4, <2>2 DEF ReindexMedia
<1>5. CASE ReindexRefused
  <2>1. TypeOK'
    BY <1>3, <1>5 DEF ReindexRefused, IInv, TypeOK, files, bounds
  <2> QED
    BY <1>2, <1>5, <2>1 DEF ReindexRefused
<1> QED
  BY <1>1, <1>4, <1>5

LEMMA FileStep ==
  ASSUME IInv, NEW f \in Files, Arrives(f) \/ Deleted(f) \/ Vanishes(f) \/ Announces(f)
  PROVE  IInv'
<1>1. UNCHANGED <<runtime, task, backlog, library_scan, reindex>>
  BY DEF Arrives, Deleted, Vanishes, Announces, HandleFileUploaded, HandleFileDeleted, Change
<1>2. <<changes, reindexes, failures>>' \in Nat \X Nat \X Nat
  BY DEF Arrives, Deleted, Vanishes, Announces, HandleFileUploaded, HandleFileDeleted, Change,
         IInv, TypeOK, bounds
<1>3. disk' \subseteq Files /\ index' \subseteq Files /\ events' \subseteq Event
      /\ unannounced' \subseteq Files
  BY DEF Arrives, Deleted, Vanishes, Announces, HandleFileUploaded, HandleFileDeleted, Change,
         IInv, TypeOK, Event
<1>4. TypeOK'
  BY <1>1, <1>2, <1>3 DEF IInv, TypeOK, runtime
<1> QED
  BY <1>1, <1>4, OtherStep DEF runtime

LEMMA RestartStep ==
  ASSUME IInv, Restart
  PROVE  IInv'
<1>1. index_queue' \in Seq(Categories) /\ Elements(index_queue') = {} /\ Distinct(index_queue')
  BY DEF Restart, Elements, Distinct
<1>2. task'[Worker] = Nothing
  BY DEF Restart, Greenlets
<1>3. /\ task' \in [Greenlets -> Task \cup {Nothing}]
      /\ backlog' \in [Reindexers -> SUBSET Categories]
      /\ async_status' \in [Categories -> {"none", "running", "complete", "error"}]
      /\ unannounced' \subseteq Files /\ events' \subseteq Event /\ active_tasks' \in 0..1
      /\ <<changes, reindexes, failures>>' \in Nat \X Nat \X Nat
  BY DEF Restart, IInv, TypeOK
<1>4. TypeOK'
  BY <1>1, <1>3 DEF Restart, IInv, TypeOK
<1>5. WorkedOn' = {} /\ ActiveIsBusy'
  BY <1>2 DEF Restart, WorkedOn, ActiveIsBusy
<1>6. OneTaskPerCategory' /\ RunningIsExplained'
  BY <1>1, <1>5 DEF Restart, OneTaskPerCategory, RunningIsExplained, Queued
<1> QED
  BY <1>4, <1>5, <1>6 DEF IInv

LEMMA BooksNext == IInv /\ [Next]_vars => IInv'
<1> SUFFICES ASSUME IInv, [Next]_vars PROVE IInv'
  OBVIOUS
<1>1. CASE LibraryScan \/ \E c \in Categories : Browse(c)
  BY <1>1, StartStep
<1>2. CASE WorkerSteps \/ DirectoryMissing \/ WorkerFails
  BY <1>2, WorkerStep, WalkStep DEF WorkerSteps, Greenlets
<1>3. ASSUME NEW r \in Reindexers, Reindexes(r) \/ ReindexerFails(r) PROVE IInv'
  BY <1>3, ReindexerStep, WalkStep DEF Reindexes, Greenlets
<1>4. CASE QuiesceIndexing \/ Answers
  BY <1>4, AdminStep DEF Answers
<1>5. ASSUME NEW f \in Files, Arrives(f) \/ Deleted(f) \/ Vanishes(f) \/ Announces(f) PROVE IInv'
  BY <1>5, FileStep
<1>6. CASE Restart
  BY <1>6, RestartStep
<1>7. CASE UNCHANGED vars
  <2>1. /\ UNCHANGED <<index_queue, async_status, active_tasks, drained, task>>
        /\ TypeOK'
    BY <1>7 DEF IInv, TypeOK, vars, files, runtime, bounds
  <2> QED
    BY <2>1, OtherStep
<1> QED
  BY <1>1, <1>2, <1>3, <1>4, <1>5, <1>6, <1>7 DEF Next

(* Rows are written for files that are there; whatever takes files, events   *)
(* or the history away takes no more than their due.                         *)
LEMMA GhostsNext == IInv /\ NoGhostRows /\ [Next]_vars => NoGhostRows'
<1> SUFFICES ASSUME IInv, NoGhostRows, [Next]_vars PROVE NoGhostRows'
  OBVIOUS
<1> USE DEF NoGhostRows
<1>1. ASSUME UNCHANGED <<disk, events, unannounced>>, index' \ disk \subseteq index \ disk
      PROVE  NoGhostRows'
  BY <1>1
<1>2. CASE LibraryScan \/ (\E c \in Categories : Browse(c)) \/ WorkerCompletes \/ WorkerFails
           \/ DirectoryMissing \/ QuiesceIndexing \/ ReindexRefused \/ UNCHANGED vars
  BY <1>1, <1>2 DEF LibraryScan, Browse, WorkerCompletes, WorkerFails, WorkerEnds,
       DirectoryMissing, QuiesceIndexing, ReindexRefused, files, vars
<1>3. CASE WorkerTakes
  <2>1. index_queue \in Seq(Categories) /\ index_queue # <<>> /\ Begin(Worker, Head(index_queue))
    BY <1>3 DEF WorkerTakes, Dequeue, IInv, TypeOK
  <2>2. index' \ disk \subseteq index \ disk
    BY <2>1, BeginKeeps DEF IInv, Greenlets
  <2> QED
    BY <1>1, <1>3, <2>2 DEF WorkerTakes
<1>4. ASSUME NEW r \in Reindexers, Reindexes(r) \/ ReindexerFails(r), ~Walks(r) PROVE NoGhostRows'
  <2>1. CASE ReindexerTakes(r)
    <3>1. First(backlog[r]) \in Categories /\ Begin(r, First(backlog[r]))
      BY <2>1 DEF ReindexerTakes, First, IInv, TypeOK
    <3>2. index' \ disk \subseteq index \ disk
      BY <3>1, BeginKeeps DEF IInv, Greenlets
    <3> QED
      BY <1>1, <2>1, <3>2 DEF ReindexerTakes
  <2>2. CASE ReindexerEnds(r) \/ ReindexerFails(r)
    BY <1>1, <2>2 DEF ReindexerEnds, ReindexerFails, files
  <2> QED
    BY <1>4, <2>1, <2>2 DEF Reindexes
<1>5. ASSUME NEW g \in Greenlets, Walks(g) PROVE NoGhostRows'
  BY <1>1, <1>5 DEF Walks, ListDirectory, WalkChunk, EndWalk, QueueChild, files
<1>6. ASSUME NEW r \in Reindexers, ReindexMedia(r) PROVE NoGhostRows'
  BY <1>1, <1>6 DEF ReindexMedia
<1>7. ASSUME NEW f \in Files, Arrives(f) \/ Deleted(f) \/ Vanishes(f) \/ Announces(f)
      PROVE  NoGhostRows'
  <2> SUFFICES ASSUME NEW x \in index' \ disk'
               PROVE  x \in unannounced' \/ [type |-> "deleted", file |-> x] \in events'
    OBVIOUS
  <2>1. CASE Arrives(f)
    BY <2>1 DEF Arrives, Change
  <2>2. CASE Deleted(f) \/ Vanishes(f)
    BY <2>2 DEF Deleted, Vanishes, Change
  <2>3. CASE HandleFileUploaded(f)
    BY <2>3 DEF HandleFileUploaded
  <2>4. CASE HandleFileDeleted(f)
    BY <2>4 DEF HandleFileDeleted
  <2> QED
    BY <1>7, <2>1, <2>2, <2>3, <2>4 DEF Announces
<1>8. CASE Restart
  BY <1>8 DEF Restart, IInv, TypeOK
<1> QED
  BY <1>2, <1>3, <1>4, <1>5, <1>6, <1>7, <1>8 DEF Next, WorkerSteps, Reindexes, Answers, Greenlets

-----------------------------------------------------------------------------

(* However the scan, the page requests, the parents and the reindex start     *)
(* categories, a category is queued or worked on once, its status says so,    *)
(* and active_tasks counts the worker's task.                                 *)
THEOREM Books == Spec => []IInv
<1>1. Init => IInv
  BY InitHolds
<1> QED
  BY <1>1, BooksNext, PTL DEF Spec

(* media_index has no row of a file that is gone, unless the deletion is      *)
(* still being announced or was never announced.                              *)
THEOREM Ghostless == Spec => []NoGhostRows
<1>1. Init => NoGhostRows
  BY InitHolds
<1> QED
  BY <1>1, Books, GhostsNext, PTL DEF Spec
=============================================================================
