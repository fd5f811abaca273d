---------------------------- MODULE LibraryIndex ----------------------------
(***************************************************************************)
(* How media_index follows the disk: the index worker and the background    *)
(* reindex of indexing_runtime_service.py and indexing_processor.py, the    *)
(* scans and page requests that start them, the storage events of           *)
(* storage_event_handler_service.py, and the admin's reindex in             *)
(* admin_maintenance_controller.py.                                         *)
(*                                                                          *)
(* Greenlets yield between the chunks of a walk, while thumbnails are made,  *)
(* between the categories of a scan, while a file is moved or removed, and   *)
(* during the quiesce.  SQLite does not yield.  A chunk is one entry of one  *)
(* directory, and every file lies in the directory of one category.          *)
(***************************************************************************)
EXTENDS Naturals, Sequences, FiniteSets

CONSTANTS Categories,
          AutoIds,       \* categories whose id starts with "auto::"
          Children,      \* the categories of an auto category's subdirectories
          Files,         \* media files
          Home,          \* the category of a file
          Worker,        \* the index worker
          Reindexers,    \* greenlets of start_background_reindex
          Nothing,       \* no task
          MaxChanges,    \* bound: files that come or go
          MaxReindexes,  \* bound: reindex requests of the admin
          MaxFailures    \* bound: tasks that fail, and restarts

ASSUME AutoAssumption == AutoIds \subseteq Categories
ASSUME ChildrenAssumption == Children \in [AutoIds -> SUBSET AutoIds]
ASSUME HomeAssumption == Home \in [Files -> Categories]
ASSUME WorkerAssumption == Worker \notin Reindexers
ASSUME NothingAssumption == Nothing \notin [phase : {"count", "walk", "rest"}, category : Categories,
                                            todo : SUBSET Files, seen : SUBSET Files,
                                            children : SUBSET Categories]

VARIABLES disk,          \* the media files there are
          index,         \* the files with a row in media_index
          events,        \* storage events their greenlets have still to emit
          async_status,  \* the status of each category, or "none"
          index_queue,
          indexing_paused,
          active_tasks,
          task,          \* what the worker and the reindexers process
          backlog,       \* the categories a reindexer has still to process
          library_scan,  \* the categories a running library scan has still to start
          reindex,       \* the admin's request
          drained,       \* history: categories whose task was drained
          unannounced,   \* history: files that went without a storage event
          changes, reindexes, failures   \* bounds

files == <<disk, index, events, unannounced>>
runtime == <<async_status, index_queue, indexing_paused, active_tasks, drained>>
bounds == <<changes, reindexes, failures>>
vars == <<files, runtime, task, backlog, library_scan, reindex, bounds>>

Greenlets == {Worker} \cup Reindexers
Task == [phase : {"count", "walk", "rest"}, category : Categories,
         todo : SUBSET Files, seen : SUBSET Files, children : SUBSET Categories]
Event == [type : {"uploaded", "deleted"}, file : Files]
Of(c) == {f \in Files : Home[f] = c}
Elements(q) == {q[i] : i \in DOMAIN q}

\* The runtime's state is well typed; every task queued is of a known category.
TypeOK ==
    /\ disk \subseteq Files
    /\ index \subseteq Files
    /\ events \subseteq Event
    /\ async_status \in [Categories -> {"none", "running", "complete", "error"}]
    /\ index_queue \in Seq(Categories)
    /\ indexing_paused \in BOOLEAN
    /\ active_tasks \in 0..1
    /\ task \in [Greenlets -> Task \cup {Nothing}]
    /\ backlog \in [Reindexers -> SUBSET Categories]
    /\ library_scan \subseteq Categories
    /\ reindex \in {"idle", "quiescing"}
    /\ drained \subseteq Categories
    /\ unannounced \subseteq Files
    /\ <<changes, reindexes, failures>> \in Nat \X Nat \X Nat

Init ==
    /\ disk \in SUBSET Files
    /\ index = {}
    /\ events = {}
    /\ async_status = [c \in Categories |-> "none"]
    /\ index_queue = <<>>
    /\ indexing_paused = FALSE
    /\ active_tasks = 0
    /\ task = [g \in Greenlets |-> Nothing]
    /\ backlog = [r \in Reindexers |-> {}]
    /\ library_scan = {}
    /\ reindex = "idle"
    /\ drained = {}
    /\ unannounced = {}
    /\ changes = 0 /\ reindexes = 0 /\ failures = 0

-----------------------------------------------------------------------------
(* Starting tasks. *)

\* A category that is running is left alone; any other is queued, and the
\* worker is let go on.
StartWithoutCheck(c) ==
    /\ async_status' = [async_status EXCEPT ![c] = "running"]
    /\ index_queue' = Append(index_queue, c)
    /\ indexing_paused' = FALSE
StartPaused(c) ==
    IF async_status[c] = "running"
    THEN UNCHANGED <<async_status, index_queue, indexing_paused>>
    ELSE /\ async_status' = [async_status EXCEPT ![c] = "running"]
         /\ index_queue' = Append(index_queue, c)
         /\ UNCHANGED indexing_paused
StartAsyncIndexing(c) ==
    IF async_status[c] = "running"
    THEN UNCHANGED <<async_status, index_queue, indexing_paused>>
    ELSE /\ async_status' = [async_status EXCEPT ![c] = "running"]
         /\ index_queue' = Append(index_queue, c)
         /\ indexing_paused' = FALSE

\* The categories come in the same order every time.
First(cs) == CHOOSE c \in cs : TRUE

\* The library scan starts one category and sleeps; a new scan begins, every
\* LIBRARY_SCAN_INTERVAL, when the one before is through.
LibraryScan ==
    /\ LET left == IF library_scan = {} THEN Categories ELSE library_scan
           c == First(left)
       IN /\ left # {}
          /\ StartAsyncIndexing(c)
          /\ library_scan' = left \ {c}
    /\ UNCHANGED <<files, active_tasks, drained, task, backlog, reindex, bounds>>

\* A page of the category is asked for: an index without rows is built, unless
\* a task is running or was complete; a forced refresh walks again.
Browse(c) ==
    /\ \/ index \cap Of(c) = {} /\ async_status[c] \in {"none", "error"}
       \/ index \cap Of(c) # {} /\ async_status[c] # "running"
    /\ StartAsyncIndexing(c)
    /\ UNCHANGED <<files, active_tasks, drained, task, backlog, library_scan, reindex, bounds>>

-----------------------------------------------------------------------------
(* process_indexing_task, in the worker and in the reindexers. *)

ChildrenOf(c) == IF c \in AutoIds THEN Children[c] ELSE {}

Walked(c) == [phase |-> "rest", category |-> c, todo |-> {}, seen |-> {},
              children |-> ChildrenOf(c)]

\* An auto category is not recursive: its directory is listed and indexed
\* without a yield.  The files of any other category are counted first.
Begin(g, c) ==
    \/ /\ c \in AutoIds
       /\ index' = (index \ Of(c)) \cup (disk \cap Of(c))
       /\ task' = [task EXCEPT ![g] = Walked(c)]
    \/ /\ c \notin AutoIds
       /\ UNCHANGED index
       /\ task' = [task EXCEPT ![g] = [Walked(c) EXCEPT !.phase = "count"]]

Dequeue ==
    /\ ~indexing_paused /\ task[Worker] = Nothing /\ index_queue # <<>>
    /\ index_queue' = Tail(index_queue)

WorkerTakes ==
    /\ Dequeue
    /\ Begin(Worker, Head(index_queue))
    /\ active_tasks' = active_tasks + 1
    /\ UNCHANGED <<disk, events, unannounced, async_status, indexing_paused, drained, backlog,
                   library_scan, reindex, bounds>>

Busy(g, phase) == task[g] # Nothing /\ task[g].phase = phase

\* os.walk lists the directory; the generator then hands out chunk after chunk.
ListDirectory(g) ==
    /\ Busy(g, "count")
    /\ task' = [task EXCEPT ![g].phase = "walk", ![g].todo = disk \cap Of(task[g].category)]
    /\ UNCHANGED <<files, runtime, backlog, library_scan, reindex, bounds>>

\* One chunk: the row of a file that still exists is written, the file counts as seen.
WalkChunkUnchecked(g) ==
    /\ Busy(g, "walk")
    /\ \E f \in task[g].todo :
          /\ index' = index \cup {f}
          /\ task' = [task EXCEPT ![g].todo = @ \ {f}, ![g].seen = @ \cup {f}]
    /\ UNCHANGED <<disk, events, unannounced, runtime, backlog, library_scan, reindex, bounds>>
WalkChunk(g) ==
    /\ Busy(g, "walk")
    /\ \E f \in task[g].todo :
          /\ index' = index \cup ({f} \cap disk)
          /\ task' = [task EXCEPT ![g].todo = @ \ {f}, ![g].seen = @ \cup {f}]
    /\ UNCHANGED <<disk, events, unannounced, runtime, backlog, library_scan, reindex, bounds>>

\* The end of the walk: the rows of files it has not seen go.
EndWalk(g) ==
    /\ Busy(g, "walk") /\ task[g].todo = {}
    /\ index' = index \ (Of(task[g].category) \ task[g].seen)
    /\ task' = [task EXCEPT ![g] = Walked(@.category)]
    /\ UNCHANGED <<disk, events, unannounced, runtime, backlog, library_scan, reindex, bounds>>

\* After the thumbnails: the subdirectories of an auto category are started.
QueueChild(g) ==
    /\ Busy(g, "rest")
    /\ \E c \in task[g].children :
          /\ StartAsyncIndexing(c)
          /\ task' = [task EXCEPT ![g].children = @ \ {c}]
    /\ UNCHANGED <<files, active_tasks, drained, backlog, library_scan, reindex, bounds>>

\* The worker's task ends with a status; it is no longer active.
WorkerEnds(status) ==
    /\ async_status' = [async_status EXCEPT ![task[Worker].category] = status]
    /\ active_tasks' = active_tasks - 1
    /\ task' = [task EXCEPT ![Worker] = Nothing]
    /\ UNCHANGED <<files, index_queue, indexing_paused, drained, backlog, library_scan, reindex>>

WorkerCompletes ==
    /\ Busy(Worker, "rest") /\ task[Worker].children = {}
    /\ WorkerEnds("complete")
    /\ UNCHANGED bounds

\* The reindexer goes on to its next category, or ends.
Done(g) == task[g] # Nothing => (task[g].phase = "rest" /\ task[g].children = {})

ReindexerTakes(r) ==
    /\ Done(r) /\ backlog[r] # {}
    /\ LET c == First(backlog[r]) IN
       /\ Begin(r, c)
       /\ backlog' = [backlog EXCEPT ![r] = @ \ {c}]
    /\ UNCHANGED <<disk, events, unannounced, runtime, library_scan, reindex, bounds>>

ReindexerEnds(r) ==
    /\ Done(r) /\ backlog[r] = {} /\ task[r] # Nothing
    /\ task' = [task EXCEPT ![r] = Nothing]
    /\ UNCHANGED <<files, runtime, backlog, library_scan, reindex, bounds>>

Fail ==
    /\ failures < MaxFailures
    /\ failures' = failures + 1
    /\ UNCHANGED <<changes, reindexes>>

\* The directory is missing.
DirectoryMissing ==
    /\ Fail
    /\ Dequeue
    /\ async_status' = [async_status EXCEPT ![Head(index_queue)] = "error"]
    /\ UNCHANGED <<files, indexing_paused, active_tasks, drained, task, backlog, library_scan,
                   reindex>>

\* The version hash cannot be written.
WorkerFails ==
    /\ Fail
    /\ Busy(Worker, "rest")
    /\ WorkerEnds("error")

\* The categories the reindexer had still to process are given up.
ReindexerFails(r) ==
    /\ Fail
    /\ Busy(r, "rest")
    /\ task' = [task EXCEPT ![r] = Nothing]
    /\ backlog' = [backlog EXCEPT ![r] = {}]
    /\ UNCHANGED <<files, runtime, library_scan, reindex>>

-----------------------------------------------------------------------------
(* The admin's reindex. *)

QuiesceIndexing ==
    /\ reindex = "idle" /\ reindexes < MaxReindexes
    /\ indexing_paused' = TRUE
    /\ reindex' = "quiescing"
    /\ reindexes' = reindexes + 1
    /\ UNCHANGED <<files, async_status, index_queue, active_tasks, drained, task, backlog,
                   library_scan, changes, failures>>

\* The queued tasks are dropped; their categories' statuses stay as they are.
DrainQueue ==
    /\ index_queue' = <<>>
    /\ drained' = drained \cup Elements(index_queue)

\* No task is active: every index is cleared and a reindexer started.
ReindexMedia(r) ==
    /\ reindex = "quiescing" /\ active_tasks = 0
    /\ task[r] = Nothing /\ backlog[r] = {}
    /\ DrainQueue
    /\ index' = {}
    /\ backlog' = [backlog EXCEPT ![r] = Categories]
    /\ reindex' = "idle"
    /\ UNCHANGED <<disk, events, unannounced, async_status, indexing_paused, active_tasks, task,
                   library_scan, bounds>>

\* The deadline passed and a task is active: 409.
ReindexRefused ==
    /\ reindex = "quiescing" /\ active_tasks > 0
    /\ DrainQueue
    /\ reindex' = "idle"
    /\ UNCHANGED <<files, async_status, indexing_paused, active_tasks, task, backlog,
                   library_scan, bounds>>

-----------------------------------------------------------------------------
(* Files, and a restart of the process. *)

Change ==
    /\ changes < MaxChanges
    /\ changes' = changes + 1
    /\ UNCHANGED <<index, runtime, task, backlog, library_scan, reindex, reindexes, failures>>

\* A file arrives, by an upload that will announce it or by other means.
Arrives(f) ==
    /\ Change
    /\ f \notin disk
    /\ disk' = disk \cup {f}
    /\ unannounced' = unannounced \ {f}
    /\ \/ events' = events \cup {[type |-> "uploaded", file |-> f]}
       \/ UNCHANGED events

\* delete_file, and a file that goes by other means.
Deleted(f) ==
    /\ Change
    /\ f \in disk
    /\ disk' = disk \ {f}
    /\ events' = events \cup {[type |-> "deleted", file |-> f]}
    /\ UNCHANGED unannounced
Vanishes(f) ==
    /\ Change
    /\ f \in disk
    /\ disk' = disk \ {f}
    /\ unannounced' = unannounced \cup {f}
    /\ UNCHANGED events

\* The file is stat'ed before its row is written.
HandleFileUploaded(f) ==
    /\ [type |-> "uploaded", file |-> f] \in events
    /\ events' = events \ {[type |-> "uploaded", file |-> f]}
    /\ index' = index \cup ({f} \cap disk)
    /\ UNCHANGED <<disk, unannounced, runtime, task, backlog, library_scan, reindex, bounds>>

HandleFileDeleted(f) ==
    /\ [type |-> "deleted", file |-> f] \in events
    /\ events' = events \ {[type |-> "deleted", file |-> f]}
    /\ index' = index \ {f}
    /\ UNCHANGED <<disk, unannounced, runtime, task, backlog, library_scan, reindex, bounds>>

\* The process is restarted: the database stays, all else begins anew.
Restart ==
    /\ failures < MaxFailures
    /\ failures' = failures + 1
    /\ unannounced' = unannounced
          \cup {f \in Files : [type |-> "deleted", file |-> f] \in events /\ f \notin disk}
    /\ events' = {}
    /\ async_status' = [c \in Categories |-> "none"]
    /\ index_queue' = <<>>
    /\ indexing_paused' = FALSE
    /\ active_tasks' = 0
    /\ task' = [g \in Greenlets |-> Nothing]
    /\ backlog' = [r \in Reindexers |-> {}]
    /\ library_scan' = {}
    /\ reindex' = "idle"
    /\ drained' = {}
    /\ UNCHANGED <<disk, index, changes, reindexes>>

-----------------------------------------------------------------------------
Walks(g) == ListDirectory(g) \/ WalkChunk(g) \/ EndWalk(g) \/ QueueChild(g)

WorkerSteps == WorkerTakes \/ Walks(Worker) \/ WorkerCompletes
Reindexes(r) == ReindexerTakes(r) \/ Walks(r) \/ ReindexerEnds(r)
Announces(f) == HandleFileUploaded(f) \/ HandleFileDeleted(f)
Answers == (\E r \in Reindexers : ReindexMedia(r)) \/ ReindexRefused

Next ==
    \/ LibraryScan \/ (\E c \in Categories : Browse(c))
    \/ WorkerSteps \/ DirectoryMissing \/ WorkerFails
    \/ \E r \in Reindexers : Reindexes(r) \/ ReindexerFails(r)
    \/ QuiesceIndexing \/ Answers
    \/ \E f \in Files : Arrives(f) \/ Deleted(f) \/ Vanishes(f) \/ Announces(f)
    \/ Restart

Spec == Init /\ [][Next]_vars

\* Greenlets are scheduled, the scan is periodic, a quiesce has a deadline.
Fairness ==
    /\ WF_vars(LibraryScan) /\ WF_vars(WorkerSteps) /\ WF_vars(Answers)
    /\ \A r \in Reindexers : WF_vars(Reindexes(r))
    /\ \A f \in Files : WF_vars(Announces(f))

FairSpec == Spec /\ Fairness

-----------------------------------------------------------------------------
(* Properties. *)

Queued == Elements(index_queue)
Distinct(q) == \A i, j \in DOMAIN q : q[i] = q[j] => i = j
WorkedOn == IF task[Worker] = Nothing THEN {} ELSE {task[Worker].category}

\* No category is queued twice, or queued while the worker is on it: however
\* scans, page requests, parents and the reindex start it, one task at a time.
OneTaskPerCategory ==
    /\ Distinct(index_queue)
    /\ Queued \cap WorkedOn = {}
    /\ drained \cap (Queued \cup WorkedOn) = {}

\* A category is "running" exactly when its task is queued or under way, or
\* was drained by a reindex.
RunningIsExplained ==
    \A c \in Categories : async_status[c] = "running" <=> c \in Queued \cup WorkedOn \cup drained

\* active_tasks, on which the quiesce decides, counts the worker's task.
ActiveIsBusy == active_tasks = IF task[Worker] = Nothing THEN 0 ELSE 1

\* What the worker, the starts and the quiesce keep between them.
IInv == TypeOK /\ OneTaskPerCategory /\ RunningIsExplained /\ ActiveIsBusy

\* The library never offers a file that is gone, unless nobody told the server
\* or the deletion is still being announced: a row is never written for a file
\* that a walk or an upload event no longer finds.
NoGhostRows ==
    \A f \in index \ disk : f \in unannounced \/ [type |-> "deleted", file |-> f] \in events

\* Once files stop coming and going, the index of every category shows just
\* what is on the disk, whatever walks, events, failures and reindexes went
\* before; a category whose task was drained is excepted.
IndexCatchesUp ==
    <>[](\A c \in Categories : c \in drained \/ index \cap Of(c) = disk \cap Of(c))
=============================================================================
