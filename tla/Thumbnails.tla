---------------------------- MODULE Thumbnails ----------------------------
(***************************************************************************)
(* The thumbnail runtime: two queues, workers that wait for ffmpeg, batches *)
(* that count the progress of a category, and the quiesce before an         *)
(* administrator clears the cache.  A task is a file, with whether its      *)
(* thumbnail is forced; its key keeps it from being queued twice.           *)
(*                                                                         *)
(* interrupted is a history: a quiesce has forgotten tasks that were being  *)
(* worked on, because it waits only so long.                                *)
(***************************************************************************)
EXTENDS Integers, FiniteSets, SequencesExt

CONSTANTS
    Tasks, CategoryOf(_),    \* by task: its category
    Workers,
    Indexers,          \* greenlets whose batch drops what does not fit, at once or
                       \* after a while
    Regenerators,      \* greenlets whose batch waits for ever
    Clearers,          \* the administrator's requests to clear a cache
    MaxQueue,          \* _thumbnail_queue_maxsize
    MaxRequests,       \* bounds the batches and single requests
    NoTask, Waiting

ThumbnailCategories == {CategoryOf(t) : t \in Tasks}
Batchers == Indexers \cup Regenerators

ASSUME ThumbnailAssumption ==
    /\ MaxQueue \in Nat \ {0} /\ MaxRequests \in Nat
    /\ {NoTask, Waiting} \cap Tasks = {} /\ NoTask # Waiting
    /\ IsFiniteSet(Tasks) /\ IsFiniteSet(Workers)

VARIABLES
    priority, regular, \* the queues
    keys,              \* _queued_thumbnail_task_keys: of tasks queued or worked on
    boosted,           \* categories whose tasks go to the priority queue
    working,           \* by worker: its task, or Waiting at the queues, or NoTask
    stats,             \* by category: what is counted, or NoTask
    processing,        \* _thumbnail_processing_categories
    batch,             \* by greenlet: the tasks it has still to enqueue
    paused,
    clearing,          \* where the administrator's requests are
    interrupted, requests

thumbnailVars == <<priority, regular, keys, boosted, working, stats, processing, batch, paused,
                   clearing, interrupted, requests>>
queueVars == <<priority, regular, keys>>
countVars == <<stats, processing>>

\* What is counted for a category.
Counts == [total : Nat, processed : Nat, batch_mode : BOOLEAN]

ThumbnailsTypeOK ==
    /\ priority \in Seq(Tasks) /\ regular \in Seq(Tasks) /\ keys \subseteq Tasks
    /\ boosted \subseteq ThumbnailCategories /\ processing \subseteq ThumbnailCategories
    /\ working \in [Workers -> Tasks \cup {NoTask, Waiting}]
    /\ stats \in [ThumbnailCategories -> Counts \cup {NoTask}]
    /\ batch \in [Batchers -> SUBSET Tasks]
    /\ clearing \in [Clearers -> {"no", "quiescing", "purging", "done"}]
    /\ paused \in BOOLEAN /\ interrupted \in BOOLEAN /\ requests \in 0..MaxRequests

\* The workers have come to the queues.
ThumbnailsInit ==
    /\ priority = <<>> /\ regular = <<>> /\ keys = {} /\ boosted = {}
    /\ working = [w \in Workers |-> Waiting]
    /\ stats = [c \in ThumbnailCategories |-> NoTask] /\ processing = {}
    /\ batch = [b \in Batchers |-> {}]
    /\ paused = FALSE /\ clearing = [a \in Clearers |-> "no"]
    /\ interrupted = FALSE /\ requests = 0

-----------------------------------------------------------------------------
QueueSize == Len(priority) + Len(regular)
Room == MaxQueue - QueueSize
HasQueuedTasks(c) == \E t \in ToSet(priority \o regular) : CategoryOf(t) = c
Active == {w \in Workers : working[w] \in Tasks}

\* The critical section of queue_thumbnail, for tasks that fit; without their keys the
\* next request would queue them again.
EnqueueWithoutKeys(ts) ==
    /\ Cardinality(ts) <= Room
    /\ regular' = regular \o SetToSeq(ts)
    /\ UNCHANGED <<priority, keys>>
Enqueue(ts) ==
    LET front == {t \in ts : CategoryOf(t) \in boosted} IN
    /\ Cardinality(ts) <= Room
    /\ priority' = priority \o SetToSeq(front)
    /\ regular' = regular \o SetToSeq(ts \ front)
    /\ keys' = keys \cup ts

\* start_thumbnail_batch: whatever is counted for the category starts anew.
Counting(n) == [total |-> n, processed |-> 0, batch_mode |-> TRUE]

\* _record_thumbnail_drop: what was not counted is, from now on.
Dropped(s) ==
    IF s = NoTask THEN [total |-> 0, processed |-> 0, batch_mode |-> FALSE]
    ELSE [s EXCEPT !.total = IF @ = 0 THEN 0 ELSE @ - 1]

Completed(s) == s # NoTask /\ ~s.batch_mode /\ s.processed >= s.total

\* The counts of c become s, and the categories seen are processed; complete counts
\* are forgotten and announced.
Count(c, s, seen) ==
    /\ stats' = [stats EXCEPT ![c] = IF Completed(s) THEN NoTask ELSE s]
    /\ processing' = IF Completed(s) THEN seen \ {c} ELSE seen

\* finish_thumbnail_batch, when the batch b of c has nothing left; a batch that an error
\* ends without it would be counted for ever.
ProceedUnfinished(b, c, left, s, seen) ==
    /\ batch' = [batch EXCEPT ![b] = left]
    /\ stats' = [stats EXCEPT ![c] = s] /\ processing' = seen
Proceed(b, c, left, s, seen) ==
    /\ batch' = [batch EXCEPT ![b] = left]
    /\ IF left # {} THEN stats' = [stats EXCEPT ![c] = s] /\ processing' = seen
       ELSE Count(c, IF s = NoTask THEN s ELSE [s EXCEPT !.batch_mode = FALSE], seen)

-----------------------------------------------------------------------------
(* Requests. *)

MayRequest == requests < MaxRequests /\ requests' = requests + 1

\* queue_thumbnail for a page that misses a thumbnail.
RequestThumbnail(t) ==
    /\ MayRequest /\ t \notin keys
    /\ IF Room > 0
       THEN Enqueue({t}) /\ processing' = processing \cup {CategoryOf(t)} /\ UNCHANGED stats
       ELSE /\ stats' = [stats EXCEPT ![CategoryOf(t)] = Dropped(@)]
            /\ UNCHANGED <<queueVars, processing>>
    /\ UNCHANGED <<boosted, working, batch, paused, clearing, interrupted>>

\* The batch of an uploaded file, of an indexed category, or of a regeneration.
StartBatch(b, c) ==
    /\ MayRequest /\ batch[b] = {}
    /\ \E ts \in (SUBSET {t \in Tasks : CategoryOf(t) = c}) \ {{}} :
        /\ batch' = [batch EXCEPT ![b] = ts]
        /\ stats' = [stats EXCEPT ![c] = Counting(Cardinality(ts))]
    /\ processing' = processing \cup {c}
    /\ UNCHANGED <<queueVars, boosted, working, paused, clearing, interrupted>>

\* It goes on with its queue_thumbnail calls; what is queued or worked on is skipped.
ContinueBatch(b, c) ==
    /\ \E ts \in (SUBSET batch[b]) \ {{}} :
        /\ \A t \in ts : CategoryOf(t) = c
        /\ Enqueue(ts \ keys)
        /\ Proceed(b, c, batch[b] \ ts, stats[c],
                   IF ts \subseteq keys THEN processing ELSE processing \cup {c})
    /\ UNCHANGED <<boosted, working, paused, clearing, interrupted, requests>>

\* The queue is full, for as long as this batch waits.
DropTask(b, t) ==
    /\ b \in Indexers /\ t \in batch[b] \ keys /\ Room <= 0
    /\ Proceed(b, CategoryOf(t), batch[b] \ {t}, Dropped(stats[CategoryOf(t)]), processing)
    /\ UNCHANGED <<queueVars, boosted, working, paused, clearing, interrupted, requests>>

\* prioritize_media_slice, item by item: what a page shows comes to the front, from
\* either queue, or anew; its category is boosted for a while.
Prioritize(t) ==
    /\ MayRequest
    /\ boosted' = boosted \cup {CategoryOf(t)}
    /\ \/ /\ t \in ToSet(priority)
          /\ priority' = Cons(t, RemoveFirst(priority, t))
          /\ UNCHANGED <<regular, keys>>
       \/ /\ t \notin ToSet(priority) /\ t \in ToSet(regular)
          /\ priority' = Cons(t, priority) /\ regular' = RemoveFirst(regular, t)
          /\ UNCHANGED keys
       \/ /\ t \notin keys \cup ToSet(priority \o regular) /\ Room > 0
          /\ priority' = Cons(t, priority) /\ keys' = keys \cup {t}
          /\ UNCHANGED regular
       \/ /\ t \notin ToSet(priority \o regular) /\ (t \in keys \/ Room <= 0)
          /\ UNCHANGED queueVars
    /\ UNCHANGED <<countVars, working, batch, paused, clearing, interrupted>>

BoostExpires(c) ==
    /\ c \in boosted /\ boosted' = boosted \ {c}
    /\ UNCHANGED <<queueVars, countVars, working, batch, paused, clearing, interrupted, requests>>

\* get_thumbnail_status: counts that nothing can complete any more are forgotten, at
\* once when no worker is active, else when they are stale.
GetStatus(c) ==
    /\ ~HasQueuedTasks(c)
    /\ \/ /\ stats[c] # NoTask
          /\ ~stats[c].batch_mode /\ stats[c].processed < stats[c].total
          /\ stats' = [stats EXCEPT ![c] = NoTask]
       \/ stats[c] = NoTask /\ c \in processing /\ Active = {} /\ UNCHANGED stats
    /\ processing' = processing \ {c}
    /\ UNCHANGED <<queueVars, boosted, working, batch, paused, clearing, interrupted, requests>>

-----------------------------------------------------------------------------
(* Workers: _thumbnail_worker_loop. *)

AwaitTask(w) ==
    /\ working[w] = NoTask /\ ~paused
    /\ working' = [working EXCEPT ![w] = Waiting]
    /\ UNCHANGED <<queueVars, countVars, boosted, batch, paused, clearing, interrupted, requests>>

\* The priority queue comes first, but a worker that is blocked at the regular one is
\* woken by it.  It may have been paused meanwhile.
TakeTask(w) ==
    /\ working[w] = Waiting
    /\ \/ /\ priority # <<>>
          /\ working' = [working EXCEPT ![w] = Head(priority)]
          /\ priority' = Tail(priority) /\ UNCHANGED regular
       \/ /\ regular # <<>>
          /\ working' = [working EXCEPT ![w] = Head(regular)]
          /\ regular' = Tail(regular) /\ UNCHANGED priority
    /\ UNCHANGED <<keys, countVars, boosted, batch, paused, clearing, interrupted, requests>>

FindNothing(w) ==
    /\ working[w] = Waiting /\ QueueSize = 0
    /\ working' = [working EXCEPT ![w] = NoTask]
    /\ UNCHANGED <<queueVars, countVars, boosted, batch, paused, clearing, interrupted, requests>>

\* Made or failed, the task is counted and its key is free again.
FinishTask(w) ==
    /\ w \in Active
    /\ LET c == CategoryOf(working[w]) IN
       IF stats[c] = NoTask THEN UNCHANGED countVars
       ELSE Count(c, [stats[c] EXCEPT !.processed = @ + 1], processing)
    /\ keys' = keys \ {working[w]}
    /\ working' = [working EXCEPT ![w] = NoTask]
    /\ UNCHANGED <<priority, regular, boosted, batch, paused, clearing, interrupted, requests>>

-----------------------------------------------------------------------------
(* The administrator clears a cache: quiesce_thumbnail_runtime, the purge,   *)
(* ensure_workers.                                                           *)

BeginClear(a) ==
    /\ clearing[a] = "no" /\ clearing' = [clearing EXCEPT ![a] = "quiescing"]
    /\ paused' = TRUE
    /\ UNCHANGED <<queueVars, countVars, boosted, working, batch, interrupted, requests>>

\* No worker is active, or eight seconds have passed.
DrainQueues(a) ==
    /\ clearing[a] = "quiescing" /\ clearing' = [clearing EXCEPT ![a] = "purging"]
    /\ priority' = <<>> /\ regular' = <<>> /\ keys' = {} /\ boosted' = {}
    /\ stats' = [c \in ThumbnailCategories |-> NoTask] /\ processing' = {}
    /\ interrupted' = (interrupted \/ Active # {})
    /\ UNCHANGED <<working, batch, paused, requests>>

ResumeWorkers(a) ==
    /\ clearing[a] = "purging" /\ clearing' = [clearing EXCEPT ![a] = "done"]
    /\ paused' = FALSE
    /\ UNCHANGED <<queueVars, countVars, boosted, working, batch, interrupted, requests>>

\* The categories cannot be read: the request fails outside its try/finally.
AbandonClear(a) ==
    /\ clearing[a] = "purging" /\ clearing' = [clearing EXCEPT ![a] = "done"]
    /\ UNCHANGED <<queueVars, countVars, boosted, working, batch, paused, interrupted, requests>>

-----------------------------------------------------------------------------
WorkOn(w) == AwaitTask(w) \/ TakeTask(w) \/ FinishTask(w)

ThumbnailsNext ==
    \/ \E t \in Tasks : RequestThumbnail(t) \/ Prioritize(t)
    \/ \E b \in Batchers : \/ \E c \in ThumbnailCategories : StartBatch(b, c) \/ ContinueBatch(b, c)
                          \/ \E t \in Tasks : DropTask(b, t)
    \/ \E c \in ThumbnailCategories : BoostExpires(c) \/ GetStatus(c)
    \/ \E w \in Workers : WorkOn(w) \/ FindNothing(w)
    \/ \E a \in Clearers : BeginClear(a) \/ DrainQueues(a) \/ ResumeWorkers(a) \/ AbandonClear(a)

ThumbnailsSpec == ThumbnailsInit /\ [][ThumbnailsNext]_thumbnailVars

\* ffmpeg ends (it has a timeout), greenlets run on, and a page that shows a category
\* asks for its status.
ThumbnailsFairness ==
    /\ \A w \in Workers : WF_thumbnailVars(WorkOn(w))
    /\ \A b \in Batchers :
        /\ \A c \in ThumbnailCategories : WF_thumbnailVars(ContinueBatch(b, c))
        /\ WF_thumbnailVars(\E t \in Tasks : DropTask(b, t))
    /\ \A c \in ThumbnailCategories : WF_thumbnailVars(GetStatus(c))
    /\ \A a \in Clearers : WF_thumbnailVars(DrainQueues(a)) /\ WF_thumbnailVars(ResumeWorkers(a))

FairThumbnails == ThumbnailsSpec /\ ThumbnailsFairness

-----------------------------------------------------------------------------
(* Properties. *)

\* A file is worked on once at a time: the keys are those of the tasks that are
\* queued, once, in one of the queues, or in the hands of one worker - until a
\* quiesce gives up waiting for the workers.
EachTaskOnce ==
    ~interrupted =>
        LET queue == priority \o regular
            held == {working[w] : w \in Active}
        IN  /\ keys = ToSet(queue) \cup held
            /\ Cardinality(keys) = Len(queue) + Cardinality(Active)

\* What is shown as being generated ends, whatever was dropped, queued twice or
\* cleared, except where the code leaves it: counts that the drop of a single request
\* has completed, and workers that a failed request has left paused.
StatusEnds ==
    \A c \in ThumbnailCategories :
        (stats[c] # NoTask \/ c \in processing)
            ~> \/ stats[c] = NoTask /\ c \notin processing
               \/ Completed(stats[c])
               \/ paused /\ \A a \in Clearers : clearing[a] \in {"no", "done"}
=============================================================================
