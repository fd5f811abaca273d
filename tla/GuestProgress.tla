----------------------------- MODULE GuestProgress -----------------------------
(***************************************************************************)
(* Where a guest stopped watching each video: the cache and the IndexedDB   *)
(* store of progressDB.js, and who saves and deletes there                  *)
(* (progressPersistence.js, progressSync.js, the renames invalidation.js    *)
(* hears of).  One tab; the records of whole categories go the same way,    *)
(* without renames and deletions, and are left out.                         *)
(*                                                                         *)
(* A record is its last_updated.  Transactions on the store run one by one   *)
(* in the order they were made.                                             *)
(***************************************************************************)
EXTENDS Naturals, Sequences

CONSTANTS Urls,         \* media urls
          NewUrl,       \* by url of a file that may be renamed: its new url
          MaxSaves,     \* bound: times of day at which something is saved
          MaxQueue,     \* bound: transactions that wait
          MaxEvents    \* bound: completions, clearings, changes of profile, reloads

ASSUME NewUrlAssumption == NewUrl \in [DOMAIN NewUrl -> Urls] /\ DOMAIN NewUrl \subseteq Urls
ASSUME ProgressAssumption == MaxSaves \in Nat \ {0} /\ {MaxQueue, MaxEvents} \subseteq Nat

None == 0

VARIABLES profile,    \* hasActiveProfile()
          loading,      \* of initProgressDB
          db,         \* dbInstance is set
          loaded,     \* this page has read all of the store
          cache,      \* videoProgressCache
          disk,       \* the video_progress store
          queue,      \* transactions made and not run: writes, and the read of a load
          marks,      \* _pendingDeletions
          timers,     \* by url: the timers that end a mark
          paths,      \* the urls resolveStaleProgress asks about, or nothing
          moved,      \* renamed files
          now,        \* Date.now(), advanced by the saves
          changes     \* what MaxEvents bounds

progressVars == <<profile, loading, db, loaded, cache, disk, queue, marks, timers,
                  paths, moved, now, changes>>

Read == [read |-> TRUE, gone |-> {}, put |-> [u \in Urls |-> None]]
Write(gone, put) == [read |-> FALSE, gone |-> gone, put |-> put]
Writes == [read : {FALSE}, gone : SUBSET Urls, put : [Urls -> 0..MaxSaves]]

ProgressTypeOK ==
    /\ {profile, db, loaded} \subseteq BOOLEAN
    /\ loading \in {"off", "opening", "categories", "videos", "ready", "held"}
    /\ {cache, disk} \subseteq [Urls -> 0..MaxSaves]
    /\ queue \in Seq({Read} \cup Writes)
    /\ marks \subseteq Urls /\ timers \in [Urls -> Nat] /\ moved \subseteq DOMAIN NewUrl
    /\ paths \subseteq Urls /\ now \in 0..MaxSaves
    \* a load that waits for the store has made its read, and only such a load
    /\ loading = "videos" <=> \E i \in 1..Len(queue) : queue[i].read
    /\ \A i, j \in 1..Len(queue) : queue[i].read /\ queue[j].read => i = j
    \* what is marked as completed has a timer that ends the mark
    /\ \A u \in marks : timers[u] > 0

ProgressInit ==
    /\ profile \in BOOLEAN
    /\ loading = "off" /\ db = FALSE /\ loaded = FALSE
    /\ cache = [u \in Urls |-> None]
    /\ disk \in [Urls -> {None, 1}]
    /\ queue = <<>> /\ marks = {} /\ timers = [u \in Urls |-> 0]
    /\ paths = {} /\ moved = {}
    /\ now = 1 /\ changes = 0

-----------------------------------------------------------------------------
(* The store. *)

Over(f, put) == [u \in Urls |-> IF put[u] # None THEN put[u] ELSE f[u]]
Ran(f, op) == Over([u \in Urls |-> IF u \in op.gone THEN None ELSE f[u]], op.put)

Nothing == [u \in Urls |-> None]
One(u, stamp) == [Nothing EXCEPT ![u] = stamp]

\* A transaction is made only if the database is open.
Enqueued(op) == IF db THEN Append(queue, op) ELSE queue

RunTransaction ==
    /\ queue # <<>> /\ ~Head(queue).read
    /\ disk' = Ran(disk, Head(queue))
    /\ queue' = Tail(queue)
    /\ UNCHANGED <<profile, loading, db, loaded, cache, marks, timers, paths, moved, now, changes>>

-----------------------------------------------------------------------------
(* initProgressDB. *)

\* With a profile the progress is the server's; a call while an earlier one is
\* under way waits for that.  A call that finds the database ready is never
\* followed by another load: its promise stays in initPromise.
initProgressDB ==
    /\ loading \in {"off", "ready"}
    /\ loading' = IF profile THEN "off" ELSE IF loading = "ready" THEN "held" ELSE "opening"
    /\ UNCHANGED <<profile, db, loaded, cache, disk, queue, marks, timers, paths, moved, now, changes>>

Opened ==
    /\ loading = "opening"
    /\ loading' = "categories" /\ db' = TRUE
    /\ UNCHANGED <<profile, loaded, cache, disk, queue, marks, timers, paths, moved, now, changes>>

\* Without a database, or without the records of the categories, the page goes on.
OpenFails ==
    /\ loading \in {"opening", "categories"}
    /\ loading' = "ready"
    /\ UNCHANGED <<profile, db, loaded, cache, disk, queue, marks, timers, paths, moved, now, changes>>

CategoriesRead ==
    /\ loading = "categories"
    /\ Len(queue) < MaxQueue
    /\ loading' = "videos" /\ queue' = Append(queue, Read)
    /\ UNCHANGED <<profile, db, loaded, cache, disk, marks, timers, paths, moved, now, changes>>

preferIncoming(existing, incoming) == incoming
preferNewerProgress(existing, incoming) == IF incoming >= existing THEN incoming ELSE existing

Merged == [u \in Urls |-> IF disk[u] = None THEN cache[u]
                          ELSE preferNewerProgress(cache[u], disk[u])]

flushNothing(f) == Tail(queue)
flushCachesToIndexedDB(f) == Append(Tail(queue), Write({}, f))

\* What was saved before the database was open is written; then the server is
\* asked about the paths.
VideosRead ==
    /\ queue # <<>> /\ Head(queue).read
    /\ cache' = Merged
    /\ queue' = flushCachesToIndexedDB(Merged)
    /\ loading' = "ready" /\ loaded' = TRUE
    /\ paths' = {u \in Urls : Merged[u] # None}
    /\ UNCHANGED <<profile, db, disk, marks, timers, moved, now, changes>>

VideosReadFails ==
    /\ queue # <<>> /\ Head(queue).read
    /\ queue' = Tail(queue)
    /\ loading' = "ready"
    /\ UNCHANGED <<profile, db, loaded, cache, disk, marks, timers, paths, moved, now, changes>>

-----------------------------------------------------------------------------
(* Saving and deleting: persistPlaybackProgress. *)

\* Time may pass between two saves, or not.
Later == {now, now + 1} \cap 0..MaxSaves

\* What is marked as completed a moment ago is not saved again.
SaveProgress(u) ==
    /\ ~profile
    /\ u \notin marks
    /\ Len(queue) < MaxQueue
    /\ now' \in Later
    /\ cache' = [cache EXCEPT ![u] = now']
    /\ queue' = Enqueued(Write({}, One(u, now')))
    /\ UNCHANGED <<profile, loading, db, loaded, disk, marks, timers, paths, moved, changes>>

Deleted(urls) ==
    /\ cache' = [u \in Urls |-> IF u \in urls THEN None ELSE cache[u]]
    /\ queue' = Enqueued(Write(urls, Nothing))

\* With a profile the server is told, if the socket is connected.
CompleteVideo(u) ==
    /\ Len(queue) < MaxQueue
    /\ changes < MaxEvents /\ changes' = changes + 1
    /\ marks' = marks \cup {u}
    /\ timers' = [timers EXCEPT ![u] = @ + 1]
    /\ IF profile THEN UNCHANGED <<cache, queue>> ELSE Deleted({u})
    /\ UNCHANGED <<profile, loading, db, loaded, disk, paths, moved, now>>

\* The timer of an earlier completion ends the mark of a later one as well.
MarkEnds(u) ==
    /\ timers[u] > 0
    /\ timers' = [timers EXCEPT ![u] = @ - 1]
    /\ marks' = marks \ {u}
    /\ UNCHANGED <<profile, loading, db, loaded, cache, disk, queue, paths, moved, now, changes>>

clearAllVideoProgress ==
    /\ ~profile
    /\ Len(queue) < MaxQueue
    /\ changes < MaxEvents /\ changes' = changes + 1
    /\ Deleted(Urls)
    /\ UNCHANGED <<profile, loading, db, loaded, disk, marks, timers, paths, moved, now>>

-----------------------------------------------------------------------------
(* Renames: applyVideoUrlMapping, resolveStaleProgress. *)

RenameFile(u) ==
    /\ u \notin moved
    /\ moved' = moved \cup {u}
    /\ UNCHANGED <<profile, loading, db, loaded, cache, disk, queue, marks, timers, paths, now, changes>>

\* The records of the old urls replace those of the new ones, newer or not.
Mapped(f, olds) ==
    [u \in Urls |-> IF \E o \in olds : NewUrl[o] = u /\ f[o] # None
                    THEN f[CHOOSE o \in olds : NewUrl[o] = u /\ f[o] # None]
                    ELSE IF u \in olds THEN None ELSE f[u]]

\* The event of the rename reaches the page.
renameVideoProgress(u) ==
    /\ u \in moved /\ ~profile /\ cache[u] # None
    /\ Len(queue) < MaxQueue
    /\ cache' = Mapped(cache, {u})
    /\ queue' = Enqueued(Write({u}, One(NewUrl[u], cache[u])))
    /\ UNCHANGED <<profile, loading, db, loaded, disk, marks, timers, paths, moved, now, changes>>

\* The server names the renamed urls and those with no visible file.
PathsResolved ==
    /\ paths # {}
    /\ Len(queue) < MaxQueue
    /\ \E stale \in SUBSET (paths \ moved) :
         LET olds == {u \in paths \cap moved : cache[u] # None}
             kept == [u \in Urls |-> IF u \in stale THEN None ELSE Mapped(cache, olds)[u]]
         IN /\ cache' = kept
            /\ queue' = IF olds \cup stale = {} THEN queue
                        ELSE Enqueued(Write(olds \cup stale,
                               [u \in Urls |-> IF \E o \in olds : NewUrl[o] = u THEN kept[u] ELSE None]))
    /\ paths' = {}
    /\ UNCHANGED <<profile, loading, db, loaded, disk, marks, timers, moved, now, changes>>

PathsUnanswered ==
    /\ paths # {}
    /\ paths' = {}
    /\ UNCHANGED <<profile, loading, db, loaded, cache, disk, queue, marks, timers, moved, now, changes>>

-----------------------------------------------------------------------------
(* The page. *)

ChangeProfile ==
    /\ changes < MaxEvents /\ changes' = changes + 1
    /\ profile' = ~profile
    /\ UNCHANGED <<loading, db, loaded, cache, disk, queue, marks, timers, paths, moved, now>>

\* Transactions that have not run when the page goes are lost.
Reload ==
    /\ changes < MaxEvents /\ changes' = changes + 1
    /\ loading' = "off" /\ db' = FALSE /\ loaded' = FALSE
    /\ cache' = Nothing /\ queue' = <<>>
    /\ marks' = {} /\ timers' = [u \in Urls |-> 0] /\ paths' = {}
    /\ UNCHANGED <<profile, disk, moved, now>>

-----------------------------------------------------------------------------
ProgressNext ==
    \/ RunTransaction
    \/ initProgressDB \/ Opened \/ OpenFails \/ CategoriesRead \/ VideosRead \/ VideosReadFails
    \/ \E u \in Urls : SaveProgress(u)
    \/ \E u \in Urls : CompleteVideo(u)
    \/ \E u \in Urls : MarkEnds(u)
    \/ clearAllVideoProgress
    \/ \E u \in DOMAIN NewUrl : RenameFile(u)
    \/ \E u \in DOMAIN NewUrl : renameVideoProgress(u)
    \/ PathsResolved \/ PathsUnanswered
    \/ ChangeProfile \/ Reload

ProgressSpec == ProgressInit /\ [][ProgressNext]_progressVars

-----------------------------------------------------------------------------
(* Properties. *)

\* What the store will hold of u when its transactions have run.
Touches(op, u) == u \in op.gone \/ op.put[u] # None
WillHold(u, stamp) ==
    \/ \E i \in 1..Len(queue) :
          /\ Touches(queue[i], u) /\ queue[i].put[u] = stamp
          /\ \A j \in i+1..Len(queue) : ~Touches(queue[j], u)
    \/ disk[u] = stamp /\ \A i \in 1..Len(queue) : ~Touches(queue[i], u)

\* Once the page has read the store, the store will hold exactly what the page
\* shows when its transactions have run: what was saved before and during the
\* load, renamed, completed or cleared at any time is the same in both.
StoreFollowsCache == loaded => \A u \in Urls : WillHold(u, cache[u])

\* Nobody's progress goes back: a load, a late transaction or an answer of the
\* server replaces a record by an older one only where a file was renamed.
ProgressGoesForward ==
    [][\A u \in Urls :
         \/ \E o \in moved : NewUrl[o] = u
         \/ /\ cache[u] # None /\ cache'[u] # None => cache'[u] >= cache[u]
            /\ disk[u] # None /\ disk'[u] # None => disk'[u] >= disk[u]]_progressVars
=============================================================================
