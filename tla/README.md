# A verification model of GhostHub

GhostHub is a media server for a Raspberry Pi: browsers in the home upload, browse
and watch media, share what they watch, and cast to a TV on the Pi's HDMI output.
This directory holds TLA+ modules that model its stateful core, TLC
configurations that check them on small instances, and theorems that TLAPS
proves for every value of the constants. Definitions are translated from the
code under `src/`; `PROJECT.json` maps each one to the lines it stands for.

1. [How the program runs](#1-how-the-program-runs)
2. [Inventory](#2-inventory)
3. [The modules and the code](#3-the-modules-and-the-code)
4. [What the runs show](#4-what-the-runs-show)
5. [Fairness](#5-fairness)
6. [What is proved](#6-what-is-proved)
7. [Behaviour worth knowing](#7-behaviour-worth-knowing)
8. [What is only model-checked, and what is not modelled](#8-what-is-only-model-checked-and-what-is-not-modelled)
9. [Plan](#9-plan)

To repeat a check: `tlc -workers 2 -config <cfg> <MC module>` with the pairs of
section 4, and `tlapm <Module>Proofs.tla`.

## 1. How the program runs

The server is Flask with Flask-SocketIO under gevent (`docs/ARCHITECTURE.md:232`),
served by gunicorn with one worker (`gunicorn_config.py:52`, `workers = 1`). All
requests, socket handlers and background tasks are greenlets of one process that
is monkey-patched at its start. A greenlet runs without interruption until it
waits: for a lock, a sleep, a pool thread (file I/O), a subprocess (`systemctl`,
`ffmpeg`) or a socket. SQLite calls and emits to sockets do not wait. Everything
between two waits is therefore atomic, and this decides the grain of every
module: **one action is the stretch of a handler between two waits**, and any
other greenlet's action may come between two of them. Locks that never span a
wait need no variable of their own.

State is kept in *stores* of the SPECTER runtime (`create_store`, an external
library: `get`, `set`, `update` of a dict, none of which waits), in attributes of
services, in SQLite, in files, and in the browsers (JavaScript modules under
`static/js`, cookies). Memory is lost when the process restarts; SQLite, media
files and `admin_lock.json` stay. Components call one another directly or
publish events on SPECTER's bus (`STORAGE_FILE_UPLOADED`, `PROFILE_SELECTED`,
...); browsers call HTTP routes and exchange messages over Socket.IO.

## 2. Inventory

The components with a concurrent or failing life of their own come first. The
file names are those under `src/app` unless they end in `.js`.

| component | state | operations | hard behaviour | what makes it correct |
|---|---|---|---|---|
| **chunked upload sessions** `services/storage/upload_session_runtime_service.py` | `active_uploads` store, staging files (disk or RAM), media files | init, chunk, finalize, cancel, stale and orphan cleanup | two chunk requests of one session; cleanup or cancel in the middle of a write or a move; copy across file systems fails half-way; crash | a chunk counted is written; a media file is whole, being copied, or what a broken-off copy left; it is announced only when whole; settled once; sessions and staging files end |
| **profile sessions** `services/core/session_store.py`, `controllers/core/profile_controller.py`, `connection_controller.py` | `active_connections`, `sid_to_session`, profile rows, the profile in each browser's cookie | connect, disconnect, create, select, clear, delete | several tabs; sockets opened while an answer with a new cookie is on its way; browsers that are away | maps of the registry agree; a profile has one live session; the mirror follows the cookie |
| **admin lock** `services/core/session_store.py`, `controllers/admin/admin_controller.py`, `utils/auth.py` | cached owner, `admin_lock.json` | claim, claim with password, release, every admin check, factory reset, restart | the read of the file waits and may time out; its write or removal may fail unnoticed | cache and file name one owner; the role changes hands by a claim with the password, a claim of a free role, a release or a reset |
| **TV casting and the kiosk** `services/system/display/*`, `services/core/tv_store.py` | HDMI store, timer greenlet, kiosk unit, TV store | cast, stop, TV connects and leaves, hotplug monitor, idle time and countdown, boot timeout | `systemctl` takes seconds, during which other clients cast and stop | the TV shows the recorded cast; timers spare casts and stop idle kiosks; a waiting client is answered |
| **rate limiter** `services/system/rate_limit_service.py` | token buckets by client, the global one | consume, refund, wait for capacity, cleanup | yield between the two buckets; cleanup meanwhile; waiting requests compete | no more bytes than the rate allows; a lone request succeeds |
| **sync mode** `controllers/streaming/sync_controller.py`, `static/js/modules/sync/manager.js` | sync store, room; in each browser: mode, host flag, handlers, viewer | toggle, status, join, leave, update, disconnect, reload | answers over HTTP overtake socket messages and one another; drops | guests whose users leave the viewer alone show what the server holds or the host has played since; one host |
| **library index** `services/media/indexing_runtime_service.py`, `indexing_processor.py`, `storage_event_handler_service.py` | queue, statuses, worker task, `media_index` rows | start, worker, background reindex, quiesce, library scan, upload and delete events | walks yield between files that come and go; drains; failures | one task per category; no rows of lost files; the index catches up |
| **upload client** `static/js/utils/uploadManager.js`, `duplicateWarning.js` | `currentUploadSession`, `uploadCancelled`, `activeUploads`; the suspended calls and chunk promises | `uploadFiles` with its duplicate check, small and large files, cancel all | two callers share the variables; a loop goes on after a cancel; requests, answers and sessions are lost | what is reported is stored; a running session ends; every call returns |
| **media views of the browser** `static/js/modules/media/ordering.js`, `manifest.js`, `invalidation.js`, `static/js/utils/requestCache.js` | orders of views, records, pins, queue, requests under way | fetch and invalidate orders, hydrate in batches, retry, apply events | answers overtake one another and events; views share requests | a ready view lists what the server has; cards are filled |
| **viewer of a page** `static/js/modules/media/loader.js`, `navigation.js`, `viewerState.js` | the viewer's session (view, index), whether it is visible, the fetch controller, `isLoading`; openings and pages under way | open over a category, a view or one record, resume, move, load more, leave | openings overtake one another and go on after they were aborted; scrolling asks for pages meanwhile | what was asked for is shown; no page is skipped |
| **live transcodes of a page** `static/js/modules/media/transcodingPlayer.js`, `ghoststream/manager.js` | per container: job, stream, resume, stall timers; the service's jobs | start, poll, play, stall, resume, leave | nothing stops what a removed container awaits; the service breaks | starts get to their stream or an error; resumes end; left jobs end |
| **guest progress** `static/js/utils/progressDB.js`, `modules/media/progressPersistence.js`, `progressSync.js` | cache, IndexedDB, transactions under way, deletion marks | load, save, complete, clear, rename, resolve stale paths, change of profile, reload | saves before and during the load; transactions run late | the store follows the cache; progress does not go back |
| **gallery layout** `static/js/modules/layouts/gallery/*`, `layouts/shared/filterActions.js` | filter, view of the timeline and what its params ask for, page, flags, loads and pages under way; month overlay with its request id | load, choose a filter, scroll, jump to a year or a date, refetch, open and close a month | loads and pages overtake one another; an event refetches or aborts what is under way | the timeline has no gaps and shows the chosen filter; the overlay shows its month |
| **streaming layout** `static/js/modules/layouts/streaming/*` | place and media type chosen, categories and their views, what the slot holds, the one controller, view transitions, refreshes under way | load, filter, search, page, enter a folder at once, refresh, leave and enter again | loads, folders, refreshes and index updates overtake one another; a swap comes a frame late | what is shown is what was chosen last |
| **cast controllers** `static/js/modules/sync/tvCast.js`, `tvPlayerModal.js` | in each browser what it shows of the cast, a wanted stop, what is saved for a reload | cast, stop, control, restore, handle statuses and errors | browsers compete; connections drop; a connect handler waits between reading and sending | browsers agree with the server when all is quiet |
| **tunnels and mesh** `services/system/tunnel/*`, `services/system/headscale/*` | `active_tunnel_info`, tunnel processes, Headscale unit, startup, watchdog, recovery greenlets | start, stop, status of three providers; watchdog, recovery with its cooldown | stop while startup, recovery or a status request waits; crashes; restarts of the server, which Headscale outlives | stopped is down; a mesh that lost Headscale gets it back |
| **thumbnail runtime** `services/media/thumbnail_runtime_service.py` | two queues, keys of tasks, workers, counts by category | single requests, batches that drop or wait, priorities, status, quiesce | full queue; batches of one category mix; a quiesce gives up waiting | a file is worked on once at a time; statuses end |
| kicking and blocking `controllers/admin/admin_controller.py`, `session_store.py` | blocked sessions and addresses | kick, unblock, connect | connects under way | a kicked browser does not come back |
| hidden content and visibility | rows, unlocked sessions | hide, unhide, reveal | caches of categories | hidden content is never listed |

The other components, which hold no state of their own or only wrap the operating
system or SQL, are listed in `PROJECT.json` with the reason they are left out:
media index tables, categories, media delivery and subtitles, drives and folders,
chat, configuration, database bootstrap, network and statistics, user data
transfer, HDMI hotplug probes, the TV page's player, settings and file management, installer.

Interactions that the models keep:

* browser -> uploads: `UploadClient` extends `UploadService`, the abstract
  sessions, and `ChunkedUpload` is shown to implement those. So the client is
  checked against every server that keeps the promise, with few states.
* uploads -> rate limiter: a chunk request waits for capacity before
  `upload_chunk` runs. The two share no state, so they are separate modules.
* uploads, deletions -> library index: the storage event is emitted after the
  file is in place; `ChunkedUpload.announced` and `LibraryIndex.events` are the
  two ends of that event.
* sockets -> profiles, sync, TV: each component has its own handler of connect
  and disconnect; the models have these as actions.
* TV casting -> kiosk: composed, `TvCast` extends `KioskPower`.
* browsers -> TV casting: `CastControllers` has the server's side of
  `tv_cast_service.py` again, without the kiosk's timers but with the handlers'
  waits, and every browser's side with messages in order on each socket.
* uploads, index -> thumbnails: a complete file, a scan and an administrator's
  request each are a batch; `Thumbnails` takes batches as inputs.
* tunnel requests, watchdog, status requests -> recovery: composed in `Tunnels`.
* admin reindex -> index worker: quiesce, clear, background reindex.

`PROJECT.json` lists the hazards of this code at their lines, with the property
that covers each one or the reason why none does.

## 3. The modules and the code

A component is a module. The theorems about it are in the proof module of its group,
which is that of the `MC` modules below (`UploadsProofs`, `SessionsProofs`, `ApplianceProofs`,
`SyncModeProofs`, `BrowserProofs`, and `UploadClientProofs`, `RateLimiterProofs`,
`LibraryIndexProofs` for one component each). Definitions
whose names say that something is forgotten, unchecked or ignored
(`WalkChunkUnchecked`, `FailMoveIgnored`, `EnqueueWithoutKeys`, ...) are faulty
variants that the specifications do not use: each property has one under which
TLC refutes it.

The `MC` modules give TLC values and symmetries. Five of them put components that
share no state into one run: `MCUploads` (`ChunkedUpload`, `Thumbnails`),
`MCSessions` (`ProfileSessions`, `AdminLock`, `CastControllers`, `RateLimiter`, `Streaming`),
`MCAppliance` (`TvCast`, `Tunnels`), `MCSyncMode` (`SyncMode`, `Viewer`) and `MCBrowser`
(`UploadClient`, `MediaViews`, `LiveTranscode`, `GuestProgress`, `Gallery`). Their variable `part` is chosen in
the first state and says which component takes steps; the others stay in an initial
state. A behaviour of the run is then a behaviour of one component, each
with its own choices, and the numbers of states add up. No composition is claimed by that:
a property about one part holds in the behaviours of the others because it holds
initially, and the fairness of a resting part asks for nothing, since none of its
fair actions is enabled in the state it rests in. To leave it only one such state,
the `Init` of an MC module fixes the initial choices of the parts that rest.

Modules that run together need distinct names, hence `LockNext`, `LimiterNext`,
`ViewsNext` and so on.

### ChunkedUpload

| TLA+ | code |
|---|---|
| `active_uploads`, `upload` | the store's keys and the session dicts; a request keeps a dict after its key is gone |
| `temp`, `disk` | staging files and media files, by the set of chunks they hold |
| `request[r].pc` | the wait a chunk request is in: write, account, move, copy, settle |
| `InitChunkedUpload` | `init_chunked_upload` with `get_unique_filename`; staging on disk or in RAM |
| `AcceptChunk`, `WriteChunk`, `AccountChunk` | `upload_chunk`: first critical section, the write in the pool, second critical section and the first one of `finalize_chunked_upload` |
| `RenameIntoPlace` / `BeginCopy`, `EndCopy`, `FailCopy`, `FailMove` | `shutil.move` in the pool: a rename on one file system, a copy and unlink from RAM, or an exception, half-way through the copy or before anything is written |
| `SettleUpload` | the end of `finalize_chunked_upload`, with the event |
| `CancelChunkedUpload`, `CleanupStaleUploads`, `BecomeStale` | cancel, the sweep of sessions and orphans, the passing of the timeout |
| `Crash(reboot)` | the process dies; staging files and half-copied media files stay, save those in RAM when the device reboots; the sweep of `initialize_runtime` is `CleanupStaleUploads` |

Bytes are abstracted to chunk numbers, because the properties ask which chunks
are in a file. One target directory stands for all. `driveKnown` is whether the
sweep finds the drive mounted. A copy that breaks off, because the device is full or
the process dies, leaves a part under the final name, which the code never removes
(`torn`); a later copy of the same upload writes it anew. A chunk whose write fails
although its staging file is there leaves everything as if it had not been sent, and
is no step.

### UploadService and UploadClient

`UploadService` is what a client may rely on: a `phase` of each upload (none, open,
stored, gone) and the chunks `counted`. `ChunkedUpload!ImplementsService` maps the
detailed state to it: an upload is *stored* when its storage event has gone out,
*open* while its session is in the store, *gone* otherwise; counted are
`received_chunks`. A crash is one `Abandon` of all open uploads, an expiry of one.

`UploadClient` is `uploadManager.js` on top of it. `session`, `cancelled` and `open`
are the module's variables, which all calls share; `call[k].pc` is the await a call
of `uploadFiles` is suspended at (duplicate check, dialog, settings, a small file,
init, the race of chunks, all chunks, cancel), `chunk` the promise of each chunk,
`results` the results object a call reports into. `UploadFiles`, `DuplicatesChecked`,
`Negotiated`, `InitAnswered`, `ChunkSettled`, `AllSettled` and the rest are `uploadFiles`
and `uploadFileChunked` from one await to the next. Any request or answer may be lost, and the
service may abandon a session at any time. Retries of a chunk by the manager do
not exist in the code; a failed chunk fails the file. Small files are one action
each, since they do not touch the sessions.

### ProfileSessions

`active_connections` and `sid_to_session` are the two maps of the store,
`profiles` the rows, `cookie[s]` what browser `s` sends, `reply` an answer with
a new cookie on its way. `HandleConnect` and `HandleDisconnect` are the socket
handlers, `CreateProfile`, `SelectProfile`, `ClearActiveProfile` and
`DeleteProfile` the routes with the store updates they call; `AnswerArrives` is
the browser taking the cookie. `StaysConnected` names the browsers that keep a
socket open and open no tab while an answer is under way; the properties that
hold only for them say so, and `profiles_reconnect` shows what the others do.

### AdminLock

(operators `LockInit`, `LockNext`, `LockSpec`, `LockTypeOK`, `LockInv`)

`admin_session_id` is the cached owner, `lock_file` the owner in the file,
`reading[s]` the request of session `s` that waits for the file with what its
pool thread has read. `HandleCached` is a request served from the cache;
`StartReading`, `ReadLockFile`, `ReadFails` (a timeout) and `Resume` are `get_admin_session_id` with its two-second limit. `Finish` is what
a route does with the owner: `Grants` and `Releases` are its tests. The admin
checks of all other routes are the kind `"check"`: they change nothing but may
refresh the cache. `FactoryReset` and `Restart` complete the operations.

With `MayFail`, `set_admin_session_id` may change the cache alone: a failed write or removal
of the file is logged and forgotten, and leaves the old owner or an empty file. The history
`astray` says that the file has missed the last change, `late` names the waiting requests
during which the owner was set or became another. Nothing keeps requests apart:
`RoleChangesRightly` says of every change of the *holder* (the cached owner, or else the one in the
file) who may make it, and excepts the answer of a late request, a claim that could not read
the file, and the role falling back to the holder of a file that went astray.

### KioskPower and TvCast

`KioskPower` has the HDMI store (`connected`, `kiosk_running`,
`casting_active`, `timer`), the real cable and unit (`hdmi`, `kiosk`), and where
each `start_kiosk` and `stop_kiosk` is between its waits (`starts`, `stops`,
`restarting`, `status_read`). `TvCast` extends it with `tv_sid`,
`playback_state`, `kiosk_boot` and the boot timers, and with `showing`, what
the TV's page was last told. `BeginCast`, `StartKiosk`, `FinishCast` are
`start_cast` cut at its waits; `StopCast`, `TvConnected`, `TvDisconnect` and
`CheckBootTimeout` are handlers. `Kiosk(A)` lets the kiosk's own steps (idle
time, countdown, monitor, status requests) happen beside them.

`CastService` is what this promises to who casts, with five variables: the recorded
`cast`, whether a `tv` page is there, `active` (the kiosk is to be up), the casts that are
`starting`, and whether somebody is `waiting` for the page. `TvCast` implements it
(`ImplementsCastService`: `cast` is `playback_state`, `starting` the domain of `starts`,
`waiting` a pending `kiosk_boot`), so the kiosk, its two timers, the monitor and the boot
timers cannot be told apart from it. Who may stop whose cast is not part of it.

`exposed` is a history: the clients whose last cast began when the countdown already waited
for its `systemctl stop`, which nothing cancels, or was starting when another cast was
stopped, which then arms the idle time. Their casts the timers do end
(section 7), and no others (`TimersSpareCasts`). `Overlap` and `Beside` say which overlaps
of clients there are: in the run starts follow one another, but a cast may begin while the
countdown stops the kiosk.

Durations are abstracted: an armed timer may expire at any time, so every ratio
of the timeouts is covered. `systemctl start` and `restart` may fail (`MayFail`), `stop` does
not. Playback positions, volume and subtitles are left out.

### CastControllers

The server of this module is used as `CastService` only (`ReliesOnCastService`), which `TvCast`
implements: as to the recorded cast, the TV and who waits for it, the two models of
`tv_cast_service.py` agree. The messages to the browsers are in this module alone.

On the server `playing` is the recorded cast (and whether a guest's), `tv` whether
a TV page is registered, `boot` the requester of a pending boot, `starting` the
casts inside `on_cast_start`, `ending` counts the stops that have cleared the cast and wait in
`on_cast_stop` for the kiosk before they announce it (`AnnounceStop`), `greeting[b]` is the status `handle_connect` has read
for `b` and not sent, because it waits for the state of the kiosk. `inbox` and
`outbox` are the two directions of a browser's socket, in order. `page[b]` are
the variables of `tvCast.js`: `casting`, `media`, a wanted `stop`, the `modal`,
what `sessionStorage` has `saved`, the timer that restores the modal after a
reload, and the casts whose progress and subtitles are being fetched before
`tv_cast_start` is sent. `misled` is a history of the browsers whose last word
from the server was not the truth when it was sent: the property excepts them,
and section 7 lists those words.

### RateLimiter

(operators `LimiterInit`, `LimiterNext`, `LimiterSpec`, `LimiterTypeOK`, `LimiterInv`)

`client_buckets` and `global_bucket` hold tokens and the time of the last refill;
`request[r]` is a request in `wait_for_upload_capacity`: at the client's bucket,
at the global one (it may yield between them, at the lock), or asleep until it
retries. `ConsumeClient` is `check_limit` up to the first bucket with
`_maybe_cleanup` and `_get_client_bucket`, `ConsumeGlobal` the second bucket with
the refund, `Wake` the end of a sleep. `Tick` is the clock. `admitted` and
`admitted_globally` are histories, `request[r].alone` records that no other
request met `r`.

The unit of time is a second, the longest sleep of a waiting request, and tokens
are integers of that unit; the lock is never held for as long as `StaleAfter`.

### SyncMode

The server's `enabled`, `host_session_id`, `current_media` and `room`; in each
browser `mode`, `listening` (are the handlers attached to the socket), `shown`
(the viewer), `opening` (navigations that wait for the media's order) and `closing` (the
viewer saves its state before it closes).
`inbox` and `outbox` keep the order of a socket; `toggling`, `checking` and
`posted` are HTTP exchanges, which overtake them. The actions are the functions
of `manager.js` and of `sync_controller.py`, one for one. `lost` is a history of
the browsers that missed a message, ignored one while a toggle was pending, or
handled one in the middle of something else; `strayed` of the guests whose users have
opened or closed something themselves (a guest's swipes are disabled, but not Escape, the
back button and the cards) and of those that only stopped their video when they were told to
close. The media file stands for the whole media payload. A playback message (`SendPlayback`,
`HandlePlayback`) is modelled for the file it names, to which it takes the guests, although the
server does not record it (`played` is the history of it); what it does to the position is left
out.

### LibraryIndex

`disk`, `index` and `events` are the files, the rows and the storage events not
yet emitted; `async_status`, `index_queue`, `indexing_paused` and `active_tasks`
are attributes of `IndexingRuntimeService`; `task[g]` is what the worker or a
reindexer is doing in `process_indexing_task`: counting, walking (`todo` still
to visit, `seen` found), or resting in the thumbnails with the child categories
still to queue. `LibraryScan` and `Browse` start categories, `WorkerTakes`,
`ListDirectory`, `WalkChunk`, `EndWalk`, `QueueChild`, `WorkerCompletes`,
`DirectoryMissing` and `WorkerFails` are the worker, `ReindexerTakes` to
`ReindexerFails` the background reindex, `QuiesceIndexing`, `ReindexMedia` and
`ReindexRefused` the admin's request, `Arrives`, `Deleted`, `Vanishes` and the
two `Handle...` the files and their events.

A chunk of the walk is one entry of one directory; every file lies in the
directory of one category. The retries after a locked database are left out.
`drained` (categories whose task a reindex removed from the queue) and
`unannounced` (files that vanished without an event) are histories that the
properties need.

### Thumbnails

`priority` and `regular` are the queues, `keys` the tasks queued or worked on,
`working[w]` the task of a worker (which waits for ffmpeg), `stats` and
`processing` what the page is shown of a category, `batch[b]` what a batch has
still to enqueue: a batch of the index drops what does not fit (or waits a while
and drops then), one of an administrator waits for ever. `clearing` is the
administrator's request: quiesce, purge, resume. The count of a finished task and the
release of its key are one step; no property looks between them.

### Tunnels

`active` is `active_tunnel_info`. A process of Cloudflare or Pinggy is `launching`
until the request that started it has slept and registers it. `hs` is the Headscale unit:
up, down, or fallen, when it died by itself and systemd may restart it. It is enabled at boot
and outlives the server, the store does not: `inherited` says that this run of the server has
neither started nor stopped it. `ServerRestarts` is the restart of the server or the box.
`runner["startup"]` and `runner["recovery"]` are where those two greenlets are in
their waits (configuration, checks, `systemctl`, waiting for the unit, joining,
keys), `watchdog` and `poll` where the watchdog and a status request of a running
mesh are, `stopping` what a stop request waits for. `loose` is a history: a recovery was
under way when the mesh was stopped, or has begun since. Status requests, the watchdog and
recoveries overlap everything; `StartsOverlap` says whether a tunnel may also be started beside
another start, a stop or the mesh, which is what the runs leave out (section 7).

### MediaViews

`orders` are `ordering.js`'s states of the views, `manifest` the sets of
`manifest.js` (records, missing, failed, queue, in flight), `pins` what views
pin, `fetches` and `batches` the requests whose answer is not applied, each with
what the server saw when it looked. Opening, closing and re-requesting a view,
flushing the queue, answers, failures, the retry and `HandleCategoryUpdated`, the
effects of an event, are the actions. Order is left out: a list is a set of ids.

### Viewer

`order[k]` is a view of `ordering.js` as far as the viewer reads it: its ids, `hasMore`,
the page in its params and the number of its last request; one view belongs to the
category, the other to whatever `openViewerFromView` copies. `viewer` is the session
(`viewerState.js`), `rendered` what `renderMediaWindow` drew last, `controller` the
opening whose `currentFetchController` it is. An opening in `openings` waits for its first
page, for a record that is not on it, for the index to resume at, or for further pages up to
its index; `pages` are the calls of `requestViewerPage`, first for the order and then for
the records. `goal` and `hasty` are histories: what the last opening was about, and whether
anything was under way when it began, the user moved or left during it, or a request
failed; then the code promises nothing (section 7). A record is a place in the order and a
page holds one, so the further pages, and the merge of their ids, are what the model is about.

### LiveTranscode

`player[p]` is one container of the viewer: its phase from `asking` over `loading` (the
stream's manifest) and `buffering` (hls.js waits for `play()`) to `playing`, the job whose status is asked, the job it plays, the job a resume polls for, the
attempts and the stall timers, with those of earlier streams. `jobs` are
the service's, which may break or never start. `native` is whether the browser
plays HLS itself. `Leave` is the removal of the container, after which nothing
of its functions is stopped.

### GuestProgress

`cache` and `disk` give each video's record by its time, `queue` the IndexedDB
transactions made and not run, `loading` where `initProgressDB` is, `marks` and
`timers` the deletions that a load must not undo, `paths` what
`resolveStaleProgress` has asked the server about, `moved` the files renamed.
One tab; records of whole categories go the same way and are left out.

### Gallery

The timeline's view of a filter is named by the filter (`viewKey`); its `orderedIds`
are the set of pages of dates in `timeline`, and `span` is the number of pages that its
`dates_limit` makes a refetch ask for, which `_aggregateTimelineParams` multiplies
with every append. `load` is each call of `loadInitialMedia`, `asks` each page asked
for by scrolling (one at a time for each timeline component), by `jumpToYear` or by
`jumpToDate`, with the filter of the moment. `overlay` is the month overlay with
`_overlayRequestId` and the list it shows. `disturbed` is a history variable: it names the
cases in which the code gives no such promise (see section 7), and the next load that
begins alone resets it. In `MCBrowser` two parts share the module, one for the
timeline and one for the overlay with the loads and filters behind it.

### Streaming

`filters` are `categoryIdFilter`, `subfolderFilter`, `parentNameFilter` and `activePage` as one
place (the setters leave only one of them set) and `mediaFilter`; `categoriesData` the
categories listed, each with the `viewKey` it shows. `slot` is what
`#streaming-content-container` holds and `gridView` the view the grid component is bound to,
which may be detached from the slot. `tasks` are the calls of `loadAndRender` (waiting for the
categories, for the secondary rows, for the media) and of `navigateToSubfolderInstant`, and
`current` the one whose controller `_loadAbortController` is; `transitions` are the callbacks
that `startViewTransition` runs a frame later, `indexAsks` the calls of
`refreshIndexedCategorySurface`, which no controller ends. `wanted` and `unsettled` are
histories: what was chosen last, and whether something has happened after which the code
promises nothing (section 7). `Joins` is `cachedFetch`, which gives a load the request that
the load before it has just aborted.

## 4. What the runs show

| run | module, cfg | question and answer | instance, and why it is enough |
|---|---|---|---|
| `upload_sessions` | MCUploads, `Uploads_sessions` | Is anything settled early or twice, or announced before it is whole; do sessions and staging files end; do the sessions implement `UploadService`? As they should, in every order of duplicates, cancels, expiries, sweeps, failing moves, crashes and reboots. Is a thumbnail's task lost or worked on twice, is a status shown for ever? No, but for the exceptions the properties name | two sessions of one name, two requests (two are needed for every race of the code, which has two critical sections), two chunks, so that a session may be incomplete; one session's chunks may be resent. Three thumbnails of two categories, a queue of one (full at once), two workers, a batch of each kind, one clear, two requests |
| `upload_overwrite` | MCChunkedUpload, `ChunkedUpload_overwrite` | Is the name of `get_unique_filename` collision-free until the file is there? **No** | two one-chunk sessions and one request suffice |
| `upload_limit` | MCUploadClient, `UploadClient_limit` | Does the browser limit the chunks it has under way? **No** | a file of three chunks, limit one |
| `browser_page` | MCBrowser, `Browser_page` | Are reports true, does every call of `uploadFiles` return with no session left running, are ready views current and cards filled, do starts get to their stream or an error, do resumes end, does progress survive, has the timeline no gaps, does the overlay show its month? Yes | two calls (one that looks for duplicates, one that does not) sharing two large files in every way; two views of one file that comes and goes; one player with two jobs, two polls, one resume; one video that is renamed, two saves, two events; a filter of three pages and one of a single page, two loads, two further pages under way (scrolling against a jump), one change of filter, one refetch or failure; two months, three openings or closings |
| `sessions` | MCSessions, `Sessions_requests` | Is the registry of profiles consistent, does deletion reach everybody, is a profile exclusive and mirrored among browsers that stay connected? Does the admin role change hands only by a claim with the password, a claim of the free role, a release or a reset, but for late answers and failures of the file? Do browsers agree with the recorded cast when all is quiet, and use the server as `CastService`? Does anybody send more than the rate allows, does a lone request succeed? Does the streaming layout show what was chosen last? Yes; but for the rate, which nobody exceeds, and with the exceptions the properties name | three browsers, two of which stay connected (an owner, a rival, and one that does as it likes), two tabs, two profiles. Three sessions, any of them with any request; failing reads, writes and removals, restarts, reset. Two controllers, two casts, three inputs in all, starting from nothing or from a settled cast. Two clients of different rates, two requests of sizes 1 and 2 with a burst of 2, three units of time, longer than `StaleAfter` and `Timeout`. Two categories on a page each, a folder, a parent of both, two media types; three loads or folders in all (one under way, one that takes its controller, and a third; with four the property holds too), a page past the end, one index update, one failure |
| `profiles_reconnect` | ProfileSessions, `_reconnect` | Is a profile never active in two sessions? **No** | two browsers |
| `admin_race` | AdminLock, `_race` | Is the owner replaced by another session only with the password, when requests overlap? **No** | two sessions |
| `appliance` | MCAppliance, `Appliance_box` | Casts that start one after the other, and while the countdown stops the kiosk: does the TV show them, do timers spare them and stop idle kiosks, is a waiting client answered, is it all `CastService`? Tunnels that are not started beside one another: is a stopped one down, does a mesh recover? Yes, with the exceptions the properties name | two clients (a cast and its successor; one is an admin), one TV page that comes and goes, two boot timers, failing starts and restarts, hotplug. One process of each provider, started again and again, restarts of the server, crashes of Headscale at any time, one fault of a stage of its start |
| `mesh_stop` | Tunnels, `Tunnels_stop` | Does the mesh not run after a stop that overlaps a status request? **No** | no crash or fault is needed |
| `sync_rooms` | MCSyncMode, `SyncMode_rooms` | Do guests in the room end up where the server says, does nobody go on taking itself for the host? Yes, unless a message was lost on them. Does the viewer show what was asked for, does it skip a page? Yes and no, unless openings overlap | two browsers (host and guest, in both roles), two media; three presses of the button (enable, take over or join, disable), three media opened or viewers closed, one playback message, one drop or reload, five of these together. A category of two pages of one record, so that a record may be on a later page and an index past the end; two openings, one leaving, one failure, four requests of a view |
| `index_scans` | MCLibraryIndex, `LibraryIndex_scans` | Is a category indexed once at a time, are there rows of lost files, does the index catch up? Yes, no, yes | a manual category, a drive and its subdirectory, a file in the first and one in the last; one reindex, one file that comes or goes, one failure or restart, at any point |
| `transcode_leave` | LiveTranscode, `LiveTranscode_leave` | Does the job of a video that is left end? **No** | one player, two jobs |

Counters that would make the state space infinite are bounded in guards, and each
bound is a constant named for it: `MaxSuffix`, `MaxTimers`, `MaxTime`,
`MaxPresses`, `MaxOpened`, `MaxPlays`, `MaxDrops`, `MaxEvents` (sync), `MaxChanges`,
`MaxReindexes`, `MaxFailures` (index); `MaxFetches`, `MaxBatches`, `MaxChanges`, `MaxFailures`
(views); `MaxJobs`, `MaxPolls`, `MaxResumes` (transcodes; the last two are limits of
the code, made small); `MaxSaves`, `MaxQueue`, `MaxEvents` (progress);
`MaxLoads`, `MaxAsks`, `MaxFilters`, `MaxTroubles`, `MaxOverlays` (gallery); `MaxOpenings`,
`MaxLeaves`, `MaxPages`, `MaxMisses` (viewer); `MaxTasks`, `MaxPage`, `MaxIndexAsks`,
`MaxUpsets` (streaming layout); `MaxCasts`,
`MaxInputs` (controllers); `MaxFaults` (mesh); `MaxRequests`
(thumbnails, whose `MaxQueue` is the code's own limit). A bound is on what users,
files and failures do, never on what the program does in answer, except where
`MaxQueue` of progress, `MaxAsks` and `MaxFetches`, `MaxBatches` stop new user actions
while so many requests are under way, and `MaxPages`, which also
stops an opening that asks for one more page (with seven requests instead of four both
properties of the viewer hold too).

`sync_rooms`, `browser_page`, `transcode_leave`, `upload_sessions` and `sessions`
do not check deadlock: pages, clients and sessions that have done all that the
bounds allow really may rest for ever. `appliance`, `index_scans` and the others
check it: there the kiosk, the monitor, the watchdog or the scans never rest. A
deadlock inside a part that may rest would show as a liveness property that
fails (`EveryCallReturns`, `EverySessionEnds`, `StartsAndResumesEnd`, `StatusEnds`).

The six runs that expect a violation state what a docstring, a document or an
error message of the repository says; the counterexample is the disagreement,
described in section 7.

## 5. Fairness

Only the program and its timers are fair. Users, clients, cables, failures and
crashes never are: nobody has to finish an upload, close a cast or plug a TV in.

* `ChunkedUpload.FairSpec`: weak fairness of every step of an accepted request
  (the file pool works its queue off and gevent runs every ready greenlet), of
  `BecomeStale` (time passes), and of the sweep that finds the drive mounted (the
  cleanup runs at a fixed interval, `initialize_runtime`; a drive that is never
  mounted again keeps its staging files, and no property says otherwise).
* `TvCast.FairSpec`: weak fairness of the ends of `systemctl` calls and sleeps
  (both have timeouts), of the timers and of the hotplug monitor's polls, one
  condition for each greenlet. The TV's page is not fair: the kiosk's browser may never connect.
  `ArmedTimerStopsKiosk` allows that a cast resumes, `BootIsAnswered` that casts
  keep starting.
* `LibraryIndex.FairSpec`: weak fairness of the periodic library scan
  (`LIBRARY_SCAN_INTERVAL`, 600 s unless set; the property presumes that the
  scan is not switched off), of the worker and the reindexers (they are greenlets
  in endless loops), of the greenlets that announce files, and of the answer to a
  quiesce, which has a deadline. Failures and directories that are missing are
  not fair and are bounded.

* `UploadClient.ClientFairness`: every suspended call goes on when what it awaits has
  settled, and every chunk request ends, refused or answered (the browser ends lost ones).
  The user, who closes the duplicate dialog or cancels, is not fair.
* `MediaViews.ViewsFairness`: the handling of events, the timers of the queue and
  of the retry, and the end of requests, by an answer or a failure.
* `LiveTranscode.TranscodeFairness`: the polls and awaits of a start and of a resume
  go on, and hls.js gets the manifest or gives up after a minute (`createHLSPlayer`). What
  follows is not fair: `play()` may be pending for ever, and the browser's own player has no
  timer at all. The service is not fair either: a job may be starting for ever, and a viewer may stay.
* `Tunnels.TunnelsFairness`: the watchdog's and the recovery's greenlets go on, their
  calls of `systemctl` have timeouts; the cooldown passes; a stop of the mesh ends. Users,
  tunnel processes and Headscale itself are not fair.
* `Thumbnails.ThumbnailsFairness`: ffmpeg ends (it is killed after its timeout), the
  greenlets of batches and of the administrator's request go on, and a page that
  shows a status polls it, since the status is what completes the counts.

`SyncMode`, `ProfileSessions`, `AdminLock`, `CastControllers`, `RateLimiter`,
`GuestProgress`, `Gallery`, `Viewer` and `Streaming` have no fairness; only their safety is checked. Liveness of
the controllers is part of `ControllersAgree`, which is about the states where no message is left.

## 6. What is proved

`tlapm` proves every step of the eight proof modules with Z3, Zenon and LS4. The
theorems hold for all values of the constants that satisfy the modules'
assumptions, so for any number of browsers, uploads, chunks, clients, categories
and files; what they assume are the `ASSUME`s, which TLC evaluates in the runs.
They are about the specifications, hence subject to the abstractions of section 3.

Every proof has the same shape: an inductive invariant that TLC found to hold on
the instances of section 4 before the proof began (`LibraryIndex.IInv` still is the
property of a run; the others, and the page's types and `RunningSessionIsAlive`, are theorems
and no longer cost one), one lemma that `Init`
establishes it, lemmas that each action keeps each part, and theorems that take the property
from it. Where TLC refuted a candidate, the counterexample showed what was missing, which is the
third column below.

**UploadsProofs, UploadClientProofs**

| component | theorems | inductive invariant, and why the property alone is not inductive |
|---|---|---|
| `ChunkedUpload` | `Typing`, `CountedChunksAreWritten`, `NoPartialFile`, `SettledOnce`, `Announced`, `Safety`, `Refinement` | `RequestsAreConsistent`: what a request may rely on at its place. A request that waits to be accounted has written its chunk if the staging file is still there; one that moves has all chunks counted; at most one request of an upload is settling, because the staging file, which the move removes, is the token for it. `Refinement` maps each action, under the invariant, to a step of `UploadService` or a stutter. `Announced` needs `WholeInv` on top: the requests of an upload that is not resent have different chunks, one that settles is alone, and so is the upload whose session owns a staging file; only then nothing rewrites a file that has been announced |
| `Thumbnails` | `ThumbnailsTyping`, `ThumbnailsKeep`, `OneTaskEach` | `TasksOnce`: until a quiesce gives up on the workers, a task is in one queue, once, or in the hands of one worker, and the keys are those tasks. `EachTaskOnce` counts in the union of the queues and hands; that a worker takes the only copy out of it needs the three to be apart |
| `UploadClient` | `ClientKeeps`, `ClientTyping`, `Reported`, `Alive`, `Relies` | `ClientInv`: what an answer says of a chunk is true (it is counted, and when all are, the upload is stored or the last chunk's request knows that it failed), a suspended call has the file it sends, and the session in progress is one of a call that has begun it. A report is made from the chunks' answers, not from the server's state, so the property alone says nothing of the step that makes it |

**SessionsProofs, RateLimiterProofs**

| component | theorems | inductive invariant, and why the property alone is not inductive |
|---|---|---|
| `ProfileSessions` | `Typing`, `Inductive`, `Registry`, `DeletionReachesAll`, `Exclusive`, `Mirror` | `MirrorFollowsAnswers`: a connected browser's mirror is the *last answer* (also one on its way), and a browser without sockets never had a profile. The mirror property compares with the cookie only when no answer is under way, which no step can keep by itself |
| `AdminLock` | `Current`, `CacheAgrees`, `PasswordGuardsOwner` | `ReadsAreCurrent`: what a waiting request that is not `late` has read is what the file still holds, or it could not read it. `RoleChangesRightly` is about the step that uses the answer and says nothing of the answer |
| `CastControllers` | `ControllersTyping`, `ControllersKeep`, `Agreement`, `EachCastOnce`, `ReliesOnCasts` | `CastInv`: a page that wants to stop has its stop under way; for a page that lost nothing, the last verdict in its inbox is true, or there is none and the page agrees. `ControllersAgree` speaks of empty inboxes only; the step that empties one needs to know what the last message said. `ReliesOnCasts` needs `AskedOnce`: a cast that was asked for is being prepared in one page, or is once on its way, or is starting, and nowhere else; two starts of one cast would be one start of `CastService`, and the end of the first would end it |
| `Streaming` | `LayoutTyping`, `LayoutKeeps`, `LayoutFollows` | `LayoutInv`: the one task whose controller it is asks for what was chosen last (`LoadGoesOn`, `FolderGoesOn`), or has ended with its result mounted or in the one swap that waits (`TaskEnded`), and the grid is where its record says (`GridInSlot`). `LayoutShowsChoice` is about a layout at rest, so it does not tell a late answer of an old task from that of the current one |
| `RateLimiter` | `Accounts`, `Typing`, `Limited`, `NothingForFree`, `LoneSucceeds` | `BucketIsKept` (the bucket of a request between the two buckets cannot be swept), `TokensArePaidFor` (admitted plus available is at most a burst plus the rate times the time) and `LoneHasItsShare`. The bound of `WithinRate` says nothing of tokens still in a bucket, so a step could spend them |

**ApplianceProofs**

| component | theorems | inductive invariant, and why the property alone is not inductive |
|---|---|---|
| `TvCast` | `Safe`, `Shown`, `BootArmed`, `TimersSpare`, `CastsAreServed` | `TimersMeanNoCast`: while a timer is armed, or the countdown is about to stop the kiosk, only exposed casts are recorded or start. `CastsAreServed` maps each step to one of `CastService` or a stutter, for overlapping casts too |
| `Tunnels` | `TunnelsKeep`, `StoppedIsStopped` | `ProcessesAreKnown`, `LaunchesAlone`, `StopsAlone`, `MeshIsRecorded`, `ProcessHasProvider`: a process that runs is recorded or belongs to the one request under way, a startup and a watchdog exist under a recorded mesh only, and so do a recovery and Headscale, unless they are `loose` or `inherited`. Without them a start, a stop or a recovery in progress brings up what the record of its end says nothing of |

**SyncModeProofs**

| component | theorems | inductive invariant, and why the property alone is not inductive |
|---|---|---|
| `SyncMode` | `SyncTyping`, `Hosts`, `Guests` | `HostInv`: the last announcement about the host in every inbox is true (`LastIsTrue`), and a browser with no announcement on its way is right, in its mode and in the answer to its toggle (`KnowsHost`). The property speaks of empty inboxes, and no step keeps it by itself. `Guests` adds `RoomInv`, with the states of the media in the place of announcements: the last state of the media in the inbox of a browser in the room is the server's (`MayFollow`), or that of a playback message relayed later (`HostsMedia`), with none left the guest shows it or is about to open it unless it has `strayed` (`GuestFollows`), a toggle's answer is true unless something newer is on its way (`AnswersAreTrue`), and who is neither guest nor host leaves the room (`OthersAreOut`) |
| `Viewer` | `ViewerTyping`, `ViewerKeeps`, `ShowsWhatWasAsked`, `SkipsNoPage` | `ViewerInv`: while no opening has overtaken another (`~hasty`) an opening that goes on is alone (`Lone`), or the viewer shows its goal and at most one further page is under way (`OpenNow`); the last page asked for is awaited with all before it there (`Awaited`), or the view has them all (`Filled`, or is one of a `OneRecord`). What is shown is decided when an answer comes, from the view as it is then |

**BrowserProofs**

| component | theorems | inductive invariant, and why the property alone is not inductive |
|---|---|---|
| `MediaViews` | `ViewsTyping`, `ViewsKeep`, `ReadyIsCurrent` | `ViewsInv`: a request that counts belongs to a view that waits for it (`FetchesCount`), and with no event on its way what it has read is what the server lists (`AnswersAreCurrent`). A view becomes ready by an answer, of which the property says nothing |
| `GuestProgress` | `ProgressTyping`, `ProgressKeeps`, `StoreFollows`, `GoesForward` | `ProgressInv`: the last waiting transaction about a url writes what the page shows (`LastAgrees`), before the store has been read too; after that the store has what no transaction is about (`RestAgrees`), and none replaces a record by an older one. `StoreFollowsCache` holds from the end of the load only, and nothing in it says that the load ends with it |
| `Gallery` | `GalleryTyping`, `GalleryKeeps`, `TimelineIsWhole`, `OverlayIsRight` | `GalleryInv`: the pages that are asked for follow the last one (`PagesFollow`), and an undisturbed timeline is loaded by one load alone (`LoadsAlone`) or has all pages up to `datesPage` (`ShowsPages`); the month that was asked for last is asked for with its number (`OverlayInv`). A gap is made by a page that was asked for earlier, from a count that has changed since |
| `LiveTranscode` | `TranscodeTyping` | `TranscodeInv`: types, and what a container, a start or a resume names is a job the service has got. That the jobs exist is no type of the player and needs the waiting steps too |
| the whole page | `PageTyping` | the conjunction of the five: each step is one of one component and a stutter of the others |

**LibraryIndexProofs**

| component | theorems | inductive invariant, and why the property alone is not inductive |
|---|---|---|
| `LibraryIndex` | `Books`, `Ghostless` | `OneTaskPerCategory`, `RunningIsExplained` and `ActiveIsBusy` need one another: a start tests the status, the worker the queue, and each of the three ties two of them. `NoGhostRows` is inductive relative to `IInv` |

Two abstract specifications are implemented and relied on. `Refinement` is about the first: every behaviour of
`ChunkedUpload`, with crashes and for any number of uploads, requests and chunks, is one of
`UploadService`, so what `UploadClient` relies on is what the sessions do. `Relies` is the other
half: whatever the page does, the server it sees behaves like `UploadService`. Together with
`Reported` and `Announced` they reach from the button to the disk: what the page
reports as uploaded has been stored, and a stored file is whole, unless its chunks were
resent or another session was given its name. `BrowserProofs` takes the part of the upload
client from `UploadClientProofs`.

`CastsAreServed` and `ReliesOnCasts` are the same two halves for `CastService`: `TvCast` with its
kiosk implements it, and the pages of `CastControllers`, whatever they send, lose or
reload, use nothing else.

`PasswordGuardsOwner`, `TimersSpare`, `NothingForFree`, `LoneSucceeds` and `GoesForward` are
theorems about steps; the others are about states.

The conditions, each of which a state or a behaviour satisfies and TLC reaches:

* browsers that stay connected (`Exclusive`, `Mirror`);
  uploads whose chunks are not sent again (`Announced`);
* casts that are not `exposed` (`TimersSpare`);
* tunnels that are not started beside another start, a stop or the mesh (`~StartsOverlap`, in `TunnelsKeep`
  and `StoppedIsStopped`), a Headscale that is neither `inherited` nor `loose` (`StoppedIsStopped`);
  `mesh_stop` is the run without the latter exception, and there the property fails (section 7);
* pages on which no message was lost (`Hosts`, `Guests`), guests whose users have left the viewer
  alone since the last message (`Guests`), and pages that no late status or verdict has
  misled (`Agreement`); openings that do not overlap (`ShowsWhatWasAsked`, `SkipsNoPage`);
* until a quiesce gives up on the workers (`OneTaskEach`); until one of the events that section 7 lists
  for them happens, for the gallery's timeline (`disturbed`) and the streaming layout (`unsettled`);
* files that were not renamed (`GoesForward`).

`SettledOnce`, `CountedChunksAreWritten`, `Registry`, `DeletionReachesAll`, `Shown`, `BootArmed`,
`ReadyIsCurrent`, `StoreFollows`, `OverlayIsRight`, the limiter's, the client's and the index's theorems
need no such condition.

## 7. Behaviour worth knowing

Six runs find a disagreement between the code and what it or its documents say:

* **Two uploads of one name replace each other** (`upload_overwrite`).
  `get_unique_filename` promises a collision-free name, but tests the disk when
  the session opens and nothing reserves the name until the last chunk is in.
* **A profile can be active in two sessions** (`profiles_reconnect`).
  `docs/ARCHITECTURE.md:624` excludes it, but `handle_connect` trusts the
  cookie, and `select_profile_route` sees only owners with a live socket.
* **The admin role is taken back without the password** (`admin_race`). The route
  decides from the owner read before it yielded to the file. In the trace the owner claims
  again after a restart and waits; another session takes the role over with the password; the
  first claim goes on and replaces it. Two overlapping claims of a free role end likewise.
* **The browser does not limit its chunks** (`upload_limit`). The race that asks
  whether a pending chunk has settled always answers no, so after the first
  settled chunk of a file all the others are sent at once.
* **The job of a video that is left goes on** (`transcode_leave`). The function stored
  to cancel it is never called in time, and could not do it with hls.js.
* **A stopped mesh may come up again** (`mesh_stop`). A status request that read a
  running mesh, and found Headscale down because of the stop, starts a recovery.

The models also have these behaviours, which no text of the repository forbids;
the properties are stated so as to except them, and say so:

Uploads and thumbnails:

* A cancelled upload whose move is under way is delivered nevertheless.
* A crash, or a failure, while `shutil.move` copies from RAM leaves a truncated media file under
  its final name.
* A request larger than a burst never gets its tokens; small requests overtake a
  large one until its deadline.
* A full queue that drops a single request leaves a count of 0 of 0, "pending" for
  ever. Two batches of one category mix their counts, and the upload of one file
  sets the total of a running batch to one.
* A quiesce that gives up waiting forgets the tasks that are being worked on, so a file
  may be worked on twice. A clear request that fails between the quiesce and its
  `try` leaves the workers paused.

Profiles:

* A tab that opens its socket while the answer with a new cookie is on its way writes the old
  profile over the new one in the registry.

The admin role:

* A lock file that cannot be removed or written is only logged: after the next restart the
  session it names is the administrator again, without the password. A claim whose read of the
  file times out takes the role from its owner.

The TV and its controllers:

* A cast that is stopped before the TV's page registers leaves `casting_active`
  set and the kiosk on without a timer.
* A cast that begins while the countdown waits for `systemctl stop` loses its kiosk to it. A cast
  that is starting while another one is stopped may be recorded beside the idle time that the stop
  has armed: the countdown then ends its kiosk, or its own stop is taken for
  one that was handled and cancels the timer, and the kiosk stays on.
* A hotplug that `get_status` or `on_cast_start` sees first is no change to the
  monitor, which then does not handle it.
* `request_tv_status` without a TV page answers that nothing is cast, although a cast may
  be recorded: a reload while the kiosk boots resets the browser. `tv_error` and
  the boot timeout reset it as well.
* A stop that waits for the kiosk announces the end of its cast when it returns, also if
  another cast has been announced meanwhile, and every browser shows none then.
* `handle_connect` may send a status that a stop or a cast has overtaken. The timer
  that restores the modal shows it again when a status has ended the cast meanwhile.
* A cast sent while a stop is wanted may stay shown. A stop that overtakes a cast
  waiting in `on_cast_start` is lost; a repeated stop can end somebody else's later cast.

Sync mode and the library:

* A guest that leaves and rejoins sync mode by the button is not in the room: its
  handlers are attached to a socket that is connected already, and only
  `connect` sends `join_sync`. A host that closes its viewer does not tell the
  guests. Throttled updates are not sent again. After a lost connection two
  browsers may take themselves for the host.
* A guest may close its viewer with Escape or the back button, and open another media, and stays
  there until the host's next message. One whose video plays only goes back to the thumbnail when
  it is told to close, and keeps its viewer open.
* A playback message takes the guests to a media that the server does not record: who joins
  later gets the older one.
* A file uploaded while a walk is past its directory loses its row at the end of
  the walk, until the next scan.
* Categories whose queued tasks are drained by an admin's reindex stay
  `"running"`, and are not indexed on their own again before a restart.
* The quiesce counts the worker's task only, so it may answer while a background
  reindex is going on.

The page:

* Transcodes: stalls of a video that has been left still start jobs, because the
  handlers outlive the container.
* Transcodes: the manifest stops the timer of hls.js's load, and a fatal error after it is not
  answered by a rejection. A job that breaks before its first segment leaves the start waiting
  for `play()`, without an error, and the handlers that would resume it are not attached yet. The
  browser's own player waits for a silent stream in the same way.
* Progress: a rename overwrites a newer record of the new path; a load brings back a
  completed video when the timer of its mark has run out first.
* Gallery: a filter chosen by a search while a load runs changes the state and the pill, but
  its load is dropped, because `loadAndRender` returns; a filter of the toolbar starts a
  second load, and the last to finish wins. A page asked for before a change of filter
  is appended to the new filter's timeline and moves `datesPage`. A jump to a date skips
  the pages before it, which scrolling never fetches. A page appended during a refetch of
  the timeline is lost when the refetch is answered.
* Viewer: an opening that a newer one aborted hides the viewer when its page comes
  (`loader.js:511`), or, when it waits for a record or the resume index, goes on, sets the
  session and renders. Leaving waits for the progress to be saved and then clears what a newer
  opening has set up. A page asked for while the first one is under way replaces it, and
  the first one is lost; a page that failed is not asked for again, since its number is in
  the view's params. The end of an aborted load resets `isLoading` of a newer one.
* Gallery: a page that failed, or that an event aborted, ends scrolling:
  `loadMoreDates` takes the missing `hasMoreDates` of its empty answer for "no more",
  although the comment there wants to "allow a retry".
* Streaming layout: a load that aborts one of the same categories URL (a second click on a page
  or the pill, a folder and then its category) joins the aborted request in `cachedFetch`,
  fails with it and shows "Failed to load content". That message stays beside what a later
  load mounts, and a grid it has detached is rebound by the next folder where nobody sees it.
* Streaming layout: `navigateToSubfolderInstant` asks with the media type there is and shows
  the answer as that of all types. It mounts the grid before it sets `subfolderFilter`, and
  sets `categoriesData` to the record from before the answer, so that further pages are asked
  for the folder that was left. A reload during it (hidden content, a refresh) loses it.
* Streaming layout: `refreshIndexedCategorySurface` writes the view of the filters it was asked
  under, whatever the layout shows by then: a category that is not listed, or the grid of
  another one; its failure leaves a view without a key.
* Streaming layout: a callback of a view transition may run after a newer load has begun, and a
  folder's then changes the filters below it. A layout entered again while the first `init`
  waits mounts nothing. Next counts from the page of the last click and goes past the last page.
  Leaving the layout stops the handler of index updates until the sockets are registered anew.

Tunnels:

* The start of a Cloudflare or Pinggy tunnel is not refused while the mesh runs. The mesh
  is then unrecorded, and a `cloudflared` that fails wipes the active record.
* Two starts of processes that overlap leave one without a record. A start whose
  registration comes after a stop is recorded as running.
* A URL printed during the sleep before the registration is replaced by none there.
* Headscale goes on when the server restarts, and is enabled at boot, but the store begins
  anew: a running mesh is then reported as none, without a watchdog, and a stop finds nothing
  to stop. A new start of the mesh takes it over.
* A stale configuration makes `start_runtime` stop Headscale and answer that it is
  already running; the watchdog repairs that later.

## 8. What is only model-checked, and what is not modelled

Only model-checked: liveness (`EverySessionEnds`, `OrphansAreSwept`,
`ArmedTimerStopsKiosk`, `BootIsAnswered`, `IndexCatchesUp`, `EveryCallReturns`,
`CardsAreFilled`, `StartsAndResumesEnd`, `MeshRecovers`, `StatusEnds`), because the prover
has no rules for fairness and ENABLED; and the six violations, which are
counterexamples and need no proof. Every invariant and every action property that a passing
run checks is stated by a theorem.

The instances still say what the theorems do not: that the states the properties
are about are reached, that each mutant breaks its property, and that the fair steps are enough for the
liveness above. Casts whose starts overlap one another or a stop that another client waits for are covered by
the theorems `Shown`, `BootArmed`, `TimersSpare` and `CastsAreServed` of `ApplianceProofs` alone, since
the run lets the starts follow each other.

Left out of modelled components, with the reason: names, colours, preferences
and idle eviction of profiles, playback positions and subtitles of casts, positions
in a synced media file, the delay of downloads (each is data, or an operation
beside the ones modelled, and planned below where it has hazards); the viewer when events of the library change its view,
swipes into subfolders and preloading; more files of one date and the selection in the gallery; the items of the streaming layout's views and their further pages; the progress of profiles, which the server keeps;
the caches and batch jobs of the transcoder; batch events,
renames, folder deletion and mount changes of the library; retries of a locked
database; a `systemctl stop` that fails; a clock that steps backwards.

Not modelled at all: the components marked so in `PROJECT.json`. Those in the plan
below wait for their turn. The others are SQL, file-system or shell commands without
a protocol of their own, presentation, or done once at the start.

## 9. Plan

The order follows the weight of the behaviour: data loss first, then access, then
what people see, then the machinery.

Done: `ChunkedUpload` with `UploadService` and its refinement, `UploadClient`,
`ProfileSessions`, `AdminLock`, `KioskPower` with `TvCast`, `CastService` and its refinement, `CastControllers`, `RateLimiter`,
`SyncMode`, `LibraryIndex`, `MediaViews`, `LiveTranscode`, `GuestProgress`, `Gallery`,
`Viewer`, `Streaming`, `Tunnels`, `Thumbnails`.

To extend the model:

1. `KickBlock`: blocked sessions and addresses against connects and other tabs.
2. Hidden content, whose changes invalidate views, in `MediaViews`, and `Viewer` on top of it.
3. `TvPage`: the player of the TV's page, its positions and subtitles, as the other
   end of `TvCast`; positions in `CastControllers`.
4. `TranscodeCache` of the server, and the progress of profiles.
5. In the modules there are: batch events, renames and mount changes in
   `LibraryIndex`; idle eviction in `ProfileSessions`.

Abstract specifications worth a refinement: a *role* with one holder for `AdminLock`
and for the host of `SyncMode`; a
set of rows that follows a set of files for `LibraryIndex`.

To prove: those refinements, each under the inductive invariant there is (`ReadsAreCurrent`,
`HostInv`, `IInv`), with the condition on the property made a condition on the
abstract step.

Runs are one per question; where a later module asks a more telling question of the
same code, its run replaces an earlier one.
