---------------------------- MODULE ChunkedUpload ----------------------------
(***************************************************************************)
(* The chunked upload sessions of upload_session_runtime_service.py.       *)
(*                                                                         *)
(* The server is one gevent process: a handler runs without interruption   *)
(* until it waits for the file pool, and upload_lock never spans such a    *)
(* wait.  One action is therefore the stretch of a handler between two     *)
(* waits, and every action of a request may be followed by any other       *)
(* request's action.                                                       *)
(*                                                                         *)
(* Bytes are abstracted to the set of chunks a file holds; a path is a     *)
(* requested name and the counter get_unique_filename appended to it.      *)
(***************************************************************************)
EXTENDS Naturals, FiniteSets, Functions

CONSTANTS Uploads,      \* upload ids, each handed out once
          Requests,     \* concurrent chunk requests the server works on
          Names,        \* file names clients ask for (one target directory)
          Total,        \* total_chunks of every upload
          MaxSuffix,    \* bound on the counter of get_unique_filename
          Resent        \* uploads whose chunks may be sent again while served

ASSUME TotalAssumption == Total \in Nat \ {0}
ASSUME MaxSuffixAssumption == MaxSuffix \in Nat
ASSUME ResentAssumption == Resent \subseteq Uploads

VARIABLES active_uploads, \* the keys of the active_uploads store
          upload,         \* the session dict of each id handed out (a request
                          \* may hold a dict after its key is gone)
          stale,          \* the sessions whose last_activity is older than CHUNK_UPLOAD_TIMEOUT
          temp,           \* the staging files there are, by upload
          disk,           \* the media files of the target directory, by path
          request,        \* progress of the upload_chunk calls
          announced       \* uploads announced by STORAGE_FILE_UPLOADED

vars == <<active_uploads, upload, stale, temp, disk, request, announced>>

Chunks == 1..Total
Paths == Names \X (0..MaxSuffix)
Session == [target: Paths, ram: BOOLEAN, received: SUBSET Chunks]
\* A media file: the uploads whose bytes are in it, the chunks it holds (none,
\* unless it is whole), and whether a copy into it broke off half-way.
MediaFile == [of: SUBSET Uploads, chunks: SUBSET Chunks, torn: BOOLEAN]

Idle == [pc |-> "idle"]
InFlight == [pc: {"write", "account", "move", "copy", "settle"},
             upload: DOMAIN upload, chunk: Chunks, src: SUBSET Chunks]

TypeOK ==
    /\ active_uploads \subseteq DOMAIN upload
    /\ DOMAIN upload \subseteq Uploads
    /\ upload \in [DOMAIN upload -> Session]
    /\ stale \subseteq Uploads
    /\ DOMAIN temp \subseteq DOMAIN upload
    /\ temp \in [DOMAIN temp -> SUBSET Chunks]
    /\ DOMAIN disk \subseteq Paths
    /\ disk \in [DOMAIN disk -> MediaFile]
    /\ request \in [Requests -> InFlight \cup {Idle}]
    /\ announced \subseteq DOMAIN upload

Init ==
    /\ active_uploads = {}
    /\ upload = <<>>
    /\ stale = {}
    /\ temp = <<>>
    /\ disk = <<>>
    /\ request = [r \in Requests |-> Idle]
    /\ announced = {}

-----------------------------------------------------------------------------
(* What a request works on. *)

At(r, pc) == request[r].pc = pc
Target(u) == upload[u].target
Serving(u) == {r \in Requests : request[r].pc # "idle" /\ request[r].upload = u}
Copying(p) == {r \in Requests : At(r, "copy") /\ Target(request[r].upload) = p}

Step(r, pc) == request' = [request EXCEPT ![r].pc = pc]
Respond(r) == request' = [request EXCEPT ![r] = Idle]

With(f, x, y) == [z \in DOMAIN f \cup {x} |-> IF z = x THEN y ELSE f[z]]
Without(f, S) == Restrict(f, DOMAIN f \ S)

\* get_unique_filename: the first counter whose path does not exist yet.
UniquePath(n, p) ==
    /\ p[1] = n
    /\ p \notin DOMAIN disk
    /\ \A k \in 0..MaxSuffix : k < p[2] => <<n, k>> \in DOMAIN disk

-----------------------------------------------------------------------------
(* init_chunked_upload: the target is chosen, nothing reserves it.          *)

InitChunkedUpload(u, n, ram) ==
    /\ u \notin DOMAIN upload
    /\ \E p \in Paths :
         /\ UniquePath(n, p)
         /\ upload' = With(upload, u, [target |-> p, ram |-> ram, received |-> {}])
    /\ active_uploads' = active_uploads \cup {u}
    /\ temp' = With(temp, u, {})
    /\ UNCHANGED <<stale, disk, request, announced>>

(* upload_chunk, first critical section: unknown sessions and received      *)
(* chunks are answered at once (no state changes), others are written.      *)

AcceptChunk(r, u, c) ==
    /\ At(r, "idle")
    /\ u \in active_uploads
    /\ c \notin upload[u].received
    /\ u \in Resent \/ \A q \in Serving(u) : request[q].chunk # c
    /\ stale' = stale \ {u}
    /\ request' = [request EXCEPT ![r] =
                      [pc |-> "write", upload |-> u, chunk |-> c, src |-> {}]]
    /\ UNCHANGED <<active_uploads, upload, temp, disk, announced>>

\* The file pool opens the staging file 'r+b': a file that is gone is an error.
\* (A write that fails otherwise leaves the session as if it had not been sent.)
WriteChunk(r) ==
    /\ At(r, "write")
    /\ LET u == request[r].upload IN
         \/ /\ u \in DOMAIN temp
            /\ temp' = [temp EXCEPT ![u] = @ \cup {request[r].chunk}]
            /\ Step(r, "account")
         \/ /\ u \notin DOMAIN temp
            /\ Respond(r)
            /\ UNCHANGED temp
    /\ UNCHANGED <<active_uploads, upload, stale, disk, announced>>

\* upload_chunk's second critical section, and finalize_chunked_upload's first
\* one: no wait separates them.
AccountAndFinalizeAt(r, total) ==
    /\ At(r, "account")
    /\ LET u == request[r].upload
           received == upload[u].received \cup {request[r].chunk}
       IN /\ upload' = [upload EXCEPT ![u].received = received]
          /\ IF Cardinality(received) = total /\ u \in active_uploads
             THEN Step(r, "move")
             ELSE Respond(r)
    /\ UNCHANGED <<active_uploads, stale, temp, disk, announced>>

AccountChunkOffByOne(r) == AccountAndFinalizeAt(r, Total - 1)
AccountChunk(r) == AccountAndFinalizeAt(r, Total)

-----------------------------------------------------------------------------
(* finalize_chunked_upload: shutil.move renames a staging file on the same  *)
(* drive and copies, then unlinks, one that is staged in RAM.               *)

RenameIntoPlace(r) ==
    /\ At(r, "move")
    /\ LET u == request[r].upload IN
         /\ ~upload[u].ram
         /\ u \in DOMAIN temp
         /\ disk' = With(disk, Target(u), [of |-> {u}, chunks |-> temp[u], torn |-> FALSE])
         /\ temp' = Without(temp, {u})
    /\ Step(r, "settle")
    /\ UNCHANGED <<active_uploads, upload, stale, announced>>

BeginCopy(r) ==
    /\ At(r, "move")
    /\ LET u == request[r].upload
           p == Target(u)
       IN /\ upload[u].ram
          /\ u \in DOMAIN temp
          /\ disk' = With(disk, p,
                [of |-> {u} \cup {request[q].upload : q \in Copying(p)},
                 chunks |-> {},
                 torn |-> Copying(p) # {} /\ disk[p].torn])
          /\ request' = [request EXCEPT ![r].pc = "copy", ![r].src = temp[u]]
    /\ UNCHANGED <<active_uploads, upload, stale, temp, announced>>

\* The copy goes through open descriptors, so it ends well even when the
\* staging file was unlinked meanwhile; unlinking it then fails.  A file that
\* was renamed over the destination is not touched any more, and the file is
\* whole when the last of several copies into it has ended, though perhaps not
\* if one of them failed (each has truncated what the others had written).
EndCopy(r) ==
    /\ At(r, "copy")
    /\ LET u == request[r].upload
           p == Target(u)
       IN /\ \/ /\ Copying(p) = {r} /\ disk[p].chunks = {}
                /\ disk' = [disk EXCEPT ![p].chunks = request[r].src]
             \/ /\ Copying(p) # {r} \/ disk[p].chunks # {} \/ disk[p].torn
                /\ UNCHANGED disk
          /\ temp' = Without(temp, {u})
          /\ IF u \in DOMAIN temp THEN Step(r, "settle") ELSE Respond(r)
    /\ UNCHANGED <<active_uploads, upload, stale, announced>>

\* The device is full, or gone, in the middle of a copy: the request is answered
\* with an error, the session stays registered and its staging file stays, and
\* nobody removes what was copied under the final name.
FailCopyInto(r) ==
    LET p == Target(request[r].upload) IN
    /\ At(r, "copy")
    /\ disk' = IF disk[p].chunks = {} THEN [disk EXCEPT ![p].torn = TRUE] ELSE disk
    /\ UNCHANGED <<active_uploads, upload, stale, temp, announced>>

FailCopyIgnored(r) == FailCopyInto(r) /\ Step(r, "settle")
FailCopy(r) == FailCopyInto(r) /\ Respond(r)

\* shutil.move finds no staging file, or cannot open the destination: the
\* request is answered with an error and the session stays registered.
FailMoveIgnored(r) ==
    /\ At(r, "move")
    /\ Step(r, "settle")
    /\ UNCHANGED <<active_uploads, upload, stale, temp, disk, announced>>

FailMove(r) ==
    /\ At(r, "move")
    /\ Respond(r)
    /\ UNCHANGED <<active_uploads, upload, stale, temp, disk, announced>>

\* The session ends, the upload is announced on the bus, the client is told.
SettleUpload(r) ==
    /\ At(r, "settle")
    /\ active_uploads' = active_uploads \ {request[r].upload}
    /\ announced' = announced \cup {request[r].upload}
    /\ Respond(r)
    /\ UNCHANGED <<upload, stale, temp, disk>>

-----------------------------------------------------------------------------
(* cancel_chunked_upload, the periodic cleanup, the passage of time.        *)

CancelChunkedUpload(u) ==
    /\ u \in active_uploads
    /\ active_uploads' = active_uploads \ {u}
    /\ temp' = Without(temp, {u})
    /\ UNCHANGED <<upload, stale, disk, request, announced>>

\* No chunk request for CHUNK_UPLOAD_TIMEOUT (an hour); the work of one
\* request takes less than that.
BecomeStale(u) ==
    /\ u \in active_uploads
    /\ u \notin stale
    /\ Serving(u) = {}
    /\ stale' = stale \cup {u}
    /\ UNCHANGED <<active_uploads, upload, temp, disk, request, announced>>

\* cleanup_stale_uploads cancels the stale sessions and removes the staging
\* files no session owns: in RAM always, on disk when the drive is in the drive
\* cache (empty until the first scan has ended) and writable.
Cleanup(expired, orphans) ==
    /\ active_uploads' = active_uploads \ expired
    /\ temp' = Without(temp, expired \cup orphans)
    /\ UNCHANGED <<upload, stale, disk, request, announced>>

Orphans(driveKnown) ==
    {u \in DOMAIN upload \ active_uploads : upload[u].ram \/ driveKnown}

CleanupKeepsSessions(driveKnown) == Cleanup({}, Orphans(driveKnown))
CleanupForgetsDisk(driveKnown) == Cleanup(active_uploads \cap stale, Orphans(FALSE))
CleanupStaleUploads(driveKnown) ==
    Cleanup(active_uploads \cap stale, Orphans(driveKnown))

\* The process dies and is started again: the store and the requests are gone,
\* staging files and a half-copied media file stay.  A reboot empties /dev/shm.
Crash(reboot) ==
    /\ active_uploads' = {}
    /\ request' = [r \in Requests |-> Idle]
    /\ temp' = Without(temp, {u \in DOMAIN upload : reboot /\ upload[u].ram})
    /\ disk' = [p \in DOMAIN disk |->
                   [disk[p] EXCEPT !.torn = @ \/ disk[p].chunks = {}]]
    /\ UNCHANGED <<upload, stale, announced>>

-----------------------------------------------------------------------------
Serve(r) ==
    \/ WriteChunk(r)
    \/ AccountChunk(r)
    \/ RenameIntoPlace(r)
    \/ BeginCopy(r)
    \/ EndCopy(r)
    \/ FailCopy(r)
    \/ FailMove(r)
    \/ SettleUpload(r)

Next ==
    \/ \E u \in Uploads, n \in Names, ram \in BOOLEAN : InitChunkedUpload(u, n, ram)
    \/ \E r \in Requests, u \in Uploads, c \in Chunks : AcceptChunk(r, u, c)
    \/ \E r \in Requests : Serve(r)
    \/ \E u \in Uploads : CancelChunkedUpload(u)
    \/ \E u \in Uploads : BecomeStale(u)
    \/ \E driveKnown \in BOOLEAN : CleanupStaleUploads(driveKnown)
    \/ \E reboot \in BOOLEAN : Crash(reboot)

Spec == Init /\ [][Next]_vars

\* The file pool and the scheduler serve every accepted request, time passes,
\* the cleanup keeps running and sooner or later finds the drive mounted.
\* Clients and crashes are not fair.
Fairness ==
    /\ \A r \in Requests : WF_vars(Serve(r))
    /\ \A u \in Uploads : WF_vars(BecomeStale(u))
    /\ WF_vars(CleanupStaleUploads(TRUE))

FairSpec == Spec /\ Fairness

-----------------------------------------------------------------------------
(* Properties. *)

\* Chunks may arrive in any order, twice and concurrently, and the staging file
\* may be taken away at any time; still every chunk upload_chunk counted is in
\* the staging file as long as that file exists.
ReceivedIsWritten ==
    \A u \in DOMAIN temp : upload[u].received \subseteq temp[u]

\* A media file that lacks chunks is one shutil.move is still copying, or one
\* that a copy into it broke off: no race of chunks, duplicates, cancellations
\* and cleanups finalizes an upload too early or strands half a file.
PartialIsBeingCopied ==
    \A p \in DOMAIN disk :
        disk[p].chunks # Chunks => Copying(p) # {} \/ disk[p].torn

\* After the storage event went out the file is there, whole, and holds the
\* bytes of that upload, when no other session was given the same target and no
\* chunk of it was sent twice (a second completer would truncate and copy it again).
AnnouncedIsWhole ==
    \A u \in announced :
        u \notin Resent /\ (\A v \in DOMAIN upload \ {u} : Target(v) # Target(u)) =>
            /\ Target(u) \in DOMAIN disk
            /\ disk[Target(u)] = [of |-> {u}, chunks |-> Chunks, torn |-> FALSE]

\* An upload is announced at most once, and a request that is about to announce
\* one whose session was already settled, cancelled or expired finds its file
\* in place.
SettledIsDelivered ==
    \A r \in Requests :
        At(r, "settle") => /\ request[r].upload \notin announced
                           /\ Target(request[r].upload) \in DOMAIN disk

\* What a request may rely on at the place it has reached.
Known(r) ==
    LET u == request[r].upload IN
    /\ At(r, "account") /\ u \in DOMAIN temp => request[r].chunk \in temp[u]
    /\ At(r, "move") => upload[u].received = Chunks
    /\ At(r, "copy") => request[r].src = Chunks /\ Target(u) \in DOMAIN disk
    /\ At(r, "settle") => /\ u \notin DOMAIN temp
                          /\ u \notin announced
                          /\ Target(u) \in DOMAIN disk

RequestsAreConsistent ==
    /\ \A r \in Requests : Known(r)
    /\ \A r, q \in Requests :
         At(r, "settle") /\ At(q, "settle") /\ request[r].upload = request[q].upload
            => r = q
    /\ \A p \in DOMAIN disk : disk[p].chunks \in {{}, Chunks}
    /\ announced \cap DOMAIN temp = {}

\* The inductive strengthening: the staging file of an upload is the token that
\* lets one request finish it, and nobody moves a file before all its chunks
\* are counted.
IInv ==
    /\ TypeOK
    /\ ReceivedIsWritten
    /\ PartialIsBeingCopied
    /\ RequestsAreConsistent

\* A request that moves, copies or settles a file has all chunks of it counted.
FinishedIsCounted ==
    \A r \in Requests :
        request[r].pc \in {"move", "copy", "settle"} =>
            upload[request[r].upload].received = Chunks

\* How a client sees the sessions: this service implements UploadService, that
\* is, each id is opened once, stored at most once and only with every chunk
\* counted, and a session that is gone stays so unless its file was being moved.
Phase(u) ==
    IF u \notin DOMAIN upload THEN "none"
    ELSE IF u \in announced THEN "stored"
    ELSE IF u \in active_uploads THEN "open" ELSE "gone"
CountedOf(u) == IF u \in DOMAIN upload THEN upload[u].received ELSE {}

Service == INSTANCE UploadService
    WITH phase   <- [u \in Uploads |-> Phase(u)],
         counted <- [u \in Uploads |-> CountedOf(u)]

ImplementsService == Service!ServiceSpec

\* get_unique_filename: "Return a collision-free filename within a directory."
\* A finished media file is never replaced by another upload's bytes.
NoSilentOverwrite ==
    [][\A p \in DOMAIN disk : disk'[p].of = disk[p].of]_vars

\* Every session ends, whatever its client does: finished, cancelled or expired.
EverySessionEnds ==
    \A u \in Uploads : u \in active_uploads ~> u \notin active_uploads

\* The staging file of a session that is gone is removed in the end, also when
\* the session was lost in a crash.
OrphansAreSwept ==
    \A u \in Uploads :
        (u \notin active_uploads /\ u \in DOMAIN temp) ~> u \notin DOMAIN temp
=============================================================================
