----------------------------- MODULE UploadClient -----------------------------
(***************************************************************************)
(* The upload manager of a browser (utils/uploadManager.js) against what   *)
(* the chunked upload sessions of the server promise (UploadService).      *)
(*                                                                         *)
(* The page runs one JavaScript task at a time.  A call of uploadFiles is  *)
(* suspended only at its awaits, so one action is the stretch from one     *)
(* await to the next one, and the file manager's call, a drop's call and   *)
(* the cancel button share the module's variables in between.  Requests    *)
(* and answers may be lost, and the server may die.                        *)
(***************************************************************************)
EXTENDS UploadService

CONSTANTS Calls,       \* calls of uploadFiles
          Checks,      \* those that look for duplicates (skipDuplicateCheck = false)
          Workloads,   \* how many files above LARGE_FILE_THRESHOLD each call may have
          ChunkLimit,  \* getMaxConcurrentChunks()
          NoCall,
          NoUpload

ASSUME ClientAssumption ==
    /\ Total \in Nat \ {0} /\ ChunkLimit \in Nat \ {0}
    /\ Workloads \subseteq [Calls -> Nat]
    /\ NoCall \notin Calls /\ NoUpload \notin Uploads

VARIABLES session,     \* currentUploadSession: the call it belongs to, isRunning
          cancelled,   \* uploadCancelled
          open,        \* the keys of activeUploads
          call,        \* the suspended uploadFiles calls
          chunk,       \* the promise of each chunk of each upload
          cancelSent,  \* cancel requests cancelAllUploads sent and forgot
          results      \* the results object of each session: logged uploads

clientVars == <<session, cancelled, open, call, chunk, cancelSent, results>>
allVars == <<serviceVars, clientVars>>

Waiting == {"check", "dialog", "negotiate", "small", "init", "race", "all", "cancel"}
Promise == {"unsent", "sent", "moving", "ok", "error"}
Log == [upload: Uploads, success: BOOLEAN]

ClientTypeOK ==
    /\ session \in [of: Calls \cup {NoCall}, isRunning: BOOLEAN]
    /\ cancelled \in BOOLEAN
    /\ open \subseteq Uploads
    /\ call \in [Calls -> [pc: Waiting \cup {"idle", "returned"}, left: Nat,
                           upload: Uploads \cup {NoUpload}, results: Calls \cup {NoCall}]]
    /\ chunk \in [Uploads -> [ServiceChunks -> Promise]]
    /\ cancelSent \subseteq Uploads
    /\ results \in [Calls -> SUBSET Log]

ClientInit ==
    /\ ServiceInit
    /\ session = [of |-> NoCall, isRunning |-> FALSE]
    /\ cancelled = FALSE
    /\ open = {}
    /\ \E large \in Workloads :
         call = [k \in Calls |-> [pc |-> "idle", left |-> large[k],
                                  upload |-> NoUpload, results |-> NoCall]]
    /\ chunk = [u \in Uploads |-> [c \in ServiceChunks |-> "unsent"]]
    /\ cancelSent = {}
    /\ results = [k \in Calls |-> {}]

-----------------------------------------------------------------------------
(* uploadFiles up to its loops. *)

AtCall(k, pc) == call[k].pc = pc
Suspend(k, pc) == call' = [call EXCEPT ![k].pc = pc]
Sending(k) == call[k].pc \in {"race", "all", "cancel"}

\* A session in progress refuses the call; otherwise the call becomes the
\* session and asks for the upload settings.
BeginSession(k) ==
    IF session.isRunning
    THEN Suspend(k, "returned") /\ UNCHANGED <<session, cancelled>>
    ELSE /\ cancelled' = FALSE
         /\ session' = [of |-> k, isRunning |-> TRUE]
         /\ Suspend(k, "negotiate")

\* The test for a session is made before the duplicates are looked for and not
\* again after it, when two calls may both pass.
UploadFiles(k) ==
    /\ AtCall(k, "idle")
    /\ IF session.isRunning \/ k \notin Checks
       THEN BeginSession(k)
       ELSE Suspend(k, "check") /\ UNCHANGED session /\ cancelled' = FALSE
    /\ UNCHANGED <<serviceVars, open, chunk, cancelSent, results>>

DuplicatesChecked(k) ==
    /\ AtCall(k, "check")
    /\ \/ /\ cancelled' = FALSE
          /\ session' = [of |-> k, isRunning |-> TRUE]
          /\ Suspend(k, "negotiate")
       \/ Suspend(k, "dialog") /\ UNCHANGED <<session, cancelled>>
    /\ UNCHANGED <<serviceVars, open, chunk, cancelSent, results>>

\* The dialog: upload anyway or skip some, skip all, or close it.
DuplicatesDecided(k) ==
    /\ AtCall(k, "dialog")
    /\ \/ BeginSession(k)
       \/ Suspend(k, "returned") /\ UNCHANGED <<session, cancelled>>
    /\ UNCHANGED <<serviceVars, open, chunk, cancelSent, results>>

-----------------------------------------------------------------------------
(* The loops over the files. *)

\* The finally block ends whatever session is current.
EndCall == session' = [session EXCEPT !.isRunning = FALSE]

\* The head of the loop over the large files: the next one is initialised, or
\* all that are left are cancelled, or there is none.
NextFile(k, left) ==
    IF left = 0 \/ cancelled
    THEN /\ call' = [call EXCEPT ![k].pc = "returned", ![k].left = 0,
                                 ![k].upload = NoUpload]
         /\ EndCall
    ELSE /\ call' = [call EXCEPT ![k].pc = "init", ![k].left = left,
                                 ![k].upload = NoUpload]
         /\ UNCHANGED session

\* The settings are there; results is read from the session current now.
Negotiated(k) ==
    /\ AtCall(k, "negotiate")
    /\ IF cancelled
       THEN NextFile(k, 0)
       ELSE /\ call' = [call EXCEPT ![k].pc = "small", ![k].results = session.of]
            /\ UNCHANGED session
    /\ UNCHANGED <<serviceVars, cancelled, open, chunk, cancelSent, results>>

\* The batches of small files, each file in one request that fails or not.
SmallFilesSent(k) ==
    /\ AtCall(k, "small")
    /\ NextFile(k, call[k].left)
    /\ UNCHANGED <<serviceVars, cancelled, open, chunk, cancelSent, results>>

InitRefused(k) ==
    /\ AtCall(k, "init")
    /\ NextFile(k, call[k].left - 1)
    /\ UNCHANGED <<serviceVars, cancelled, open, chunk, cancelSent, results>>

-----------------------------------------------------------------------------
(* uploadFileChunked. *)

SendChunks(u, S) ==
    chunk' = [chunk EXCEPT ![u] = [c \in ServiceChunks |->
                 IF c \in S /\ @[c] = "unsent" THEN "sent" ELSE @[c]]]

\* uuid4: an id that was never handed out.
NextId == CHOOSE u \in In("none") : TRUE

\* The session is there: chunks are sent up to the limit, or, when the button
\* was pressed meanwhile, the session is cancelled again.
InitAnswered(k) ==
    /\ AtCall(k, "init")
    /\ In("none") # {}
    /\ LET u == NextId IN
       /\ Open(u)
       /\ open' = open \cup {u}
       /\ IF cancelled
          THEN call' = [call EXCEPT ![k].pc = "cancel", ![k].upload = u] /\ UNCHANGED chunk
          ELSE /\ call' = [call EXCEPT ![k].upload = u,
                               ![k].pc = IF ChunkLimit < Total THEN "race" ELSE "all"]
               /\ SendChunks(u, 1..ChunkLimit)
    /\ UNCHANGED <<session, cancelled, cancelSent, results>>

\* One chunk has settled.  No settled promise ever leaves pendingChunks (the
\* race that asks whether one is settled is always won by Promise.resolve(false)),
\* so from here on every race is over at once and all the other chunks are sent.
ChunkSettledOnlyOk(k) ==
    /\ AtCall(k, "race")
    /\ \E c \in ServiceChunks : chunk[call[k].upload][c] = "ok"
    /\ SendChunks(call[k].upload, ServiceChunks)
    /\ Suspend(k, "all")
    /\ UNCHANGED <<serviceVars, session, cancelled, open, cancelSent, results>>

ChunkSettled(k) ==
    /\ AtCall(k, "race")
    /\ LET u == call[k].upload IN
       \E c \in ServiceChunks :
          /\ chunk[u][c] \in {"ok", "error"}
          /\ IF chunk[u][c] = "ok" /\ ~cancelled
             THEN SendChunks(u, ServiceChunks) /\ Suspend(k, "all")
             ELSE UNCHANGED chunk /\ Suspend(k, "cancel")
    /\ UNCHANGED <<serviceVars, session, cancelled, open, cancelSent, results>>

LogFile(k, ok) ==
    results' = IF call[k].results = NoCall THEN results
               ELSE [results EXCEPT ![call[k].results] =
                        @ \cup {[upload |-> call[k].upload, success |-> ok]}]

\* Promise.all: a failure is seen at once, success when all have settled.
AllSettledAny(k) ==
    /\ AtCall(k, "all")
    /\ LET u == call[k].upload IN
       \/ /\ \E c \in ServiceChunks : chunk[u][c] = "ok"
          /\ open' = open \ {u}
          /\ LogFile(k, TRUE)
          /\ NextFile(k, call[k].left - 1)
       \/ /\ \E c \in ServiceChunks : chunk[u][c] = "error"
          /\ Suspend(k, "cancel")
          /\ UNCHANGED <<session, open, results>>
    /\ UNCHANGED <<serviceVars, cancelled, chunk, cancelSent>>

AllSettled(k) ==
    /\ AtCall(k, "all")
    /\ LET u == call[k].upload IN
       \/ /\ \A c \in ServiceChunks : chunk[u][c] = "ok"
          /\ open' = open \ {u}
          /\ LogFile(k, TRUE)
          /\ NextFile(k, call[k].left - 1)
       \/ /\ \E c \in ServiceChunks : chunk[u][c] = "error"
          /\ Suspend(k, "cancel")
          /\ UNCHANGED <<session, open, results>>
    /\ UNCHANGED <<serviceVars, cancelled, chunk, cancelSent>>

\* The catch block has cancelled the session, or the request was lost or came
\* too late; the file is logged as failed and the loop goes on.
CancelOnError(k) ==
    /\ AtCall(k, "cancel")
    /\ LET u == call[k].upload IN
       /\ Abandon({u}) \/ UNCHANGED serviceVars
       /\ open' = open \ {u}
    /\ LogFile(k, FALSE)
    /\ NextFile(k, call[k].left - 1)
    /\ UNCHANGED <<cancelled, chunk, cancelSent>>

-----------------------------------------------------------------------------
(* cancelAllUploads, and its requests that nobody waits for. *)

CancelAllUploads ==
    /\ session.isRunning
    /\ cancelled' = TRUE
    /\ cancelSent' = cancelSent \cup open
    /\ open' = {}
    /\ session' = [session EXCEPT !.isRunning = FALSE]
    /\ UNCHANGED <<serviceVars, call, chunk, results>>

CancelArrives(u) ==
    /\ u \in cancelSent
    /\ cancelSent' = cancelSent \ {u}
    /\ Abandon({u}) \/ UNCHANGED serviceVars
    /\ UNCHANGED <<session, cancelled, open, call, chunk, results>>

-----------------------------------------------------------------------------
(* The requests of the chunks. *)

OnlyChunk(u, c, p) ==
    /\ chunk' = [chunk EXCEPT ![u][c] = p]
    /\ UNCHANGED <<session, cancelled, open, call, cancelSent, results>>

\* upload_chunk counts the chunk and answers, or finishes the upload with the
\* last one, when its session is still there.  Any answer may be lost.
ChunkCounted(u, c) ==
    /\ chunk[u][c] = "sent"
    /\ CountChunk(u, c)
    /\ \E p \in (IF counted'[u] # ServiceChunks THEN {"ok", "error"}
                 ELSE IF phase[u] = "open" THEN {"moving"} ELSE {"error"}) :
          OnlyChunk(u, c, p)

\* The session is not known, the write fails, or the request is lost.
ChunkRefused(u, c) ==
    /\ chunk[u][c] = "sent"
    /\ OnlyChunk(u, c, "error")
    /\ UNCHANGED serviceVars

\* The move has ended and the upload is announced, or it has failed.
UploadFinished(u, c) ==
    /\ chunk[u][c] = "moving"
    /\ \/ Store(u) /\ \E p \in {"ok", "error"} : OnlyChunk(u, c, p)
       \/ OnlyChunk(u, c, "error") /\ UNCHANGED serviceVars

\* Sessions expire; a crash loses all of them and the requests being served.
SessionsLost(S, crash) ==
    /\ Abandon(S)
    /\ IF crash
       THEN /\ S = In("open")
            /\ chunk' = [u \in Uploads |-> [c \in ServiceChunks |->
                            IF chunk[u][c] = "moving" THEN "error" ELSE chunk[u][c]]]
       ELSE /\ S # {}
            /\ UNCHANGED chunk
    /\ UNCHANGED <<session, cancelled, open, call, cancelSent, results>>

-----------------------------------------------------------------------------
Continue(k) ==
    \/ DuplicatesChecked(k)
    \/ Negotiated(k)
    \/ SmallFilesSent(k)
    \/ InitRefused(k)
    \/ ChunkSettled(k)
    \/ AllSettled(k)
    \/ CancelOnError(k)

ClientNext ==
    \/ \E k \in Calls : UploadFiles(k)
    \/ \E k \in Calls : DuplicatesDecided(k)
    \/ \E k \in Calls : Continue(k)
    \/ \E k \in Calls : InitAnswered(k)
    \/ CancelAllUploads
    \/ \E u \in Uploads : CancelArrives(u)
    \/ \E u \in Uploads, c \in ServiceChunks : ChunkCounted(u, c)
    \/ \E u \in Uploads, c \in ServiceChunks : ChunkRefused(u, c)
    \/ \E u \in Uploads, c \in ServiceChunks : UploadFinished(u, c)
    \/ \E S \in SUBSET Uploads, crash \in BOOLEAN : SessionsLost(S, crash)

ClientSpec == ClientInit /\ [][ClientNext]_allVars

\* Every request is answered or fails (a lost one with its connection).
\* Pressing a button is not fair, and the server is not even fair to succeed.
ClientFairness ==
    /\ \A k \in Calls : WF_allVars(Continue(k))
    /\ \A u \in Uploads, c \in ServiceChunks :
         WF_allVars(ChunkRefused(u, c) \/ UploadFinished(u, c))

FairClientSpec == ClientSpec /\ ClientFairness

-----------------------------------------------------------------------------
(* Properties. *)

\* What the page reports as uploaded, the server has finished and announced,
\* whatever was lost, cancelled, restarted or crashed on the way and whichever
\* results object the report ended up in.
ReportedIsStored ==
    \A k \in Calls : \A log \in results[k] :
        log.success => phase[log.upload] = "stored"

\* A session that counts as running has a call that will end it: otherwise
\* "Upload already in progress" would refuse every upload until a reload.
RunningSessionIsAlive ==
    session.isRunning => call[session.of].pc \in Waiting

\* "Control concurrency": no more chunks of a file under way than
\* getMaxConcurrentChunks says.
ChunksAreLimited ==
    \A u \in Uploads :
        Cardinality({c \in ServiceChunks : chunk[u][c] \in {"sent", "moving"}}) <= ChunkLimit

\* Every call of uploadFiles returns, unless it waits for the user, whatever is
\* lost, cancelled or refused (a call is made once, so in the end all have), and
\* it does not leave a session behind that counts as running.
EveryCallReturns ==
    <>[]/\ \A k \in Calls : call[k].pc \in {"idle", "dialog", "returned"}
        /\ ~session.isRunning
=============================================================================
