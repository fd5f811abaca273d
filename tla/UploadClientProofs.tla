-------------------------- MODULE UploadClientProofs --------------------------
(* Proofs about UploadClient, for every number of calls, files and chunks.   *)
EXTENDS UploadClient, TLAPS

\* A call that sends or cancels a file has one, and has not counted it off.
CallsHaveFiles ==
    \A k \in Calls :
        /\ Sending(k) => call[k].upload \in Uploads
        /\ Sending(k) \/ AtCall(k, "init") => call[k].left > 0

\* What an answer says of a chunk is true: it is counted; and when all are, the
\* one that was counted last knows it, or the upload is stored.
AnswersAreTrue ==
    \A u \in Uploads :
        /\ \A c \in ServiceChunks : chunk[u][c] = "ok" => c \in counted[u]
        /\ counted[u] = ServiceChunks =>
               \/ phase[u] = "stored"
               \/ \E c \in ServiceChunks : chunk[u][c] \in {"moving", "error"}

\* The session in progress is that of a call that has begun one.
SessionHasCall ==
    session.isRunning =>
        /\ session.of \in Calls
        /\ call[session.of].pc \in Waiting \ {"check", "dialog"}

ClientInv ==
    /\ ServiceTypeOK /\ ClientTypeOK
    /\ CallsHaveFiles
    /\ AnswersAreTrue
    /\ SessionHasCall
    /\ ReportedIsStored

-----------------------------------------------------------------------------
(* The operators the actions are built from. *)

\* The chunks of S that were unsent are sent; nothing else changes, and above
\* all nothing is answered.
LEMMA SendingAnswersNothing ==
    ASSUME ClientTypeOK, NEW u \in Uploads, NEW S, SendChunks(u, S)
    PROVE  /\ chunk' \in [Uploads -> [ServiceChunks -> Promise]]
           /\ \A v \in Uploads, c \in ServiceChunks :
                \/ chunk'[v][c] = chunk[v][c]
                \/ chunk[v][c] = "unsent" /\ chunk'[v][c] = "sent"
BY DEF SendChunks, ClientTypeOK, Promise

\* NextFile leaves the call at the next file or returned, and ends the session
\* with it.
LEMMA NextFileGoesOn ==
    ASSUME ClientTypeOK, SessionHasCall, CallsHaveFiles, NEW k \in Calls,
           call[k].pc \in Waiting \ {"check", "dialog"},
           NEW left \in Nat, NextFile(k, left)
    PROVE  /\ session' \in [of: Calls \cup {NoCall}, isRunning: BOOLEAN]
           /\ call' \in [Calls -> [pc: Waiting \cup {"idle", "returned"}, left: Nat,
                            upload: Uploads \cup {NoUpload}, results: Calls \cup {NoCall}]]
           /\ CallsHaveFiles' /\ SessionHasCall'
<1>1. CASE left = 0 \/ cancelled
  <2> DEFINE next == [pc |-> "returned", left |-> 0, upload |-> NoUpload,
                      results |-> call[k].results]
  <2>1. call' = [call EXCEPT ![k] = next]
    BY <1>1 DEF NextFile, ClientTypeOK
  <2>2. next \in [pc: Waiting \cup {"idle", "returned"}, left: Nat,
                 upload: Uploads \cup {NoUpload}, results: Calls \cup {NoCall}]
    BY DEF ClientTypeOK, Waiting
  <2>3. \A j \in Calls : call'[j] = IF j = k THEN next ELSE call[j]
    BY <2>1 DEF ClientTypeOK
  <2>4. session' = [session EXCEPT !.isRunning = FALSE]
    BY <1>1 DEF NextFile, EndCall
  <2>5. CallsHaveFiles' /\ SessionHasCall'
    BY <1>1, <2>3, <2>4 DEF ClientTypeOK, SessionHasCall, CallsHaveFiles, Sending, AtCall, Waiting
  <2> QED
    BY <2>1, <2>2, <2>4, <2>5 DEF ClientTypeOK
<1>2. CASE ~(left = 0 \/ cancelled)
  <2> DEFINE next == [pc |-> "init", left |-> left, upload |-> NoUpload,
                      results |-> call[k].results]
  <2>1. call' = [call EXCEPT ![k] = next]
    BY <1>2 DEF NextFile, ClientTypeOK
  <2>2. next \in [pc: Waiting \cup {"idle", "returned"}, left: Nat,
                 upload: Uploads \cup {NoUpload}, results: Calls \cup {NoCall}]
    BY DEF ClientTypeOK, Waiting
  <2>3. \A j \in Calls : call'[j] = IF j = k THEN next ELSE call[j]
    BY <2>1 DEF ClientTypeOK
  <2>4. session' = session
    BY <1>2 DEF NextFile, EndCall
  <2>5. CallsHaveFiles' /\ SessionHasCall'
    BY <1>2, <2>3, <2>4 DEF ClientTypeOK, SessionHasCall, CallsHaveFiles, Sending, AtCall, Waiting
  <2> QED
    BY <2>1, <2>2, <2>4, <2>5 DEF ClientTypeOK
<1> QED
  BY <1>1, <1>2

\* Suspending a call keeps the files of calls and the session, unless the call
\* begins to send without a file or leaves its session.
LEMMA SuspendKeeps ==
    ASSUME ClientTypeOK, CallsHaveFiles, NEW k \in Calls,
           NEW pc \in Waiting \cup {"returned"}, Suspend(k, pc),
           pc \in {"race", "all", "cancel", "init"} => Sending(k)
    PROVE  /\ call' \in [Calls -> [pc: Waiting \cup {"idle", "returned"}, left: Nat,
                            upload: Uploads \cup {NoUpload}, results: Calls \cup {NoCall}]]
           /\ CallsHaveFiles'
           /\ \A j \in Calls : call'[j].pc = IF j = k THEN pc ELSE call[j].pc
<1>1. call' = [call EXCEPT ![k].pc = pc]
  BY DEF Suspend
<1>2. call' \in [Calls -> [pc: Waiting \cup {"idle", "returned"}, left: Nat,
                          upload: Uploads \cup {NoUpload}, results: Calls \cup {NoCall}]]
  BY <1>1 DEF ClientTypeOK
<1>3. ASSUME NEW j \in Calls
      PROVE  /\ call'[j].pc = IF j = k THEN pc ELSE call[j].pc
             /\ call'[j].left = call[j].left
             /\ call'[j].upload = call[j].upload
  <2>1. CASE j = k
    BY <1>1, <2>1 DEF ClientTypeOK
  <2>2. CASE j # k
    BY <1>1, <2>2 DEF ClientTypeOK
  <2> QED
    BY <2>1, <2>2
<1>4. CallsHaveFiles'
  <2> SUFFICES ASSUME NEW j \in Calls
               PROVE  /\ Sending(j)' => call'[j].upload \in Uploads
                      /\ (Sending(j) \/ AtCall(j, "init"))' => call'[j].left > 0
    BY DEF CallsHaveFiles
  <2>1. CASE j = k
    BY <1>3, <2>1 DEF CallsHaveFiles, Sending, AtCall
  <2>2. CASE j # k
    BY <1>3, <2>2 DEF CallsHaveFiles, Sending, AtCall
  <2> QED
    BY <2>1, <2>2
<1> QED
  BY <1>2, <1>3, <1>4

\* A file is logged as its upload ended.
LEMMA LogIsTrue ==
    ASSUME ClientTypeOK, ReportedIsStored, NEW k \in Calls, NEW ok \in BOOLEAN,
           call[k].upload \in Uploads, LogFile(k, ok),
           ok => phase'[call[k].upload] = "stored",
           \A u \in Uploads : phase[u] = "stored" => phase'[u] = "stored"
    PROVE  /\ results' \in [Calls -> SUBSET Log]
           /\ ReportedIsStored'
BY DEF LogFile, ClientTypeOK, ReportedIsStored, Log

-----------------------------------------------------------------------------
(* The client uses the service as it is meant to be used: each of its steps  *)
(* is a step of UploadService or none of its business.                       *)

LEMMA StepIsService ==
    ASSUME ServiceTypeOK, ClientTypeOK, CallsHaveFiles, [ClientNext]_allVars
    PROVE  [ServiceNext]_serviceVars
<1> USE DEF ServiceNext, serviceVars
<1>1. ASSUME NEW k \in Calls, Continue(k) PROVE [ServiceNext]_serviceVars
  <2>1. CASE CancelOnError(k)
    <3>1. call[k].upload \in Uploads
      BY <2>1 DEF CancelOnError, CallsHaveFiles, Sending, AtCall
    <3> QED
      BY <2>1, <3>1 DEF CancelOnError
  <2>2. CASE ~CancelOnError(k)
    BY <1>1, <2>2 DEF Continue, DuplicatesChecked, Negotiated, SmallFilesSent, InitRefused,
                      ChunkSettled, AllSettled
  <2> QED
    BY <2>1, <2>2
<1>2. ASSUME NEW k \in Calls, InitAnswered(k) PROVE [ServiceNext]_serviceVars
  BY <1>2 DEF InitAnswered, NextId, In
<1>3. ASSUME NEW u \in Uploads, CancelArrives(u) PROVE [ServiceNext]_serviceVars
  BY <1>3 DEF CancelArrives
<1>4. ASSUME NEW u \in Uploads, NEW c \in ServiceChunks,
             ChunkCounted(u, c) \/ ChunkRefused(u, c) \/ UploadFinished(u, c)
      PROVE  [ServiceNext]_serviceVars
  BY <1>4 DEF ChunkCounted, ChunkRefused, UploadFinished
<1> QED
  BY <1>1, <1>2, <1>3, <1>4
     DEF ClientNext, allVars, UploadFiles, DuplicatesDecided, CancelAllUploads, SessionsLost

(* The service keeps its state well typed, and what is stored stays so.      *)
LEMMA ServiceKeeps ==
    ASSUME ServiceTypeOK, [ServiceNext]_serviceVars
    PROVE  /\ ServiceTypeOK'
           /\ \A u \in Uploads : phase[u] = "stored" => phase'[u] = "stored"
BY DEF ServiceTypeOK, ServiceNext, serviceVars, Open, CountChunk, Store, Abandon, In

-----------------------------------------------------------------------------
(* The inductive invariant. *)

(* A page that was just loaded has asked for nothing yet.                    *)
LEMMA ClientStarts == ClientInit => ClientInv
<1> SUFFICES ASSUME ClientInit PROVE ClientInv
  OBVIOUS
<1>1. ServiceTypeOK
  BY DEF ClientInit, ServiceInit, ServiceTypeOK
<1>2. ClientTypeOK
  <2>1. PICK large \in Workloads :
            call = [k \in Calls |-> [pc |-> "idle", left |-> large[k],
                                     upload |-> NoUpload, results |-> NoCall]]
    BY DEF ClientInit
  <2>2. \A k \in Calls : large[k] \in Nat
    BY ClientAssumption
  <2> QED
    BY <2>1, <2>2 DEF ClientInit, ClientTypeOK, Promise, Log, Waiting
<1>3. CallsHaveFiles /\ SessionHasCall /\ ReportedIsStored
  BY DEF ClientInit, CallsHaveFiles, SessionHasCall, ReportedIsStored, Sending, AtCall
<1>4. AnswersAreTrue
  <2>1. 1 \in ServiceChunks
    BY ClientAssumption DEF ServiceChunks
  <2> QED
    BY <2>1 DEF ClientInit, ServiceInit, AnswersAreTrue
<1> QED
  BY <1>1, <1>2, <1>3, <1>4 DEF ClientInv

\* Steps that count nothing keep the answers true when they give none that is
\* good, and take back none that is not.
LEMMA NothingAnswered ==
    ASSUME AnswersAreTrue, UNCHANGED counted,
           \A u \in Uploads : phase[u] = "stored" => phase'[u] = "stored",
           \A u \in Uploads, c \in ServiceChunks :
               /\ chunk'[u][c] = "ok" => chunk[u][c] = "ok"
               /\ chunk[u][c] \in {"moving", "error"} => chunk'[u][c] \in {"moving", "error"}
    PROVE  AnswersAreTrue'
BY DEF AnswersAreTrue

\* A report stays true, since what is stored stays so.
LEMMA ReportsRemain ==
    ASSUME ClientTypeOK, ReportedIsStored, UNCHANGED results,
           \A u \in Uploads : phase[u] = "stored" => phase'[u] = "stored"
    PROVE  ReportedIsStored'
<1> SUFFICES ASSUME NEW k \in Calls, NEW log \in results[k], log.success
             PROVE  phase'[log.upload] = "stored"
  BY DEF ReportedIsStored
<1>1. log.upload \in Uploads
  BY DEF ClientTypeOK, Log
<1> QED
  BY <1>1 DEF ReportedIsStored

\* uploadFiles outside uploadFileChunked.
LEMMA CallSteps ==
    ASSUME ClientInv, NEW k \in Calls,
           \/ UploadFiles(k) \/ DuplicatesChecked(k) \/ DuplicatesDecided(k)
           \/ Negotiated(k) \/ SmallFilesSent(k) \/ InitRefused(k)
    PROVE  ClientTypeOK' /\ CallsHaveFiles' /\ SessionHasCall'
<1> USE DEF ClientInv
<1> DEFINE Next(left) == NextFile(k, left) /\ left \in Nat
                         /\ call[k].pc \in Waiting \ {"check", "dialog"}
           Begins == /\ session' = [of |-> k, isRunning |-> TRUE]
                     /\ Suspend(k, "negotiate")
           Waits(pc) == UNCHANGED session /\ Suspend(k, pc)
<1>1. UNCHANGED <<serviceVars, open, chunk, cancelSent, results>> /\ cancelled' \in BOOLEAN
  BY DEF UploadFiles, DuplicatesChecked, DuplicatesDecided, Negotiated, SmallFilesSent,
         InitRefused, BeginSession, ClientTypeOK
<1>2. CASE AtCall(k, "idle") \/ AtCall(k, "check") \/ AtCall(k, "dialog")
  <2>1. Begins \/ Waits("returned") \/ Waits("check") \/ Waits("dialog")
    BY <1>2 DEF UploadFiles, DuplicatesChecked, DuplicatesDecided, Negotiated, SmallFilesSent,
                InitRefused, BeginSession, AtCall
  <2>2. SessionHasCall => ~(session.isRunning /\ session.of = k)
    BY <1>2 DEF SessionHasCall, AtCall, Waiting
  <2>3. CASE Begins
    <3>1. /\ call' \in [Calls -> [pc: Waiting \cup {"idle", "returned"}, left: Nat,
                           upload: Uploads \cup {NoUpload}, results: Calls \cup {NoCall}]]
          /\ CallsHaveFiles'
          /\ \A j \in Calls : call'[j].pc = IF j = k THEN "negotiate" ELSE call[j].pc
      BY <2>3, SuspendKeeps DEF Waiting
    <3> QED
      BY <1>1, <2>3, <3>1 DEF ClientTypeOK, SessionHasCall, Waiting
  <2>4. ASSUME NEW pc \in {"returned", "check", "dialog"}, Waits(pc)
        PROVE  ClientTypeOK' /\ CallsHaveFiles' /\ SessionHasCall'
    <3>1. /\ call' \in [Calls -> [pc: Waiting \cup {"idle", "returned"}, left: Nat,
                           upload: Uploads \cup {NoUpload}, results: Calls \cup {NoCall}]]
          /\ CallsHaveFiles'
          /\ \A j \in Calls : call'[j].pc = IF j = k THEN pc ELSE call[j].pc
      BY <2>4, SuspendKeeps DEF Waiting
    <3> QED
      BY <1>1, <2>2, <2>4, <3>1 DEF ClientTypeOK, SessionHasCall
  <2> QED
    BY <2>1, <2>3, <2>4
<1>3. CASE Negotiated(k) /\ ~cancelled
  <2> DEFINE next == [call[k] EXCEPT !.pc = "small", !.results = session.of]
  <2>1. call' = [call EXCEPT ![k] = next] /\ UNCHANGED session
    BY <1>3 DEF Negotiated, ClientTypeOK
  <2>2. next \in [pc: Waiting \cup {"idle", "returned"}, left: Nat,
                 upload: Uploads \cup {NoUpload}, results: Calls \cup {NoCall}]
    BY DEF ClientTypeOK, Waiting
  <2>3. \A j \in Calls : call'[j] = IF j = k THEN next ELSE call[j]
    BY <2>1 DEF ClientTypeOK
  <2>4. next.pc = "small"
    BY DEF ClientTypeOK
  <2>5. CallsHaveFiles' /\ SessionHasCall'
    BY <2>1, <2>3, <2>4 DEF CallsHaveFiles, SessionHasCall, Sending, AtCall, Waiting
  <2> QED
    BY <1>1, <2>1, <2>2, <2>5 DEF ClientTypeOK
<1>4. CASE \E left \in Nat : Next(left)
  BY <1>1, <1>4, NextFileGoesOn DEF ClientTypeOK
<1>5. call[k].left \in Nat /\ (AtCall(k, "init") => call[k].left - 1 \in Nat)
  BY DEF ClientTypeOK, CallsHaveFiles
<1> QED
  BY <1>2, <1>3, <1>4, <1>5
     DEF UploadFiles, DuplicatesChecked, DuplicatesDecided, Negotiated, SmallFilesSent,
         InitRefused, AtCall, Waiting

\* uploadFileChunked: initialised, or a chunk settled.
LEMMA SendSteps ==
    ASSUME ClientInv, NEW k \in Calls, InitAnswered(k) \/ ChunkSettled(k)
    PROVE  ClientTypeOK' /\ CallsHaveFiles' /\ SessionHasCall'
<1> USE DEF ClientInv
<1>1. CASE InitAnswered(k)
  <2> DEFINE u == NextId
             pc == IF cancelled THEN "cancel" ELSE IF ChunkLimit < Total THEN "race" ELSE "all"
             next == [call[k] EXCEPT !.pc = pc, !.upload = u]
  <2>1. u \in Uploads
    BY <1>1 DEF InitAnswered, NextId, In
  <2>2. chunk' \in [Uploads -> [ServiceChunks -> Promise]]
    BY <1>1, <2>1, SendingAnswersNothing DEF InitAnswered, ClientTypeOK
  <2>3. call' = [call EXCEPT ![k] = next]
    BY <1>1 DEF InitAnswered, ClientTypeOK
  <2>4. next \in [pc: Waiting \cup {"idle", "returned"}, left: Nat,
                 upload: Uploads \cup {NoUpload}, results: Calls \cup {NoCall}]
    BY <2>1 DEF ClientTypeOK, Waiting
  <2>5. /\ \A j \in Calls : call'[j] = IF j = k THEN next ELSE call[j]
        /\ next.upload = u /\ next.left = call[k].left
        /\ next.pc \in {"race", "all", "cancel"}
    BY <2>3 DEF ClientTypeOK
  <2>6. CallsHaveFiles'
    BY <1>1, <2>1, <2>5 DEF InitAnswered, CallsHaveFiles, Sending, AtCall
  <2>7. SessionHasCall'
    BY <1>1, <2>5 DEF InitAnswered, SessionHasCall, Waiting
  <2> QED
    BY <1>1, <2>1, <2>2, <2>3, <2>4, <2>6, <2>7 DEF InitAnswered, ClientTypeOK
<1>2. CASE ChunkSettled(k)
  <2>1. call[k].upload \in Uploads /\ Sending(k)
    BY <1>2 DEF ChunkSettled, CallsHaveFiles, Sending, AtCall
  <2>2. PICK pc \in {"all", "cancel"} : Suspend(k, pc)
    BY <1>2 DEF ChunkSettled
  <2>3. chunk' \in [Uploads -> [ServiceChunks -> Promise]]
    BY <1>2, <2>1, SendingAnswersNothing DEF ChunkSettled, ClientTypeOK
  <2>4. /\ call' \in [Calls -> [pc: Waiting \cup {"idle", "returned"}, left: Nat,
                         upload: Uploads \cup {NoUpload}, results: Calls \cup {NoCall}]]
        /\ CallsHaveFiles'
        /\ \A j \in Calls : call'[j].pc = IF j = k THEN pc ELSE call[j].pc
    BY <2>1, <2>2, SuspendKeeps DEF Waiting
  <2> QED
    BY <1>2, <2>3, <2>4 DEF ChunkSettled, ClientTypeOK, SessionHasCall, Waiting
<1> QED
  BY <1>1, <1>2

\* uploadFileChunked: the file is complete, or has failed.
LEMMA FileSteps ==
    ASSUME ClientInv, NEW k \in Calls, AllSettled(k) \/ CancelOnError(k),
           \A u \in Uploads : phase[u] = "stored" => phase'[u] = "stored"
    PROVE  ClientTypeOK' /\ CallsHaveFiles' /\ SessionHasCall' /\ ReportedIsStored'
<1> USE DEF ClientInv
<1> DEFINE u == call[k].upload
           left == call[k].left - 1
<1>1. /\ u \in Uploads /\ Sending(k) /\ left \in Nat
      /\ call[k].pc \in Waiting \ {"check", "dialog"}
  <2>1. call[k].pc \in {"all", "cancel"}
    BY DEF AllSettled, CancelOnError, AtCall
  <2>2. call[k].left \in Nat
    BY DEF ClientTypeOK
  <2> QED
    BY <2>1, <2>2 DEF CallsHaveFiles, Sending, Waiting
<1>2. UNCHANGED <<cancelled, chunk, cancelSent>> /\ open' \subseteq Uploads
  BY DEF AllSettled, CancelOnError, ClientTypeOK
<1>3. ASSUME NEW ok \in BOOLEAN, LogFile(k, ok), NextFile(k, left),
             ok => phase'[u] = "stored"
      PROVE  ClientTypeOK' /\ CallsHaveFiles' /\ SessionHasCall' /\ ReportedIsStored'
  <2>1. results' \in [Calls -> SUBSET Log] /\ ReportedIsStored'
    BY <1>1, <1>3, LogIsTrue
  <2>2. /\ session' \in [of: Calls \cup {NoCall}, isRunning: BOOLEAN]
        /\ call' \in [Calls -> [pc: Waiting \cup {"idle", "returned"}, left: Nat,
                         upload: Uploads \cup {NoUpload}, results: Calls \cup {NoCall}]]
        /\ CallsHaveFiles' /\ SessionHasCall'
    BY <1>1, <1>3, NextFileGoesOn
  <2> QED
    BY <1>2, <2>1, <2>2 DEF ClientTypeOK
<1>4. CASE AllSettled(k)
  <2>1. CASE Suspend(k, "cancel") /\ UNCHANGED <<session, open, results>>
    <3>1. /\ call' \in [Calls -> [pc: Waiting \cup {"idle", "returned"}, left: Nat,
                           upload: Uploads \cup {NoUpload}, results: Calls \cup {NoCall}]]
          /\ CallsHaveFiles'
          /\ \A j \in Calls : call'[j].pc = IF j = k THEN "cancel" ELSE call[j].pc
      BY <1>1, <2>1, SuspendKeeps DEF Waiting
    <3>2. ClientTypeOK' /\ SessionHasCall'
      BY <1>2, <2>1, <3>1 DEF ClientTypeOK, SessionHasCall, Waiting
    <3>3. ReportedIsStored'
      BY <2>1, ReportsRemain
    <3> QED
      BY <3>1, <3>2, <3>3
  <2>2. CASE /\ \A c \in ServiceChunks : chunk[u][c] = "ok"
             /\ LogFile(k, TRUE) /\ NextFile(k, left)
    <3>1. counted[u] \subseteq ServiceChunks /\ ServiceChunks \subseteq counted[u]
      BY <1>1, <2>2 DEF AnswersAreTrue, ServiceTypeOK
    <3>2. phase[u] = "stored"
      <4>1. counted[u] = ServiceChunks
        BY <3>1
      <4>2. ~\E c \in ServiceChunks : chunk[u][c] \in {"moving", "error"}
        BY <2>2
      <4> QED
        BY <1>1, <4>1, <4>2 DEF AnswersAreTrue
    <3> QED
      BY <1>1, <1>3, <2>2, <3>2
  <2> QED
    BY <1>4, <2>1, <2>2 DEF AllSettled
<1>5. CASE CancelOnError(k)
  BY <1>3, <1>5 DEF CancelOnError
<1> QED
  BY <1>4, <1>5

\* The cancel button, its requests, and the requests of the chunks.
LEMMA RequestSteps ==
    ASSUME ClientInv,
           \/ CancelAllUploads
           \/ \E u \in Uploads : CancelArrives(u)
           \/ \E u \in Uploads, c \in ServiceChunks :
                 ChunkCounted(u, c) \/ ChunkRefused(u, c) \/ UploadFinished(u, c)
           \/ \E S \in SUBSET Uploads, crash \in BOOLEAN : SessionsLost(S, crash)
    PROVE  ClientTypeOK' /\ CallsHaveFiles' /\ SessionHasCall' /\ UNCHANGED results
<1> USE DEF ClientInv
<1>1. UNCHANGED <<call, results>>
  BY DEF CancelAllUploads, CancelArrives, ChunkCounted, ChunkRefused, UploadFinished,
         OnlyChunk, SessionsLost
<1>2. \/ UNCHANGED session
      \/ session' = [session EXCEPT !.isRunning = FALSE]
  BY DEF CancelAllUploads, CancelArrives, ChunkCounted, ChunkRefused, UploadFinished,
         OnlyChunk, SessionsLost
<1>3. cancelled' \in BOOLEAN /\ open' \subseteq Uploads /\ cancelSent' \subseteq Uploads
  BY DEF CancelAllUploads, CancelArrives, ChunkCounted, ChunkRefused, UploadFinished,
         OnlyChunk, SessionsLost, ClientTypeOK
<1>4. chunk' \in [Uploads -> [ServiceChunks -> Promise]]
  <2>1. ASSUME NEW u \in Uploads, NEW c \in ServiceChunks, NEW p \in Promise,
               OnlyChunk(u, c, p)
        PROVE  chunk' \in [Uploads -> [ServiceChunks -> Promise]]
    BY <2>1 DEF OnlyChunk, ClientTypeOK
  <2>2. CASE \E S \in SUBSET Uploads, crash \in BOOLEAN : SessionsLost(S, crash)
    BY <2>2 DEF SessionsLost, ClientTypeOK, Promise
  <2>3. CASE CancelAllUploads \/ \E u \in Uploads : CancelArrives(u)
    BY <2>3 DEF CancelAllUploads, CancelArrives, ClientTypeOK
  <2>4. CASE \E u \in Uploads, c \in ServiceChunks :
                ChunkCounted(u, c) \/ ChunkRefused(u, c) \/ UploadFinished(u, c)
    BY <2>1, <2>4 DEF ChunkCounted, ChunkRefused, UploadFinished, Promise
  <2> QED
    BY <2>2, <2>3, <2>4
<1>5. CallsHaveFiles'
  BY <1>1 DEF CallsHaveFiles, Sending, AtCall
<1>6. SessionHasCall'
  BY <1>1, <1>2 DEF SessionHasCall, ClientTypeOK
<1> QED
  BY <1>1, <1>2, <1>3, <1>4, <1>5, <1>6 DEF ClientTypeOK

\* The answers, by the steps that count a chunk or finish an upload, and the others.
LEMMA AnswersStayTrue ==
    ASSUME ClientInv, ClientNext,
           \A u \in Uploads : phase[u] = "stored" => phase'[u] = "stored"
    PROVE  AnswersAreTrue'
<1> USE DEF ClientInv
<1>1. ASSUME NEW u \in Uploads, NEW c \in ServiceChunks, ChunkCounted(u, c)
      PROVE  AnswersAreTrue'
  <2>1. PICK p \in Promise :
            /\ chunk' = [chunk EXCEPT ![u][c] = p]
            /\ counted'[u] # ServiceChunks => p \in {"ok", "error"}
            /\ counted'[u] = ServiceChunks => p \in {"moving", "error"}
    BY <1>1 DEF ChunkCounted, OnlyChunk, Promise
  <2>2. counted' = [counted EXCEPT ![u] = @ \cup {c}] /\ UNCHANGED phase
    BY <1>1 DEF ChunkCounted, CountChunk
  <2>3. \A v \in Uploads, d \in ServiceChunks :
            chunk'[v][d] = IF v = u /\ d = c THEN p ELSE chunk[v][d]
    BY <2>1 DEF ClientTypeOK
  <2>4. \A v \in Uploads : counted'[v] = IF v = u THEN counted[v] \cup {c} ELSE counted[v]
    BY <2>2 DEF ServiceTypeOK
  <2>5. ASSUME NEW v \in Uploads
        PROVE  /\ \A d \in ServiceChunks : chunk'[v][d] = "ok" => d \in counted'[v]
               /\ counted'[v] = ServiceChunks =>
                      \/ phase'[v] = "stored"
                      \/ \E d \in ServiceChunks : chunk'[v][d] \in {"moving", "error"}
    <3>1. CASE v = u
      <4>1. ASSUME NEW d \in ServiceChunks, chunk'[v][d] = "ok" PROVE d \in counted'[v]
        <5>1. chunk[u][d] = "ok" => d \in counted[u]
          BY DEF AnswersAreTrue
        <5> QED
          BY <2>3, <2>4, <3>1, <4>1, <5>1
      <4>2. counted'[v] = ServiceChunks => chunk'[v][c] \in {"moving", "error"}
        BY <2>1, <2>3, <3>1
      <4> QED
        BY <4>1, <4>2
    <3>2. CASE v # u
      BY <2>2, <2>3, <2>4, <3>2 DEF AnswersAreTrue
    <3> QED
      BY <3>1, <3>2
  <2> QED
    BY <2>5 DEF AnswersAreTrue
<1>2. ASSUME NEW u \in Uploads, NEW c \in ServiceChunks, UploadFinished(u, c), Store(u)
      PROVE  AnswersAreTrue'
  <2>1. PICK p \in {"ok", "error"} : chunk' = [chunk EXCEPT ![u][c] = p]
    BY <1>2 DEF UploadFinished, OnlyChunk
  <2>2. /\ UNCHANGED counted /\ counted[u] = ServiceChunks
        /\ phase' = [phase EXCEPT ![u] = "stored"]
    BY <1>2 DEF Store
  <2>3. \A v \in Uploads, d \in ServiceChunks :
            chunk'[v][d] = IF v = u /\ d = c THEN p ELSE chunk[v][d]
    BY <2>1 DEF ClientTypeOK
  <2> QED
    BY <2>2, <2>3 DEF AnswersAreTrue, ServiceTypeOK
<1>3. ASSUME UNCHANGED <<counted, chunk>> PROVE AnswersAreTrue'
  BY <1>3, NothingAnswered
<1>4. ASSUME NEW u \in Uploads, NEW S, SendChunks(u, S), UNCHANGED counted
      PROVE  AnswersAreTrue'
  BY <1>4, SendingAnswersNothing, NothingAnswered
<1>5. ASSUME NEW u \in Uploads, NEW c \in ServiceChunks, OnlyChunk(u, c, "error"),
             UNCHANGED counted
      PROVE  AnswersAreTrue'
  <2>1. \A v \in Uploads, d \in ServiceChunks :
            chunk'[v][d] = IF v = u /\ d = c THEN "error" ELSE chunk[v][d]
    BY <1>5 DEF OnlyChunk, ClientTypeOK
  <2> QED
    BY <1>5, <2>1, NothingAnswered
<1>6. ASSUME NEW S \in SUBSET Uploads, NEW crash \in BOOLEAN, SessionsLost(S, crash)
      PROVE  AnswersAreTrue'
  <2>1. UNCHANGED counted
    BY <1>6 DEF SessionsLost, Abandon
  <2>2. \A u \in Uploads, c \in ServiceChunks :
            /\ chunk'[u][c] = "ok" => chunk[u][c] = "ok"
            /\ chunk[u][c] \in {"moving", "error"} => chunk'[u][c] \in {"moving", "error"}
    BY <1>6 DEF SessionsLost
  <2> QED
    BY <2>1, <2>2, NothingAnswered
<1>7. ASSUME NEW k \in Calls, InitAnswered(k) PROVE AnswersAreTrue'
  <2>1. NextId \in Uploads /\ UNCHANGED counted
    BY <1>7 DEF InitAnswered, NextId, In, Open
  <2> QED
    BY <1>3, <1>4, <1>7, <2>1 DEF InitAnswered
<1>8. ASSUME NEW k \in Calls, ChunkSettled(k) PROVE AnswersAreTrue'
  <2>1. call[k].upload \in Uploads
    BY <1>8 DEF ChunkSettled, CallsHaveFiles, Sending, AtCall
  <2> QED
    BY <1>3, <1>4, <1>8, <2>1 DEF ChunkSettled, serviceVars
<1>9. ASSUME NEW u \in Uploads, NEW c \in ServiceChunks,
             ChunkRefused(u, c) \/ UploadFinished(u, c)
      PROVE  AnswersAreTrue'
  BY <1>2, <1>5, <1>9 DEF ChunkRefused, UploadFinished, serviceVars
<1>10. ASSUME NEW k \in Calls, Continue(k), ~ChunkSettled(k) PROVE AnswersAreTrue'
  BY <1>3, <1>10 DEF Continue, DuplicatesChecked, Negotiated, SmallFilesSent, InitRefused,
                     AllSettled, CancelOnError, Abandon, serviceVars
<1> QED
  BY <1>1, <1>3, <1>6, <1>7, <1>8, <1>9, <1>10
     DEF ClientNext, UploadFiles, DuplicatesDecided, CancelAllUploads, CancelArrives, Abandon,
         serviceVars

(* Every step of the page, of its requests and of the server keeps it.        *)
LEMMA ClientGoesOn == ClientInv /\ [ClientNext]_allVars => ClientInv'
<1> SUFFICES ASSUME ClientInv, [ClientNext]_allVars PROVE ClientInv'
  OBVIOUS
<1>1. /\ ServiceTypeOK'
      /\ \A u \in Uploads : phase[u] = "stored" => phase'[u] = "stored"
  BY StepIsService, ServiceKeeps DEF ClientInv
<1>2. CASE UNCHANGED allVars
  BY <1>2 DEF ClientInv, allVars, serviceVars, clientVars, ServiceTypeOK, ClientTypeOK,
              CallsHaveFiles, AnswersAreTrue, SessionHasCall, ReportedIsStored, Sending, AtCall
<1>3. CASE ClientNext
  <2>1. AnswersAreTrue'
    BY <1>1, <1>3, AnswersStayTrue
  <2>2. ASSUME NEW k \in Calls,
               \/ UploadFiles(k) \/ DuplicatesChecked(k) \/ DuplicatesDecided(k)
               \/ Negotiated(k) \/ SmallFilesSent(k) \/ InitRefused(k)
        PROVE  ClientTypeOK' /\ CallsHaveFiles' /\ SessionHasCall' /\ ReportedIsStored'
    <3>1. UNCHANGED results
      BY <2>2 DEF UploadFiles, DuplicatesChecked, DuplicatesDecided, Negotiated,
                  SmallFilesSent, InitRefused
    <3> QED
      BY <1>1, <2>2, <3>1, CallSteps, ReportsRemain DEF ClientInv
  <2>3. ASSUME NEW k \in Calls, InitAnswered(k) \/ ChunkSettled(k)
        PROVE  ClientTypeOK' /\ CallsHaveFiles' /\ SessionHasCall' /\ ReportedIsStored'
    <3>1. UNCHANGED results
      BY <2>3 DEF InitAnswered, ChunkSettled
    <3> QED
      BY <1>1, <2>3, <3>1, SendSteps, ReportsRemain DEF ClientInv
  <2>4. ASSUME NEW k \in Calls, AllSettled(k) \/ CancelOnError(k)
        PROVE  ClientTypeOK' /\ CallsHaveFiles' /\ SessionHasCall' /\ ReportedIsStored'
    BY <1>1, <2>4, FileSteps
  <2>5. ASSUME \/ CancelAllUploads
               \/ \E u \in Uploads : CancelArrives(u)
               \/ \E u \in Uploads, c \in ServiceChunks :
                     ChunkCounted(u, c) \/ ChunkRefused(u, c) \/ UploadFinished(u, c)
               \/ \E S \in SUBSET Uploads, crash \in BOOLEAN : SessionsLost(S, crash)
        PROVE  ClientTypeOK' /\ CallsHaveFiles' /\ SessionHasCall' /\ ReportedIsStored'
    BY <1>1, <2>5, RequestSteps, ReportsRemain DEF ClientInv
  <2>6. ClientTypeOK' /\ CallsHaveFiles' /\ SessionHasCall' /\ ReportedIsStored'
    BY <1>3, <2>2, <2>3, <2>4, <2>5 DEF ClientNext, Continue
  <2> QED
    BY <1>1, <2>1, <2>6 DEF ClientInv
<1> QED
  BY <1>2, <1>3

(* In every state of every page: the calls of uploadFiles that are suspended *)
(* have the files they send, the answers they have are true, and so are the  *)
(* reports.                                                                  *)
THEOREM ClientKeeps == ClientSpec => []ClientInv
  BY ClientStarts, ClientGoesOn, PTL DEF ClientSpec

(* The variables of uploadManager.js keep their types, and no call ever      *)
(* counts below its last file.                                               *)
THEOREM ClientTyping == ClientSpec => []ClientTypeOK
  BY ClientKeeps, PTL DEF ClientInv

(* What the page reports as uploaded is stored, for any number of calls,     *)
(* files and chunks, and any limit of chunks.                                *)
THEOREM Reported == ClientSpec => []ReportedIsStored
  BY ClientKeeps, PTL DEF ClientInv

(* The flag that refuses uploads is only up while a call is on its way that  *)
(* takes it down.                                                            *)
THEOREM Alive == ClientSpec => []RunningSessionIsAlive
<1>1. ClientInv => RunningSessionIsAlive
  BY DEF ClientInv, SessionHasCall, RunningSessionIsAlive
<1> QED
  BY <1>1, ClientKeeps, PTL

(* The page relies on nothing but what the sessions promise: whatever it     *)
(* does, the server it sees behaves like UploadService, which ChunkedUpload  *)
(* implements.                                                               *)
THEOREM Relies == ClientSpec => ServiceSpec
<1>1. ClientInit => ServiceInit
  BY DEF ClientInit
<1>2. ClientInv /\ [ClientNext]_allVars => [ServiceNext]_serviceVars
  BY StepIsService DEF ClientInv
<1> QED
  BY <1>1, <1>2, ClientKeeps, PTL DEF ClientSpec, ServiceSpec
=============================================================================
