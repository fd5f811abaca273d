---------------------------- MODULE UploadsProofs ----------------------------
(* Proofs about how a file comes into the library and gets its thumbnail:    *)
(* ChunkedUpload, for every number of uploads, chunks and concurrent         *)
(* requests; and Thumbnails, for every set of tasks, workers and batches and *)
(* every size of the queues.                                                 *)
EXTENDS ChunkedUpload, Thumbnails, FiniteSetTheorems, SequenceTheorems, TLAPS

(* The initial state and every step of upload_session_runtime_service.py     *)
(* keep the sessions, files and requests well typed.                         *)
LEMMA TypeInit == Init => TypeOK
  BY DEF TypeOK, Init, Paths, Idle

LEMMA TypeNext == TypeOK /\ [Next]_vars => TypeOK'
<1> USE DEF TypeOK, Session, MediaFile, InFlight, Idle
<1> SUFFICES ASSUME TypeOK, [Next]_vars PROVE TypeOK'
  OBVIOUS
<1>1. ASSUME NEW u \in Uploads, NEW n \in Names, NEW ram \in BOOLEAN,
             InitChunkedUpload(u, n, ram)
      PROVE  TypeOK'
  BY <1>1 DEF InitChunkedUpload, With
<1>2. ASSUME NEW r \in Requests, NEW u \in Uploads, NEW c \in Chunks,
             AcceptChunk(r, u, c)
      PROVE  TypeOK'
  BY <1>2 DEF AcceptChunk
<1>3. ASSUME NEW r \in Requests, Serve(r)
      PROVE  TypeOK'
  <2> DEFINE u == request[r].upload
  <2>0. ~At(r, "idle") => request[r] \in InFlight
    BY DEF At
  <2>1. CASE WriteChunk(r)
    <3>1. request[r] \in InFlight
      BY <2>0, <2>1 DEF WriteChunk, At
    <3>2. temp' \in [DOMAIN temp' -> SUBSET Chunks] /\ DOMAIN temp' = DOMAIN temp
      BY <2>1, <3>1 DEF WriteChunk
    <3>3. request' \in [Requests -> InFlight \cup {Idle}]
      BY <2>1, <3>1 DEF WriteChunk, Step, Respond
    <3> QED
      BY <2>1, <3>2, <3>3 DEF WriteChunk
  <2>2. CASE AccountChunk(r)
    <3>1. request[r] \in InFlight
      BY <2>0, <2>2 DEF AccountChunk, AccountAndFinalizeAt, At
    <3>2. /\ DOMAIN upload' = DOMAIN upload
          /\ upload' \in [DOMAIN upload' -> Session]
      BY <2>2, <3>1 DEF AccountChunk, AccountAndFinalizeAt
    <3>3. request' \in [Requests -> InFlight \cup {Idle}]
      BY <2>2, <3>1 DEF AccountChunk, AccountAndFinalizeAt, Step, Respond
    <3> QED
      BY <2>2, <3>2, <3>3 DEF AccountChunk, AccountAndFinalizeAt
  <2>3. CASE RenameIntoPlace(r)
    <3>1. request[r] \in InFlight
      BY <2>0, <2>3 DEF RenameIntoPlace, At
    <3>2. u \in DOMAIN upload /\ u \in DOMAIN temp
      BY <2>3, <3>1 DEF RenameIntoPlace
    <3>3. request' \in [Requests -> InFlight \cup {Idle}]
      BY <2>3, <3>1 DEF RenameIntoPlace, Step
    <3>4. /\ DOMAIN disk' \subseteq Paths
          /\ disk' \in [DOMAIN disk' -> MediaFile]
      BY <2>3, <3>1, <3>2 DEF RenameIntoPlace, With, Target
    <3>5. /\ DOMAIN temp' \subseteq DOMAIN upload'
          /\ temp' \in [DOMAIN temp' -> SUBSET Chunks]
      BY <2>3, <3>1 DEF RenameIntoPlace, Without, Restrict
    <3> QED
      BY <2>3, <3>3, <3>4, <3>5 DEF RenameIntoPlace
  <2>4. CASE BeginCopy(r)
    <3>1. request[r] \in InFlight
      BY <2>0, <2>4 DEF BeginCopy, At
    <3>2. u \in DOMAIN upload /\ u \in DOMAIN temp /\ temp[u] \subseteq Chunks
      BY <2>4, <3>1 DEF BeginCopy
    <3>3. request' \in [Requests -> InFlight \cup {Idle}]
      BY <2>4, <3>1, <3>2 DEF BeginCopy
    <3>4. {request[q].upload : q \in Copying(Target(u))} \subseteq Uploads
      BY DEF Copying, At
    <3>5. /\ DOMAIN disk' \subseteq Paths
          /\ disk' \in [DOMAIN disk' -> MediaFile]
      BY <2>4, <3>1, <3>2, <3>4 DEF BeginCopy, With, Target
    <3> QED
      BY <2>4, <3>3, <3>5 DEF BeginCopy
  <2>5. CASE EndCopy(r)
    <3>1. request[r] \in InFlight
      BY <2>0, <2>5 DEF EndCopy, At
    <3>2. request' \in [Requests -> InFlight \cup {Idle}]
      BY <2>5, <3>1 DEF EndCopy, Step, Respond
    <3>3. /\ DOMAIN disk' \subseteq Paths
          /\ disk' \in [DOMAIN disk' -> MediaFile]
      <4>1. DOMAIN disk' = DOMAIN disk
        BY <2>5 DEF EndCopy
      <4>2. ASSUME NEW p \in DOMAIN disk PROVE disk'[p] \in MediaFile
        <5>1. disk[p] \in MediaFile /\ request[r].src \in SUBSET Chunks
          BY <3>1
        <5>2. CASE UNCHANGED disk
          BY <5>1, <5>2
        <5>3. CASE disk' = [disk EXCEPT ![Target(u)].chunks = request[r].src]
          BY <5>1, <5>3
        <5> QED
          BY <2>5, <5>2, <5>3 DEF EndCopy
      <4>3. disk' = [p \in DOMAIN disk |-> disk'[p]]
        BY <2>5 DEF EndCopy
      <4> QED
        BY <4>1, <4>2, <4>3
    <3>4. /\ DOMAIN temp' \subseteq DOMAIN upload'
          /\ temp' \in [DOMAIN temp' -> SUBSET Chunks]
      BY <2>5, <3>1 DEF EndCopy, Without, Restrict
    <3> QED
      BY <2>5, <3>2, <3>3, <3>4 DEF EndCopy
  <2>6. CASE FailMove(r)
    BY <2>6 DEF FailMove, At, Respond
  <2>8. CASE FailCopy(r)
    <3>1. request' \in [Requests -> InFlight \cup {Idle}]
      BY <2>8 DEF FailCopy, Respond
    <3>2. /\ DOMAIN disk' = DOMAIN disk
          /\ \A p \in DOMAIN disk : disk'[p] \in MediaFile
          /\ disk' = [p \in DOMAIN disk |-> disk'[p]]
      BY <2>8 DEF FailCopy, FailCopyInto
    <3> QED
      BY <2>8, <3>1, <3>2 DEF FailCopy, FailCopyInto
  <2>7. CASE SettleUpload(r)
    BY <2>7 DEF SettleUpload, At, Respond
  <2> QED
    BY <1>3, <2>1, <2>2, <2>3, <2>4, <2>5, <2>6, <2>7, <2>8 DEF Serve
<1>4. ASSUME NEW u \in Uploads, CancelChunkedUpload(u)
      PROVE  TypeOK'
  BY <1>4 DEF CancelChunkedUpload, Without, Restrict
<1>5. ASSUME NEW u \in Uploads, BecomeStale(u)
      PROVE  TypeOK'
  BY <1>5 DEF BecomeStale
<1>6. ASSUME NEW driveKnown \in BOOLEAN, CleanupStaleUploads(driveKnown)
      PROVE  TypeOK'
  BY <1>6 DEF CleanupStaleUploads, Cleanup, Without, Restrict
<1>7. ASSUME NEW reboot \in BOOLEAN, Crash(reboot)
      PROVE  TypeOK'
  <2>1. disk' \in [DOMAIN disk -> MediaFile] /\ DOMAIN disk' = DOMAIN disk
    BY <1>7 DEF Crash
  <2> QED
    BY <1>7, <2>1 DEF Crash, Without, Restrict
<1>8. CASE UNCHANGED vars
  BY <1>8 DEF vars
<1> QED
  BY <1>1, <1>2, <1>3, <1>4, <1>5, <1>6, <1>7, <1>8 DEF Next

(* Type correctness of the chunked upload service.                           *)
THEOREM Typing == Spec => []TypeOK
  BY TypeInit, TypeNext, PTL DEF Spec

-----------------------------------------------------------------------------
(* A set of counted chunks as large as total_chunks is all of them.          *)
LEMMA AllCounted ==
  ASSUME NEW S \in SUBSET Chunks, Cardinality(S) = Total
  PROVE  S = Chunks
<1>1. IsFiniteSet(Chunks) /\ Cardinality(Chunks) = Total
  BY FS_Interval, TotalAssumption DEF Chunks
<1> QED
  BY <1>1, FS_Subset

LEMMA SafeInit == Init => IInv
  BY TypeInit DEF Init, IInv, Idle, ReceivedIsWritten, PartialIsBeingCopied,
                  RequestsAreConsistent, Known, At

LEMMA SafeNext == IInv /\ [Next]_vars => IInv'
<1> SUFFICES ASSUME IInv, [Next]_vars PROVE IInv'
  OBVIOUS
<1> USE DEF IInv, At
<1>0. TypeOK'
  BY TypeNext
<1>t. /\ \A r \in Requests : ~At(r, "idle") => request[r] \in InFlight
      /\ \A u \in DOMAIN upload : upload[u] \in Session
      /\ \A u \in DOMAIN temp : u \in DOMAIN upload
      /\ \A p \in DOMAIN disk : disk[p] \in MediaFile
  BY DEF TypeOK, Idle
<1>1. ASSUME NEW u \in Uploads, NEW n \in Names, NEW ram \in BOOLEAN,
             InitChunkedUpload(u, n, ram)
      PROVE  IInv'
  <2>1. ReceivedIsWritten'
    BY <1>0, <1>1, <1>t DEF InitChunkedUpload, With, ReceivedIsWritten
  <2>2. PartialIsBeingCopied'
    BY <1>0, <1>1, <1>t DEF InitChunkedUpload, With, PartialIsBeingCopied, Copying, Target, InFlight
  <2>3. RequestsAreConsistent'
    BY <1>0, <1>1, <1>t DEF InitChunkedUpload, With, RequestsAreConsistent, Known, Target, InFlight, Session, TypeOK
  <2> QED
    BY <1>0, <2>1, <2>2, <2>3
<1>2. ASSUME NEW r \in Requests, NEW u \in Uploads, NEW c \in Chunks,
             AcceptChunk(r, u, c)
      PROVE  IInv'
  <2>1. ReceivedIsWritten'
    BY <1>2 DEF AcceptChunk, ReceivedIsWritten
  <2>2. PartialIsBeingCopied'
    BY <1>2 DEF AcceptChunk, PartialIsBeingCopied, Copying, Target, TypeOK
  <2>3. RequestsAreConsistent'
    BY <1>2 DEF AcceptChunk, RequestsAreConsistent, Known, Target, TypeOK
  <2> QED
    BY <1>0, <2>1, <2>2, <2>3
<1>3. ASSUME NEW r \in Requests, Serve(r)
      PROVE  IInv'
  <2> DEFINE u == request[r].upload
  <2>0. request \in [Requests -> InFlight \cup {Idle}]
    BY DEF TypeOK
  <2>1. CASE WriteChunk(r)
    <3>i. request[r] \in InFlight /\ request[r].pc = "write"
      BY <1>t, <2>1 DEF WriteChunk
    <3>1. ReceivedIsWritten'
      BY <1>t, <2>1 DEF WriteChunk, ReceivedIsWritten
    <3>2. PartialIsBeingCopied'
      BY <2>0, <2>1 DEF WriteChunk, Step, Respond, Idle, PartialIsBeingCopied, Copying, Target
    <3>3. ASSUME NEW q \in Requests PROVE Known(q)'
      <4>1. CASE q = r
        <5>1. CASE request' = [request EXCEPT ![r] = Idle]
          BY <2>0, <4>1, <5>1 DEF Idle, Known
        <5>2. CASE /\ request' = [request EXCEPT ![r].pc = "account"]
                   /\ u \in DOMAIN temp
                   /\ temp' = [temp EXCEPT ![u] = @ \cup {request[r].chunk}]
          <6>1. /\ request'[r].pc = "account" /\ request'[r].upload = u
                /\ request'[r].chunk = request[r].chunk
            BY <2>0, <3>i, <5>2 DEF InFlight
          <6> QED
            BY <4>1, <5>2, <6>1 DEF Known
        <5> QED
          BY <2>1, <5>1, <5>2 DEF WriteChunk, Step, Respond
      <4>2. CASE q # r
        <5>1. Known(q) /\ request'[q] = request[q]
          BY <2>0, <2>1, <4>2 DEF WriteChunk, Step, Respond, RequestsAreConsistent
        <5> QED
          BY <1>t, <2>1, <5>1 DEF WriteChunk, Known, Target
      <4> QED
        BY <4>1, <4>2
    <3>4. RequestsAreConsistent'
      <4>1. \A q \in Requests : At(q, "settle")' => q # r /\ request'[q] = request[q]
        BY <2>0, <2>1, <3>i DEF WriteChunk, Step, Respond, Idle, InFlight
      <4>2. DOMAIN temp' = DOMAIN temp /\ UNCHANGED <<disk, announced>>
        BY <2>1 DEF WriteChunk
      <4> QED
        BY <3>3, <4>1, <4>2 DEF RequestsAreConsistent
    <3> QED
      BY <1>0, <3>1, <3>2, <3>4
  <2>2. CASE AccountChunk(r)
    <3>i. request[r] \in InFlight /\ request[r].pc = "account"
      BY <1>t, <2>2 DEF AccountChunk, AccountAndFinalizeAt
    <3>0. u \in DOMAIN upload /\ upload[u] \in Session /\ request[r].chunk \in Chunks
      BY <1>t, <2>2 DEF AccountChunk, AccountAndFinalizeAt, InFlight
    <3>1. ReceivedIsWritten'
      BY <1>t, <2>2, <3>0 DEF AccountChunk, AccountAndFinalizeAt, ReceivedIsWritten,
                              RequestsAreConsistent, Known
    <3>2. PartialIsBeingCopied'
      BY <1>t, <2>0, <2>2, <3>0 DEF AccountChunk, AccountAndFinalizeAt, Step, Respond, Idle,
                          PartialIsBeingCopied, Copying, Target
    <3>3. ASSUME NEW q \in Requests PROVE Known(q)'
      <4>1. CASE q = r
        <5>1. upload'[u].received \in SUBSET Chunks
          BY <2>2, <3>0 DEF AccountChunk, AccountAndFinalizeAt, Session
        <5>2. CASE request' = [request EXCEPT ![r] = Idle]
          BY <2>0, <4>1, <5>2 DEF Idle, Known
        <5>3. CASE /\ Cardinality(upload'[u].received) = Total
                   /\ request' = [request EXCEPT ![r].pc = "move"]
          BY <2>0, <2>2, <4>1, <5>1, <5>3, AllCounted
          DEF AccountChunk, AccountAndFinalizeAt, Known
        <5>4. upload'[u].received = upload[u].received \cup {request[r].chunk}
          BY <2>2, <3>0 DEF AccountChunk, AccountAndFinalizeAt, Session
        <5> QED
          BY <2>2, <5>2, <5>3, <5>4 DEF AccountChunk, AccountAndFinalizeAt, Step, Respond
      <4>2. CASE q # r
        <5>1. Known(q) /\ request'[q] = request[q]
          BY <2>0, <2>2, <4>2
          DEF AccountChunk, AccountAndFinalizeAt, Step, Respond, RequestsAreConsistent
        <5>2. request[q].pc # "idle" => /\ request[q].upload \in DOMAIN upload
                                        /\ upload[request[q].upload] \in Session
          BY <1>t DEF InFlight
        <5> QED
          BY <2>2, <3>0, <5>1, <5>2
          DEF AccountChunk, AccountAndFinalizeAt, Known, Target, Session
      <4> QED
        BY <4>1, <4>2
    <3>4. RequestsAreConsistent'
      <4>1. \A q \in Requests : At(q, "settle")' => q # r /\ request'[q] = request[q]
        BY <2>0, <2>2, <3>i DEF AccountChunk, AccountAndFinalizeAt, Step, Respond, Idle, InFlight
      <4>2. UNCHANGED <<temp, disk, announced>>
        BY <2>2 DEF AccountChunk, AccountAndFinalizeAt
      <4> QED
        BY <3>3, <4>1, <4>2 DEF RequestsAreConsistent
    <3> QED
      BY <1>0, <3>1, <3>2, <3>4
  <2>3. CASE RenameIntoPlace(r)
    <3>0. /\ u \in DOMAIN temp /\ temp[u] = Chunks
          /\ u \in DOMAIN upload
      BY <1>t, <2>3 DEF RenameIntoPlace, RequestsAreConsistent, Known, ReceivedIsWritten, TypeOK
    <3>1. ReceivedIsWritten'
      BY <2>3 DEF RenameIntoPlace, Without, Restrict, ReceivedIsWritten
    <3>2. PartialIsBeingCopied'
      BY <2>0, <2>3, <3>0 DEF RenameIntoPlace, With, Step, PartialIsBeingCopied, Copying, Target
    <3>3. RequestsAreConsistent'
      BY <1>t, <2>0, <2>3, <3>0 DEF RenameIntoPlace, With, Without, Restrict, Step,
                               RequestsAreConsistent, Known, Target, InFlight
    <3> QED
      BY <1>0, <3>1, <3>2, <3>3
  <2>4. CASE BeginCopy(r)
    <3>0. /\ u \in DOMAIN temp /\ temp[u] = Chunks
          /\ u \in DOMAIN upload
      BY <1>t, <2>4 DEF BeginCopy, RequestsAreConsistent, Known, ReceivedIsWritten, TypeOK
    <3>1. ReceivedIsWritten'
      BY <2>4 DEF BeginCopy, ReceivedIsWritten
    <3>2. PartialIsBeingCopied'
      <4> SUFFICES ASSUME NEW p \in DOMAIN disk', disk'[p].chunks # Chunks, ~disk'[p].torn
                   PROVE  Copying(p)' # {}
        BY DEF PartialIsBeingCopied
      <4>1. /\ request'[r].pc = "copy" /\ request'[r].upload = u
            /\ \A q \in Requests : q # r => request'[q] = request[q]
            /\ UNCHANGED upload
        BY <1>t, <2>0, <2>4 DEF BeginCopy, InFlight
      <4>2. CASE p = Target(u)
        <5>1. r \in Copying(p)'
          BY <4>1, <4>2 DEF Copying, Target
        <5> QED
          BY <5>1
      <4>3. CASE p # Target(u)
        <5>1. p \in DOMAIN disk /\ disk'[p] = disk[p]
          BY <2>4, <4>3 DEF BeginCopy, With
        <5>2. PICK q \in Copying(p) : TRUE
          BY <5>1 DEF PartialIsBeingCopied
        <5>3. q \in Copying(p)'
          BY <2>4, <4>1, <5>2 DEF BeginCopy, Copying, Target
        <5> QED
          BY <5>3
      <4> QED
        BY <4>2, <4>3
    <3>3. RequestsAreConsistent'
      BY <1>t, <2>0, <2>4, <3>0 DEF BeginCopy, With, RequestsAreConsistent, Known, Target, InFlight
    <3> QED
      BY <1>0, <3>1, <3>2, <3>3
  <2>5. CASE EndCopy(r)
    <3>i. request[r] \in InFlight /\ request[r].pc = "copy"
      BY <1>t, <2>5 DEF EndCopy
    <3>0. /\ u \in DOMAIN upload
          /\ request[r].src = Chunks
      BY <1>t, <2>5 DEF EndCopy, RequestsAreConsistent, Known, InFlight
    <3>1. ReceivedIsWritten'
      BY <2>5 DEF EndCopy, Without, Restrict, ReceivedIsWritten
    <3>2. PartialIsBeingCopied'
      <4> SUFFICES ASSUME NEW p \in DOMAIN disk', disk'[p].chunks # Chunks, ~disk'[p].torn
                   PROVE  Copying(p)' # {}
        BY DEF PartialIsBeingCopied
      <4>1. /\ p \in DOMAIN disk /\ disk[p].chunks = {} /\ disk'[p].chunks = {}
            /\ ~disk[p].torn
        <5>1. /\ DOMAIN disk' = DOMAIN disk
              /\ \A x \in DOMAIN disk :
                   disk'[x] = disk[x] \/ (disk'[x].chunks = Chunks /\ disk'[x].torn = disk[x].torn)
          BY <1>t, <2>5, <3>0 DEF EndCopy, MediaFile
        <5>2. /\ p \in DOMAIN disk /\ disk'[p] = disk[p]
              /\ disk[p].chunks \in {{}, Chunks}
          BY <5>1 DEF RequestsAreConsistent
        <5> QED
          BY <5>2
      <4>2. PICK q \in Copying(p) : q # r
        <5>0. {} # Chunks
          <6>1. 1 \in 1..Total
            BY TotalAssumption
          <6> QED
            BY <6>1 DEF Chunks
        <5>1. Copying(p) # {}
          BY <4>1, <5>0 DEF PartialIsBeingCopied
        <5>2. ASSUME Copying(p) = {r} PROVE FALSE
          <6>1. p = Target(u)
            BY <5>2 DEF Copying
          <6>2. disk'[p].chunks = Chunks
            BY <1>t, <2>5, <3>0, <4>1, <5>2, <6>1 DEF EndCopy, MediaFile
          <6> QED
            BY <4>1, <5>0, <6>2
        <5> QED
          BY <5>1, <5>2
      <4>3. q \in Copying(p)'
        BY <2>0, <2>5, <4>2 DEF EndCopy, Step, Respond, Copying, Target
      <4> QED
        BY <4>3
    <3>3. ASSUME NEW q \in Requests PROVE Known(q)'
      <4>1. CASE q = r
        <5>1. CASE request' = [request EXCEPT ![r] = Idle]
          BY <2>0, <4>1, <5>1 DEF Idle, Known
        <5>2. CASE u \in DOMAIN temp /\ request' = [request EXCEPT ![r].pc = "settle"]
          <6>1. request'[r].pc = "settle" /\ request'[r].upload = u
            BY <2>0, <3>i, <5>2 DEF InFlight
          <6>2. u \notin announced
            BY <5>2 DEF RequestsAreConsistent
          <6>3. Target(u) \in DOMAIN disk
            BY <3>i DEF RequestsAreConsistent, Known
          <6>4. /\ u \notin DOMAIN temp' /\ DOMAIN disk' = DOMAIN disk
                /\ UNCHANGED <<announced, upload>>
            BY <2>5 DEF EndCopy, Without, Restrict
          <6> QED
            BY <4>1, <6>1, <6>2, <6>3, <6>4 DEF Known, Target
        <5> QED
          BY <2>5, <5>1, <5>2 DEF EndCopy, Step, Respond
      <4>2. CASE q # r
        <5>1. Known(q) /\ request'[q] = request[q]
          BY <2>0, <2>5, <4>2 DEF EndCopy, Step, Respond, RequestsAreConsistent
        <5> QED
          BY <2>5, <5>1 DEF EndCopy, Without, Restrict, Known, Target
      <4> QED
        BY <4>1, <4>2
    <3>4. RequestsAreConsistent'
      <4>1. \A p \in DOMAIN disk' : disk'[p].chunks \in {{}, Chunks}
        BY <1>t, <2>5, <3>0 DEF EndCopy, RequestsAreConsistent, MediaFile
      <4>2. announced' \cap DOMAIN temp' = {}
        BY <2>5 DEF EndCopy, Without, Restrict, RequestsAreConsistent
      <4>3. ASSUME NEW x \in Requests, NEW y \in Requests, At(x, "settle")', At(y, "settle")',
                   request'[x].upload = request'[y].upload
            PROVE  x = y
        <5>1. \A q \in Requests : /\ q # r => request'[q] = request[q]
                                  /\ At(q, "settle")' => request'[q].upload = request[q].upload
          BY <2>0, <2>5, <3>i DEF EndCopy, Step, Respond, Idle, InFlight
        <5>2. \A q \in Requests : At(q, "settle") => request[q].upload \notin DOMAIN temp
          BY DEF RequestsAreConsistent, Known
        <5>3. At(r, "settle")' => u \in DOMAIN temp
          BY <2>0, <2>5 DEF EndCopy, Respond, Idle
        <5> QED
          BY <4>3, <5>1, <5>2, <5>3 DEF RequestsAreConsistent
      <4> QED
        BY <3>3, <4>1, <4>2, <4>3 DEF RequestsAreConsistent
    <3> QED
      BY <1>0, <3>1, <3>2, <3>4
  <2>8. CASE FailCopy(r)
    <3>i. request[r] \in InFlight /\ request[r].pc = "copy"
      BY <1>t, <2>8 DEF FailCopy, FailCopyInto
    <3>1. /\ request' = [request EXCEPT ![r] = Idle]
          /\ DOMAIN disk' = DOMAIN disk
          /\ \A p \in DOMAIN disk : disk'[p].chunks = disk[p].chunks
          /\ Target(u) \in DOMAIN disk
          /\ \A p \in DOMAIN disk : p # Target(u) => disk'[p] = disk[p]
          /\ disk[Target(u)].chunks = {} => disk'[Target(u)].torn
          /\ UNCHANGED <<upload, temp, announced>>
      BY <1>t, <2>8, <3>i DEF FailCopy, FailCopyInto, Respond, RequestsAreConsistent, Known, MediaFile
    <3>2. \A q \in Requests : q # r => request'[q] = request[q]
      BY <2>0, <3>1
    <3>3. request'[r].pc = "idle"
      BY <2>0, <3>1 DEF Idle
    <3>4. PartialIsBeingCopied'
      <4> SUFFICES ASSUME NEW p \in DOMAIN disk', disk'[p].chunks # Chunks, ~disk'[p].torn
                   PROVE  Copying(p)' # {}
        BY DEF PartialIsBeingCopied
      <4>1. p \in DOMAIN disk /\ disk'[p] = disk[p] /\ disk[p].chunks = {} /\ p # Target(u)
        BY <3>1 DEF RequestsAreConsistent
      <4>2. PICK q \in Copying(p) : TRUE
        BY <4>1 DEF PartialIsBeingCopied
      <4>3. q # r
        BY <4>1, <4>2 DEF Copying
      <4>4. q \in Copying(p)'
        BY <3>1, <3>2, <4>2, <4>3 DEF Copying, Target
      <4> QED
        BY <4>4
    <3>5. RequestsAreConsistent'
      <4>1. \A q \in Requests : Known(q)'
        BY <3>1, <3>2, <3>3 DEF RequestsAreConsistent, Known, Target
      <4>2. \A p \in DOMAIN disk' : disk'[p].chunks \in {{}, Chunks}
        BY <3>1 DEF RequestsAreConsistent
      <4> QED
        BY <3>1, <3>2, <3>3, <4>1, <4>2 DEF RequestsAreConsistent
    <3>6. ReceivedIsWritten'
      BY <3>1 DEF ReceivedIsWritten
    <3> QED
      BY <1>0, <3>4, <3>5, <3>6
  <2>6. CASE FailMove(r)
    BY <1>0, <2>0, <2>6 DEF FailMove, Respond, Idle, ReceivedIsWritten, PartialIsBeingCopied,
                      RequestsAreConsistent, Known, Copying, Target
  <2>7. CASE SettleUpload(r)
    BY <1>0, <1>t, <2>0, <2>7 DEF SettleUpload, Respond, Idle, ReceivedIsWritten,
                      PartialIsBeingCopied, RequestsAreConsistent, Known, Copying, Target
  <2> QED
    BY <1>3, <2>1, <2>2, <2>3, <2>4, <2>5, <2>6, <2>7, <2>8 DEF Serve
<1>4. ASSUME NEW u \in Uploads, CancelChunkedUpload(u)
      PROVE  IInv'
  BY <1>0, <1>4 DEF CancelChunkedUpload, Without, Restrict, ReceivedIsWritten,
                    PartialIsBeingCopied, RequestsAreConsistent, Known, Copying, Target
<1>5. ASSUME NEW u \in Uploads, BecomeStale(u)
      PROVE  IInv'
  BY <1>0, <1>5 DEF BecomeStale, ReceivedIsWritten,
                    PartialIsBeingCopied, RequestsAreConsistent, Known, Copying, Target
<1>6. ASSUME NEW driveKnown \in BOOLEAN, CleanupStaleUploads(driveKnown)
      PROVE  IInv'
  BY <1>0, <1>6 DEF CleanupStaleUploads, Cleanup, Without, Restrict, ReceivedIsWritten,
                    PartialIsBeingCopied, RequestsAreConsistent, Known, Copying, Target
<1>7. ASSUME NEW reboot \in BOOLEAN, Crash(reboot)
      PROVE  IInv'
  <2>1. /\ DOMAIN disk' = DOMAIN disk
        /\ \A p \in DOMAIN disk : /\ disk'[p].chunks = disk[p].chunks
                                  /\ disk[p].chunks = {} => disk'[p].torn
    BY <1>t, <1>7 DEF Crash, MediaFile
  <2>2. PartialIsBeingCopied'
    <3>1. \A p \in DOMAIN disk : disk[p].chunks \in {{}, Chunks}
      BY DEF RequestsAreConsistent
    <3>2. \A p \in DOMAIN disk' : disk'[p].chunks # Chunks => disk'[p].torn
      BY <2>1, <3>1
    <3> QED
      BY <3>2 DEF PartialIsBeingCopied
  <2>3. \A r \in Requests : request'[r] = Idle
    BY <1>7 DEF Crash
  <2>4. ReceivedIsWritten'
    BY <1>7 DEF Crash, Without, Restrict, ReceivedIsWritten
  <2>5. announced' \cap DOMAIN temp' = {}
    BY <1>7 DEF Crash, Without, Restrict, RequestsAreConsistent
  <2>6. RequestsAreConsistent'
    <3>1. \A r \in Requests : request'[r].pc = "idle"
      BY <2>3 DEF Idle
    <3>2. \A r \in Requests : Known(r)'
      BY <3>1 DEF Known
    <3>3. \A p \in DOMAIN disk' : disk'[p].chunks \in {{}, Chunks}
      BY <2>1 DEF RequestsAreConsistent
    <3> QED
      BY <2>5, <3>1, <3>2, <3>3 DEF RequestsAreConsistent
  <2> QED
    BY <1>0, <2>2, <2>4, <2>6
<1>8. CASE UNCHANGED vars
  BY <1>0, <1>8 DEF vars, ReceivedIsWritten,
                    PartialIsBeingCopied, RequestsAreConsistent, Known, Copying, Target
<1> QED
  BY <1>1, <1>2, <1>3, <1>4, <1>5, <1>6, <1>7, <1>8 DEF Next

(* Whatever the order in which chunks, duplicates, cancellations, expiries   *)
(* and crashes interleave, upload_chunk never counts a chunk the staging     *)
(* file lacks.                                                               *)
THEOREM CountedChunksAreWritten == Spec => []ReceivedIsWritten
<1>1. IInv => ReceivedIsWritten
  BY DEF IInv
<1> QED
  BY SafeInit, SafeNext, <1>1, PTL DEF Spec

(* A media file that lacks chunks is being copied right now by a             *)
(* finalize_chunked_upload, or is what a copy left that failed or died.      *)
THEOREM NoPartialFile == Spec => []PartialIsBeingCopied
<1>1. IInv => PartialIsBeingCopied
  BY DEF IInv
<1> QED
  BY SafeInit, SafeNext, <1>1, PTL DEF Spec

(* finalize_chunked_upload announces an upload at most once, and only with   *)
(* its file in place.                                                        *)
THEOREM SettledOnce == Spec => []SettledIsDelivered
<1>1. IInv => SettledIsDelivered
  BY DEF IInv, RequestsAreConsistent, Known, SettledIsDelivered
<1> QED
  BY SafeInit, SafeNext, <1>1, PTL DEF Spec

(* The invariant of the proof: counted chunks are in the staging file, the   *)
(* requests are consistent, a partial file is being copied.                  *)
THEOREM Safety == Spec => []IInv
  BY SafeInit, SafeNext, PTL DEF Spec

-----------------------------------------------------------------------------
(* The service of upload_session_runtime_service.py implements what the      *)
(* browser relies on.                                                        *)
LEMMA CountedInit == Init => FinishedIsCounted
  BY DEF Init, Idle, FinishedIsCounted

LEMMA CountedNext == IInv /\ FinishedIsCounted /\ [Next]_vars => FinishedIsCounted'
<1> SUFFICES ASSUME IInv, FinishedIsCounted, [Next]_vars,
                    NEW r \in Requests, request'[r].pc \in {"move", "copy", "settle"}
             PROVE  upload'[request'[r].upload].received = Chunks
  BY DEF FinishedIsCounted
<1>0. /\ TypeOK
      /\ request \in [Requests -> InFlight \cup {Idle}]
      /\ \A u \in DOMAIN upload : upload[u] \in Session
  BY DEF IInv, TypeOK
<1>1. /\ request'[r].pc = "move" /\ request[r].pc = "account" /\ AccountChunk(r)
      \/ /\ request[r].pc \in {"move", "copy", "settle"}
         /\ request'[r].upload = request[r].upload
  <2> DEFINE Goes == \/ /\ request'[r].pc = "move" /\ request[r].pc = "account"
                         /\ AccountChunk(r)
                     \/ /\ request[r].pc \in {"move", "copy", "settle"}
                        /\ request'[r].upload = request[r].upload
  <2>1. ASSUME UNCHANGED request PROVE Goes
    BY <1>0, <2>1
  <2>2. ASSUME NEW q \in Requests, NEW u \in Uploads, NEW c \in Chunks, AcceptChunk(q, u, c)
        PROVE  Goes
    BY <1>0, <2>2 DEF AcceptChunk
  <2>3. ASSUME NEW q \in Requests, q # r, Serve(q) PROVE Goes
    <3>1. request'[r] = request[r]
      BY <1>0, <2>3 DEF Serve, WriteChunk, AccountChunk, AccountAndFinalizeAt,
          RenameIntoPlace, BeginCopy, EndCopy, FailMove, FailCopy, FailCopyInto, SettleUpload, Step, Respond
    <3> QED
      BY <3>1
  <2>4. ASSUME Serve(r) PROVE Goes
    <3>0. request[r].pc # "idle" => request[r] \in InFlight
      BY <1>0 DEF Idle
    <3>1. CASE WriteChunk(r)
      BY <1>0, <3>0, <3>1 DEF WriteChunk, At, Step, Respond, Idle, InFlight
    <3>2. CASE AccountChunk(r)
      BY <1>0, <3>0, <3>2 DEF AccountChunk, AccountAndFinalizeAt, At, Step, Respond, Idle, InFlight
    <3>3. CASE RenameIntoPlace(r)
      BY <1>0, <3>0, <3>3 DEF RenameIntoPlace, At, Step, InFlight
    <3>4. CASE BeginCopy(r)
      BY <1>0, <3>0, <3>4 DEF BeginCopy, At, InFlight
    <3>5. CASE EndCopy(r)
      BY <1>0, <3>0, <3>5 DEF EndCopy, At, Step, Respond, Idle, InFlight
    <3>6. CASE FailMove(r) \/ FailCopy(r)
      BY <1>0, <3>6 DEF FailMove, FailCopy, FailCopyInto, At, Respond, Idle
    <3>7. CASE SettleUpload(r)
      BY <1>0, <3>7 DEF SettleUpload, At, Respond, Idle
    <3> QED
      BY <2>4, <3>1, <3>2, <3>3, <3>4, <3>5, <3>6, <3>7 DEF Serve
  <2>5. ASSUME NEW reboot \in BOOLEAN, Crash(reboot) PROVE Goes
    BY <2>5 DEF Crash, Idle
  <2> QED
    BY <2>1, <2>2, <2>3, <2>4, <2>5
    DEF Next, vars, InitChunkedUpload, CancelChunkedUpload, BecomeStale,
        CleanupStaleUploads, Cleanup
<1>2. CASE request'[r].pc = "move" /\ request[r].pc = "account" /\ AccountChunk(r)
  <2>1. Known(r)' /\ At(r, "move")'
    BY <1>2, SafeNext DEF IInv, RequestsAreConsistent, At
  <2> QED
    BY <2>1 DEF Known, At
<1>3. CASE /\ request[r].pc \in {"move", "copy", "settle"}
           /\ request'[r].upload = request[r].upload
  <2>1. /\ upload[request[r].upload].received = Chunks
        /\ request[r].upload \in DOMAIN upload
    BY <1>0, <1>3 DEF FinishedIsCounted, InFlight, Idle
  <2>2. /\ request[r].upload \in DOMAIN upload'
        /\ upload[request[r].upload].received \subseteq upload'[request[r].upload].received
        /\ upload'[request[r].upload].received \subseteq Chunks
    <3>1. upload' \in [DOMAIN upload' -> Session]
      BY <1>0, TypeNext DEF TypeOK
    <3>2. /\ DOMAIN upload \subseteq DOMAIN upload'
          /\ \A u \in DOMAIN upload : upload[u].received \subseteq upload'[u].received
      <4>1. ASSUME UNCHANGED upload
            PROVE  /\ DOMAIN upload \subseteq DOMAIN upload'
                   /\ \A u \in DOMAIN upload : upload[u].received \subseteq upload'[u].received
        BY <4>1
      <4>2. ASSUME NEW u \in Uploads, NEW n \in Names, NEW ram \in BOOLEAN,
                   InitChunkedUpload(u, n, ram)
            PROVE  \A v \in DOMAIN upload : v \in DOMAIN upload' /\ upload'[v] = upload[v]
        BY <4>2 DEF InitChunkedUpload, With
      <4>3. ASSUME NEW q \in Requests, AccountChunk(q)
            PROVE  \A u \in DOMAIN upload :
                      u \in DOMAIN upload' /\ upload[u].received \subseteq upload'[u].received
        BY <1>0, <4>3 DEF AccountChunk, AccountAndFinalizeAt, Session
      <4>4. ASSUME NEW q \in Requests, Serve(q) PROVE AccountChunk(q) \/ UNCHANGED upload
        BY <4>4 DEF Serve, WriteChunk, RenameIntoPlace, BeginCopy, EndCopy, FailMove, FailCopy, FailCopyInto,
                    SettleUpload
      <4> QED
        BY <4>1, <4>2, <4>3, <4>4
        DEF Next, vars, AcceptChunk, CancelChunkedUpload, BecomeStale,
            CleanupStaleUploads, Cleanup, Crash
    <3> QED
      BY <2>1, <3>1, <3>2 DEF Session
  <2> QED
    BY <1>3, <2>1, <2>2
<1> QED
  BY <1>1, <1>2, <1>3

LEMMA ServiceInitially == Init => Service!ServiceInit
  BY DEF Init, Service!ServiceInit, Phase, CountedOf

LEMMA ServiceStep ==
  IInv /\ FinishedIsCounted /\ [Next]_vars => [Service!ServiceNext]_(Service!serviceVars)
<1> SUFFICES ASSUME IInv, FinishedIsCounted, [Next]_vars
             PROVE  Service!ServiceNext \/ UNCHANGED Service!serviceVars
  OBVIOUS
<1>0. /\ DOMAIN upload \subseteq Uploads
      /\ active_uploads \subseteq DOMAIN upload
      /\ announced \subseteq DOMAIN upload
      /\ request \in [Requests -> InFlight \cup {Idle}]
      /\ \A u \in DOMAIN upload : upload[u] \in Session
  BY DEF IInv, TypeOK
<1> DEFINE SameSessions == UNCHANGED <<active_uploads, upload, announced>>
<1>s. ASSUME SameSessions PROVE UNCHANGED Service!serviceVars
  BY <1>s DEF Service!serviceVars, Phase, CountedOf
<1>1. ASSUME NEW u \in Uploads, NEW n \in Names, NEW ram \in BOOLEAN,
             InitChunkedUpload(u, n, ram)
      PROVE  Service!Open(u)
  <2>1. /\ u \notin DOMAIN upload
        /\ DOMAIN upload' = DOMAIN upload \cup {u}
        /\ upload'[u].received = {}
        /\ \A v \in DOMAIN upload : upload'[v] = upload[v]
        /\ active_uploads' = active_uploads \cup {u}
        /\ announced' = announced
    BY <1>1 DEF InitChunkedUpload, With
  <2>2. /\ Phase(u) = "none" /\ Phase(u)' = "open"
        /\ CountedOf(u) = {} /\ CountedOf(u)' = {}
    BY <1>0, <2>1 DEF Phase, CountedOf
  <2>3. \A v \in Uploads \ {u} : Phase(v)' = Phase(v) /\ CountedOf(v)' = CountedOf(v)
    BY <1>0, <2>1 DEF Phase, CountedOf
  <2> QED
    BY <2>2, <2>3 DEF Service!Open
<1>2. ASSUME NEW r \in Requests, AccountChunk(r)
      PROVE  /\ request[r].upload \in Uploads /\ request[r].chunk \in Chunks
             /\ Service!CountChunk(request[r].upload, request[r].chunk)
  <2>1. request[r] \in InFlight
    BY <1>0, <1>2 DEF AccountChunk, AccountAndFinalizeAt, At, Idle
  <2>2. request[r].upload \in DOMAIN upload /\ request[r].chunk \in Chunks
    BY <2>1 DEF InFlight
  <2>3. /\ DOMAIN upload' = DOMAIN upload
        /\ UNCHANGED <<active_uploads, announced>>
        /\ \A u \in DOMAIN upload : upload'[u].received =
             upload[u].received \cup (IF u = request[r].upload THEN {request[r].chunk} ELSE {})
    BY <1>0, <1>2, <2>2 DEF AccountChunk, AccountAndFinalizeAt, Session
  <2>4. \A v \in Uploads : Phase(v)' = Phase(v)
    BY <1>0, <2>3 DEF Phase
  <2>5. \A v \in Uploads : CountedOf(v)' =
          CountedOf(v) \cup (IF v = request[r].upload THEN {request[r].chunk} ELSE {})
    BY <1>0, <2>2, <2>3 DEF CountedOf
  <2>6. Phase(request[r].upload) # "none"
    BY <2>2 DEF Phase
  <2>7. request[r].upload \in Uploads
    BY <1>0, <2>2
  <2>8. Service!CountChunk(request[r].upload, request[r].chunk)
    BY <2>4, <2>5, <2>6, <2>7 DEF Service!CountChunk
  <2> QED
    BY <2>2, <2>7, <2>8
<1>3. ASSUME NEW r \in Requests, SettleUpload(r)
      PROVE  request[r].upload \in Uploads /\ Service!Store(request[r].upload)
  <2>1. request[r] \in InFlight
    BY <1>0, <1>3 DEF SettleUpload, At, Idle
  <2>2. request[r].upload \in DOMAIN upload
    BY <2>1 DEF InFlight
  <2>3. upload[request[r].upload].received = Chunks /\ request[r].upload \notin announced
    BY <1>3 DEF SettleUpload, At, FinishedIsCounted, IInv, RequestsAreConsistent, Known
  <2>u. PICK u : u = request[r].upload
    OBVIOUS
  <2>4. /\ active_uploads' = active_uploads \ {u}
        /\ announced' = announced \cup {u}
        /\ UNCHANGED upload
    BY <1>3, <2>u DEF SettleUpload
  <2>5. /\ Phase(u) \in {"open", "gone"}
        /\ Phase(u)' = "stored"
        /\ CountedOf(u) = Chunks
    BY <2>2, <2>3, <2>4, <2>u DEF Phase, CountedOf
  <2>6. \A v \in Uploads : /\ v # u => Phase(v)' = Phase(v)
                            /\ CountedOf(v)' = CountedOf(v)
    BY <2>4 DEF Phase, CountedOf
  <2>7. u \in Uploads
    BY <1>0, <2>2, <2>u
  <2>8. Service!Store(u)
    <3> DEFINE phase == [v \in Uploads |-> Phase(v)]
               counted == [v \in Uploads |-> CountedOf(v)]
    <3>1. phase' = [phase EXCEPT ![u] = "stored"]
      BY <2>5, <2>6, <2>7
    <3>2. counted' = counted
      BY <2>4 DEF CountedOf
    <3>3. phase[u] \in {"open", "gone"} /\ counted[u] = 1..Total
      BY <2>5, <2>7 DEF Chunks
    <3> QED
      BY <3>1, <3>2, <3>3 DEF Service!Store, Service!ServiceChunks
  <2> QED
    BY <2>7, <2>8, <2>u
<1>4. ASSUME NEW S \in SUBSET active_uploads, active_uploads' = active_uploads \ S,
             UNCHANGED <<upload, announced>>
      PROVE  Service!Abandon(S \ announced)
  <2>1. \A v \in Uploads : CountedOf(v)' = CountedOf(v)
    BY <1>4 DEF CountedOf
  <2>2. \A v \in Uploads : Phase(v)' = IF v \in S \ announced THEN "gone" ELSE Phase(v)
    BY <1>0, <1>4 DEF Phase
  <2>3. \A v \in S \ announced : v \in Uploads /\ Phase(v) = "open"
    BY <1>0 DEF Phase
  <2> QED
    BY <2>1, <2>2, <2>3 DEF Service!Abandon, Service!In
<1>5. ASSUME NEW u \in Uploads, CancelChunkedUpload(u) PROVE Service!ServiceNext
  <2>1. Service!Abandon({u} \ announced)
    BY <1>4, <1>5 DEF CancelChunkedUpload
  <2> QED
    BY <2>1, <1>5 DEF Service!ServiceNext
<1>6. ASSUME NEW driveKnown \in BOOLEAN, CleanupStaleUploads(driveKnown)
      PROVE  Service!ServiceNext
  <2>1. Service!Abandon((active_uploads \cap stale) \ announced)
    BY <1>4, <1>6 DEF CleanupStaleUploads, Cleanup
  <2> QED
    BY <1>0, <2>1 DEF Service!ServiceNext
<1>7. ASSUME NEW reboot \in BOOLEAN, Crash(reboot) PROVE Service!ServiceNext
  <2>1. Service!Abandon(active_uploads \ announced)
    BY <1>4, <1>7 DEF Crash
  <2> QED
    BY <1>0, <2>1 DEF Service!ServiceNext
<1>8. ASSUME NEW r \in Requests, Serve(r)
      PROVE  Service!ServiceNext \/ UNCHANGED Service!serviceVars
  <2>1. CASE AccountChunk(r)
    BY <1>2, <2>1 DEF Service!ServiceNext, Service!ServiceChunks, Chunks
  <2>2. CASE SettleUpload(r)
    BY <1>3, <2>2 DEF Service!ServiceNext
  <2>3. CASE WriteChunk(r) \/ RenameIntoPlace(r) \/ BeginCopy(r) \/ EndCopy(r) \/ FailMove(r) \/ FailCopy(r)
    BY <1>s, <2>3 DEF WriteChunk, RenameIntoPlace, BeginCopy, EndCopy, FailMove, FailCopy, FailCopyInto
  <2> QED
    BY <1>8, <2>1, <2>2, <2>3 DEF Serve
<1>9. ASSUME NEW r \in Requests, NEW u \in Uploads, NEW c \in Chunks, AcceptChunk(r, u, c)
      PROVE  UNCHANGED Service!serviceVars
  BY <1>s, <1>9 DEF AcceptChunk
<1>10. ASSUME NEW u \in Uploads, BecomeStale(u) PROVE UNCHANGED Service!serviceVars
  BY <1>s, <1>10 DEF BecomeStale
<1>11. CASE UNCHANGED vars
  BY <1>s, <1>11 DEF vars
<1>12. ASSUME NEW u \in Uploads, NEW n \in Names, NEW ram \in BOOLEAN,
             InitChunkedUpload(u, n, ram)
       PROVE  Service!ServiceNext
  BY <1>1, <1>12 DEF Service!ServiceNext
<1> QED
  BY <1>5, <1>6, <1>7, <1>8, <1>9, <1>10, <1>11, <1>12 DEF Next

(* Every behaviour of the chunked upload sessions, crashes and restarts      *)
(* included, is one of UploadService: UploadClient may be checked against    *)
(* that service alone.                                                       *)
THEOREM Refinement == Spec => ImplementsService
  BY SafeInit, SafeNext, CountedInit, CountedNext, ServiceInitially, ServiceStep, PTL
  DEF Spec, ImplementsService, Service!ServiceSpec

-----------------------------------------------------------------------------
(* What a client is told to be uploaded is whole.                            *)

\* Nobody else has the upload's path, and its chunks are not sent twice.
Alone(u) == u \notin Resent /\ \A v \in DOMAIN upload \ {u} : Target(v) # Target(u)

\* The chunks of such an upload are written one by one: none is counted yet that
\* is on its way, no two are the same, and a request that finishes it is alone.
InTurn(r) ==
    LET u == request[r].upload IN
    ~At(r, "idle") /\ u \notin Resent =>
        /\ u \notin announced
        /\ request[r].pc \in {"write", "account"} => request[r].chunk \notin upload[u].received
        /\ \A q \in Serving(u) \ {r} : /\ request[q].pc \in {"write", "account"}
                                       /\ request[q].chunk # request[r].chunk

\* The file of an upload that is alone holds its bytes only, none of them while
\* it is copied, and all of them from then on.
Holds(u, chunks) ==
    Target(u) \in DOMAIN disk /\ disk[Target(u)] = [of |-> {u}, chunks |-> chunks, torn |-> FALSE]

FileOfAlone(u) ==
    Alone(u) => /\ u \in announced => Holds(u, Chunks)
                /\ \A r \in Serving(u) : /\ At(r, "settle") => Holds(u, Chunks)
                                         /\ At(r, "copy") => Holds(u, {})

WholeInv ==
    /\ announced \cap active_uploads = {}
    /\ \A r \in Requests : InTurn(r)
    /\ \A u \in DOMAIN upload : FileOfAlone(u)

(* Nothing is uploaded at first.                                             *)
LEMMA WholeInit == Init => WholeInv
  BY DEF Init, Idle, WholeInv, InTurn, At

(* A step that counts and announces nothing, and moves each request within   *)
(* its turn or ends it, keeps the turns.                                     *)
LEMMA TurnsRemain ==
  ASSUME TypeOK, \A r \in Requests : InTurn(r), UNCHANGED announced,
         \A u \in DOMAIN upload : upload'[u].received = upload[u].received,
         \A r \in Requests :
            ~At(r, "idle")' =>
               /\ ~At(r, "idle")
               /\ request'[r].upload = request[r].upload
               /\ request'[r].chunk = request[r].chunk
               /\ request'[r].pc \in {"write", "account"} <=> request[r].pc \in {"write", "account"}
  PROVE  \A r \in Requests : InTurn(r)'
<1> SUFFICES ASSUME NEW r \in Requests, ~At(r, "idle")', request'[r].upload \notin Resent
             PROVE  InTurn(r)'
  BY DEF InTurn
<1> DEFINE u == request[r].upload
<1>1. /\ ~At(r, "idle") /\ u \in DOMAIN upload /\ u \notin Resent
      /\ request'[r].upload = u /\ request'[r].chunk = request[r].chunk
  BY DEF TypeOK, InFlight, Idle, At
<1>2. \A q \in Serving(u)' : /\ q \in Serving(u)
                             /\ request'[q].chunk = request[q].chunk
  BY DEF Serving, At
<1>3. u \notin announced'
  BY <1>1 DEF InTurn
<1>4. request'[r].pc \in {"write", "account"} => request'[r].chunk \notin upload'[u].received
  BY <1>1 DEF InTurn
<1>5. ASSUME NEW q \in Serving(u)', q # r
      PROVE  request'[q].pc \in {"write", "account"} /\ request'[q].chunk # request'[r].chunk
  <2>1. q \in Requests /\ ~At(q, "idle")'
    BY <1>5 DEF Serving, At
  <2>2. request[q].pc \in {"write", "account"} /\ request[q].chunk # request[r].chunk
    BY <1>1, <1>2, <1>5 DEF InTurn
  <2> QED
    BY <1>1, <1>2, <1>5, <2>1, <2>2
<1> QED
  BY <1>1, <1>3, <1>4, <1>5 DEF InTurn

(* A chunk is accepted when nobody serves it, and counted once; the last one *)
(* leaves no other request of the upload.                                    *)
LEMMA TurnsNext ==
  ASSUME IInv, FinishedIsCounted, WholeInv, Next
  PROVE  /\ (announced \cap active_uploads = {})'
         /\ \A r \in Requests : InTurn(r)'
<1>0. /\ TypeOK
      /\ request \in [Requests -> InFlight \cup {Idle}]
      /\ \A u \in DOMAIN upload : upload[u] \in Session
      /\ \A r \in Requests : InTurn(r)
      /\ \A r \in Requests : ~At(r, "idle") => request[r] \in InFlight
  BY DEF IInv, TypeOK, WholeInv, At, Idle
<1>1. ASSUME NEW u \in Uploads, NEW n \in Names, NEW ram \in BOOLEAN,
             InitChunkedUpload(u, n, ram)
      PROVE  /\ (announced \cap active_uploads = {})'
             /\ \A r \in Requests : InTurn(r)'
  <2>1. /\ u \notin announced
        /\ UNCHANGED <<announced, request>> /\ active_uploads' = active_uploads \cup {u}
        /\ \A v \in DOMAIN upload : upload'[v] = upload[v]
    BY <1>0, <1>1 DEF InitChunkedUpload, With, TypeOK
  <2>2. \A r \in Requests : InTurn(r)'
    BY <1>0, <2>1, TurnsRemain DEF At
  <2> QED
    BY <2>1, <2>2 DEF WholeInv
<1>2. ASSUME NEW r \in Requests, NEW u \in Uploads, NEW c \in Chunks, AcceptChunk(r, u, c)
      PROVE  /\ (announced \cap active_uploads = {})'
             /\ \A q \in Requests : InTurn(q)'
  <2>1. /\ u \in active_uploads /\ u \in DOMAIN upload /\ c \notin upload[u].received
        /\ u \in Resent \/ \A q \in Serving(u) : request[q].chunk # c
        /\ At(r, "idle")
        /\ UNCHANGED <<active_uploads, upload, announced>>
    BY <1>0, <1>2 DEF AcceptChunk, TypeOK
  <2>2. /\ request'[r] = [pc |-> "write", upload |-> u, chunk |-> c, src |-> {}]
        /\ \A q \in Requests \ {r} : request'[q] = request[q]
    BY <1>0, <1>2 DEF AcceptChunk
  <2>3. /\ \A v \in Uploads \ {u} : Serving(v)' = Serving(v)
        /\ Serving(u)' = Serving(u) \cup {r} /\ r \notin Serving(u)
    BY <2>1, <2>2 DEF Serving, At
  <2>4. ASSUME u \notin Resent, NEW q \in Serving(u)
        PROVE  request[q].pc \in {"write", "account"} /\ q \in Requests
    <3>1. q \in Requests /\ ~At(q, "idle") /\ request[q].upload = u /\ request[q] \in InFlight
      BY <1>0, <2>4 DEF Serving, At
    <3>2. request[q].pc \notin {"move", "copy", "settle"}
      BY <2>1, <3>1 DEF FinishedIsCounted
    <3> QED
      BY <3>1, <3>2 DEF InFlight
  <2>5. ASSUME NEW q \in Requests PROVE InTurn(q)'
    <3>1. CASE q = r
      BY <2>1, <2>2, <2>3, <2>4, <3>1 DEF InTurn, At, WholeInv
    <3>2. CASE q # r /\ (At(q, "idle") \/ request[q].upload = u)
      <4>1. q \in Serving(u) \/ At(q, "idle")
        BY <3>2 DEF Serving, At
      <4>2. request'[q] = request[q]
        BY <2>2, <3>2
      <4> QED
        BY <1>0, <2>1, <2>2, <2>3, <3>2, <4>1, <4>2 DEF InTurn, At, Serving
    <3>3. CASE q # r /\ ~At(q, "idle") /\ request[q].upload # u
      <4>1. request[q].upload \in Uploads /\ request'[q] = request[q]
        BY <1>0, <2>2, <3>3 DEF InFlight, TypeOK
      <4>2. Serving(request[q].upload)' = Serving(request[q].upload)
        BY <2>3, <3>3, <4>1
      <4>3. r \notin Serving(request[q].upload)
        BY <2>1 DEF Serving, At
      <4> QED
        BY <1>0, <2>1, <2>2, <3>3, <4>1, <4>2, <4>3 DEF InTurn, At, Serving
    <3> QED
      BY <3>1, <3>2, <3>3
  <2> QED
    BY <2>1, <2>5 DEF WholeInv
<1>3. ASSUME NEW r \in Requests, Serve(r)
      PROVE  /\ (announced \cap active_uploads = {})'
             /\ \A q \in Requests : InTurn(q)'
  <2> DEFINE u == request[r].upload
  <2>0. \A q \in Requests \ {r} : request'[q] = request[q]
    BY <1>0, <1>3 DEF Serve, WriteChunk, AccountChunk, AccountAndFinalizeAt,
       RenameIntoPlace, BeginCopy, EndCopy, FailMove, FailCopy, FailCopyInto, SettleUpload, Step, Respond
  <2>1. CASE AccountChunk(r)
    <3>1. /\ request[r].pc = "account" /\ request[r] \in InFlight
          /\ UNCHANGED <<active_uploads, announced>>
          /\ request'[r] = Idle \/ request'[r] = [request[r] EXCEPT !.pc = "move"]
      BY <1>0, <2>1 DEF AccountChunk, AccountAndFinalizeAt, At, Idle, Step, Respond
    <3>2. /\ u \in DOMAIN upload /\ DOMAIN upload' = DOMAIN upload
          /\ upload'[u].received = upload[u].received \cup {request[r].chunk}
          /\ \A v \in DOMAIN upload \ {u} : upload'[v] = upload[v]
      BY <1>0, <2>1, <3>1 DEF AccountChunk, AccountAndFinalizeAt, InFlight, Session
    <3>3. request'[r] = Idle \/ upload'[u].received = Chunks
      <4>1. upload'[u].received \in SUBSET Chunks
        BY <1>0, <3>1, <3>2 DEF InFlight, Session
      <4>2. request'[r] = Idle \/ Cardinality(upload'[u].received) = Total
        BY <1>0, <2>1, <3>2 DEF AccountChunk, AccountAndFinalizeAt, Respond
      <4> QED
        BY <4>1, <4>2, AllCounted
    <3>4. ASSUME NEW q \in Requests, ~At(q, "idle")', request'[q].upload \notin Resent
          PROVE  InTurn(q)'
      <4> DEFINE v == request[q].upload
      <4>1. /\ ~At(q, "idle") /\ request[q] \in InFlight
            /\ request'[q].upload = v /\ request'[q].chunk = request[q].chunk
            /\ v \in DOMAIN upload /\ v \notin Resent /\ v \notin announced'
        BY <1>0, <2>0, <3>1, <3>4 DEF At, Idle, InFlight, InTurn
      <4>2. \A x \in Serving(v)' : x \in Serving(v) /\ request'[x].chunk = request[x].chunk
        <5>1. ASSUME NEW x \in Requests, request'[x].pc # "idle"
              PROVE  /\ request[x].pc # "idle" /\ request'[x].upload = request[x].upload
                     /\ request'[x].chunk = request[x].chunk
          BY <2>0, <3>1, <5>1 DEF Idle, InFlight
        <5> QED
          BY <4>1, <5>1 DEF Serving
      <4>3. request'[q].pc \in {"write", "account"} => request'[q].chunk \notin upload'[v].received
        <5>1. CASE v # u
          BY <1>0, <2>0, <3>2, <4>1, <5>1 DEF InTurn
        <5>2. CASE q = r
          BY <3>1, <3>4, <5>2 DEF Idle, InFlight, At
        <5>3. CASE v = u /\ q # r
          <6>1. r \in Serving(v) \ {q}
            BY <3>1, <5>3 DEF Serving
          <6> QED
            BY <1>0, <2>0, <3>2, <4>1, <5>3, <6>1 DEF InTurn
        <5> QED
          BY <5>1, <5>2, <5>3
      <4>4. ASSUME NEW x \in Serving(v)', x # q
            PROVE  request'[x].pc \in {"write", "account"} /\ request'[x].chunk # request'[q].chunk
        <5>1. /\ x \in Serving(v) \ {q}
              /\ request[x].pc \in {"write", "account"} /\ request[x].chunk # request[q].chunk
          BY <1>0, <4>1, <4>2, <4>4 DEF InTurn
        <5>2. x # r
          <6> SUFFICES ASSUME x = r PROVE FALSE
            OBVIOUS
          <6>1. v = u /\ upload'[u].received = Chunks /\ q # r
            BY <3>3, <4>4, <5>1 DEF Serving, Idle
          <6>2. request[q].pc \in {"write", "account"}
            BY <1>0, <3>1, <4>1, <6>1 DEF InTurn, Serving, At
          <6>3. request[q].chunk \notin upload'[u].received
            BY <2>0, <4>1, <4>3, <6>1, <6>2
          <6> QED
            BY <4>1, <6>1, <6>3 DEF InFlight
        <5> QED
          BY <2>0, <4>1, <4>2, <4>4, <5>1, <5>2 DEF Serving
      <4> QED
        BY <3>4, <4>1, <4>3, <4>4 DEF InTurn
    <3>5. \A q \in Requests : InTurn(q)'
      BY <3>4 DEF InTurn
    <3> QED
      BY <3>1, <3>5 DEF WholeInv
  <2>2. CASE SettleUpload(r)
    <3>1. /\ request[r].pc = "settle" /\ request[r] \in InFlight
          /\ request' = [request EXCEPT ![r] = Idle]
          /\ active_uploads' = active_uploads \ {u} /\ announced' = announced \cup {u}
          /\ UNCHANGED upload
      BY <1>0, <2>2 DEF SettleUpload, At, Idle, Respond
    <3>2. /\ \A v \in Uploads : Serving(v)' = Serving(v) \ {r}
          /\ r \in Serving(u)
      BY <1>0, <2>0, <3>1 DEF Serving, Idle
    <3>3. ASSUME NEW q \in Requests, ~At(q, "idle")', request'[q].upload \notin Resent
          PROVE  InTurn(q)'
      <4>1. q # r /\ ~At(q, "idle") /\ request'[q] = request[q] /\ request[q].upload \in Uploads
        BY <1>0, <2>0, <3>1, <3>3 DEF At, Idle, InFlight, TypeOK
      <4>2. request[q].upload # u
        BY <1>0, <3>1, <3>2, <3>3, <4>1 DEF InTurn
      <4> QED
        BY <1>0, <2>0, <3>1, <3>2, <3>3, <4>1, <4>2 DEF InTurn, At, Serving
    <3>4. \A q \in Requests : InTurn(q)'
      BY <3>3 DEF InTurn
    <3> QED
      BY <3>1, <3>4 DEF WholeInv
  <2>3. CASE ~AccountChunk(r) /\ ~SettleUpload(r)
    <3>1. UNCHANGED <<active_uploads, announced, upload>>
      BY <1>3, <2>3 DEF Serve, WriteChunk, RenameIntoPlace, BeginCopy, EndCopy, FailMove, FailCopy, FailCopyInto
    <3>2. \/ request'[r] = Idle
          \/ /\ request'[r].upload = u /\ request'[r].chunk = request[r].chunk
             /\ ~At(r, "idle")
             /\ request'[r].pc \in {"write", "account"} <=> request[r].pc \in {"write", "account"}
      <4>1. ~At(r, "idle") /\ request[r] \in InFlight
        BY <1>0, <1>3, <2>3 DEF Serve, WriteChunk, RenameIntoPlace, BeginCopy, EndCopy,
                                FailMove, FailCopy, FailCopyInto, At
      <4> QED
        BY <1>0, <1>3, <2>3, <4>1 DEF Serve, WriteChunk, RenameIntoPlace, BeginCopy, EndCopy,
           FailMove, FailCopy, FailCopyInto, At, Step, Respond, InFlight
    <3>3. \A q \in Requests : InTurn(q)'
      BY <1>0, <2>0, <3>1, <3>2, TurnsRemain DEF At, Idle
    <3> QED
      BY <3>1, <3>3 DEF WholeInv
  <2> QED
    BY <2>1, <2>2, <2>3
<1>4. ASSUME NEW reboot \in BOOLEAN, Crash(reboot)
      PROVE  /\ (announced \cap active_uploads = {})'
             /\ \A r \in Requests : InTurn(r)'
  BY <1>4 DEF Crash, InTurn, At, Idle
<1>5. ASSUME UNCHANGED <<upload, request, announced>>, active_uploads' \subseteq active_uploads
      PROVE  /\ (announced \cap active_uploads = {})'
             /\ \A r \in Requests : InTurn(r)'
  BY <1>0, <1>5, TurnsRemain DEF At, WholeInv
<1> QED
  BY <1>1, <1>2, <1>3, <1>4, <1>5
     DEF Next, CancelChunkedUpload, BecomeStale, CleanupStaleUploads, Cleanup

(* Targets are never changed: what is alone was so since its session opened. *)
LEMMA AloneWasAlone ==
  ASSUME TypeOK, Next, NEW u \in DOMAIN upload, Alone(u)'
  PROVE  /\ Alone(u)
         /\ u \in DOMAIN upload' /\ Target(u)' = Target(u)
         /\ \A v \in DOMAIN upload : Target(v) = Target(u) => v = u
<1>1. ASSUME NEW v \in DOMAIN upload
      PROVE  v \in DOMAIN upload' /\ upload'[v].target = upload[v].target
  <2>1. ASSUME NEW w \in Uploads, NEW n \in Names, NEW ram \in BOOLEAN,
               InitChunkedUpload(w, n, ram)
        PROVE  v \in DOMAIN upload' /\ upload'[v].target = upload[v].target
    BY <2>1 DEF InitChunkedUpload, With
  <2>2. ASSUME NEW r \in Requests, AccountChunk(r)
        PROVE  v \in DOMAIN upload' /\ upload'[v].target = upload[v].target
    <3>1. upload[v] \in Session
      BY DEF TypeOK
    <3> QED
      BY <2>2, <3>1 DEF AccountChunk, AccountAndFinalizeAt, Session
  <2>3. ASSUME UNCHANGED upload
        PROVE  v \in DOMAIN upload' /\ upload'[v].target = upload[v].target
    BY <2>3
  <2> QED
    BY <2>1, <2>2, <2>3
    DEF Next, Serve, AcceptChunk, WriteChunk, RenameIntoPlace, BeginCopy, EndCopy, FailMove, FailCopy, FailCopyInto,
        SettleUpload, CancelChunkedUpload, BecomeStale, CleanupStaleUploads, Cleanup, Crash
<1> QED
  BY <1>1 DEF Alone, Target

(* The file of an upload that is alone: nobody but its one finisher writes   *)
(* its path.                                                                 *)
LEMMA FilesNext ==
  ASSUME IInv, FinishedIsCounted, WholeInv, Next,
         NEW u \in DOMAIN upload', Alone(u)'
  PROVE  /\ u \in announced' => Holds(u, Chunks)'
         /\ \A r \in Serving(u)' : /\ At(r, "settle")' => Holds(u, Chunks)'
                                   /\ At(r, "copy")' => Holds(u, {})'
<1> DEFINE Whole == /\ u \in announced' => Holds(u, Chunks)'
                    /\ \A r \in Serving(u)' : /\ At(r, "settle")' => Holds(u, Chunks)'
                                              /\ At(r, "copy")' => Holds(u, {})'
<1>0. /\ TypeOK
      /\ request \in [Requests -> InFlight \cup {Idle}]
      /\ \A r \in Requests : InTurn(r)
      /\ \A r \in Requests : ~At(r, "idle") => request[r] \in InFlight
  BY DEF IInv, TypeOK, WholeInv, At, Idle
<1>1. CASE u \notin DOMAIN upload
  <2>1. PICK w \in Uploads, n \in Names, ram \in BOOLEAN : InitChunkedUpload(w, n, ram)
    BY <1>1 DEF Next, Serve, AcceptChunk, WriteChunk, AccountChunk, AccountAndFinalizeAt,
       RenameIntoPlace, BeginCopy, EndCopy, FailMove, FailCopy, FailCopyInto, SettleUpload, CancelChunkedUpload,
       BecomeStale, CleanupStaleUploads, Cleanup, Crash
  <2>2. u \notin announced' /\ UNCHANGED request
    BY <1>0, <1>1, <2>1 DEF InitChunkedUpload, TypeOK
  <2>3. Serving(u)' = {}
    BY <1>0, <1>1, <2>2 DEF Serving, InFlight, Idle
  <2> QED
    BY <2>2, <2>3
<1>2. CASE u \in DOMAIN upload
  <2>0. /\ Alone(u) /\ u \notin Resent
        /\ Target(u)' = Target(u)
        /\ \A v \in DOMAIN upload : Target(v) = Target(u) => v = u
        /\ u \in announced => Holds(u, Chunks)
        /\ \A r \in Serving(u) : /\ At(r, "settle") => Holds(u, Chunks)
                                 /\ At(r, "copy") => Holds(u, {})
    BY <1>0, <1>2, AloneWasAlone DEF WholeInv, FileOfAlone, Alone
  \* Steps that do not touch the file, announce nothing and finish nothing.
  <2>1. ASSUME UNCHANGED disk, u \in announced' => u \in announced,
               \A r \in Serving(u)' :
                  /\ r \in Serving(u)
                  /\ At(r, "settle")' => At(r, "settle")
                  /\ At(r, "copy")' => At(r, "copy")
        PROVE  Whole
    BY <2>0, <2>1 DEF Holds
  <2>2. ASSUME UNCHANGED <<disk, announced, request>> PROVE Whole
    BY <2>1, <2>2 DEF Serving, At
  <2>3. ASSUME NEW r \in Requests, NEW v \in Uploads, NEW c \in Chunks, AcceptChunk(r, v, c)
        PROVE  Whole
    <3>1. \A q \in Requests : \/ request'[q] = request[q]
                              \/ request'[q].pc = "write"
      BY <1>0, <2>3 DEF AcceptChunk
    <3>2. UNCHANGED <<disk, announced>>
      BY <2>3 DEF AcceptChunk
    <3> QED
      BY <2>0, <3>1, <3>2 DEF Holds, Serving, At
  <2>4. ASSUME NEW r \in Requests, Serve(r) PROVE Whole
    <3> DEFINE v == request[r].upload
    <3>0. /\ \A q \in Requests \ {r} : request'[q] = request[q]
          /\ request[r] \in InFlight /\ r \in Serving(v) /\ v \in DOMAIN upload
      <4>1. ~At(r, "idle") /\ \A q \in Requests \ {r} : request'[q] = request[q]
        BY <1>0, <2>4 DEF Serve, WriteChunk, AccountChunk, AccountAndFinalizeAt,
           RenameIntoPlace, BeginCopy, EndCopy, FailMove, FailCopy, FailCopyInto, SettleUpload, Step, Respond, At
      <4> QED
        BY <1>0, <4>1 DEF Serving, At, InFlight
    \* Whoever finishes u is alone with it.
    <3>1. ASSUME v = u, request[r].pc \in {"move", "copy", "settle"},
                 NEW q \in Requests \ {r}, request[q].pc # "idle", request[q].upload = u
          PROVE  request[q].pc \in {"write", "account"}
      BY <1>0, <2>0, <3>0, <3>1 DEF InTurn, Serving, At
    <3>2. v = u /\ request[r].pc \in {"move", "copy", "settle"} => u \notin announced
      BY <1>0, <2>0, <3>0 DEF InTurn, Serving, At
    <3>3. CASE WriteChunk(r) \/ AccountChunk(r) \/ FailMove(r)
      <4>1. UNCHANGED <<disk, announced>>
        BY <3>3 DEF WriteChunk, AccountChunk, AccountAndFinalizeAt, FailMove
      <4>2. request'[r].pc \notin {"copy", "settle"}
        BY <1>0, <3>0, <3>3 DEF WriteChunk, AccountChunk, AccountAndFinalizeAt, FailMove,
                                Step, Respond, Idle, At, InFlight
      <4> QED
        BY <2>0, <3>0, <4>1, <4>2 DEF Holds, Serving, At
    <3>4. CASE RenameIntoPlace(r)
      <4>1. /\ request[r].pc = "move" /\ v \in DOMAIN temp /\ temp[v] = Chunks
            /\ disk' = With(disk, Target(v), [of |-> {v}, chunks |-> temp[v], torn |-> FALSE])
            /\ request' = [request EXCEPT ![r].pc = "settle"] /\ UNCHANGED announced
        BY <1>0, <3>4 DEF RenameIntoPlace, Step, At, IInv, RequestsAreConsistent, Known,
                          ReceivedIsWritten, TypeOK
      <4>2. request'[r].pc = "settle" /\ request'[r].upload = v
        BY <1>0, <3>0, <4>1 DEF InFlight
      <4>3. CASE v = u
        <5>1. Holds(u, Chunks)'
          BY <2>0, <4>1, <4>3 DEF Holds, With
        <5>2. \A q \in Serving(u)' : ~At(q, "copy")'
          BY <3>0, <3>1, <4>1, <4>2, <4>3 DEF Serving, At
        <5> QED
          BY <5>1, <5>2
      <4>4. CASE v # u
        <5>1. Target(v) # Target(u)
          BY <2>0, <3>0, <4>4
        <5>2. \A chunks : Holds(u, chunks) => Holds(u, chunks)'
          BY <2>0, <4>1, <5>1 DEF Holds, With
        <5> QED
          BY <2>0, <3>0, <4>1, <4>2, <4>4, <5>2 DEF Serving, At
      <4> QED
        BY <4>3, <4>4
    <3>5. CASE BeginCopy(r)
      <4>1. /\ request[r].pc = "move"
            /\ disk' = With(disk, Target(v),
                  [of |-> {v} \cup {request[q].upload : q \in Copying(Target(v))},
                   chunks |-> {},
                   torn |-> Copying(Target(v)) # {} /\ disk[Target(v)].torn])
            /\ request' = [request EXCEPT ![r].pc = "copy", ![r].src = temp[v]]
            /\ UNCHANGED announced
        BY <3>5 DEF BeginCopy, At
      <4>2. request'[r].pc = "copy" /\ request'[r].upload = v
        BY <1>0, <3>0, <4>1 DEF InFlight
      <4>3. CASE v = u
        <5>1. \A q \in Copying(Target(v)) : request[q].upload = u
          <6>1. \A q \in Copying(Target(v)) : /\ request[q].upload \in DOMAIN upload
                                              /\ Target(request[q].upload) = Target(v)
            BY <1>0 DEF Copying, At, InFlight
          <6> QED
            BY <2>0, <4>3, <6>1
        <5>2. Holds(u, {})'
          <6>2. Copying(Target(v)) = {}
            <7>1. ASSUME NEW q \in Copying(Target(v)) PROVE FALSE
              BY <3>1, <4>1, <4>3, <5>1, <7>1 DEF Copying, At
            <7> QED
              BY <7>1
          <6>1. {v} \cup {request[q].upload : q \in Copying(Target(v))} = {u}
            BY <4>3, <5>1
          <6> QED
            BY <2>0, <4>1, <4>3, <6>1, <6>2 DEF Holds, With
        <5>3. \A q \in Serving(u)' : ~At(q, "settle")'
          BY <3>0, <3>1, <4>1, <4>2, <4>3 DEF Serving, At
        <5> QED
          BY <3>2, <4>1, <4>3, <5>2, <5>3
      <4>4. CASE v # u
        <5>1. Target(v) # Target(u)
          BY <2>0, <3>0, <4>4
        <5>2. \A chunks : Holds(u, chunks) => Holds(u, chunks)'
          BY <2>0, <4>1, <5>1 DEF Holds, With
        <5>3. \A q \in Serving(u)' : q \in Serving(u) /\ request'[q] = request[q]
          BY <3>0, <4>2, <4>4 DEF Serving
        <5> QED
          BY <2>0, <4>1, <5>2, <5>3 DEF At
      <4> QED
        BY <4>3, <4>4
    <3>6. CASE EndCopy(r)
      <4>1. /\ request[r].pc = "copy" /\ request[r].src = Chunks
            /\ \/ /\ Copying(Target(v)) = {r} /\ disk[Target(v)].chunks = {}
                  /\ disk' = [disk EXCEPT ![Target(v)].chunks = Chunks]
               \/ /\ \/ Copying(Target(v)) # {r}
                     \/ disk[Target(v)].chunks # {}
                     \/ disk[Target(v)].torn
                  /\ UNCHANGED disk
            /\ request'[r] = Idle \/ request'[r] = [request[r] EXCEPT !.pc = "settle"]
            /\ UNCHANGED announced
        BY <1>0, <3>6 DEF EndCopy, At, Step, Respond, IInv, RequestsAreConsistent, Known
      <4>2. request'[r].pc \notin {"copy"} /\ (request'[r].pc # "idle" => request'[r].upload = v)
        BY <3>0, <4>1 DEF InFlight, Idle
      <4>3. CASE v = u
        <5>1. Holds(u, {})
          BY <2>0, <3>0, <4>1, <4>3 DEF At
        <5>2. Copying(Target(v)) = {r}
          <6>1. r \in Copying(Target(v))
            BY <4>1 DEF Copying, At
          <6>2. ASSUME NEW q \in Copying(Target(v)), q # r PROVE FALSE
            <7>1. /\ q \in Requests /\ request[q].pc = "copy"
                  /\ request[q].upload \in DOMAIN upload
                  /\ Target(request[q].upload) = Target(v)
              BY <1>0, <6>2 DEF Copying, At, InFlight
            <7>2. request[q].upload = u
              BY <2>0, <4>3, <7>1
            <7> QED
              BY <3>1, <4>1, <4>3, <6>2, <7>1, <7>2
          <6> QED
            BY <6>1, <6>2
        <5>3. Holds(u, Chunks)'
          BY <2>0, <4>1, <4>3, <5>1, <5>2 DEF Holds
        <5>4. \A q \in Serving(u)' : ~At(q, "copy")'
          BY <3>0, <3>1, <4>1, <4>2, <4>3 DEF Serving, At
        <5> QED
          BY <5>3, <5>4
      <4>4. CASE v # u
        <5>1. Target(v) # Target(u)
          BY <2>0, <3>0, <4>4
        <5>2. \A chunks : Holds(u, chunks) => Holds(u, chunks)'
          BY <2>0, <4>1, <5>1 DEF Holds
        <5> QED
          BY <2>0, <3>0, <4>1, <4>2, <4>4, <5>2 DEF Serving, At
      <4> QED
        BY <4>3, <4>4
    <3>8. CASE FailCopy(r)
      <4>1. /\ request[r].pc = "copy" /\ request'[r] = Idle /\ UNCHANGED announced
            /\ \A p \in DOMAIN disk : p # Target(v) => disk'[p] = disk[p]
            /\ DOMAIN disk' = DOMAIN disk
        BY <1>0, <3>8 DEF FailCopy, FailCopyInto, At, Respond
      <4>2. \A q \in Serving(u)' : q # r /\ q \in Serving(u) /\ request'[q] = request[q]
        BY <3>0, <4>1 DEF Serving, Idle
      <4>3. CASE v = u
        <5>1. u \notin announced'
          BY <3>2, <4>1, <4>3
        <5>2. \A q \in Serving(u)' : ~At(q, "copy")' /\ ~At(q, "settle")'
          BY <3>1, <4>1, <4>2, <4>3 DEF Serving, At
        <5> QED
          BY <5>1, <5>2
      <4>4. CASE v # u
        <5>1. Target(v) # Target(u)
          BY <2>0, <3>0, <4>4
        <5>2. \A chunks : Holds(u, chunks) => Holds(u, chunks)'
          BY <2>0, <4>1, <5>1 DEF Holds
        <5> QED
          BY <2>0, <4>1, <4>2, <5>2 DEF At
      <4> QED
        BY <4>3, <4>4
    <3>7. CASE SettleUpload(r)
      <4>1. /\ request[r].pc = "settle"
            /\ announced' = announced \cup {v} /\ UNCHANGED disk
            /\ request'[r] = Idle
        BY <1>0, <3>7 DEF SettleUpload, Respond, At
      <4>2. \A q \in Serving(u)' : q \in Serving(u) /\ request'[q] = request[q]
        BY <3>0, <4>1 DEF Serving, Idle
      <4>3. v = u => Holds(u, Chunks)
        BY <2>0, <3>0, <4>1 DEF At
      <4> QED
        BY <2>0, <4>1, <4>2, <4>3 DEF Holds, At
    <3> QED
      BY <2>4, <3>3, <3>4, <3>5, <3>6, <3>7, <3>8 DEF Serve
  <2>5. ASSUME NEW w \in Uploads, NEW n \in Names, NEW ram \in BOOLEAN,
               InitChunkedUpload(w, n, ram)
        PROVE  Whole
    BY <2>2, <2>5 DEF InitChunkedUpload
  <2>6. ASSUME NEW reboot \in BOOLEAN, Crash(reboot) PROVE Whole
    <3>1. Serving(u)' = {} /\ UNCHANGED announced
      BY <2>6 DEF Crash, Serving, Idle
    <3>2. Chunks # {}
      <4>1. 1 \in 1..Total
        BY TotalAssumption
      <4> QED
        BY <4>1 DEF Chunks
    <3>3. Holds(u, Chunks) => Holds(u, Chunks)'
      <4>1. \A p \in DOMAIN disk : disk[p].chunks # {} /\ disk[p].torn = FALSE => disk'[p] = disk[p]
        BY <1>0, <2>6 DEF Crash, TypeOK, MediaFile
      <4>2. DOMAIN disk' = DOMAIN disk
        BY <2>6 DEF Crash
      <4> QED
        BY <2>0, <3>2, <4>1, <4>2 DEF Holds
    <3> QED
      BY <2>0, <3>1, <3>3
  <2> QED
    BY <2>2, <2>3, <2>4, <2>5, <2>6
       DEF Next, CancelChunkedUpload, BecomeStale, CleanupStaleUploads, Cleanup
<1> QED
  BY <1>1, <1>2

(* A step keeps the turns and the files.                                     *)
LEMMA WholeNext ==
  IInv /\ FinishedIsCounted /\ WholeInv /\ [Next]_vars => WholeInv'
<1> SUFFICES ASSUME IInv, FinishedIsCounted, WholeInv, [Next]_vars PROVE WholeInv'
  OBVIOUS
<1>1. CASE Next
  <2>1. \A u \in DOMAIN upload' : FileOfAlone(u)'
    BY <1>1, FilesNext DEF FileOfAlone
  <2> QED
    BY <1>1, <2>1, TurnsNext DEF WholeInv
<1>2. CASE UNCHANGED vars
  BY <1>2 DEF vars, WholeInv, InTurn, FileOfAlone, Alone, Holds, Serving, Target, At
<1> QED
  BY <1>1, <1>2

(* After STORAGE_FILE_UPLOADED the file of an upload that nothing else names *)
(* and that was sent once is there and holds every byte of it, with any      *)
(* number of other uploads, whatever was cancelled, expired or crashed.      *)
THEOREM Announced == Spec => []AnnouncedIsWhole
<1>1. IInv /\ WholeInv => AnnouncedIsWhole
  BY DEF IInv, TypeOK, WholeInv, FileOfAlone, Alone, Holds, AnnouncedIsWhole
<1> QED
  BY <1>1, Safety, SafeInit, SafeNext, CountedInit, CountedNext, WholeInit, WholeNext, PTL DEF Spec

-----------------------------------------------------------------------------
(* Sequences without repetition.                                             *)

Lists(q, S) == q \in Seq(S) /\ IsInjective(q)

\* One after the other, when they have nothing in common.
LEMMA ListConcat ==
  ASSUME NEW T, NEW p, Lists(p, T), NEW q, Lists(q, T), ToSet(p) \cap ToSet(q) = {}
  PROVE  Lists(p \o q, T) /\ ToSet(p \o q) = ToSet(p) \cup ToSet(q)
<1>1. p \in Seq(T) /\ q \in Seq(T) /\ p \o q \in Seq(T)
  BY DEF Lists
<1>2. /\ Len(p \o q) = Len(p) + Len(q) /\ Len(p) \in Nat /\ Len(q) \in Nat
      /\ \A i \in 1..(Len(p) + Len(q)) :
            (p \o q)[i] = IF i <= Len(p) THEN p[i] ELSE q[i - Len(p)]
  BY <1>1
<1>3. DOMAIN p = 1..Len(p) /\ DOMAIN q = 1..Len(q) /\ DOMAIN (p \o q) = 1..(Len(p) + Len(q))
  BY <1>1, <1>2
<1> DEFINE r == p \o q
<1>4. ASSUME NEW i \in DOMAIN r
      PROVE  \/ i \in DOMAIN p /\ r[i] = p[i]
             \/ i - Len(p) \in DOMAIN q /\ r[i] = q[i - Len(p)]
  BY <1>2, <1>3
<1>5. ASSUME NEW i \in DOMAIN p PROVE i \in DOMAIN r /\ r[i] = p[i]
  BY <1>2, <1>3
<1>6. ASSUME NEW i \in DOMAIN q PROVE i + Len(p) \in DOMAIN r /\ r[i + Len(p)] = q[i]
  BY <1>2, <1>3
<1> HIDE DEF r
<1>7. ToSet(r) = ToSet(p) \cup ToSet(q)
  <2>1. ASSUME NEW x \in ToSet(r) PROVE x \in ToSet(p) \cup ToSet(q)
    BY <1>4, <2>1 DEF ToSet
  <2>2. ASSUME NEW x \in ToSet(p) \cup ToSet(q) PROVE x \in ToSet(r)
    BY <1>5, <1>6, <2>2 DEF ToSet
  <2> QED
    BY <2>1, <2>2
<1>8. IsInjective(r)
  <2> SUFFICES ASSUME NEW i \in DOMAIN r, NEW j \in DOMAIN r, r[i] = r[j] PROVE i = j
    BY DEF IsInjective
  <2>1. CASE i \in DOMAIN p /\ j \in DOMAIN p
    BY <1>5, <2>1 DEF Lists, IsInjective
  <2>2. CASE i - Len(p) \in DOMAIN q /\ j - Len(p) \in DOMAIN q /\ i \notin DOMAIN p /\ j \notin DOMAIN p
    <3>1. q[i - Len(p)] = q[j - Len(p)]
      BY <1>4, <2>2
    <3>2. i - Len(p) = j - Len(p)
      BY <2>2, <3>1 DEF Lists, IsInjective
    <3>3. i \in Nat /\ j \in Nat /\ Len(p) \in Nat
      BY <1>2, <1>3 DEF r
    <3> QED
      BY <3>2, <3>3
  <2>3. CASE i \in DOMAIN p /\ j \notin DOMAIN p
    <3>1. r[i] \in ToSet(p) /\ r[j] \in ToSet(q)
      BY <1>4, <1>5, <2>3 DEF ToSet
    <3> QED
      BY <3>1
  <2>4. CASE i \notin DOMAIN p /\ j \in DOMAIN p
    <3>1. r[j] \in ToSet(p) /\ r[i] \in ToSet(q)
      BY <1>4, <1>5, <2>4 DEF ToSet
    <3> QED
      BY <3>1
  <2> QED
    BY <1>4, <2>1, <2>2, <2>3, <2>4
<1> QED
  BY <1>1, <1>7, <1>8 DEF Lists, r

\* The list of a finite set.
LEMMA ListOfSet ==
  ASSUME NEW T, NEW S \in SUBSET T, IsFiniteSet(S)
  PROVE  Lists(SetToSeq(S), T) /\ ToSet(SetToSeq(S)) = S
<1>1. Cardinality(S) \in Nat /\ ExistsBijection(1..Cardinality(S), S)
  BY FS_CardinalityType
<1>2. PICK f \in Bijection(1..Cardinality(S), S) : TRUE
  BY <1>1 DEF ExistsBijection
<1>3. f \in [1..Cardinality(S) -> S] /\ IsInjective(f)
  BY <1>2 DEF Bijection, Injection
<1> DEFINE g == SetToSeq(S)
<1>4. g \in [1..Cardinality(S) -> S] /\ IsInjective(g)
  BY <1>3, Zenon DEF SetToSeq
<1> HIDE DEF g
<1>5. g \in Injection(1..Cardinality(S), S)
  BY <1>4 DEF Injection
<1>6. IsFiniteSet(1..Cardinality(S)) /\ Cardinality(1..Cardinality(S)) = Cardinality(S)
  BY <1>1, FS_Interval
<1>7. g \in Surjection(1..Cardinality(S), S)
  BY <1>5, <1>6, FS_Injection
<1>8. ToSet(g) = S
  BY <1>4, <1>7 DEF Surjection, ToSet
<1>9. g \in Seq(T)
  BY <1>1, <1>4
<1> QED
  BY <1>4, <1>8, <1>9 DEF Lists, g

\* The first of a list, and the others.
LEMMA ListTail ==
  ASSUME NEW T, NEW q, Lists(q, T), q # <<>>
  PROVE  /\ Head(q) \in ToSet(q) /\ Head(q) \in T
         /\ Lists(Tail(q), T) /\ ToSet(Tail(q)) = ToSet(q) \ {Head(q)}
<1>1. /\ q \in Seq(T) /\ Len(q) \in Nat \ {0} /\ DOMAIN q = 1..Len(q)
      /\ Tail(q) \in Seq(T) /\ Len(Tail(q)) = Len(q) - 1
      /\ Head(q) = q[1] /\ \A i \in 1..(Len(q) - 1) : Tail(q)[i] = q[i + 1]
  BY DEF Lists
<1>2. DOMAIN Tail(q) = 1..(Len(q) - 1)
  BY <1>1
<1> DEFINE t == Tail(q)
<1>3. \A i \in DOMAIN t : i + 1 \in DOMAIN q /\ i + 1 # 1 /\ t[i] = q[i + 1]
  BY <1>1, <1>2
<1>4. \A i \in DOMAIN q : i # 1 => i - 1 \in DOMAIN t /\ t[i - 1] = q[i]
  BY <1>1, <1>2
<1>5. 1 \in DOMAIN q /\ \A i, j \in DOMAIN q : q[i] = q[j] => i = j
  BY <1>1 DEF Lists, IsInjective
<1>6. DOMAIN t \subseteq Int
  BY <1>2
<1> HIDE DEF t
<1>7. IsInjective(t)
  BY <1>3, <1>5, <1>6 DEF IsInjective
<1>8. ToSet(t) = ToSet(q) \ {Head(q)}
  <2>1. ASSUME NEW x \in ToSet(t) PROVE x \in ToSet(q) \ {q[1]}
    BY <1>3, <1>5, <2>1 DEF ToSet
  <2>2. ASSUME NEW x \in ToSet(q), x # q[1] PROVE x \in ToSet(t)
    BY <1>4, <2>2 DEF ToSet
  <2> QED
    BY <1>1, <2>1, <2>2
<1>9. Head(q) \in ToSet(q) /\ Head(q) \in T
  BY <1>1 DEF ToSet
<1> QED
  BY <1>1, <1>7, <1>8, <1>9 DEF Lists, t

\* A list without one of its members.
LEMMA ListRemove ==
  ASSUME NEW T, NEW q, Lists(q, T), NEW e \in ToSet(q)
  PROVE  Lists(RemoveFirst(q, e), T) /\ ToSet(RemoveFirst(q, e)) = ToSet(q) \ {e}
<1>1. q \in Seq(T) /\ Len(q) \in Nat /\ DOMAIN q = 1..Len(q)
  BY DEF Lists
<1>2. PICK k \in 1..Len(q) : q[k] = e
  BY <1>1 DEF ToSet
<1>3. \A i \in 1..Len(q) : q[i] = e => i = k
  BY <1>1, <1>2 DEF Lists, IsInjective
<1>4. SelectInSeq(q, LAMBDA v : v = e) = k
  <2>1. {i \in 1..Len(q) : q[i] = e} = {k}
    BY <1>2, <1>3
  <2>2. Min({k}) = k
    BY DEF Min
  <2> QED
    BY <2>1, <2>2 DEF SelectInSeq
<1>5. RemoveFirst(q, e) = SubSeq(q, 1, k - 1) \o SubSeq(q, k + 1, Len(q))
  BY <1>2, <1>4 DEF RemoveFirst, RemoveAt
<1> DEFINE a == SubSeq(q, 1, k - 1)
           b == SubSeq(q, k + 1, Len(q))
<1>6. /\ a \in Seq(T) /\ Len(a) = k - 1 /\ DOMAIN a = 1..(k - 1)
      /\ \A i \in 1..(k - 1) : a[i] = q[i]
  BY <1>1
<1>7. /\ b \in Seq(T) /\ DOMAIN b = 1..(Len(q) - k)
      /\ \A i \in 1..(Len(q) - k) : b[i] = q[i + k]
  <2>1. k + 1 \in Int /\ Len(q) \in Int /\ \A i \in (k + 1)..Len(q) : q[i] \in T
    BY <1>1
  <2>2. /\ b \in Seq(T) /\ Len(b) = IF k + 1 <= Len(q) THEN Len(q) - (k + 1) + 1 ELSE 0
        /\ \A i \in 1..(Len(q) - (k + 1) + 1) : b[i] = q[k + 1 + i - 1]
    BY <2>1, SubSeqProperties
  <2> HIDE DEF b
  <2>3. Len(b) = Len(q) - k /\ Len(q) - (k + 1) + 1 = Len(q) - k
    <3>1. Len(b) = IF k + 1 <= Len(q) THEN Len(q) - (k + 1) + 1 ELSE 0
      BY <2>2
    <3>2. Len(q) \in Nat /\ k \in 1..Len(q)
      BY <1>1, <1>2
    <3> QED
      BY <3>1, <3>2
  <2>4. ASSUME NEW i \in 1..(Len(q) - k) PROVE b[i] = q[i + k]
    <3>1. k + 1 + i - 1 = i + k
      BY <1>1
    <3> QED
      BY <2>2, <2>3, <3>1
  <2> QED
    BY <2>2, <2>3, <2>4
<1> HIDE DEF a, b
<1>8. Lists(a, T) /\ Lists(b, T) /\ ToSet(a) \cap ToSet(b) = {}
  <2>1. \A i, j \in 1..Len(q) : q[i] = q[j] => i = j
    BY <1>1 DEF Lists, IsInjective
  <2>2. IsInjective(a)
    BY <1>1, <1>6, <2>1 DEF IsInjective
  <2>3. IsInjective(b)
    BY <1>1, <1>7, <2>1 DEF IsInjective
  <2>4. ASSUME NEW i \in 1..(k - 1), NEW j \in 1..(Len(q) - k) PROVE a[i] # b[j]
    BY <1>1, <1>6, <1>7, <2>1, <2>4
  <2> QED
    BY <1>6, <1>7, <2>2, <2>3, <2>4 DEF Lists, ToSet
<1>9. ToSet(a) \cup ToSet(b) = ToSet(q) \ {e}
  <2>1. ASSUME NEW x \in ToSet(a) PROVE x \in ToSet(q) \ {e}
    BY <1>1, <1>2, <1>3, <1>6, <2>1 DEF ToSet
  <2>2. ASSUME NEW x \in ToSet(b) PROVE x \in ToSet(q) \ {e}
    <3>1. PICK i \in 1..(Len(q) - k) : x = b[i]
      BY <1>7, <2>2 DEF ToSet
    <3>2. i + k \in 1..Len(q) /\ i + k # k /\ x = q[i + k]
      BY <1>1, <1>7, <3>1
    <3> QED
      BY <1>1, <1>3, <3>2 DEF ToSet
  <2>3. ASSUME NEW x \in ToSet(q), x # e PROVE x \in ToSet(a) \cup ToSet(b)
    <3>1. PICK i \in 1..Len(q) : x = q[i] /\ i # k
      BY <1>1, <1>2, <2>3 DEF ToSet
    <3>2. CASE i \in 1..(k - 1)
      BY <1>6, <3>1, <3>2 DEF ToSet
    <3>3. CASE i - k \in 1..(Len(q) - k)
      <4>1. b[i - k] = q[i]
        BY <1>1, <1>7, <3>3
      <4> QED
        BY <1>7, <3>1, <3>3, <4>1 DEF ToSet
    <3> QED
      BY <1>1, <3>1, <3>2, <3>3
  <2> QED
    BY <2>1, <2>2, <2>3
<1>10. Lists(a \o b, T) /\ ToSet(a \o b) = ToSet(q) \ {e}
  BY <1>8, <1>9, ListConcat
<1> QED
  BY <1>5, <1>10 DEF a, b

\* A list with one more in front.
LEMMA ListCons ==
  ASSUME NEW T, NEW q, Lists(q, T), NEW e \in T, e \notin ToSet(q)
  PROVE  Lists(Cons(e, q), T) /\ ToSet(Cons(e, q)) = ToSet(q) \cup {e}
<1>1. \A s : Lists(s, T) /\ ToSet(s) \cap ToSet(q) = {} =>
                Lists(s \o q, T) /\ ToSet(s \o q) = ToSet(s) \cup ToSet(q)
  BY ListConcat
<1>2. Lists(<<e>>, T) /\ ToSet(<<e>>) = {e} /\ ToSet(<<e>>) \cap ToSet(q) = {}
  BY DEF Lists, ToSet, IsInjective
<1>3. Lists(<<e>> \o q, T) /\ ToSet(<<e>> \o q) = ToSet(<<e>>) \cup ToSet(q)
  BY <1>1, <1>2, Zenon
<1> QED
  BY <1>2, <1>3 DEF Cons

\* A list is as long as the set of its members is large.
LEMMA ListLength ==
  ASSUME NEW T, NEW q, Lists(q, T)
  PROVE  IsFiniteSet(ToSet(q)) /\ Cardinality(ToSet(q)) = Len(q)
<1>1. Len(q) \in Nat /\ DOMAIN q = 1..Len(q) /\ q \in [1..Len(q) -> T]
  BY DEF Lists
<1>2. q \in Injection(1..Len(q), ToSet(q)) /\ q \in Surjection(1..Len(q), ToSet(q))
  BY <1>1 DEF Lists, Injection, Surjection, ToSet, IsInjective
<1>3. ExistsBijection(1..Len(q), ToSet(q))
  BY <1>2 DEF ExistsBijection, Bijection
<1>4. IsFiniteSet(1..Len(q)) /\ Cardinality(1..Len(q)) = Len(q)
  BY <1>1, FS_Interval
<1> QED
  BY <1>3, <1>4, FS_Bijection
\* A finite set of numbers has a least, which is its Min.
LEMMA HasMin ==
  ASSUME NEW S \in SUBSET Nat, IsFiniteSet(S), S # {}
  PROVE  Min(S) \in S
<1> DEFINE Least(T) == \E x \in T : \A y \in T : x <= y
           Bad == {T \in FiniteSubsetsOf(S) : T # {} /\ ~Least(T)}
<1>0. Least(S)
  <2> SUFFICES ASSUME ~Least(S) PROVE FALSE
    OBVIOUS
  <2>1. S \in Bad /\ Bad \subseteq FiniteSubsetsOf(S)
    BY DEF FiniteSubsetsOf
  <2>2. PICK T \in Bad : \A U \in Bad : ~(<<U, T>> \in StrictSubsetOrdering(S))
    BY <2>1, FS_StrictSubsetOrderingWellFounded, WFMin
  <2>3. PICK x \in T : TRUE
    OBVIOUS
  <2>4. T \ {x} \in FiniteSubsetsOf(S) /\ <<T \ {x}, T>> \in StrictSubsetOrdering(S)
    BY FS_Subset, <2>3 DEF FiniteSubsetsOf, StrictSubsetOrdering
  <2>5. T \ {x} = {} \/ Least(T \ {x})
    BY <2>2, <2>4
  <2>6. T \subseteq Nat
    BY DEF FiniteSubsetsOf
  <2>7. T \ {x} # {}
    BY <2>3, <2>6
  <2>8. PICK y \in T \ {x} : \A z \in T \ {x} : y <= z
    BY <2>5, <2>7
  <2>9. CASE y <= x
    BY <2>6, <2>8, <2>9
  <2>10. CASE x <= y
    BY <2>6, <2>8, <2>10, <2>3
  <2> QED
    BY <2>6, <2>9, <2>10
<1> QED
  BY <1>0, Zenon DEF Min

\* What is left of a sequence without one of its members, repeated or not.
LEMMA RemoveType ==
  ASSUME NEW T, NEW q \in Seq(T), NEW e
  PROVE  RemoveFirst(q, e) \in Seq(T)
<1>1. CASE ~\E i \in 1..Len(q) : q[i] = e
  BY <1>1 DEF RemoveFirst
<1>2. CASE \E i \in 1..Len(q) : q[i] = e
  <2> DEFINE I == {i \in 1..Len(q) : q[i] = e}
             k == Min(I)
  <2>1. I \in SUBSET Nat /\ I \subseteq 1..Len(q) /\ I # {}
    BY <1>2
  <2>2. IsFiniteSet(I)
    BY <2>1, FS_Interval, FS_Subset
  <2>3. k \in 1..Len(q)
    BY <2>1, <2>2, HasMin
  <2>4. RemoveFirst(q, e) = SubSeq(q, 1, k - 1) \o SubSeq(q, k + 1, Len(q))
    BY <1>2 DEF RemoveFirst, RemoveAt, SelectInSeq
  <2> HIDE DEF k, I
  <2>5. SubSeq(q, 1, k - 1) \in Seq(T)
    BY <2>3
  <2>6. SubSeq(q, k + 1, Len(q)) \in Seq(T)
    BY <2>3
  <2> QED
    BY <2>4, <2>5, <2>6
<1> QED
  BY <1>1, <1>2

-----------------------------------------------------------------------------
(* Thumbnails: every task is in one place.                                   *)

\* Until a quiesce has given up on the workers, no task is twice in the queues or the
\* workers' hands, and the keys are those of the tasks that are there.
TasksOnce ==
    ~interrupted =>
        /\ IsInjective(priority) /\ IsInjective(regular)
        /\ ToSet(priority) \cap ToSet(regular) = {}
        /\ \A w \in Active : working[w] \notin ToSet(priority) \cup ToSet(regular)
        /\ \A v, w \in Active : working[v] = working[w] => v = w
        /\ keys = ToSet(priority) \cup ToSet(regular) \cup {working[w] : w \in Active}

ThumbnailsInv == ThumbnailsTypeOK /\ TasksOnce

LEMMA ThumbnailsInitHolds == ThumbnailsInit => ThumbnailsInv
<1> SUFFICES ASSUME ThumbnailsInit PROVE ThumbnailsInv
  OBVIOUS
<1>1. priority = <<>> /\ regular = <<>> /\ ToSet(<<>>) = {} /\ IsInjective(<<>>)
  BY DEF ThumbnailsInit, ToSet, IsInjective
<1>2. Active = {}
  BY ThumbnailAssumption DEF ThumbnailsInit, Active
<1>3. ThumbnailsTypeOK
  <2>1. priority \in Seq(Tasks) /\ regular \in Seq(Tasks)
    BY DEF ThumbnailsInit
  <2>2. /\ stats \in [ThumbnailCategories -> Counts \cup {NoTask}]
        /\ working \in [Workers -> Tasks \cup {NoTask, Waiting}]
        /\ batch \in [Batchers -> SUBSET Tasks]
        /\ clearing \in [Clearers -> {"no", "quiescing", "purging", "done"}]
    BY DEF ThumbnailsInit
  <2>3. requests \in 0..MaxRequests
    BY ThumbnailAssumption DEF ThumbnailsInit
  <2> QED
    BY <2>1, <2>2, <2>3 DEF ThumbnailsInit, ThumbnailsTypeOK
<1> QED
  BY <1>1, <1>2, <1>3 DEF ThumbnailsInit, ThumbnailsInv, TasksOnce

\* Putting tasks into the queues.
LEMMA EnqueueKeeps ==
  ASSUME ThumbnailsInv, NEW ts \in SUBSET Tasks, ts \cap keys = {}, Enqueue(ts),
         UNCHANGED <<working, interrupted>>
  PROVE  /\ priority' \in Seq(Tasks) /\ regular' \in Seq(Tasks) /\ keys' \subseteq Tasks
         /\ TasksOnce'
<1> DEFINE front == {t \in ts : CategoryOf(t) \in boosted}
           p == SetToSeq(front)
           r == SetToSeq(ts \ front)
<1>1. /\ priority' = priority \o p /\ regular' = regular \o r /\ keys' = keys \cup ts
  BY DEF Enqueue
<1>2. /\ front \in SUBSET Tasks /\ IsFiniteSet(front)
      /\ ts \ front \in SUBSET Tasks /\ IsFiniteSet(ts \ front)
  BY ThumbnailAssumption, FS_Subset
<1>3. /\ Lists(p, Tasks) /\ ToSet(p) = front /\ Lists(r, Tasks) /\ ToSet(r) = ts \ front
  BY <1>2, ListOfSet
<1>4. front \cup (ts \ front) = ts /\ front \cap (ts \ front) = {}
  OBVIOUS
<1> HIDE DEF front, p, r
<1>5. priority \in Seq(Tasks) /\ regular \in Seq(Tasks) /\ keys \subseteq Tasks
  BY DEF ThumbnailsInv, ThumbnailsTypeOK
<1>6. priority' \in Seq(Tasks) /\ regular' \in Seq(Tasks) /\ keys' \subseteq Tasks
  BY <1>1, <1>3, <1>5 DEF Lists
<1>7. ASSUME ~interrupted PROVE TasksOnce'
  <2>1. /\ Lists(priority, Tasks) /\ Lists(regular, Tasks)
        /\ ToSet(priority) \cap ToSet(regular) = {}
        /\ \A w \in Active : working[w] \notin ToSet(priority) \cup ToSet(regular)
        /\ \A v, w \in Active : working[v] = working[w] => v = w
        /\ keys = ToSet(priority) \cup ToSet(regular) \cup {working[w] : w \in Active}
    BY <1>5, <1>7 DEF ThumbnailsInv, TasksOnce, Lists
  <2>2. ToSet(priority) \cap ToSet(p) = {} /\ ToSet(regular) \cap ToSet(r) = {}
    BY <1>3, <1>4, <2>1
  <2>3. /\ Lists(priority', Tasks) /\ ToSet(priority') = ToSet(priority) \cup front
        /\ Lists(regular', Tasks) /\ ToSet(regular') = ToSet(regular) \cup (ts \ front)
    BY <1>1, <1>3, <2>1, <2>2, ListConcat
  <2>4. Active' = Active
    BY DEF Active
  <2>5. \A w \in Active : working[w] \in keys
    BY <2>1
  <2>6. \A w \in Active : working[w] \notin ts
    BY <2>5
  <2>7. ToSet(priority') \cap ToSet(regular') = {}
    BY <1>4, <2>1, <2>3
  <2>8. \A w \in Active : working[w] \notin ToSet(priority') \cup ToSet(regular')
    BY <1>4, <2>1, <2>3, <2>6
  <2>9. keys' = ToSet(priority') \cup ToSet(regular') \cup {working[w] : w \in Active}
    BY <1>1, <1>4, <2>1, <2>3
  <2> QED
    BY <2>1, <2>3, <2>4, <2>7, <2>8, <2>9 DEF TasksOnce, Lists
<1> QED
  BY <1>6, <1>7 DEF TasksOnce

\* What is counted stays a count, or nothing.
LEMMA CountsType ==
  ASSUME ThumbnailsTypeOK, NEW c \in ThumbnailCategories, NEW s \in Counts \cup {NoTask},
         NEW seen \in SUBSET ThumbnailCategories
  PROVE  /\ Count(c, s, seen) => /\ stats' \in [ThumbnailCategories -> Counts \cup {NoTask}]
                                 /\ processing' \subseteq ThumbnailCategories
         /\ Dropped(s) \in Counts
         /\ stats[c] \in Counts \cup {NoTask}
         /\ [stats EXCEPT ![c] = s] \in [ThumbnailCategories -> Counts \cup {NoTask}]
<1>1. Dropped(s) \in Counts
  BY DEF Dropped, Counts
<1> QED
  BY <1>1 DEF Count, ThumbnailsTypeOK

LEMMA ProceedType ==
  ASSUME ThumbnailsTypeOK, NEW b \in Batchers, NEW c \in ThumbnailCategories,
         NEW left \in SUBSET Tasks, NEW s \in Counts \cup {NoTask},
         NEW seen \in SUBSET ThumbnailCategories, Proceed(b, c, left, s, seen)
  PROVE  /\ batch' \in [Batchers -> SUBSET Tasks]
         /\ stats' \in [ThumbnailCategories -> Counts \cup {NoTask}]
         /\ processing' \subseteq ThumbnailCategories
<1>1. batch' \in [Batchers -> SUBSET Tasks]
  BY DEF Proceed, ThumbnailsTypeOK
<1>2. CASE left # {}
  BY <1>1, <1>2 DEF Proceed, ThumbnailsTypeOK
<1>3. CASE left = {}
  <2> DEFINE e == IF s = NoTask THEN s ELSE [s EXCEPT !.batch_mode = FALSE]
  <2>1. e \in Counts \cup {NoTask}
    BY DEF Counts
  <2>2. Count(c, e, seen)
    BY <1>3 DEF Proceed
  <2> HIDE DEF e
  <2> QED
    BY <1>1, <2>1, <2>2, CountsType
<1> QED
  BY <1>2, <1>3

LEMMA CategoryOfTask == \A t \in Tasks : CategoryOf(t) \in ThumbnailCategories
  BY DEF ThumbnailCategories

\* Steps that touch neither the queues nor the workers.
LEMMA OtherVariables ==
  ASSUME ThumbnailsInv, ThumbnailsTypeOK', UNCHANGED <<priority, regular, keys, working, interrupted>>
  PROVE  ThumbnailsInv'
  BY DEF ThumbnailsInv, TasksOnce, Active

LEMMA RequestKeeps ==
  ASSUME ThumbnailsInv, NEW t \in Tasks, RequestThumbnail(t)
  PROVE  ThumbnailsInv'
<1>0. ThumbnailsTypeOK /\ CategoryOf(t) \in ThumbnailCategories
  BY CategoryOfTask DEF ThumbnailsInv
<1>1. /\ t \notin keys /\ UNCHANGED <<boosted, working, batch, paused, clearing, interrupted>>
      /\ requests' \in 0..MaxRequests
  BY <1>0, ThumbnailAssumption DEF RequestThumbnail, MayRequest, ThumbnailsTypeOK
<1>2. CASE Room > 0
  <2>1. Enqueue({t}) /\ processing' = processing \cup {CategoryOf(t)} /\ UNCHANGED stats
    BY <1>2 DEF RequestThumbnail
  <2>2. /\ priority' \in Seq(Tasks) /\ regular' \in Seq(Tasks) /\ keys' \subseteq Tasks
        /\ TasksOnce'
    <3>1. {t} \in SUBSET Tasks /\ {t} \cap keys = {}
      BY <1>1
    <3> QED
      BY <1>1, <2>1, <3>1, EnqueueKeeps
  <2> QED
    BY <1>0, <1>1, <2>1, <2>2 DEF ThumbnailsInv, ThumbnailsTypeOK
<1>3. CASE ~(Room > 0)
  <2>1. /\ stats' = [stats EXCEPT ![CategoryOf(t)] = Dropped(@)]
        /\ UNCHANGED <<priority, regular, keys, processing>>
    BY <1>3 DEF RequestThumbnail, queueVars
  <2>2. stats[CategoryOf(t)] \in Counts \cup {NoTask}
    BY <1>0 DEF ThumbnailsTypeOK
  <2>3. Dropped(stats[CategoryOf(t)]) \in Counts
    BY <1>0, <2>2, CountsType
  <2>4. stats' \in [ThumbnailCategories -> Counts \cup {NoTask}]
    BY <1>0, <2>1, <2>3 DEF ThumbnailsTypeOK
  <2>5. ThumbnailsTypeOK'
    BY <1>0, <1>1, <2>1, <2>4 DEF ThumbnailsTypeOK
  <2> QED
    BY <1>1, <2>1, <2>5, OtherVariables
<1> QED
  BY <1>2, <1>3

LEMMA BatchKeeps ==
  ASSUME ThumbnailsInv, NEW b \in Batchers, NEW c \in ThumbnailCategories,
         StartBatch(b, c) \/ ContinueBatch(b, c)
  PROVE  ThumbnailsInv'
<1>0. ThumbnailsTypeOK
  BY DEF ThumbnailsInv
<1>1. CASE StartBatch(b, c)
  <2>1. PICK ts \in SUBSET Tasks :
            /\ batch' = [batch EXCEPT ![b] = ts]
            /\ stats' = [stats EXCEPT ![c] = Counting(Cardinality(ts))]
    BY <1>1 DEF StartBatch
  <2>2. Counting(Cardinality(ts)) \in Counts
    BY ThumbnailAssumption, FS_Subset, FS_CardinalityType DEF Counting, Counts
  <2>3. /\ batch' \in [Batchers -> SUBSET Tasks]
        /\ stats' \in [ThumbnailCategories -> Counts \cup {NoTask}]
    BY <1>0, <2>1, <2>2 DEF ThumbnailsTypeOK
  <2>4. /\ processing' \subseteq ThumbnailCategories /\ requests' \in 0..MaxRequests
        /\ UNCHANGED <<priority, regular, keys, boosted, working, paused, clearing, interrupted>>
    BY <1>0, <1>1, ThumbnailAssumption DEF StartBatch, MayRequest, ThumbnailsTypeOK, queueVars
  <2>5. ThumbnailsTypeOK'
    BY <1>0, <2>3, <2>4 DEF ThumbnailsTypeOK
  <2> QED
    BY <2>4, <2>5, OtherVariables
<1>2. CASE ContinueBatch(b, c)
  <2>1. PICK ts \in SUBSET batch[b] :
            /\ Enqueue(ts \ keys)
            /\ Proceed(b, c, batch[b] \ ts, stats[c],
                       IF ts \subseteq keys THEN processing ELSE processing \cup {c})
    BY <1>2 DEF ContinueBatch
  <2>2. UNCHANGED <<boosted, working, paused, clearing, interrupted, requests>>
    BY <1>2 DEF ContinueBatch
  <2>3. batch[b] \in SUBSET Tasks /\ ts \in SUBSET Tasks /\ batch[b] \ ts \in SUBSET Tasks
        /\ stats[c] \in Counts \cup {NoTask}
        /\ (IF ts \subseteq keys THEN processing ELSE processing \cup {c})
                \in SUBSET ThumbnailCategories
    BY <1>0, <2>1 DEF ThumbnailsTypeOK
  <2>4. /\ batch' \in [Batchers -> SUBSET Tasks]
        /\ stats' \in [ThumbnailCategories -> Counts \cup {NoTask}]
        /\ processing' \subseteq ThumbnailCategories
    BY <1>0, <2>1, <2>3, ProceedType
  <2>5. ts \ keys \in SUBSET Tasks /\ (ts \ keys) \cap keys = {}
    BY <2>3
  <2>6. /\ priority' \in Seq(Tasks) /\ regular' \in Seq(Tasks) /\ keys' \subseteq Tasks
        /\ TasksOnce'
    BY <2>1, <2>2, <2>5, EnqueueKeeps
  <2> QED
    BY <1>0, <2>2, <2>4, <2>6 DEF ThumbnailsInv, ThumbnailsTypeOK
<1> QED
  BY <1>1, <1>2

LEMMA DropKeeps ==
  ASSUME ThumbnailsInv, NEW b \in Batchers, NEW t \in Tasks, DropTask(b, t)
  PROVE  ThumbnailsInv'
<1>0. ThumbnailsTypeOK /\ CategoryOf(t) \in ThumbnailCategories
  BY CategoryOfTask DEF ThumbnailsInv
<1>1. /\ Proceed(b, CategoryOf(t), batch[b] \ {t}, Dropped(stats[CategoryOf(t)]), processing)
      /\ UNCHANGED <<priority, regular, keys, boosted, working, paused, clearing, interrupted, requests>>
  BY DEF DropTask, queueVars
<1>2. /\ batch[b] \ {t} \in SUBSET Tasks /\ stats[CategoryOf(t)] \in Counts \cup {NoTask}
      /\ processing \in SUBSET ThumbnailCategories
  BY <1>0 DEF ThumbnailsTypeOK
<1>3. Dropped(stats[CategoryOf(t)]) \in Counts \cup {NoTask}
  BY <1>0, <1>2, CountsType
<1>4. /\ batch' \in [Batchers -> SUBSET Tasks]
      /\ stats' \in [ThumbnailCategories -> Counts \cup {NoTask}]
      /\ processing' \subseteq ThumbnailCategories
  BY <1>0, <1>1, <1>2, <1>3, ProceedType
<1>5. ThumbnailsTypeOK'
  BY <1>0, <1>1, <1>4 DEF ThumbnailsTypeOK
<1> QED
  BY <1>1, <1>5, OtherVariables

\* The four places a task may be in when a page shows it.
LEMMA PrioritizeKeeps ==
  ASSUME ThumbnailsInv, NEW t \in Tasks, Prioritize(t)
  PROVE  ThumbnailsInv'
<1>0. ThumbnailsTypeOK /\ CategoryOf(t) \in ThumbnailCategories
  BY CategoryOfTask DEF ThumbnailsInv
<1>1. /\ boosted' \subseteq ThumbnailCategories /\ requests' \in 0..MaxRequests
      /\ UNCHANGED <<stats, processing, working, batch, paused, clearing, interrupted>>
  BY <1>0, ThumbnailAssumption DEF Prioritize, MayRequest, ThumbnailsTypeOK, countVars
<1>2. /\ priority \in Seq(Tasks) /\ regular \in Seq(Tasks) /\ keys \subseteq Tasks
  BY <1>0 DEF ThumbnailsTypeOK
<1>3. /\ RemoveFirst(priority, t) \in Seq(Tasks) /\ RemoveFirst(regular, t) \in Seq(Tasks)
  BY <1>2, RemoveType
<1>4. \A q \in Seq(Tasks) : Cons(t, q) \in Seq(Tasks)
  BY DEF Cons
<1>5. ToSet(priority \o regular) = ToSet(priority) \cup ToSet(regular) \/ interrupted
  BY <1>2, ListConcat DEF ThumbnailsInv, TasksOnce, Lists
<1> DEFINE Once == Lists(priority, Tasks) /\ Lists(regular, Tasks)
                   /\ ToSet(priority) \cap ToSet(regular) = {}
<1>6. ~interrupted => Once
  BY <1>2 DEF ThumbnailsInv, TasksOnce, Lists
<1>7. Active' = Active
  BY <1>1 DEF Active
<1>8. ASSUME priority' \in Seq(Tasks), regular' \in Seq(Tasks), keys' \subseteq Tasks,
             ~interrupted => /\ Once'
                             /\ ToSet(priority') \cup ToSet(regular')
                                    = (ToSet(priority) \cup ToSet(regular)) \cup (keys' \ keys)
                             /\ keys \subseteq keys'
      PROVE  ThumbnailsInv'
  <2>1. ThumbnailsTypeOK'
    BY <1>0, <1>1, <1>8 DEF ThumbnailsTypeOK
  <2>2. ASSUME ~interrupted PROVE TasksOnce'
    <3>1. /\ \A w \in Active : working[w] \notin ToSet(priority) \cup ToSet(regular)
          /\ \A v, w \in Active : working[v] = working[w] => v = w
          /\ keys = ToSet(priority) \cup ToSet(regular) \cup {working[w] : w \in Active}
      BY <2>2 DEF ThumbnailsInv, TasksOnce
    <3>2. \A w \in Active : working[w] \in keys
      BY <3>1
    <3>3. \A w \in Active : working[w] \notin ToSet(priority') \cup ToSet(regular')
      BY <1>8, <2>2, <3>1, <3>2
    <3>4. keys' = ToSet(priority') \cup ToSet(regular') \cup {working[w] : w \in Active}
      BY <1>8, <2>2, <3>1
    <3> QED
      BY <1>1, <1>7, <1>8, <2>2, <3>1, <3>3, <3>4 DEF TasksOnce, Lists
  <2> QED
    BY <1>1, <2>1, <2>2 DEF ThumbnailsInv, TasksOnce
<1> HIDE DEF Once
<1>9. CASE /\ t \in ToSet(priority)
           /\ priority' = Cons(t, RemoveFirst(priority, t)) /\ UNCHANGED <<regular, keys>>
  <2>1. ASSUME Once
        PROVE  /\ Lists(priority', Tasks) /\ ToSet(priority') = ToSet(priority)
    <3>1. /\ Lists(RemoveFirst(priority, t), Tasks)
          /\ ToSet(RemoveFirst(priority, t)) = ToSet(priority) \ {t}
      BY <1>9, <2>1, ListRemove DEF Once
    <3>2. t \notin ToSet(RemoveFirst(priority, t))
      BY <3>1
    <3>3. /\ Lists(Cons(t, RemoveFirst(priority, t)), Tasks)
          /\ ToSet(Cons(t, RemoveFirst(priority, t))) = ToSet(RemoveFirst(priority, t)) \cup {t}
      BY <3>1, <3>2, ListCons
    <3> QED
      BY <1>9, <3>1, <3>3
  <2>2. priority' \in Seq(Tasks)
    BY <1>3, <1>4, <1>9
  <2>3. Once => Once'
    BY <1>9, <2>1 DEF Once
  <2> QED
    BY <1>2, <1>6, <1>8, <1>9, <2>1, <2>2, <2>3
<1>10. CASE /\ t \notin ToSet(priority) /\ t \in ToSet(regular)
            /\ priority' = Cons(t, priority) /\ regular' = RemoveFirst(regular, t)
            /\ UNCHANGED keys
  <2>1. ASSUME Once
        PROVE  /\ Lists(priority', Tasks) /\ ToSet(priority') = ToSet(priority) \cup {t}
               /\ Lists(regular', Tasks) /\ ToSet(regular') = ToSet(regular) \ {t}
    BY <1>10, <2>1, ListRemove, ListCons DEF Once
  <2>2. priority' \in Seq(Tasks) /\ regular' \in Seq(Tasks)
    BY <1>2, <1>3, <1>4, <1>10
  <2>3. Once => Once'
    BY <2>1 DEF Once
  <2>4. Once => ToSet(priority') \cup ToSet(regular') = ToSet(priority) \cup ToSet(regular)
    BY <1>10, <2>1
  <2> QED
    BY <1>2, <1>6, <1>8, <1>10, <2>2, <2>3, <2>4
<1>11. CASE /\ t \notin keys \cup ToSet(priority \o regular)
            /\ priority' = Cons(t, priority) /\ keys' = keys \cup {t} /\ UNCHANGED regular
  <2>1. ASSUME Once, ~interrupted
        PROVE  /\ Lists(priority', Tasks) /\ ToSet(priority') = ToSet(priority) \cup {t}
               /\ t \notin ToSet(regular)
    BY <1>5, <1>11, <2>1, ListCons DEF Once
  <2>2. priority' \in Seq(Tasks) /\ keys' \subseteq Tasks
    BY <1>2, <1>4, <1>11
  <2>3. Once /\ ~interrupted => Once'
    BY <1>11, <2>1 DEF Once
  <2>4. Once /\ ~interrupted =>
            ToSet(priority') \cup ToSet(regular')
                = (ToSet(priority) \cup ToSet(regular)) \cup (keys' \ keys)
    BY <1>11, <2>1
  <2> QED
    BY <1>2, <1>6, <1>8, <1>11, <2>2, <2>3, <2>4
<1>12. CASE UNCHANGED <<priority, regular, keys>>
  <2>1. ThumbnailsTypeOK'
    BY <1>0, <1>1, <1>12 DEF ThumbnailsTypeOK
  <2> QED
    BY <1>1, <1>12, <2>1, OtherVariables
<1> QED
  BY <1>9, <1>10, <1>11, <1>12 DEF Prioritize, queueVars

\* Boosts and counts expire.
LEMMA StatusKeeps ==
  ASSUME ThumbnailsInv, NEW c \in ThumbnailCategories, BoostExpires(c) \/ GetStatus(c)
  PROVE  ThumbnailsInv'
<1>0. ThumbnailsTypeOK
  BY DEF ThumbnailsInv
<1>1. CASE BoostExpires(c)
  <2>1. ThumbnailsTypeOK'
    BY <1>0, <1>1 DEF BoostExpires, ThumbnailsTypeOK, queueVars, countVars
  <2> QED
    BY <1>1, <2>1, OtherVariables DEF BoostExpires, queueVars
<1>2. CASE GetStatus(c)
  <2>1. stats' \in [ThumbnailCategories -> Counts \cup {NoTask}]
    BY <1>0, <1>2 DEF GetStatus, ThumbnailsTypeOK
  <2>2. ThumbnailsTypeOK'
    BY <1>0, <1>2, <2>1 DEF GetStatus, ThumbnailsTypeOK, queueVars
  <2> QED
    BY <1>2, <2>2, OtherVariables DEF GetStatus, queueVars
<1> QED
  BY <1>1, <1>2

\* A worker comes to the queues, takes a task, finds none, or is done with one.
LEMMA WorkerKeeps ==
  ASSUME ThumbnailsInv, NEW w \in Workers, WorkOn(w) \/ FindNothing(w)
  PROVE  ThumbnailsInv'
<1>0. ThumbnailsTypeOK /\ TasksOnce
  BY DEF ThumbnailsInv
<1>1. \A v \in Workers : v \in Active <=> working[v] \in Tasks
  BY DEF Active
<1>2. NoTask \notin Tasks /\ Waiting \notin Tasks
  BY ThumbnailAssumption
<1>3. CASE AwaitTask(w) \/ FindNothing(w)
  <2>1. /\ working' \in [Workers -> Tasks \cup {NoTask, Waiting}]
        /\ \A v \in Workers : v # w => working'[v] = working[v]
        /\ working[w] \notin Tasks /\ working'[w] \notin Tasks
    BY <1>0, <1>2, <1>3 DEF AwaitTask, FindNothing, ThumbnailsTypeOK
  <2>2. Active' = Active /\ \A v \in Active : working'[v] = working[v]
    BY <1>1, <2>1 DEF Active
  <2>3. UNCHANGED <<priority, regular, keys, stats, processing, boosted, batch, paused, clearing,
                    interrupted, requests>>
    BY <1>3 DEF AwaitTask, FindNothing, queueVars, countVars
  <2>4. ThumbnailsTypeOK'
    BY <1>0, <2>1, <2>3 DEF ThumbnailsTypeOK
  <2>5. {working'[v] : v \in Active'} = {working[v] : v \in Active}
    BY <2>2
  <2> QED
    BY <1>0, <2>2, <2>3, <2>4, <2>5 DEF ThumbnailsInv, TasksOnce
<1>4. CASE TakeTask(w)
  <2>1. /\ working[w] = Waiting /\ w \notin Active
        /\ UNCHANGED <<keys, stats, processing, boosted, batch, paused, clearing, interrupted,
                       requests>>
    BY <1>1, <1>2, <1>4 DEF TakeTask, countVars
  <2>2. /\ priority \in Seq(Tasks) /\ regular \in Seq(Tasks)
    BY <1>0 DEF ThumbnailsTypeOK
  <2>3. ASSUME NEW t \in Tasks, working' = [working EXCEPT ![w] = t],
               priority' \in Seq(Tasks), regular' \in Seq(Tasks),
               ~interrupted =>
                    /\ IsInjective(priority') /\ IsInjective(regular')
                    /\ t \in ToSet(priority) \cup ToSet(regular)
                    /\ ToSet(priority') \subseteq ToSet(priority)
                    /\ ToSet(regular') \subseteq ToSet(regular)
                    /\ ToSet(priority') \cup ToSet(regular')
                            = (ToSet(priority) \cup ToSet(regular)) \ {t}
        PROVE  ThumbnailsInv'
    <3>1. ThumbnailsTypeOK'
      BY <1>0, <2>1, <2>3 DEF ThumbnailsTypeOK
    <3>2. /\ working'[w] = t /\ \A v \in Workers : v # w => working'[v] = working[v]
      BY <1>0, <2>3 DEF ThumbnailsTypeOK
    <3>3. Active' = Active \cup {w}
      BY <1>1, <3>2 DEF Active
    <3>4. {working'[v] : v \in Active'} = {working[v] : v \in Active} \cup {t}
      BY <2>1, <3>2, <3>3 DEF Active
    <3>5. ASSUME ~interrupted PROVE TasksOnce'
      <4>1. /\ ToSet(priority) \cap ToSet(regular) = {}
            /\ \A v \in Active : working[v] \notin ToSet(priority) \cup ToSet(regular)
            /\ \A u, v \in Active : working[u] = working[v] => u = v
            /\ keys = ToSet(priority) \cup ToSet(regular) \cup {working[v] : v \in Active}
        BY <1>0, <3>5 DEF TasksOnce
      <4>2. \A v \in Active : v \in Workers /\ v # w /\ working'[v] = working[v] /\ working[v] # t
        BY <2>1, <2>3, <3>2, <3>5, <4>1 DEF Active
      <4>3. \A v \in Active' : working'[v] \notin ToSet(priority') \cup ToSet(regular')
        BY <2>3, <3>2, <3>3, <3>5, <4>1, <4>2
      <4>4. \A u, v \in Active' : working'[u] = working'[v] => u = v
        BY <3>2, <3>3, <4>1, <4>2
      <4>5. keys' = ToSet(priority') \cup ToSet(regular') \cup {working'[v] : v \in Active'}
        BY <2>1, <2>3, <3>4, <3>5, <4>1
      <4>6. ToSet(priority') \cap ToSet(regular') = {}
        BY <2>3, <3>5, <4>1
      <4> QED
        BY <2>3, <3>5, <4>3, <4>4, <4>5, <4>6 DEF TasksOnce
    <3> QED
      BY <2>1, <3>1, <3>5 DEF ThumbnailsInv, TasksOnce
  <2>4. CASE /\ priority # <<>> /\ working' = [working EXCEPT ![w] = Head(priority)]
             /\ priority' = Tail(priority) /\ UNCHANGED regular
    <3>1. Head(priority) \in Tasks /\ Tail(priority) \in Seq(Tasks)
      BY <2>2, <2>4
    <3>2. ASSUME ~interrupted
          PROVE  /\ IsInjective(priority') /\ IsInjective(regular')
                 /\ Head(priority) \in ToSet(priority)
                 /\ ToSet(priority') = ToSet(priority) \ {Head(priority)}
                 /\ ToSet(priority) \cap ToSet(regular) = {}
      BY <1>0, <2>2, <2>4, <3>2, ListTail DEF TasksOnce, Lists
    <3> QED
      BY <2>2, <2>3, <2>4, <3>1, <3>2
  <2>5. CASE /\ regular # <<>> /\ working' = [working EXCEPT ![w] = Head(regular)]
             /\ regular' = Tail(regular) /\ UNCHANGED priority
    <3>1. Head(regular) \in Tasks /\ Tail(regular) \in Seq(Tasks)
      BY <2>2, <2>5
    <3>2. ASSUME ~interrupted
          PROVE  /\ IsInjective(priority') /\ IsInjective(regular')
                 /\ Head(regular) \in ToSet(regular)
                 /\ ToSet(regular') = ToSet(regular) \ {Head(regular)}
                 /\ ToSet(priority) \cap ToSet(regular) = {}
      BY <1>0, <2>2, <2>5, <3>2, ListTail DEF TasksOnce, Lists
    <3> QED
      BY <2>2, <2>3, <2>5, <3>1, <3>2
  <2> QED
    BY <1>4, <2>4, <2>5 DEF TakeTask
<1>5. CASE FinishTask(w)
  <2>1. /\ w \in Active /\ keys' = keys \ {working[w]}
        /\ working' = [working EXCEPT ![w] = NoTask]
        /\ UNCHANGED <<priority, regular, boosted, batch, paused, clearing, interrupted, requests>>
    BY <1>5 DEF FinishTask
  <2>2. /\ working' \in [Workers -> Tasks \cup {NoTask, Waiting}] /\ working'[w] = NoTask
        /\ \A v \in Workers : v # w => working'[v] = working[v]
    BY <1>0, <2>1 DEF ThumbnailsTypeOK
  <2>3. Active' = Active \ {w}
    BY <1>1, <1>2, <2>2 DEF Active
  <2>4. /\ stats' \in [ThumbnailCategories -> Counts \cup {NoTask}]
        /\ processing' \subseteq ThumbnailCategories
    <3>1. working[w] \in Tasks
      BY <2>1 DEF Active
    <3> DEFINE c == CategoryOf(working[w])
    <3>2. c \in ThumbnailCategories /\ stats[c] \in Counts \cup {NoTask}
      BY <1>0, <3>1, CategoryOfTask DEF ThumbnailsTypeOK
    <3>3. CASE stats[c] = NoTask
      BY <1>0, <1>5, <3>3 DEF FinishTask, ThumbnailsTypeOK, countVars
    <3>4. CASE stats[c] # NoTask
      <4> DEFINE s == [stats[c] EXCEPT !.processed = @ + 1]
      <4>1. Count(c, s, processing)
        BY <1>5, <3>4 DEF FinishTask
      <4>2. s \in Counts
        BY <3>2, <3>4 DEF Counts
      <4>3. processing \in SUBSET ThumbnailCategories
        BY <1>0 DEF ThumbnailsTypeOK
      <4> HIDE DEF s, c
      <4> QED
        BY <1>0, <3>2, <4>1, <4>2, <4>3, CountsType
    <3> QED
      BY <3>3, <3>4
  <2>5. ThumbnailsTypeOK'
    BY <1>0, <2>1, <2>2, <2>4 DEF ThumbnailsTypeOK
  <2>6. ASSUME ~interrupted PROVE TasksOnce'
    <3>1. /\ \A v \in Active : working[v] \notin ToSet(priority) \cup ToSet(regular)
          /\ \A u, v \in Active : working[u] = working[v] => u = v
          /\ keys = ToSet(priority) \cup ToSet(regular) \cup {working[v] : v \in Active}
          /\ IsInjective(priority) /\ IsInjective(regular)
          /\ ToSet(priority) \cap ToSet(regular) = {}
      BY <1>0, <2>6 DEF TasksOnce
    <3>2. \A v \in Active' : v \in Active /\ working'[v] = working[v] /\ working[v] # working[w]
      BY <2>1, <2>2, <2>3, <3>1 DEF Active
    <3>3. {working'[v] : v \in Active'} = {working[v] : v \in Active} \ {working[w]}
      BY <2>1, <2>3, <3>1, <3>2
    <3>4. keys' = ToSet(priority) \cup ToSet(regular) \cup {working'[v] : v \in Active'}
      BY <2>1, <3>1, <3>3
    <3> QED
      BY <2>1, <3>1, <3>2, <3>4 DEF TasksOnce
  <2> QED
    BY <2>1, <2>5, <2>6 DEF ThumbnailsInv, TasksOnce
<1> QED
  BY <1>3, <1>4, <1>5 DEF WorkOn

\* The administrator's request: the quiesce forgets everything, and says so when it
\* forgets a task that is worked on.
LEMMA ClearKeeps ==
  ASSUME ThumbnailsInv, NEW a \in Clearers,
         BeginClear(a) \/ DrainQueues(a) \/ ResumeWorkers(a) \/ AbandonClear(a)
  PROVE  ThumbnailsInv'
<1>0. ThumbnailsTypeOK
  BY DEF ThumbnailsInv
<1>1. clearing' \in [Clearers -> {"no", "quiescing", "purging", "done"}]
  BY <1>0 DEF BeginClear, DrainQueues, ResumeWorkers, AbandonClear, ThumbnailsTypeOK
<1>2. CASE BeginClear(a) \/ ResumeWorkers(a) \/ AbandonClear(a)
  <2>1. /\ paused' \in BOOLEAN
        /\ UNCHANGED <<priority, regular, keys, stats, processing, boosted, working, batch,
                       interrupted, requests>>
    BY <1>0, <1>2 DEF BeginClear, ResumeWorkers, AbandonClear, ThumbnailsTypeOK, queueVars, countVars
  <2>2. ThumbnailsTypeOK'
    BY <1>0, <1>1, <2>1 DEF ThumbnailsTypeOK
  <2> QED
    BY <2>1, <2>2, OtherVariables
<1>3. CASE DrainQueues(a)
  <2>1. /\ priority' = <<>> /\ regular' = <<>> /\ keys' = {} /\ boosted' = {}
        /\ stats' = [c \in ThumbnailCategories |-> NoTask] /\ processing' = {}
        /\ UNCHANGED <<working, batch, paused, requests>>
        /\ interrupted' = (interrupted \/ Active # {})
    BY <1>3 DEF DrainQueues
  <2>2. ToSet(<<>>) = {} /\ IsInjective(<<>>) /\ <<>> \in Seq(Tasks)
    BY DEF ToSet, IsInjective
  <2>3. interrupted' \in BOOLEAN /\ (~interrupted' => Active = {})
    BY <2>1
  <2>4. ThumbnailsTypeOK'
    BY <1>0, <1>1, <2>1, <2>2, <2>3 DEF ThumbnailsTypeOK
  <2>5. Active' = Active
    BY <2>1 DEF Active
  <2> QED
    BY <2>1, <2>2, <2>3, <2>4, <2>5 DEF ThumbnailsInv, TasksOnce
<1> QED
  BY <1>2, <1>3

LEMMA ThumbnailsNextKeeps == ThumbnailsInv /\ [ThumbnailsNext]_thumbnailVars => ThumbnailsInv'
<1> SUFFICES ASSUME ThumbnailsInv, [ThumbnailsNext]_thumbnailVars PROVE ThumbnailsInv'
  OBVIOUS
<1>1. CASE UNCHANGED thumbnailVars
  BY <1>1 DEF thumbnailVars, ThumbnailsInv, ThumbnailsTypeOK, TasksOnce, Active
<1>2. CASE ThumbnailsNext
  BY <1>2, RequestKeeps, PrioritizeKeeps, BatchKeeps, DropKeeps, StatusKeeps, WorkerKeeps,
     ClearKeeps
     DEF ThumbnailsNext
<1> QED
  BY <1>1, <1>2

\* Types, and every task in one place, whatever is requested, dropped, prioritized or
\* cleared: the conjunction is inductive.
THEOREM ThumbnailsKeep == ThumbnailsSpec => []ThumbnailsInv
  BY ThumbnailsInitHolds, ThumbnailsNextKeeps, PTL DEF ThumbnailsSpec

\* A file is worked on once at a time, and its key says so.
THEOREM OneTaskEach == ThumbnailsSpec => []EachTaskOnce
<1>1. ASSUME ThumbnailsInv, ~interrupted
      PROVE  /\ keys = ToSet(priority \o regular) \cup {working[w] : w \in Active}
             /\ Cardinality(keys) = Len(priority \o regular) + Cardinality(Active)
  <2> DEFINE queue == priority \o regular
             held == {working[w] : w \in Active}
  <2>1. /\ Lists(priority, Tasks) /\ Lists(regular, Tasks)
        /\ ToSet(priority) \cap ToSet(regular) = {}
        /\ \A w \in Active : working[w] \notin ToSet(priority) \cup ToSet(regular)
        /\ \A v, w \in Active : working[v] = working[w] => v = w
        /\ keys = ToSet(priority) \cup ToSet(regular) \cup held
    BY <1>1 DEF ThumbnailsInv, ThumbnailsTypeOK, TasksOnce, Lists
  <2>2. Lists(queue, Tasks) /\ ToSet(queue) = ToSet(priority) \cup ToSet(regular)
    BY <2>1, ListConcat
  <2>3. IsFiniteSet(ToSet(queue)) /\ Cardinality(ToSet(queue)) = Len(queue)
    <3> HIDE DEF queue
    <3> QED
      BY <2>2, ListLength
  <2>4. IsFiniteSet(Active)
    BY ThumbnailAssumption, FS_Subset DEF Active
  <2>5. IsFiniteSet(held) /\ Cardinality(held) = Cardinality(Active)
    <3> DEFINE f == [w \in Active |-> working[w]]
    <3>1. f \in Injection(Active, held) /\ f \in Surjection(Active, held)
      BY <2>1 DEF Injection, Surjection, IsInjective
    <3>2. ExistsBijection(Active, held)
      BY <3>1 DEF ExistsBijection, Bijection
    <3> QED
      BY <2>4, <3>2, FS_Bijection
  <2>6. ToSet(queue) \cap held = {} /\ keys = ToSet(queue) \cup held
    BY <2>1, <2>2
  <2> HIDE DEF queue, held
  <2>7. Cardinality(ToSet(queue) \cup held)
            = Cardinality(ToSet(queue)) + Cardinality(held) - Cardinality(ToSet(queue) \cap held)
    BY <2>3, <2>5, FS_Union
  <2>8. Cardinality(ToSet(queue) \cap held) = 0
    BY <2>6, FS_EmptySet
  <2>9. Cardinality(keys) = Len(queue) + Cardinality(Active)
    <3>1. Len(queue) \in Nat /\ Cardinality(Active) \in Nat
      BY <2>2, <2>4, FS_CardinalityType DEF Lists
    <3> QED
      BY <2>3, <2>5, <2>6, <2>7, <2>8, <3>1
  <2> QED
    BY <2>6, <2>9 DEF queue, held
<1>2. ThumbnailsInv => EachTaskOnce
  BY <1>1 DEF EachTaskOnce
<1> QED
  BY <1>2, ThumbnailsKeep, PTL

\* The counts, queues and batches keep their types.
THEOREM ThumbnailsTyping == ThumbnailsSpec => []ThumbnailsTypeOK
<1>1. ThumbnailsInv => ThumbnailsTypeOK
  BY DEF ThumbnailsInv
<1> QED
  BY <1>1, ThumbnailsKeep, PTL
==============================================================================
