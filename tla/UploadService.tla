----------------------------- MODULE UploadService -----------------------------
(***************************************************************************)
(* What the chunked upload sessions promise to a client: an upload is      *)
(* opened, its chunks are counted, and it ends as stored or as gone.       *)
(* ChunkedUpload implements this; UploadClient relies on nothing else.     *)
(***************************************************************************)
EXTENDS Naturals, FiniteSets

CONSTANTS Uploads,   \* upload ids, each handed out once
          Total      \* total_chunks of every upload

VARIABLES phase,     \* none, open, stored (announced), gone (cancelled, expired, lost)
          counted    \* the chunks upload_chunk has counted, by upload

serviceVars == <<phase, counted>>

ServiceChunks == 1..Total
In(p) == {u \in Uploads : phase[u] = p}

ServiceTypeOK ==
    /\ phase \in [Uploads -> {"none", "open", "stored", "gone"}]
    /\ counted \in [Uploads -> SUBSET ServiceChunks]

ServiceInit ==
    /\ phase = [u \in Uploads |-> "none"]
    /\ counted = [u \in Uploads |-> {}]

Open(u) ==
    /\ phase[u] = "none"
    /\ phase' = [phase EXCEPT ![u] = "open"]
    /\ UNCHANGED counted

\* A chunk that was being written is counted even when its session has gone.
CountChunk(u, c) ==
    /\ phase[u] # "none"
    /\ counted' = [counted EXCEPT ![u] = @ \cup {c}]
    /\ UNCHANGED phase

\* An upload is stored once, and with all its chunks; a cancellation may come
\* while its file is being moved.
Store(u) ==
    /\ phase[u] \in {"open", "gone"}
    /\ counted[u] = ServiceChunks
    /\ phase' = [phase EXCEPT ![u] = "stored"]
    /\ UNCHANGED counted

Abandon(S) ==
    /\ S \subseteq In("open")
    /\ phase' = [u \in Uploads |-> IF u \in S THEN "gone" ELSE phase[u]]
    /\ UNCHANGED counted

ServiceNext ==
    \/ \E u \in Uploads : Open(u)
    \/ \E u \in Uploads, c \in ServiceChunks : CountChunk(u, c)
    \/ \E u \in Uploads : Store(u)
    \/ \E S \in SUBSET Uploads : Abandon(S)

ServiceSpec == ServiceInit /\ [][ServiceNext]_serviceVars
=============================================================================
