--------------------------- MODULE MCChunkedUpload ---------------------------
(* Small instances of ChunkedUpload for TLC: the requests are alike, and so    *)
(* are the names; the uploads are told apart by Resent.                        *)
EXTENDS ChunkedUpload, TLC

Symmetric == Permutations(Requests) \cup Permutations(Names)
=============================================================================
