------------------------------- MODULE MCUploads -------------------------------
(***************************************************************************)
(* How a file comes into the library and gets its thumbnail, for one run   *)
(* of TLC: the upload sessions, and the runtime to which a complete file   *)
(* is one more batch.  That batch is an input of the latter, and else they *)
(* share no state: in one behaviour only the part the first state chose    *)
(* takes steps, and the states add up instead of multiplying.              *)
(***************************************************************************)
EXTENDS ChunkedUpload, Thumbnails

CONSTANTS f1, f2, g1

\* Two files of one category and one of another.
MCCategoryOf(t) == IF t = g1 THEN "g" ELSE "f"

VARIABLE part
parts == <<vars, thumbnailVars, part>>

UploadsInit == part \in {"sessions", "thumbnails"} /\ Init /\ ThumbnailsInit

UploadsNext ==
    \/ part = "sessions" /\ Next /\ UNCHANGED <<thumbnailVars, part>>
    \/ part = "thumbnails" /\ ThumbnailsNext /\ UNCHANGED <<vars, part>>

\* A part that takes no steps stays in its initial state, where nothing that is
\* fair is enabled.
UploadsSpec ==
    /\ UploadsInit /\ [][UploadsNext]_parts
    /\ Fairness /\ ThumbnailsFairness
=============================================================================
