----------------------------- MODULE MCSyncMode -----------------------------
(***************************************************************************)
(* What several browsers show together and what one does, for one run of   *)
(* TLC: sync mode and the viewer of a page.  In this model they share no    *)
(* state, so in one behaviour only the part the first state chose takes     *)
(* steps, and the states add up instead of multiplying.                     *)
(***************************************************************************)
EXTENDS SyncMode, Viewer, TLC

Symmetric == Permutations(Browsers) \cup Permutations(Media)

VARIABLE part
parts == <<vars, viewerVars, part>>

RoomsInit == part \in {"sync", "viewer"} /\ Init /\ ViewerInit

RoomsNext ==
    \/ part = "sync" /\ Next /\ UNCHANGED <<viewerVars, part>>
    \/ part = "viewer" /\ ViewerNext /\ UNCHANGED <<vars, part>>

RoomsSpec == RoomsInit /\ [][RoomsNext]_parts
=============================================================================
