------------------------------- MODULE MCBrowser -------------------------------
(***************************************************************************)
(* The parts of a page that share no state, for one run of TLC: in one     *)
(* behaviour only the part the first state chose takes steps, so the       *)
(* states of the parts add up instead of multiplying.                      *)
(***************************************************************************)
EXTENDS UploadClient, MediaViews, LiveTranscode, GuestProgress, Gallery

CONSTANTS fileManager, drop, old, new, all, videos

\* The file manager, which looks for duplicates first, and a drop share two
\* large files in every way.
MCWorkloads == {[k \in {fileManager, drop} |-> IF k = drop THEN n ELSE 2 - n] : n \in 0..2}
MCNewUrl == [u \in {old} |-> new]
MCLength == [f \in {all, videos} |-> IF f = all THEN 3 ELSE 1]

\* The overlay and the loads it lies over.
OverlaidNext ==
    \/ OverlayNext
    \/ \E f \in Filters : ToolbarFilter(f)
    \/ \E n \in Loads : CategoriesCame(n) \/ Loaded(n)

VARIABLE part
parts == <<allVars, viewVars, transcodeVars, progressVars, galleryVars, part>>

BrowserTypeOK ==
    ClientTypeOK /\ ViewsTypeOK /\ TranscodeTypeOK /\ ProgressTypeOK /\ GalleryTypeOK

BrowserInit ==
    /\ part \in {"uploads", "views", "transcodes", "progress", "gallery", "overlay"}
    /\ ClientInit /\ (part = "uploads" \/ call[drop].left = 0)
    /\ ViewsInit
    /\ TranscodeInit /\ (part = "transcodes" \/ native)
    /\ ProgressInit /\ (part = "progress" \/ (profile /\ disk = Nothing))
    /\ GalleryInit /\ filter = all

Uploading(A) ==
    part = "uploads" /\ A /\ UNCHANGED <<viewVars, transcodeVars, progressVars, galleryVars, part>>
Viewing(A) ==
    part = "views" /\ A /\ UNCHANGED <<allVars, transcodeVars, progressVars, galleryVars, part>>
Transcoding(A) ==
    part = "transcodes" /\ A /\ UNCHANGED <<allVars, viewVars, progressVars, galleryVars, part>>
Saving(A) ==
    part = "progress" /\ A /\ UNCHANGED <<allVars, viewVars, transcodeVars, galleryVars, part>>
Browsing(p, A) ==
    part = p /\ A /\ UNCHANGED <<allVars, viewVars, transcodeVars, progressVars, part>>

BrowserNext ==
    \/ Uploading(ClientNext)
    \/ Viewing(ViewsNext)
    \/ Transcoding(TranscodeNext)
    \/ Saving(ProgressNext)
    \/ Browsing("gallery", TimelineNext)
    \/ Browsing("overlay", OverlaidNext)

\* A part that takes no steps stays in its initial state, where nothing that is
\* fair is enabled.
BrowserSpec ==
    /\ BrowserInit /\ [][BrowserNext]_parts
    /\ ClientFairness /\ ViewsFairness /\ TranscodeFairness
=============================================================================
