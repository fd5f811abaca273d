-------------------------------- MODULE Viewer --------------------------------
(***************************************************************************)
(* The media viewer of a page (media/loader.js, media/navigation.js and     *)
(* viewerState.js) on the ordered views of ordering.js.  A record is its    *)
(* place in the order of the one category, from 1, and a page holds one.    *)
(*                                                                         *)
(* Handlers run to their next await; answers come in any order.  A request  *)
(* for a page that a later one of the same view replaces has no effect.     *)
(* The sources of openViewerFromView are views with first pages loaded.     *)
(* What plays inside the viewer, and its caches, are left out.              *)
(***************************************************************************)
EXTENDS Naturals, Sequences

CONSTANTS Records,       \* how many records the category has
          Threshold,     \* LOAD_MORE_THRESHOLD
          NoSession,
          MaxOpenings,   \* bound: viewers opened
          MaxLeaves,     \* bound: viewers left
          MaxPages,      \* bound: pages asked for of a view
          MaxMisses      \* bound: requests that fail

ASSUME ViewerAssumption ==
    /\ Records \in Nat \ {0}
    /\ NoSession \notin [key: {"category", "view"}, index: Nat]
    /\ {Threshold, MaxOpenings, MaxLeaves, MaxPages, MaxMisses} \subseteq Nat

VARIABLES order,        \* by view: orderedIds, hasMore, params.page, requestId
          viewer,       \* the session of the viewer: a view and an index into it
          rendered,     \* the record that was rendered last; 0 for none
          visible,      \* the viewer is not hidden
          controller,   \* the opening that made currentFetchController; 0 for null
          viewerLoading,  \* appState.isLoading
          openings,     \* openCategoryViewer calls that wait
          pages,        \* requestViewerPage calls that wait
          moreTimers,   \* timers that will call loadMoreMedia
          leaving,      \* calls of goBackToCategories that wait for saveCurrentState
          goal,         \* history: the record the last opening is about; 0 when
                        \* it resumes, or the user has moved on
          hasty,        \* history: since an opening began with nothing under way, one
                        \* began with something under way, the user moved or left
                        \* during one, or a request failed
          opens, left, misses   \* bounds

viewerVars == <<order, viewer, rendered, visible, controller, viewerLoading, openings,
                pages, moreTimers, leaving, goal, hasty, opens, left, misses>>

Keys == {"category", "view"}
Places == 1..Records
Resume == 0    \* an opening that names no record

Orders == [ids: Seq(Places), hasMore: BOOLEAN, page: Nat, nr: 0..MaxPages]
Sessions == [key: Keys, index: Nat \ {0}]
\* What an opening, a request for a page and a timer keep while they wait.
OpeningCalls ==
    {c \in [token: 1..opens, want: 0..Records, at: {"page", "record", "resume", "index"},
            index: Nat \ {0}] : c.at = "record" => c.want # Resume}
PageCalls == [by: {"opening", "more"}, token: 0..opens, key: Keys, page: Nat,
              nr: 0..MaxPages, ids: Seq(Places), at: {"order", "records"}]
Timers == [key: Keys \cup {NoSession}, token: 0..opens]

ViewerTypeOK ==
    /\ order \in [Keys -> Orders]
    /\ viewer \in Sessions \cup {NoSession}
    /\ rendered \in 0..Records /\ goal \in 0..Records
    /\ visible \in BOOLEAN /\ viewerLoading \in BOOLEAN /\ hasty \in BOOLEAN
    /\ controller \in 0..opens
    /\ openings \subseteq OpeningCalls
    /\ pages \subseteq PageCalls
    /\ moreTimers \subseteq Timers
    /\ leaving \in Nat
    /\ opens \in 0..MaxOpenings /\ left \in 0..MaxLeaves /\ misses \in 0..MaxMisses

ViewerInit ==
    /\ order = [k \in Keys |-> [ids |-> <<>>, hasMore |-> FALSE, page |-> 0, nr |-> 0]]
    /\ viewer = NoSession
    /\ rendered = 0
    /\ visible = FALSE
    /\ controller = 0
    /\ viewerLoading = FALSE
    /\ openings = {} /\ pages = {} /\ moreTimers = {}
    /\ leaving = 0
    /\ goal = 0
    /\ hasty = FALSE
    /\ opens = 0 /\ left = 0 /\ misses = 0

\* A signal is the opening whose controller it belongs to; without one nothing aborts.
Aborted(token) == token # 0 /\ token # controller

\* The timers of navigateMedia run at once; of those that wait for the index only one
\* without a signal matters to the next opening.
Soon == [key |-> NoSession, token |-> 0]
ViewerBusy == openings # {} \/ pages # {} \/ leaving # 0 \/ \E t \in moreTimers : t.token = 0

Position(r, ids) == CHOOSE i \in DOMAIN ids : ids[i] = r
Holds(ids, r) == \E i \in DOMAIN ids : ids[i] = r
RecordAt(ids, i) == IF i \in DOMAIN ids THEN ids[i] ELSE 0

-----------------------------------------------------------------------------
(* requestViewerPage. *)

PageAsk(by, token, k, page) ==
    [by |-> by, token |-> token, key |-> k, page |-> page, nr |-> order[k].nr + 1,
     ids |-> order[k].ids, at |-> "order"]

\* requestOrder, for the opening or load whose signal is token; others go on waiting.
AskPage(by, token, k, page, others) ==
    /\ order[k].nr < MaxPages
    /\ order' = [order EXCEPT ![k].nr = @ + 1, ![k].page = page]
    /\ pages' = others \cup {PageAsk(by, token, k, page)}

MergedIdsReplaced(ids, page) == IF page \in Places THEN <<page>> ELSE <<>>
\* _mergeIds, of the ids there were when the page was asked for.
MergedIds(ids, page) ==
    IF page \notin Places \/ Holds(ids, page) THEN ids ELSE Append(ids, page)

\* The order comes or not, and the call that waits for it goes on to wait for the
\* records.
OrderSettled(q) ==
    /\ q \in pages /\ q.at = "order"
    /\ \/ /\ order' = IF order[q.key].nr # q.nr THEN order
                      ELSE [order EXCEPT ![q.key].ids = MergedIds(q.ids, q.page),
                                         ![q.key].hasMore = q.page < Records]
          /\ UNCHANGED <<misses, hasty>>
       \/ /\ order[q.key].nr = q.nr
          /\ misses < MaxMisses
          /\ misses' = misses + 1
          /\ hasty' = TRUE
          /\ UNCHANGED order
OnToRecords(q) == pages' = (pages \ {q}) \cup {[q EXCEPT !.at = "records"]}

-----------------------------------------------------------------------------
(* Opening. *)

\* showViewerShell and resetViewerRuntime.
resetViewerRuntime(k, i, r) ==
    /\ opens < MaxOpenings
    /\ opens' = opens + 1
    /\ controller' = opens + 1
    /\ viewerLoading' = FALSE
    /\ viewer' = [key |-> k, index |-> i]
    /\ visible' = TRUE
    /\ goal' = r
    /\ hasty' = ViewerBusy

openCategoryViewer(r) ==
    /\ resetViewerRuntime("category", 1, r)
    /\ rendered' = 0
    /\ order["category"].nr < MaxPages
    /\ order' = [order EXCEPT !["category"] = [ids |-> <<>>, hasMore |-> TRUE, page |-> 1,
                                               nr |-> @.nr + 1]]
    /\ pages' = pages \cup {[PageAsk("opening", opens + 1, "category", 1) EXCEPT !.ids = <<>>]}
    /\ openings' = openings \cup {[token |-> opens + 1, want |-> r, at |-> "page", index |-> 1]}
    /\ UNCHANGED <<moreTimers, leaving, left, misses>>

\* A source with n of its pages loaded, or the one record of openSingleMediaViewer.
Sources == [ids: {[i \in 1..n |-> i] : n \in Places}, single: {FALSE}]
             \cup [ids: {<<r>> : r \in Places}, single: {TRUE}]

\* openViewerFromView, openSingleMediaViewer
openViewerFromView(source, i) ==
    /\ i \in DOMAIN source.ids
    /\ resetViewerRuntime("view", i, source.ids[i])
    /\ rendered' = source.ids[i]
    /\ order' = [order EXCEPT !["view"] =
                   [ids |-> source.ids, hasMore |-> ~source.single /\ Len(source.ids) < Records,
                    page |-> Len(source.ids), nr |-> @.nr]]
    /\ UNCHANGED <<openings, pages, moreTimers, leaving, left, misses>>

\* The opening, resolved to index i of ids, ends; ensureViewerIndexLoaded first asks
\* for pages until it has them or there are no more.
Resolved(o, i, ids, others) ==
    IF i > Len(ids) /\ order["category"].hasMore
    THEN /\ AskPage("opening", o.token, "category", order["category"].page + 1, others)
         /\ openings' = (openings \ {o}) \cup {[o EXCEPT !.at = "index", !.index = i]}
         /\ UNCHANGED <<viewer, rendered>>
    ELSE /\ LET there == IF i > Len(ids) THEN 1 ELSE i
            IN /\ viewer' = [key |-> "category", index |-> there]
               /\ rendered' = RecordAt(ids, there)
         /\ openings' = openings \ {o}
         /\ order' = [order EXCEPT !["category"].ids = ids]
         /\ pages' = others

\* The catch of an aborted opening, whatever has been shown since.
Abandoned(o) ==
    /\ openings' = openings \ {o}
    /\ visible' = FALSE
    /\ UNCHANGED <<viewer, rendered>>

Opens(o, q) == o \in openings /\ q.by = "opening" /\ q.token = o.token

OpeningOrderCame(o, q) ==
    /\ Opens(o, q)
    /\ OrderSettled(q)
    /\ IF Aborted(o.token) THEN pages' = pages \ {q} /\ Abandoned(o)
       ELSE OnToRecords(q) /\ UNCHANGED <<openings, visible, viewer, rendered>>
    /\ UNCHANGED <<controller, viewerLoading, moreTimers, leaving, goal, opens, left>>

\* The first page is there, or a page on the way to the index.
OpeningRecordsCame(o, q) ==
    /\ Opens(o, q) /\ q \in pages /\ q.at = "records"
    /\ LET ids == order["category"].ids
           others == pages \ {q}
       IN IF Aborted(o.token)
          THEN pages' = others /\ Abandoned(o) /\ UNCHANGED order
          ELSE /\ IF o.at = "index" THEN Resolved(o, o.index, ids, others)
                  ELSE IF Holds(ids, o.want) THEN Resolved(o, Position(o.want, ids), ids, others)
                  ELSE /\ openings' = (openings \ {o})
                            \cup {[o EXCEPT !.at = IF o.want = Resume THEN "resume" ELSE "record"]}
                       /\ pages' = others
                       /\ UNCHANGED <<order, viewer, rendered>>
               /\ UNCHANGED visible
    /\ UNCHANGED <<controller, viewerLoading, moreTimers, leaving, goal, hasty, opens, left, misses>>

\* hydrate of a record that is not on the first page; an abort only ends the wait.
RecordCameUnplaced(o) ==
    /\ o \in openings /\ o.at = "record"
    /\ LET ids == order["category"].ids
       IN Resolved(o, 1, IF Holds(ids, o.want) THEN ids ELSE Append(ids, o.want), pages)
    /\ UNCHANGED <<visible, controller, viewerLoading, moreTimers, leaving, goal, hasty, opens,
                   left, misses>>
RecordCame(o) ==
    /\ o \in openings /\ o.at = "record"
    /\ LET ids == order["category"].ids
       IN \/ /\ IF Holds(ids, o.want) THEN Resolved(o, 1, ids, pages)
                ELSE Resolved(o, Len(ids) + 1, Append(ids, o.want), pages)
             /\ UNCHANGED <<misses, hasty>>
          \/ /\ Aborted(o.token) /\ UNCHANGED <<misses, hasty>>
             /\ Resolved(o, 1, ids, pages)
          \/ /\ misses < MaxMisses /\ misses' = misses + 1 /\ hasty' = TRUE
             /\ Resolved(o, 1, ids, pages)
    /\ UNCHANGED <<visible, controller, viewerLoading, moreTimers, leaving, goal, opens, left>>

\* resolveResumeIndex: the first record, or one that has progress.
ResumeCame(o, i) ==
    /\ o \in openings /\ o.at = "resume"
    /\ Resolved(o, i, order["category"].ids, pages)
    /\ UNCHANGED <<visible, controller, viewerLoading, moreTimers, leaving, goal, hasty, opens,
                   left, misses>>

-----------------------------------------------------------------------------
(* Moving on, and more pages. *)

Render(i) ==
    /\ viewer' = [viewer EXCEPT !.index = i]
    /\ rendered' = RecordAt(order[viewer.key].ids, i)
    /\ goal' = 0

\* What the keys and the wheel do, whatever is under way.
Navigates ==
    /\ visible /\ viewer # NoSession
    /\ hasty' = (hasty \/ openings # {} \/ leaving # 0)
    /\ UNCHANGED <<order, visible, controller, viewerLoading, openings, pages, leaving,
                   opens, left, misses>>

\* navigateMedia('next') asks for more near the end, and stays at the end until it
\* is there.
NavigateNext ==
    /\ Navigates
    /\ LET o == order[viewer.key]
       IN /\ viewer.index < Len(o.ids) \/ o.hasMore
          /\ moreTimers' = IF o.hasMore /\ ~viewerLoading /\ viewer.index > Len(o.ids) - Threshold
                       THEN moreTimers \cup {Soon} ELSE moreTimers
          /\ IF viewer.index < Len(o.ids) THEN Render(viewer.index + 1)
             ELSE UNCHANGED <<viewer, rendered, goal>>

NavigatePrev ==
    /\ Navigates
    /\ viewer.index > 1
    /\ Render(viewer.index - 1)
    /\ UNCHANGED moreTimers

\* loadMoreMedia, when its timer ends; a timer set while the index is still being
\* built remembers its view and its signal.
MayLoadMore(t) ==
    /\ viewer # NoSession
    /\ t.key \in {NoSession, viewer.key}
    /\ ~Aborted(t.token)
    /\ order[viewer.key].hasMore
    /\ ~viewerLoading

LoadMore(t) ==
    /\ t \in moreTimers
    /\ moreTimers' = moreTimers \ {t}
    /\ IF MayLoadMore(t)
       THEN /\ viewerLoading' = TRUE
            /\ AskPage("more", IF t.token = 0 THEN controller ELSE t.token, viewer.key,
                       order[viewer.key].page + 1, pages)
       ELSE UNCHANGED <<viewerLoading, order, pages>>
    /\ UNCHANGED <<viewer, rendered, visible, controller, openings, leaving, goal, hasty,
                   opens, left, misses>>

MoreOrderCame(q) ==
    /\ q.by = "more"
    /\ OrderSettled(q)
    /\ IF Aborted(q.token) THEN pages' = pages \ {q} /\ viewerLoading' = FALSE
       ELSE OnToRecords(q) /\ UNCHANGED viewerLoading
    /\ UNCHANGED <<viewer, rendered, visible, controller, openings, moreTimers, leaving, goal,
                   opens, left>>

MoreRecordsCame(q) ==
    /\ q \in pages /\ q.by = "more" /\ q.at = "records"
    /\ pages' = pages \ {q}
    /\ viewerLoading' = FALSE
    /\ \/ UNCHANGED moreTimers
       \/ ~Aborted(q.token) /\ moreTimers' = moreTimers \cup {[key |-> q.key, token |-> q.token]}
    /\ UNCHANGED <<order, viewer, rendered, visible, controller, openings, leaving, goal,
                   hasty, opens, left, misses>>

-----------------------------------------------------------------------------
(* goBackToCategories, when no video plays. *)

GoBack ==
    /\ left < MaxLeaves
    /\ visible
    /\ left' = left + 1
    /\ leaving' = leaving + 1
    /\ hasty' = (hasty \/ openings # {})
    /\ UNCHANGED <<order, viewer, rendered, visible, controller, viewerLoading, openings,
                   pages, moreTimers, goal, opens, misses>>

StateSaved ==
    /\ leaving # 0
    /\ leaving' = leaving - 1
    /\ viewer' = NoSession
    /\ rendered' = 0
    /\ visible' = FALSE
    /\ controller' = 0
    /\ viewerLoading' = FALSE
    /\ goal' = 0
    /\ UNCHANGED <<order, openings, pages, moreTimers, hasty, opens, left, misses>>

ViewerNext ==
    \/ \E r \in Places \cup {Resume} : openCategoryViewer(r)
    \/ \E source \in Sources, i \in Places : openViewerFromView(source, i)
    \/ \E o \in openings, q \in pages : OpeningOrderCame(o, q) \/ OpeningRecordsCame(o, q)
    \/ \E o \in openings : RecordCame(o) \/ \E i \in 1..Records + 1 : ResumeCame(o, i)
    \/ NavigateNext \/ NavigatePrev
    \/ \E t \in moreTimers : LoadMore(t)
    \/ \E q \in pages : MoreOrderCame(q) \/ MoreRecordsCame(q)
    \/ GoBack \/ StateSaved

ViewerSpec == ViewerInit /\ [][ViewerNext]_viewerVars

-----------------------------------------------------------------------------
(* Properties. *)

\* Whoever opens a record, and lets the opening and the leaving end, sees that
\* record, from whichever page or view it comes; and there is a session exactly
\* as long as the viewer is visible, though aborted openings hide it and go on.
ViewerShowsWhatWasAsked ==
    ~ViewerBusy /\ ~hasty =>
        /\ visible <=> viewer # NoSession
        /\ visible /\ goal # 0 => rendered = goal

\* However fast somebody moves through the viewer, no page is skipped: all that were
\* asked for, up to the one the next request counts from, are in the view or on
\* their way.
ViewerSkipsNoPage ==
    ~hasty /\ viewer # NoSession =>
        LET o == order[viewer.key]
        IN \A p \in Places : p <= o.page =>
              \/ Holds(o.ids, p)
              \/ \E q \in pages : q.key = viewer.key /\ q.page = p /\ q.nr = o.nr
              \/ viewer.key = "view" /\ ~o.hasMore /\ Len(o.ids) = 1
=============================================================================
