-------------------------------- MODULE Gallery --------------------------------
(***************************************************************************)
(* The gallery layout of a page (layouts/gallery): the timeline, whose      *)
(* dates are loaded page by page for the chosen filter, and the overlay     *)
(* that shows one month.  An id stands for a page of dates, because the     *)
(* ids of a page come and go together; all filters (media type, category)   *)
(* are one.  The library has categories, and the page has come to know them. *)
(*                                                                          *)
(* Handlers run to their end; requests are answered in any order, at once   *)
(* when ordering.js has kept the answer.  A request fails, too, when an     *)
(* event invalidates its view before the answer comes.                      *)
(***************************************************************************)
EXTENDS Naturals, FiniteSets

CONSTANTS Filters, Months,
          Length,        \* pages of dates the server has, by filter
          NoView,        \* galleryTimelineViewKey is null; the overlay is closed
          MaxLoads,      \* bound: loads of the gallery
          MaxAsks,       \* bound: pages under way beside the loads
          MaxFilters,    \* bound: filters chosen
          MaxTroubles,   \* bound: events that invalidate the views, and requests
                         \* for a page that fail
          MaxOverlays    \* bound: openings and closings of the overlay

ASSUME GalleryAssumption ==
    /\ IsFiniteSet(Filters) /\ Filters \cap {"unused", "categories", "done"} = {}
    /\ Length \in [Filters -> Nat]
    /\ NoView \notin Filters \cup Months
    /\ {MaxAsks, MaxFilters, MaxTroubles, MaxOverlays} \subseteq Nat /\ MaxLoads \in Nat \ {0}

VARIABLES filter,       \* mediaFilter, categoryIdFilter, ...
          viewKey,      \* galleryTimelineViewKey, which a filter determines
          timeline,     \* orderedIds of the timeline's view, by filter
          span,         \* pages its params ask for: dates_limit; 0 without a view
          refetching,   \* the same, of the latest refetch under way; or 0
          datesPage, hasMoreDates, isLoading,
          mounted,      \* there is a timeline component
          load,         \* loadInitialMedia, by call: what it waits for
          asks,         \* pages asked for by loadMoreDates and the jumps
          overlay,      \* the month overlay, and its request id
          monthAsks,    \* fetchMonthMedia calls under way
          disturbed,    \* history: since the last load began alone, a request has
                        \* failed, a filter was chosen or a load begun in the middle
                        \* of another request, a date was jumped to, or a page was
                        \* appended during a refetch
          chosen, troubles     \* bounds

timelineVars == <<filter, viewKey, timeline, span, refetching, datesPage, hasMoreDates,
                  isLoading, mounted, load, asks, disturbed, chosen, troubles>>
overlayVars == <<overlay, monthAsks>>
galleryVars == <<timelineVars, overlayVars>>

Loads == 1..MaxLoads
LastPage == CHOOSE n \in {Length[f] : f \in Filters} : \A f \in Filters : Length[f] <= n
Pages == 1..LastPage + MaxAsks + 1
Ask == [by: {"more", "year", "date"}, filter: Filters, page: Pages, own: BOOLEAN, nr: 1..MaxAsks]
Overlay == [month: Months \cup {NoView}, filter: Filters, status: {"loading", "error", "loaded"},
            media: SUBSET (Months \X Filters), nr: 0..MaxOverlays]

GalleryTypeOK ==
    /\ filter \in Filters
    /\ viewKey \in Filters \cup {NoView}
    /\ timeline \in [Filters -> SUBSET Pages]
    /\ {span, refetching} \subseteq [Filters -> 0..LastPage]
    /\ datesPage \in Pages
    /\ {hasMoreDates, isLoading, mounted, disturbed} \subseteq BOOLEAN
    /\ load \in [Loads -> Filters \cup {"unused", "categories", "done"}]
    /\ asks \subseteq Ask
    /\ overlay \in Overlay
    /\ monthAsks \subseteq [nr: 1..MaxOverlays, month: Months, filter: Filters]

GalleryInit ==
    /\ filter \in Filters
    /\ viewKey = NoView
    /\ timeline = [f \in Filters |-> {}]
    /\ span = [f \in Filters |-> 0]
    /\ refetching = [f \in Filters |-> 0]
    /\ datesPage = 1 /\ hasMoreDates = TRUE
    /\ isLoading = TRUE /\ mounted = FALSE
    /\ load = [n \in Loads |-> IF n = 1 THEN "categories" ELSE "unused"]
    /\ asks = {}
    /\ overlay = [month |-> NoView, filter |-> filter, status |-> "loading",
                  media |-> {}, nr |-> 0]
    /\ monthAsks = {}
    /\ disturbed = FALSE
    /\ chosen = 0 /\ troubles = 0

UnderWay(n) == load[n] \notin {"unused", "done"}
Busy == asks # {} \/ \E n \in Loads : UnderWay(n)

RequestFails ==
    /\ troubles < MaxTroubles
    /\ troubles' = troubles + 1

-----------------------------------------------------------------------------
(* Loads. *)

\* loadAndRender, which does nothing while a load is under way, or not (forced):
\* a filter of the toolbar takes the flag down first.
LoadAndRender(forced) ==
    /\ viewKey' = NoView
    /\ datesPage' = 1
    /\ hasMoreDates' = TRUE
    /\ IF isLoading /\ ~forced
       THEN /\ disturbed' = TRUE
            /\ UNCHANGED <<isLoading, mounted, load, asks>>
       ELSE /\ \E n \in Loads :
                 /\ load[n] = "unused" /\ \A m \in 1..n-1 : load[m] # "unused"
                 /\ load' = [load EXCEPT ![n] = "categories"]
            /\ isLoading' = TRUE
            /\ mounted' = FALSE
            /\ asks' = {[a EXCEPT !.own = FALSE] : a \in asks}
            /\ disturbed' = Busy
    /\ UNCHANGED <<timeline, span, refetching, troubles>>

ChooseFilter(f, forced) ==
    /\ chosen < MaxFilters
    /\ chosen' = chosen + 1
    /\ filter' = f
    /\ LoadAndRender(forced)

\* The toolbar's buttons; a search, the pill or a subfolder (filterActions).
ToolbarFilter(f) == ChooseFilter(f, TRUE) /\ UNCHANGED overlayVars
SetCategoryFilter(f) == ChooseFilter(f, FALSE) /\ UNCHANGED overlayVars

\* refresh, which the events of the server schedule.
RefreshGallery == LoadAndRender(FALSE) /\ UNCHANGED <<filter, chosen, overlayVars>>

\* fetchTimelineMedia takes the filter there is when the categories have come.
CategoriesCame(n) ==
    /\ load[n] = "categories"
    /\ load' = [load EXCEPT ![n] = filter]
    /\ UNCHANGED <<filter, viewKey, timeline, span, refetching, datesPage, hasMoreDates,
                   isLoading, mounted, asks, disturbed, chosen, troubles, overlayVars>>

\* The rest of loadInitialMedia and loadAndRender.
Loaded(n) ==
    /\ UnderWay(n) /\ load[n] \in Filters
    /\ load' = [load EXCEPT ![n] = "done"]
    /\ LET f == load[n] IN
       /\ \/ /\ timeline' = [timeline EXCEPT ![f] = 1..Length[f] \cap {1}]
             /\ hasMoreDates' = (Length[f] > 1)
             /\ UNCHANGED <<disturbed, troubles>>
          \/ /\ RequestFails
             /\ timeline' = [timeline EXCEPT ![f] = {}]
             /\ hasMoreDates' = FALSE
             /\ disturbed' = TRUE
       /\ viewKey' = f
       /\ span' = [span EXCEPT ![f] = IF datesPage < LastPage THEN datesPage ELSE LastPage]
    /\ datesPage' = 1
    /\ isLoading' = FALSE
    /\ mounted' = TRUE
    /\ UNCHANGED <<filter, refetching, asks, chosen, overlayVars>>

-----------------------------------------------------------------------------
(* Further pages. *)

AskFor(by, p) ==
    \E n \in 1..MaxAsks :
        /\ \A a \in asks : a.nr # n
        /\ asks' = asks \cup {[by |-> by, filter |-> filter, page |-> p,
                               own |-> by = "more", nr |-> n]}

\* The timeline's component asks for the next page; it has one such request.
\* loadMoreDates moves datesPage when the page is there, not before.
LoadMoreDatesCountsFirst ==
    /\ mounted /\ hasMoreDates
    /\ ~\E a \in asks : a.own
    /\ AskFor("more", datesPage + 1)
    /\ datesPage' = datesPage + 1
    /\ UNCHANGED <<filter, viewKey, timeline, span, refetching, hasMoreDates,
                   isLoading, mounted, load, disturbed, chosen, troubles, overlayVars>>
LoadMoreDates ==
    /\ mounted /\ hasMoreDates
    /\ ~\E a \in asks : a.own
    /\ AskFor("more", datesPage + 1)
    /\ UNCHANGED <<filter, viewKey, timeline, span, refetching, datesPage, hasMoreDates,
                   isLoading, mounted, load, disturbed, chosen, troubles, overlayVars>>

JumpToYear ==
    /\ mounted
    /\ AskFor("year", datesPage + 1)
    /\ UNCHANGED <<filter, viewKey, timeline, span, refetching, datesPage, hasMoreDates,
                   isLoading, mounted, load, disturbed, chosen, troubles, overlayVars>>

JumpToDate(p) ==
    /\ mounted
    /\ p \in 1..Length[filter]
    /\ AskFor("date", p)
    /\ disturbed' = TRUE
    /\ UNCHANGED <<filter, viewKey, timeline, span, refetching, datesPage, hasMoreDates,
                   isLoading, mounted, load, chosen, troubles, overlayVars>>

\* setDatesPage, appendMediaIds, setHasMoreDates.  The params of the view ask for
\* as many pages as there are, and each time for that many times what they did.
AppendIds(a) ==
    /\ datesPage' = a.page
    /\ hasMoreDates' = (a.page < Length[a.filter])
    /\ IF viewKey = NoView THEN UNCHANGED <<timeline, span, disturbed>>
       ELSE /\ timeline' = [timeline EXCEPT ![viewKey] = @ \cup {a.page}]
            /\ span' = [span EXCEPT ![viewKey] =
                          IF @ * a.page < LastPage THEN @ * a.page ELSE LastPage]
            /\ disturbed' = (disturbed \/ refetching[viewKey] # 0)

MoreCame(a) ==
    /\ a.by = "more"
    /\ asks' = asks \ {a}
    /\ \/ a.page <= Length[a.filter] /\ AppendIds(a) /\ UNCHANGED troubles
       \/ /\ \/ a.page > Length[a.filter] /\ UNCHANGED <<disturbed, troubles>>
             \/ RequestFails /\ disturbed' = TRUE
          /\ hasMoreDates' = FALSE
          /\ UNCHANGED <<datesPage, timeline, span>>
    /\ UNCHANGED <<filter, viewKey, refetching, isLoading, mounted, load, chosen,
                   overlayVars>>

\* The loop of jumpToYear goes on with the next page, until a page is there that
\* holds the year (or an earlier one) or that is the last.
YearCame(a) ==
    /\ a.by = "year"
    /\ \/ /\ a.page <= Length[a.filter] /\ AppendIds(a) /\ UNCHANGED troubles
          /\ \/ asks' = asks \ {a} /\ mounted' = TRUE
             \/ /\ a.page < Length[a.filter]
                /\ asks' = (asks \ {a}) \cup {[a EXCEPT !.page = @ + 1, !.filter = filter]}
                /\ UNCHANGED mounted
       \/ /\ (a.page > Length[a.filter] /\ UNCHANGED troubles) \/ RequestFails
          /\ asks' = asks \ {a}
          /\ mounted' = TRUE
          /\ UNCHANGED <<datesPage, hasMoreDates, timeline, span, disturbed>>
    /\ UNCHANGED <<filter, viewKey, refetching, isLoading, load, chosen, overlayVars>>

DateCame(a) ==
    /\ a.by = "date"
    /\ asks' = asks \ {a}
    /\ \/ AppendIds(a) /\ mounted' = TRUE /\ UNCHANGED troubles
       \/ /\ RequestFails
          /\ UNCHANGED <<datesPage, hasMoreDates, timeline, span, disturbed, mounted>>
    /\ UNCHANGED <<filter, viewKey, refetching, isLoading, load, chosen, overlayVars>>

\* An event of the server: the views of the timeline are asked for again, with the
\* params they have.
Invalidate ==
    /\ troubles < MaxTroubles
    /\ troubles' = troubles + 1
    /\ refetching' = span
    /\ UNCHANGED <<filter, viewKey, timeline, span, datesPage, hasMoreDates, isLoading,
                   mounted, load, asks, disturbed, chosen, overlayVars>>

Refetched(f) ==
    /\ refetching[f] # 0
    /\ refetching' = [refetching EXCEPT ![f] = 0]
    /\ \/ timeline' = [timeline EXCEPT ![f] = 1..refetching[f] \cap 1..Length[f]]
       \/ UNCHANGED timeline      \* the request fails
    /\ UNCHANGED <<filter, viewKey, span, datesPage, hasMoreDates, isLoading, mounted,
                   load, asks, disturbed, chosen, troubles, overlayVars>>

-----------------------------------------------------------------------------
(* The month overlay. *)

OpenMonthOverlay(m) ==
    /\ mounted
    /\ overlay.nr < MaxOverlays
    /\ overlay' = [month |-> m, filter |-> filter, status |-> "loading", media |-> {},
                    nr |-> overlay.nr + 1]
    /\ monthAsks' = monthAsks \cup {[nr |-> overlay.nr + 1, month |-> m, filter |-> filter]}
    /\ UNCHANGED timelineVars

CloseOverlay ==
    /\ overlay.month # NoView
    /\ overlay.nr < MaxOverlays
    /\ overlay' = [overlay EXCEPT !.month = NoView, !.status = "loading", !.media = {}, !.nr = @ + 1]
    /\ UNCHANGED <<monthAsks, timelineVars>>

\* A result is for the overlay that is open when it has the latest id.
OverlayAnswered(a) ==
    \/ overlay' = [overlay EXCEPT !.status = "loaded", !.media = {<<a.month, a.filter>>}]
    \/ overlay' = [overlay EXCEPT !.status = "error"]
MonthCameUnnumbered(a) ==
    /\ monthAsks' = monthAsks \ {a}
    /\ IF overlay.month # a.month THEN UNCHANGED overlay ELSE OverlayAnswered(a)
    /\ UNCHANGED timelineVars
MonthCame(a) ==
    /\ monthAsks' = monthAsks \ {a}
    /\ IF a.nr # overlay.nr \/ overlay.month # a.month THEN UNCHANGED overlay
       ELSE OverlayAnswered(a)
    /\ UNCHANGED timelineVars

-----------------------------------------------------------------------------
TimelineNext ==
    \/ \E f \in Filters : ToolbarFilter(f) \/ SetCategoryFilter(f) \/ Refetched(f)
    \/ RefreshGallery
    \/ \E n \in Loads : CategoriesCame(n) \/ Loaded(n)
    \/ LoadMoreDates
    \/ JumpToYear
    \/ \E p \in Pages : JumpToDate(p)
    \/ \E a \in asks : MoreCame(a) \/ YearCame(a) \/ DateCame(a)
    \/ Invalidate
OverlayNext ==
    \/ \E m \in Months : OpenMonthOverlay(m)
    \/ CloseOverlay
    \/ \E a \in monthAsks : MonthCame(a)
GalleryNext == TimelineNext \/ OverlayNext

GallerySpec == GalleryInit /\ [][GalleryNext]_galleryVars

-----------------------------------------------------------------------------
(* Properties. *)

\* The timeline shows the chosen filter, with every page up to the one that
\* scrolling goes on from, and all of them when scrolling has ended; whatever
\* scrolling, jumps to years and refetches do to each other.
TimelineHasNoGaps ==
    ~disturbed /\ viewKey # NoView =>
        /\ viewKey = filter
        /\ 1..datesPage \cap 1..Length[filter] \subseteq timeline[filter]
        /\ ~hasMoreDates => timeline[filter] = 1..Length[filter]

\* The overlay shows the month it was opened for, with the filter of that moment, and
\* nothing, not even an error, while that month is being asked for.
OverlayShowsItsMonth ==
    /\ overlay.media \subseteq {<<overlay.month, overlay.filter>>}
    /\ overlay.status # "loading" => \A a \in monthAsks : a.nr # overlay.nr
=============================================================================
