------------------------------- MODULE Streaming -------------------------------
(***************************************************************************)
(* The streaming layout of a page (layouts/streaming): rows of categories,  *)
(* or the grid of one category or folder, for the filters that were chosen  *)
(* last.  A load (loadAndRender) and the quick way into a folder            *)
(* (navigateToSubfolderInstant) share one controller, which each of them    *)
(* takes from the one before; a view transition swaps rows and grid a frame *)
(* later; refreshes after index updates answer to no controller.            *)
(*                                                                         *)
(* Handlers run to their next await; answers come in any order.  The server *)
(* lists the same categories for the same filters throughout, those of the  *)
(* home view in pages.  The items of a view, its further pages, the hero     *)
(* and the rows of progress and new media are left out; a view with no      *)
(* items is a choice of the load's end.                                    *)
(***************************************************************************)
EXTENDS Naturals, FiniteSets, Sequences

CONSTANTS Categories, Parents, Folders,
          CategoryOf,     \* of a folder
          Children,       \* categories of a parent
          OnPage,         \* categories of the pages of the home view, a sequence
          MediaTypes, AllTypes,
          NoFolder, NoViewKey, NoGrid,
          MaxTasks,       \* bound: loads and folders entered
          MaxPage,        \* bound: activePage
          MaxIndexAsks,   \* bound: refreshes after index updates
          MaxUpsets       \* bound: requests that fail

ASSUME StreamingAssumption ==
    /\ CategoryOf \in [Folders -> Categories]
    /\ Children \in [Parents -> SUBSET Categories]
    /\ OnPage \in Seq(SUBSET Categories) /\ OnPage # <<>>
    /\ AllTypes \in MediaTypes
    /\ NoFolder \notin Folders /\ NoViewKey \notin [folder: Folders \cup {NoFolder}, media: MediaTypes]
    /\ {MaxTasks, MaxIndexAsks, MaxUpsets} \subseteq Nat /\ MaxPage \in Nat \ {0}
    \* categoryIdFilter, subfolderFilter, parentNameFilter and activePage are different fields
    /\ \A f \in Folders : f \notin Categories \cup Parents \cup 1..MaxPage \cup 1..Len(OnPage)

VARIABLES shown,           \* data-layout is "streaming"
          rooted,          \* the layout's container is mounted
          initializing,    \* _isInitializing
          filters,         \* categoryIdFilter, subfolderFilter, parentNameFilter and
                           \* activePage as one place, and mediaFilter
          categoriesData,  \* categories and the view each shows
          slot,            \* what #streaming-content-container holds
          gridView,        \* what the grid component shows, if there is one
          pageBar,         \* the page the pagination controls were made for, or 0
          tasks,           \* loads and ways into a folder, by number
          current,         \* whose controller _loadAbortController is, or 0
          layoutLoading,   \* isLoading
          transitions,     \* swaps to the grid that wait for their frame
          indexAsks,       \* refreshIndexedCategorySurface calls that wait
          wanted,          \* history: the filters chosen last
          unsettled,       \* history: what LayoutShowsChoice excepts has happened since
                           \* the last load or way into a folder began
          indexAsked, upsets   \* bounds

streamingVars ==
    <<shown, rooted, initializing, filters, categoriesData, slot, gridView, pageBar, tasks,
      current, layoutLoading, transitions, indexAsks, wanted, unsettled, indexAsked, upsets>>

TotalPages == Len(OnPage)
HomePlaces == 1..MaxPage
Filter == [place: HomePlaces \cup Categories \cup Parents \cup Folders, media: MediaTypes]
Home == [place |-> 1, media |-> AllTypes]
View == [folder: Folders \cup {NoFolder}, media: MediaTypes]
Card == [id: Categories, view: View \cup {NoViewKey}]

\* A grid that shows a view can be told from no grid.
ASSUME NoGridAssumption == NoGrid \notin Card

\* What the server lists for the filters.
Listed(f) ==
    {c \in Categories : \/ c = f.place
                        \/ f.place \in Folders /\ c = CategoryOf[f.place]
                        \/ f.place \in Parents /\ c \in Children[f.place]
                        \/ f.place \in 1..TotalPages /\ c \in OnPage[f.place]}

SingleView(f) == f.place \in Categories \cup Folders
ActivePage == IF filters.place \in HomePlaces THEN filters.place ELSE 1

\* deriveStreamingRowViewKey, buildCategoryMediaRequest
CardOf(f, c) ==
    [id |-> c, view |-> [folder |-> IF f.place \in Folders /\ c \in Listed(f) THEN f.place ELSE NoFolder,
                         media |-> f.media]]
\* setCategoryView, which adds a category it does not find.
Updated(cards, new) == {c \in cards : \A n \in new : n.id # c.id} \cup new
IdsOf(cards) == {c.id : c \in cards}

Options == {"bypass", "secondary", "single", "joined", "init"}
Task == [at: {"unused", "list", "secondary", "media", "folder", "done"}, asked: Filter,
         ids: SUBSET Categories, kept: SUBSET Card, how: SUBSET Options]
Spent(at) == [at |-> at, asked |-> Home, ids |-> {}, kept |-> {}, how |-> {}]
Numbers == 1..MaxTasks

\* What waits for its frame, after a load and after a way into a folder.
Transition == [by: {"load"}, shows: Card]
              \cup [by: {"folder"}, to: Filter, shows: Card, kept: SUBSET Card]
IndexAsk == [id: Categories, filters: Filter, one: BOOLEAN]

StreamingTypeOK ==
    /\ {shown, rooted, initializing, layoutLoading, unsettled} \subseteq BOOLEAN
    /\ {filters, wanted} \subseteq Filter
    /\ categoriesData \subseteq Card
    /\ slot \subseteq {"rows", "grid", "error"}
    /\ gridView \in Card \cup {NoGrid}
    /\ pageBar \in 0..MaxPage
    /\ tasks \in [Numbers -> Task] /\ current \in 0..MaxTasks
    /\ transitions \in Seq(Transition)
    /\ indexAsks \subseteq IndexAsk

StreamingInit ==
    /\ shown = FALSE /\ rooted = FALSE /\ initializing = FALSE
    /\ filters = Home /\ wanted = Home
    /\ categoriesData = {}
    /\ slot = {} /\ gridView = NoGrid /\ pageBar = 0
    /\ tasks = [n \in Numbers |-> Spent("unused")]
    /\ current = 0
    /\ layoutLoading = FALSE
    /\ transitions = <<>>
    /\ indexAsks = {}
    /\ unsettled = FALSE
    /\ indexAsked = 0 /\ upsets = 0

\* The task whose signal is not aborted.
Working(at) == current # 0 /\ tasks[current].at \in at
LoadUnderWay == Working({"list", "secondary", "media"})
FolderUnderWay == Working({"folder"})

-----------------------------------------------------------------------------
(* What begins a load or a way into a folder. *)

Begin(task) ==
    /\ \E n \in Numbers :
         /\ tasks[n].at = "unused" /\ \A m \in 1..n-1 : tasks[m].at # "unused"
         /\ tasks' = [tasks EXCEPT ![n] = task]
         /\ current' = n
    /\ layoutLoading' = TRUE

\* The categories are asked for by URL, and cachedFetch joins a request of the same URL
\* that has just been aborted and is not yet gone.
Url(f) == [f EXCEPT !.place = IF @ \in Folders THEN CategoryOf[@] ELSE @]
Joins(how) ==
    IF Working({"list"}) /\ Url(tasks[current].asked) = Url(filters')
          /\ "bypass" \notin how \cup tasks[current].how
    THEN {{}, {"joined"}} ELSE {{}}

LoadAndRenderRows(how) ==
    \E joined \in Joins(how) :
        Begin([at |-> "list", asked |-> filters', ids |-> {}, kept |-> {},
               how |-> how \cup joined \cup IF SingleView(filters') THEN {"single"} ELSE {}])

\* An error message that is shown stays beside what is mounted later, until the grid or
\* the layout is unmounted; a layout that was not mounted shows nothing; and a swap that
\* waits comes over what is chosen before its frame.
Doubtful == "error" \in slot' \/ ~rooted' \/ transitions # <<>>

UnmountGrid ==
    /\ gridView' = NoGrid
    /\ slot' = IF gridView = NoGrid THEN slot ELSE {}

MountRows ==
    /\ gridView' = NoGrid
    /\ slot' = {"rows"} \cup IF gridView = NoGrid THEN slot ELSE {}

\* unmountRows, mountGrid: a grid there is is bound to the new view, wherever it is; where
\* there is one, there are no rows.
MountGrid(card) ==
    /\ gridView' = card
    /\ slot' = (slot \ {"rows"}) \cup IF gridView = NoGrid THEN {"grid"} ELSE {}

\* A button of the filter bar.
ChooseType(m) ==
    /\ shown /\ rooted
    /\ m # filters.media \/ SingleView(filters) \/ filters.place \in Parents
    /\ filters' = [Home EXCEPT !.media = m]
    /\ wanted' = filters'
    /\ LoadAndRenderRows({"secondary"})
    /\ UNCHANGED <<shown, rooted, initializing, categoriesData, slot, gridView, pageBar,
                   transitions, indexAsks, indexAsked, upsets>>
    /\ unsettled' = Doubtful

\* setCategoryFilter and setParentFilter, of a search, a subfolder card or the pill.
ChoosePlace(p) ==
    /\ shown
    /\ UnmountGrid
    /\ filters' = [place |-> p, media |-> AllTypes]
    /\ wanted' = filters'
    /\ LoadAndRenderRows({"secondary"})
    /\ UNCHANGED <<shown, rooted, initializing, categoriesData, pageBar, transitions,
                   indexAsks, indexAsked, upsets>>
    /\ unsettled' = Doubtful

\* The pagination controls show the page they were made for; Previous and Next count
\* from the page of the latest click.
ChoosePage(p) ==
    /\ shown /\ pageBar # 0
    /\ \/ p \in 1..TotalPages \ {pageBar}
       \/ pageBar > 1 /\ p = IF ActivePage > 1 THEN ActivePage - 1 ELSE 1
       \/ pageBar < TotalPages /\ p = ActivePage + 1
    /\ filters' = [filters EXCEPT !.place = p]
    /\ wanted' = filters'
    /\ LoadAndRenderRows({})
    /\ UNCHANGED <<shown, rooted, initializing, categoriesData, slot, gridView, pageBar,
                   transitions, indexAsks, indexAsked, upsets>>
    /\ unsettled' = Doubtful

\* The button of the error message; hidden content is shown or not.
LoadAgain(how) ==
    /\ shown
    /\ how = {"secondary"} => "error" \in slot
    /\ UNCHANGED <<filters, wanted>>
    /\ LoadAndRenderRows(how)
    /\ UNCHANGED <<shown, rooted, initializing, categoriesData, slot, gridView, pageBar,
                   transitions, indexAsks, indexAsked, upsets>>
    /\ unsettled' = (Doubtful \/ filters # wanted)      \* the folder is not entered

\* refresh, which events of the server schedule, with or without force; a new list of
\* categories goes back to the home view.
RefreshStreaming(list, force) ==
    /\ shown
    /\ gridView' = NoGrid
    /\ slot' = IF gridView # NoGrid THEN {} ELSE IF list THEN slot \ {"rows"} ELSE slot
    /\ filters' = IF list \/ filters.place \in HomePlaces THEN [filters EXCEPT !.place = 1] ELSE filters
    /\ wanted' = IF list \/ wanted = filters THEN filters' ELSE wanted
    /\ LoadAndRenderRows({"secondary"} \cup IF list \/ force THEN {"bypass"} ELSE {})
    /\ UNCHANGED <<shown, rooted, initializing, categoriesData, pageBar, transitions,
                   indexAsks, indexAsked, upsets>>
    /\ unsettled' = (Doubtful \/ filters' # wanted')   \* the folder is not entered

\* The view is asked for with the media type there is, and shown as that of all types.
NavigateToSubfolderInstant(f) ==
    LET c == CategoryOf[f]
        known == {d \in categoriesData : d.id = c}
    IN
    /\ shown
    /\ Begin([at |-> "folder", asked |-> [filters EXCEPT !.place = f], ids |-> {c},
              kept |-> IF known = {} THEN {[id |-> c, view |-> NoViewKey]} ELSE known, how |-> {}])
    /\ wanted' = [place |-> f, media |-> AllTypes]
    /\ UNCHANGED <<shown, rooted, initializing, filters, categoriesData, slot, gridView, pageBar,
                   transitions, indexAsks, indexAsked, upsets>>
    /\ unsettled' = (Doubtful \/ filters.media # AllTypes)

\* init; an init that still waits, of a layout that was left, makes it return at once.
EnterLayout ==
    /\ ~shown
    /\ shown' = TRUE
    /\ IF initializing
       THEN /\ unsettled' = TRUE
            /\ UNCHANGED <<rooted, initializing, filters, wanted, tasks, current, layoutLoading>>
       ELSE /\ rooted' = TRUE /\ initializing' = TRUE
            /\ filters' = Home /\ wanted' = Home
            /\ LoadAndRenderRows({"bypass", "secondary", "init"})
            /\ unsettled' = (transitions # <<>>)
    /\ UNCHANGED <<categoriesData, slot, gridView, pageBar, transitions, indexAsks, indexAsked, upsets>>

\* cleanup
LeaveLayout ==
    /\ shown
    /\ shown' = FALSE /\ rooted' = FALSE
    /\ current' = 0
    /\ slot' = {} /\ gridView' = NoGrid /\ pageBar' = 0
    /\ UNCHANGED <<initializing, filters, categoriesData, tasks, layoutLoading, transitions,
                   indexAsks, wanted, unsettled, indexAsked, upsets>>

-----------------------------------------------------------------------------
(* loadAndRender after its awaits.  A load whose controller was taken returns. *)

RequestUpset == upsets < MaxUpsets /\ upsets' = upsets + 1

Return(n) ==
    /\ tasks' = [tasks EXCEPT ![n] = Spent("done")]
    /\ initializing' = (initializing /\ "init" \notin tasks[n].how)

AwaitMedia(n, ids) ==
    tasks' = [tasks EXCEPT ![n].at = "media", ![n].asked = filters, ![n].ids = ids]

\* fetchCategories fails, as one does that joined an aborted request: the message takes
\* the place of whatever the slot holds.
ListFails(n) ==
    /\ IF "joined" \in tasks[n].how THEN UNCHANGED upsets ELSE RequestUpset
    /\ Return(n)
    /\ slot' = IF rooted THEN {"error"} ELSE {}
    /\ layoutLoading' = FALSE
    /\ unsettled' = TRUE
    /\ UNCHANGED <<categoriesData, gridView>>

ListCame(n) ==
    LET t == tasks[n] IN
    /\ "joined" \notin t.how
    /\ categoriesData' = {CardOf(filters, c) : c \in Listed(t.asked)}
    /\ IF "single" \in t.how \/ ~rooted THEN UNCHANGED <<slot, gridView>>
       ELSE MountRows
    /\ IF "secondary" \in t.how THEN tasks' = [tasks EXCEPT ![n].at = "secondary"]
       ELSE AwaitMedia(n, Listed(t.asked))
    /\ UNCHANGED <<initializing, layoutLoading, unsettled, upsets>>

ListAnswered(n) ==
    /\ tasks[n].at = "list"
    /\ IF current # n
       THEN Return(n) /\ UNCHANGED <<categoriesData, slot, gridView, layoutLoading, unsettled, upsets>>
       ELSE ListCame(n) \/ ListFails(n)
    /\ UNCHANGED <<shown, rooted, filters, pageBar, current, transitions, indexAsks, wanted, indexAsked>>

\* buildContinueWatchingData and fetchNewestMedia, which no signal ends.
SecondaryEnded(n) ==
    /\ tasks[n].at = "secondary"
    /\ IF current # n THEN Return(n)
       ELSE AwaitMedia(n, IdsOf(categoriesData)) /\ UNCHANGED initializing
    /\ UNCHANGED <<shown, rooted, filters, categoriesData, slot, gridView, pageBar, current,
                   layoutLoading, transitions, indexAsks, wanted, unsettled, indexAsked, upsets>>

ShowGrid(cards) ==
    /\ SingleView(filters)
    /\ \E c \in cards :
         /\ cards = {CardOf(filters, c.id)} \* getCategoryView finds the view of the filters
         /\ transitions' = Append(transitions, [by |-> "load", shows |-> c])
    /\ pageBar' = 0
    /\ UNCHANGED <<slot, gridView>>

ShowRows ==
    /\ IF rooted THEN /\ MountRows
                      /\ pageBar' = IF filters.place \in HomePlaces /\ TotalPages > 1
                                    THEN filters.place ELSE 0
       ELSE UNCHANGED <<slot, gridView, pageBar>>
    /\ UNCHANGED transitions

\* What a batch has brought; the others keep the view they have.
FetchCategoryMediaBatch(f, came) == {CardOf(f, c) : c \in came}

\* fetchAllCategoryMedia and the rest of the load.
MediaAnswered(n) ==
    /\ tasks[n].at = "media"
    /\ IF current # n
       THEN UNCHANGED <<categoriesData, slot, gridView, pageBar, layoutLoading, transitions, unsettled, upsets>>
       ELSE /\ \E came \in SUBSET tasks[n].ids :
                 /\ categoriesData' =
                        Updated(categoriesData, FetchCategoryMediaBatch(tasks[n].asked, came))
                 /\ IF came = tasks[n].ids THEN UNCHANGED <<unsettled, upsets>>
                    ELSE RequestUpset /\ unsettled' = TRUE
            /\ ShowGrid(categoriesData') \/ ShowRows
            /\ layoutLoading' = FALSE
    /\ Return(n)
    /\ UNCHANGED <<shown, rooted, filters, current, indexAsks, wanted, indexAsked>>

-----------------------------------------------------------------------------
(* The way into a folder; view transitions. *)

\* A failure comes as a view without a key.
FetchCategoryMedia(f, c) == {CardOf(f, c), [id |-> c, view |-> NoViewKey]}

FolderCame(n) ==
    LET t == tasks[n] IN
    \E c \in t.ids :
        /\ \E card \in FetchCategoryMedia(t.asked, c) :
             /\ IF card.view = NoViewKey THEN RequestUpset /\ unsettled' = TRUE
                ELSE UNCHANGED <<upsets, unsettled>>
             /\ categoriesData' = Updated(categoriesData, {card})
             /\ transitions' = Append(transitions,
                    [by |-> "folder", to |-> [t.asked EXCEPT !.media = AllTypes], shows |-> card,
                     kept |-> t.kept])
        /\ layoutLoading' = FALSE

FolderAnsweredUnchecked(n) ==
    /\ tasks[n].at = "folder"
    /\ FolderCame(n)
    /\ Return(n)
    /\ UNCHANGED <<shown, rooted, filters, slot, gridView, pageBar, current, indexAsks, wanted, indexAsked>>
FolderAnswered(n) ==
    /\ tasks[n].at = "folder"
    /\ IF current # n THEN UNCHANGED <<categoriesData, layoutLoading, transitions, unsettled, upsets>>
       ELSE FolderCame(n)
    /\ Return(n)
    /\ UNCHANGED <<shown, rooted, filters, slot, gridView, pageBar, current, indexAsks, wanted, indexAsked>>

\* The callback of a transition; that of a folder changes the filters as well.
TransitionRuns ==
    /\ transitions # <<>>
    /\ LET t == Head(transitions) IN
       /\ IF rooted THEN MountGrid(t.shows) ELSE UNCHANGED <<gridView, slot>>
       /\ IF t.by = "folder" THEN /\ filters' = t.to
                                  /\ categoriesData' = t.kept
                                  /\ pageBar' = 0
          ELSE UNCHANGED <<filters, categoriesData, pageBar>>
    /\ transitions' = Tail(transitions)
    /\ UNCHANGED <<shown, rooted, initializing, tasks, current, layoutLoading, indexAsks, wanted,
                   unsettled, indexAsked, upsets>>

-----------------------------------------------------------------------------
(* Index updates. *)

\* The timers of registerIndexUpdateSocketHandler and scheduleShellRefresh.
IndexUpdated(c) ==
    /\ shown
    /\ c \in IdsOf(categoriesData)
    /\ indexAsked < MaxIndexAsks
    /\ indexAsked' = indexAsked + 1
    /\ indexAsks' = indexAsks \cup {[id |-> c, filters |-> filters, one |-> Cardinality(categoriesData) = 1]}
    /\ UNCHANGED <<shown, rooted, initializing, filters, categoriesData, slot, gridView, pageBar,
                   tasks, current, layoutLoading, transitions, wanted, unsettled, upsets>>

\* The view of the filters there were is written, in whatever the layout shows now.
RefreshIndexedCategorySurface(a) ==
    /\ indexAsks' = indexAsks \ {a}
    /\ IF ~shown THEN UNCHANGED <<categoriesData, slot, gridView, unsettled, upsets>>
       ELSE \E card \in FetchCategoryMedia(a.filters, a.id) :
              /\ IF card.view = NoViewKey THEN RequestUpset ELSE UNCHANGED upsets
              /\ categoriesData' = Updated(categoriesData, {card})
              /\ IF gridView # NoGrid /\ a.one THEN MountGrid(card) ELSE UNCHANGED <<gridView, slot>>
              /\ unsettled' = \/ unsettled
                              \/ card.view = NoViewKey
                              \/ /\ a.id \notin Listed(filters) \/ card # CardOf(filters, a.id)
                                 /\ ~Working({"list"})
    /\ UNCHANGED <<shown, rooted, initializing, filters, pageBar, tasks, current, layoutLoading,
                   transitions, wanted, indexAsked>>

-----------------------------------------------------------------------------
StreamingNext ==
    \/ EnterLayout \/ LeaveLayout
    \/ \E m \in MediaTypes : ChooseType(m)
    \/ \E p \in {1} \cup Categories \cup Parents : ChoosePlace(p)
    \/ \E p \in HomePlaces : ChoosePage(p)
    \/ \E how \in {{"secondary"}, {"secondary", "bypass"}} : LoadAgain(how)
    \/ \E list, force \in BOOLEAN : RefreshStreaming(list, force)
    \/ \E f \in Folders : NavigateToSubfolderInstant(f)
    \/ \E n \in Numbers : ListAnswered(n) \/ SecondaryEnded(n) \/ MediaAnswered(n) \/ FolderAnswered(n)
    \/ TransitionRuns
    \/ \E c \in Categories : IndexUpdated(c)
    \/ \E a \in indexAsks : RefreshIndexedCategorySurface(a)

StreamingSpec == StreamingInit /\ [][StreamingNext]_streamingVars

-----------------------------------------------------------------------------
(* Property. *)

\* When nothing is under way, the layout has the filters that were chosen last and shows
\* them: the rows of the categories listed for them, each with its view, or the grid of
\* their one category; whatever loads, ways into folders, refreshes and index updates
\* did to each other.  Excepted are choices made while an old error message is shown, a
\* swap waits or the layout is not mounted, a folder entered from another media type or
\* overtaken by a reload, failed requests, and an index update that is answered when the
\* filters are others.
LayoutShowsChoice ==
    shown /\ ~LoadUnderWay /\ ~FolderUnderWay /\ transitions = <<>> /\ ~unsettled =>
        /\ ~layoutLoading
        /\ filters = wanted
        /\ \/ /\ slot = {"rows"} /\ gridView = NoGrid
              /\ categoriesData = {CardOf(filters, c) : c \in Listed(filters)}
           \/ /\ slot = {"grid"} /\ SingleView(filters)
              /\ {gridView} = {CardOf(filters, c) : c \in Listed(filters)}
=============================================================================
