------------------------------ MODULE MediaViews ------------------------------
(***************************************************************************)
(* The media views of a page: the ordered ids of each view (ordering.js),  *)
(* the records behind the ids (manifest.js), and the events of the server  *)
(* that invalidate both (invalidation.js).  All ids are in one category    *)
(* and every view is one page long.                                        *)
(*                                                                         *)
(* An answer is a picture of the library at the moment the server looked;  *)
(* it may be applied any time later, and other answers and events before.  *)
(***************************************************************************)
EXTENDS Naturals, FiniteSets, Sequences

CONSTANTS Ids,             \* media ids
          Views,           \* view keys
          MaxChanges,      \* bound: files added and deleted
          MaxFetches,      \* bound: order requests on their way when a view is opened
          MaxBatches,      \* bound: requests for records on their way
          MaxFailures      \* bound: failing requests for records

ASSUME ViewsAssumption == {MaxChanges, MaxFetches, MaxBatches, MaxFailures} \subseteq Nat

VARIABLES library,    \* the ids the server has
          events,     \* category_updated payloads on their way to the page
          orders,     \* ordering.orders: status and orderedIds of each view
          fetches,    \* order requests whose answer has not been applied
          manifest,   \* records, missing, failed, _queue, _inFlight of the manifest
          pins,       \* manifest._pins
          batches,    \* requests for records whose answer has not been applied
          edits,    \* files added and deleted so far
          failures    \* requests for records that failed so far

viewVars == <<library, events, orders, fetches, manifest, pins, batches, edits, failures>>

Fetch == [view : Views, current : BOOLEAN, net : Views, cached : BOOLEAN,
          state : {"sent", "looked", "aborted"}, answer : SUBSET Ids]
Batch == [nr : 1..MaxBatches, ids : (SUBSET Ids) \ {{}}, state : {"sent", "looked"},
          answer : SUBSET Ids]

Manifest == [records : SUBSET Ids, missing : SUBSET Ids, failed : SUBSET Ids,
             queue : SUBSET Ids, inFlight : SUBSET Ids]

ViewsTypeOK ==
    /\ library \subseteq Ids
    /\ events \in Seq([dead : SUBSET Ids, all : BOOLEAN])
    /\ orders \in [Views -> [status : {"idle", "fetching", "ready", "stale", "error"},
                             ids : SUBSET Ids]]
    /\ fetches \subseteq Fetch
    /\ manifest \in Manifest
    /\ pins \in [Views -> SUBSET Ids]
    /\ batches \subseteq Batch /\ IsFiniteSet(batches)
    \* every view has at most one request that counts
    /\ \A f, g \in fetches : f.view = g.view /\ f.current /\ g.current => f = g

EmptyManifest == [records |-> {}, missing |-> {}, failed |-> {}, queue |-> {}, inFlight |-> {}]

ViewsInit ==
    /\ library = Ids
    /\ events = <<>>
    /\ orders = [v \in Views |-> [status |-> "idle", ids |-> {}]]
    /\ fetches = {}
    /\ manifest = EmptyManifest
    /\ pins = [v \in Views |-> {}]
    /\ batches = {}
    /\ edits = 0
    /\ failures = 0

-----------------------------------------------------------------------------
(* The manifest. *)

Ingested(m, known, gone) ==
    [m EXCEPT !.records = @ \cup known, !.missing = (@ \ known) \cup gone,
              !.failed = @ \ (known \cup gone)]

\* A failed id is not asked for before its retryAt.
Requested(m, ids) ==
    [m EXCEPT !.queue = @ \cup (ids \ (m.records \cup m.missing \cup m.inFlight \cup m.failed))]

Invalidated(m, ids) ==
    [m EXCEPT !.records = @ \ ids, !.missing = @ \ ids, !.failed = @ \ ids,
              !.queue = @ \ ids, !.inFlight = @ \ ids]

\* invalidateCategory drops what it knows of the category; an id that is only
\* queued or under way stays so.
CategoryInvalidated(m) == Invalidated(m, m.records \cup m.missing \cup m.failed)

NextNr == CHOOSE n \in 1..MaxBatches : \A b \in batches : b.nr # n

FlushQueue ==
    /\ manifest.queue # {}
    /\ Cardinality(batches) < MaxBatches
    /\ LET batch == manifest.queue \ (manifest.records \cup manifest.missing \cup manifest.inFlight) IN
       /\ manifest' = [manifest EXCEPT !.queue = {}, !.inFlight = @ \cup batch]
       /\ batches' = IF batch = {} THEN batches
                     ELSE batches \cup {[nr |-> NextNr, ids |-> batch,
                                            state |-> "sent", answer |-> {}]}
    /\ UNCHANGED <<library, events, orders, fetches, pins, failures, edits>>

\* The finally block takes the batch's ids out of _inFlight, also when an
\* invalidation has taken them out before and another batch asks for them.
BatchSettledKeepsInFlight(b) ==
    /\ batches' = batches \ {b}
    /\ \/ /\ b.state = "looked"
          /\ manifest' = Ingested(manifest, b.ids \cap b.answer, b.ids \ b.answer)
          /\ UNCHANGED failures
       \/ /\ failures < MaxFailures
          /\ failures' = failures + 1
          /\ manifest' = [manifest EXCEPT !.failed = @ \cup b.ids]
    /\ UNCHANGED <<library, events, orders, fetches, pins, edits>>

BatchSettled(b) ==
    /\ batches' = batches \ {b}
    /\ \/ /\ b.state = "looked"
          /\ manifest' = [Ingested(manifest, b.ids \cap b.answer, b.ids \ b.answer)
                            EXCEPT !.inFlight = @ \ b.ids]
          /\ UNCHANGED failures
       \/ /\ failures < MaxFailures
          /\ failures' = failures + 1
          /\ manifest' = [manifest EXCEPT !.failed = @ \cup b.ids, !.inFlight = @ \ b.ids]
    /\ UNCHANGED <<library, events, orders, fetches, pins, edits>>

\* retryAt of every failed id has passed: the pinned ones are queued again.
\* They stay failed until records or missing knows them.
RetryFailed ==
    /\ manifest.failed # {}
    /\ LET pinned == UNION {pins[v] : v \in Views}
           again == (manifest.failed \cap pinned)
                      \ (manifest.records \cup manifest.missing \cup manifest.inFlight)
       IN manifest' = [manifest EXCEPT !.failed = @ \cap pinned, !.queue = @ \cup again]
    /\ UNCHANGED <<library, events, orders, fetches, pins, batches, failures, edits>>

\* A row scrolls into view and asks for the records it shows.
ShowRow(v) ==
    /\ manifest' = Requested(manifest, orders[v].ids)
    /\ UNCHANGED <<library, events, orders, fetches, pins, batches, failures, edits>>

-----------------------------------------------------------------------------
(* The orders. *)

\* The requests after those of the views V were aborted and superseded.  A
\* request that joined another view's in cachedFetch ends when that one is
\* aborted, and its own controller cannot abort it: it only counts no longer.
\* (A request of V's that is aborted is dropped here: what follows it, hydrating
\* the view's present ids, follows the request that took its place as well.)
Replaced(F, V) ==
    {[f EXCEPT !.current = @ /\ f.view \notin V] : f \in {g \in F : g.net \notin V}} \cup
    {[f EXCEPT !.state = "aborted", !.answer = {}] :
        f \in {g \in F : g.net \in V /\ g.view \notin V}}

NewFetch(v, cached) == [view |-> v, current |-> TRUE, net |-> v, cached |-> cached,
                        state |-> "sent", answer |-> {}]

\* cachedFetch has a request for the same URL on its way, which is joined.
Joined(v) == {[f EXCEPT !.view = v] : f \in {g \in fetches : g.view = g.net /\ g.view # v
                                               /\ g.cached /\ g.current /\ g.state # "aborted"}}

\* requestOrder of a view that is not ready (a ready one is returned as it is).
OpenView(v) ==
    /\ orders[v].status # "ready"
    /\ Cardinality(fetches) < MaxFetches
    /\ \E f \in {NewFetch(v, TRUE)} \cup Joined(v) : fetches' = Replaced(fetches, {v}) \cup {f}
    /\ orders' = [orders EXCEPT ![v].status = "fetching"]
    /\ UNCHANGED <<library, events, manifest, pins, batches, failures, edits>>

\* What follows requestOrder at every caller: pin the ids and hydrate them.
PinAndHydrate(v, m, ids) ==
    /\ pins' = [pins EXCEPT ![v] = ids]
    /\ manifest' = Requested(m, ids)

\* An answer is applied unless a newer request has taken its place.
OrderAnswered(f) ==
    /\ f.state = "looked"
    /\ fetches' = fetches \ {f}
    /\ IF f.current
       THEN /\ orders' = [orders EXCEPT ![f.view] = [status |-> "ready", ids |-> f.answer]]
            /\ PinAndHydrate(f.view, Ingested(manifest, f.answer, {}), f.answer)
       ELSE /\ PinAndHydrate(f.view, manifest, orders[f.view].ids)
            /\ UNCHANGED orders
    /\ UNCHANGED <<library, events, batches, failures, edits>>

OrderFailed(f) ==
    /\ fetches' = fetches \ {f}
    /\ orders' = IF f.current THEN [orders EXCEPT ![f.view].status = "error"] ELSE orders
    /\ PinAndHydrate(f.view, manifest, orders[f.view].ids)
    /\ UNCHANGED <<library, events, batches, failures, edits>>

-----------------------------------------------------------------------------
(* Invalidation. *)

\* The views that are in the order map with their type and params.
Entries == {v \in Views : orders[v].status # "idle"}

\* _handleCategoryUpdated.  The payload names the category, so every view is
\* among those refetched; a surgical one takes only the dead ids out of the
\* manifest, and out of every list at once.
HandleCategoryUpdatedKeepsFetches ==
    /\ events # <<>>
    /\ LET e == Head(events) IN
       /\ events' = Tail(events)
       /\ manifest' = IF e.all THEN EmptyManifest
                      ELSE IF e.dead # {} THEN Invalidated(manifest, e.dead)
                      ELSE CategoryInvalidated(manifest)
       /\ orders' = [v \in Views |->
                       [status |-> IF v \in Entries 
                                   THEN "stale" ELSE orders[v].status,
                        ids |-> orders[v].ids \ e.dead]]
    /\ UNCHANGED <<library, fetches, pins, batches, failures, edits>>

HandleCategoryUpdated ==
    /\ events # <<>>
    /\ LET e == Head(events) IN
       /\ events' = Tail(events)
       /\ manifest' = IF e.all THEN EmptyManifest
                      ELSE IF e.dead # {} THEN Invalidated(manifest, e.dead)
                      ELSE CategoryInvalidated(manifest)
       /\ orders' = [v \in Views |->
                       [status |-> IF v \in Entries THEN "fetching" ELSE "idle",
                        ids |-> orders[v].ids \ e.dead]]
       /\ fetches' = Replaced(fetches, Entries) \cup {NewFetch(v, FALSE) : v \in Entries}
    /\ UNCHANGED <<library, pins, batches, failures, edits>>

-----------------------------------------------------------------------------
(* The server. *)

\* A file is deleted or added, and the event announces it, exactly or not.
LibraryChanges(id) ==
    /\ edits < MaxChanges
    /\ edits' = edits + 1
    /\ library' = IF id \in library THEN library \ {id} ELSE library \cup {id}
    /\ \E dead \in {{}, library \ library'}, all \in BOOLEAN :
         /\ all => dead = {}
         /\ events' = Append(events, [dead |-> dead, all |-> all])
    /\ UNCHANGED <<orders, fetches, manifest, pins, batches, failures>>

\* One network request looks at the library for all that joined it.
ServerLooks(f) ==
    /\ f.state = "sent"
    /\ fetches' = {IF g.net = f.net /\ g.state = "sent"
                   THEN [g EXCEPT !.state = "looked", !.answer = library] ELSE g : g \in fetches}
    /\ UNCHANGED <<library, events, orders, manifest, pins, batches, failures, edits>>

ServerLooksUp(b) ==
    /\ b.state = "sent"
    /\ batches' = (batches \ {b}) \cup {[b EXCEPT !.state = "looked", !.answer = library]}
    /\ UNCHANGED <<library, events, orders, fetches, manifest, pins, failures, edits>>

-----------------------------------------------------------------------------
ViewsNext ==
    \/ \E v \in Views : OpenView(v)
    \/ \E v \in Views : ShowRow(v)
    \/ \E f \in fetches : OrderAnswered(f)
    \/ \E f \in fetches : OrderFailed(f)
    \/ \E f \in fetches : ServerLooks(f)
    \/ HandleCategoryUpdated
    \/ \E id \in Ids : LibraryChanges(id)
    \/ FlushQueue
    \/ RetryFailed
    \/ \E b \in batches : BatchSettled(b)
    \/ \E b \in batches : ServerLooksUp(b)

ViewsSpec == ViewsInit /\ [][ViewsNext]_viewVars

\* Timers go off, events arrive, requests are served or end with an error.
ViewsFairness ==
    /\ WF_viewVars(HandleCategoryUpdated)
    /\ WF_viewVars(FlushQueue)
    /\ WF_viewVars(RetryFailed)
    /\ WF_viewVars(\E f \in fetches : OrderAnswered(f) \/ OrderFailed(f))
    /\ \A n \in 1..MaxBatches :
         WF_viewVars(\E b \in batches : b.nr = n /\ (BatchSettled(b) \/ ServerLooksUp(b)))

FairViewsSpec == ViewsSpec /\ ViewsFairness

-----------------------------------------------------------------------------
(* Properties. *)

\* A view that counts as ready, with no event on its way, lists exactly what the
\* server has: late answers, joined requests and events that arrive while answers
\* are on their way never leave an old list behind.
ReadyViewIsCurrent ==
    \A v \in Views :
        orders[v].status = "ready" /\ events = <<>> => orders[v].ids = library

\* A card of a list that is not being fetched gets its record, or its id is known
\* to be missing or leaves the list, however many requests for the list and for
\* the records failed or were overtaken by invalidations.
CardsAreFilled ==
    []<>(\A v \in Views : \A id \in orders[v].ids :
             \/ orders[v].status = "fetching"
             \/ id \in manifest.records \cup manifest.missing)
=============================================================================
