---------------------------- MODULE BrowserProofs ----------------------------
(* Proofs about parts of a page: MediaViews, for every set of views and      *)
(* records; GuestProgress, for every set of urls and renames; Gallery, for   *)
(* every set of filters and months and every length of the timeline;         *)
(* LiveTranscode, for every number of videos, jobs and retries; and the page *)
(* they and UploadClient make up.                                            *)
EXTENDS MCBrowser, UploadClientProofs, WellFoundedInduction, FiniteSetTheorems, TLAPS

\* A finite set of numbers has a greatest.
LEMMA HasGreatest ==
  ASSUME NEW S \in SUBSET Nat, IsFiniteSet(S), S # {}
  PROVE  \E x \in S : \A y \in S : y <= x
<1> DEFINE Great(T) == \E x \in T : \A y \in T : y <= x
           Bad == {T \in FiniteSubsetsOf(S) : T # {} /\ ~Great(T)}
<1> SUFFICES ASSUME ~Great(S) PROVE FALSE
  OBVIOUS
<1>1. S \in Bad /\ Bad \subseteq FiniteSubsetsOf(S)
  BY DEF FiniteSubsetsOf
<1>2. PICK T \in Bad : \A U \in Bad : ~(<<U, T>> \in StrictSubsetOrdering(S))
  BY <1>1, FS_StrictSubsetOrderingWellFounded, WFMin
<1>3. PICK x \in T : TRUE
  OBVIOUS
<1>4. T \ {x} \in FiniteSubsetsOf(S) /\ <<T \ {x}, T>> \in StrictSubsetOrdering(S)
  BY FS_Subset, <1>3 DEF FiniteSubsetsOf, StrictSubsetOrdering
<1>5. T \ {x} = {} \/ Great(T \ {x})
  BY <1>2, <1>4
<1>6. T \subseteq Nat
  BY DEF FiniteSubsetsOf
<1>7. T \ {x} # {}
  BY <1>3, <1>6
<1>8. PICK y \in T \ {x} : \A z \in T \ {x} : z <= y
  BY <1>5, <1>7
<1>9. CASE x <= y
  BY <1>6, <1>8, <1>9
<1>10. CASE y <= x
  BY <1>6, <1>8, <1>10, <1>3
<1> QED
  BY <1>6, <1>9, <1>10

-----------------------------------------------------------------------------
(* MediaViews: what counts as ready is what the server has. *)

\* A request belongs to a view that is in the order map, and one that counts to a
\* view that waits for it.
FetchesCount ==
    \A f \in fetches :
        /\ orders[f.view].status # "idle" /\ orders[f.net].status # "idle"
        /\ f.current => orders[f.view].status = "fetching"

\* When every event has been handled, answers that count are as new as the lists.
AnswersAreCurrent ==
    events = <<>> =>
        /\ \A f \in fetches : f.current /\ f.state = "looked" => f.answer = library
        /\ \A v \in Views : orders[v].status = "ready" => orders[v].ids = library

ViewsInv == ViewsTypeOK /\ FetchesCount /\ AnswersAreCurrent

\* What the manifest's operations make of a manifest is one.
LEMMA ManifestOperations ==
  ASSUME NEW m \in Manifest, NEW ids \in SUBSET Ids, NEW known \in SUBSET Ids,
         NEW gone \in SUBSET Ids
  PROVE  /\ Ingested(m, known, gone) \in Manifest
         /\ Requested(m, ids) \in Manifest
         /\ Invalidated(m, ids) \in Manifest
         /\ CategoryInvalidated(m) \in Manifest
         /\ [m EXCEPT !.inFlight = @ \ ids] \in Manifest
         /\ [m EXCEPT !.failed = @ \cup ids, !.inFlight = @ \ ids] \in Manifest
BY DEF Manifest, Ingested, Requested, Invalidated, CategoryInvalidated

\* What is left of a queue, and its first element, keep their type.
LEMMA QueueTyping ==
  ASSUME NEW S, NEW q \in Seq(S), q # <<>>
  PROVE  Head(q) \in S /\ Tail(q) \in Seq(S)
OBVIOUS

\* Fewer batches than numbers leave a number that none has.
LEMMA NextNrIsFree ==
  ASSUME batches \subseteq Batch, IsFiniteSet(batches), Cardinality(batches) < MaxBatches
  PROVE  NextNr \in 1..MaxBatches
<1> DEFINE used == {b.nr : b \in batches}
           f == [b \in batches |-> b.nr]
<1>1. f \in Surjection(batches, used)
  BY DEF Surjection
<1>2. IsFiniteSet(used) /\ Cardinality(used) <= Cardinality(batches)
  BY <1>1, FS_Surjection
<1>3. IsFiniteSet(1..MaxBatches) /\ Cardinality(1..MaxBatches) = MaxBatches
  BY ViewsAssumption, FS_Interval
<1>4. \E n \in 1..MaxBatches : \A b \in batches : b.nr # n
  <2>1. SUFFICES ASSUME 1..MaxBatches \subseteq used PROVE FALSE
    OBVIOUS
  <2>2. Cardinality(1..MaxBatches) <= Cardinality(used)
    BY <1>2, <2>1, FS_Subset
  <2> QED
    BY <1>2, <1>3, <2>2, FS_CardinalityType, ViewsAssumption
<1> QED
  BY <1>4 DEF NextNr

\* A request that is left after others took its place: it is an old one that counts no
\* longer, or that is aborted.
LeftOf(f, g, V) ==
    /\ f \in Fetch
    /\ f.view = g.view /\ f.net = g.net
    /\ f.current => g.current /\ g.view \notin V
    /\ f.state = "looked" => g.state = "looked" /\ f.answer = g.answer
    /\ g.net \in V => g.view \notin V

LEMMA ReplacedAreLeft ==
  ASSUME fetches \subseteq Fetch, NEW V \in SUBSET Views, NEW f \in Replaced(fetches, V)
  PROVE  \E g \in fetches : LeftOf(f, g, V)
<1>1. ASSUME NEW g \in fetches, g.net \notin V,
             f = [g EXCEPT !.current = g.current /\ g.view \notin V]
      PROVE  LeftOf(f, g, V)
  BY <1>1 DEF LeftOf, Fetch
<1>2. ASSUME NEW g \in fetches, g.net \in V, g.view \notin V,
             f = [g EXCEPT !.state = "aborted", !.answer = {}]
      PROVE  LeftOf(f, g, V)
  BY <1>2 DEF LeftOf, Fetch
<1> QED
  BY <1>1, <1>2 DEF Replaced

\* A request that still counts is the only one of its view, as it was before.
LEMMA ReplacedCountOnce ==
  ASSUME fetches \subseteq Fetch, NEW V \in SUBSET Views,
         \A g, h \in fetches : g.view = h.view /\ g.current /\ h.current => g = h,
         NEW e \in Replaced(fetches, V), NEW f \in Replaced(fetches, V),
         e.view = f.view, e.current, f.current
  PROVE  e = f
<1> DEFINE From(x, g) ==
        \/ g.net \notin V /\ x = [g EXCEPT !.current = g.current /\ g.view \notin V]
        \/ g.net \in V /\ g.view \notin V /\ x = [g EXCEPT !.state = "aborted", !.answer = {}]
<1>1. \A x \in Replaced(fetches, V) : \E g \in fetches : From(x, g)
  BY DEF Replaced
<1>2. ASSUME NEW x, NEW g \in fetches, From(x, g), x.current
      PROVE  g.current /\ g.view = x.view
  BY <1>2 DEF Fetch
<1>3. PICK g \in fetches, h \in fetches : From(e, g) /\ From(f, h)
  BY <1>1
<1>4. /\ g.current /\ g.view = e.view
      /\ h.current /\ h.view = f.view
  BY <1>2, <1>3
<1>5. g = h
  BY <1>4
<1> QED
  BY <1>3, <1>5
LEMMA ViewsInitHolds == ViewsInit => ViewsInv
<1> SUFFICES ASSUME ViewsInit PROVE ViewsInv
  OBVIOUS
<1>1. ViewsTypeOK
  BY FS_EmptySet DEF ViewsInit, ViewsTypeOK, Manifest, EmptyManifest
<1> QED
  BY <1>1 DEF ViewsInit, ViewsInv, FetchesCount, AnswersAreCurrent

\* Queueing, answering and retrying records leaves everything else as it was.
LEMMA RecordsNext ==
  ASSUME ViewsTypeOK,
         \/ FlushQueue \/ RetryFailed
         \/ \E v \in Views : ShowRow(v)
         \/ \E b \in batches : BatchSettled(b) \/ ServerLooksUp(b)
  PROVE  ViewsTypeOK' /\ UNCHANGED <<library, events, orders, fetches>>
<1> USE DEF ViewsTypeOK
<1>1. ASSUME UNCHANGED <<library, events, orders, fetches, pins>>,
             manifest' \in Manifest, batches' \subseteq Batch, IsFiniteSet(batches')
      PROVE  ViewsTypeOK'
  BY <1>1
<1>2. CASE FlushQueue
  <2> DEFINE batch == manifest.queue \ (manifest.records \cup manifest.missing \cup manifest.inFlight)
             asked == [nr |-> NextNr, ids |-> batch, state |-> "sent", answer |-> {}]
  <2>1. batch \in SUBSET Ids /\ manifest' \in Manifest
    BY <1>2 DEF FlushQueue, Manifest
  <2>2. batch # {} => asked \in Batch
    <3>1. NextNr \in 1..MaxBatches
      BY <1>2, NextNrIsFree DEF FlushQueue
    <3> QED
      BY <2>1, <3>1 DEF Batch
  <2>3. batches' \subseteq Batch /\ IsFiniteSet(batches')
    BY <1>2, <2>2, FS_AddElement DEF FlushQueue
  <2> QED
    BY <1>1, <1>2, <2>1, <2>3 DEF FlushQueue
<1>3. CASE RetryFailed
  <2>1. manifest' \in Manifest
    BY <1>3 DEF RetryFailed, Manifest
  <2> QED
    BY <1>1, <1>3, <2>1 DEF RetryFailed
<1>4. ASSUME NEW v \in Views, ShowRow(v) PROVE ViewsTypeOK' /\ UNCHANGED <<library, events, orders, fetches>>
  <2>1. manifest' \in Manifest
    BY <1>4, ManifestOperations DEF ShowRow
  <2> QED
    BY <1>1, <1>4, <2>1 DEF ShowRow
<1>5. ASSUME NEW b \in batches, BatchSettled(b)
      PROVE ViewsTypeOK' /\ UNCHANGED <<library, events, orders, fetches>>
  <2>1. b.ids \in SUBSET Ids /\ b.answer \in SUBSET Ids
    BY DEF Batch
  <2>2. Ingested(manifest, b.ids \cap b.answer, b.ids \ b.answer) \in Manifest
    BY <2>1, ManifestOperations
  <2> DEFINE known == Ingested(manifest, b.ids \cap b.answer, b.ids \ b.answer)
  <2> HIDE DEF known
  <2>3. manifest' \in Manifest
    <3>1. \/ manifest' = [known EXCEPT !.inFlight = @ \ b.ids]
          \/ manifest' = [manifest EXCEPT !.failed = @ \cup b.ids, !.inFlight = @ \ b.ids]
      BY <1>5 DEF BatchSettled, known
    <3>2. known \in Manifest
      BY <2>2 DEF known
    <3>3. CASE manifest' = [known EXCEPT !.inFlight = @ \ b.ids]
      BY <2>1, <3>2, <3>3 DEF Manifest
    <3>4. CASE manifest' = [manifest EXCEPT !.failed = @ \cup b.ids, !.inFlight = @ \ b.ids]
      BY <2>1, <3>4, ManifestOperations
    <3> QED
      BY <3>1, <3>3, <3>4
  <2>4. batches' \subseteq Batch /\ IsFiniteSet(batches')
    BY <1>5, FS_RemoveElement DEF BatchSettled
  <2> QED
    BY <1>1, <1>5, <2>3, <2>4 DEF BatchSettled
<1>6. ASSUME NEW b \in batches, ServerLooksUp(b)
      PROVE ViewsTypeOK' /\ UNCHANGED <<library, events, orders, fetches>>
  <2>1. [b EXCEPT !.state = "looked", !.answer = library] \in Batch
    BY DEF Batch
  <2>2. batches' \subseteq Batch /\ IsFiniteSet(batches')
    BY <1>6, <2>1, FS_RemoveElement, FS_AddElement DEF ServerLooksUp
  <2> QED
    BY <1>1, <1>6, <2>2 DEF ServerLooksUp
<1> QED
  BY <1>2, <1>3, <1>4, <1>5, <1>6 DEF FlushQueue, RetryFailed

\* What a caller of requestOrder does with the records.
LEMMA PinsAndHydrates ==
  ASSUME ViewsTypeOK, NEW v \in Views, NEW ids \in SUBSET Ids, NEW m \in Manifest, PinAndHydrate(v, m, ids)
  PROVE  pins' \in [Views -> SUBSET Ids] /\ manifest' \in Manifest
BY ManifestOperations DEF ViewsTypeOK, PinAndHydrate

LEMMA OpenNext ==
  ASSUME ViewsInv, NEW v \in Views, OpenView(v)
  PROVE  ViewsInv'
<1> USE DEF ViewsInv, ViewsTypeOK
<1>1. PICK f \in {NewFetch(v, TRUE)} \cup Joined(v) : fetches' = Replaced(fetches, {v}) \cup {f}
  BY DEF OpenView
<1>2. /\ f \in Fetch /\ f.view = v /\ f.current
      /\ f.net = v \/ \E g \in fetches : f.net = g.net
      /\ f.state = "looked" => \E g \in fetches : g.current /\ g.state = "looked" /\ f.answer = g.answer
  <2>1. CASE f = NewFetch(v, TRUE)
    BY <2>1 DEF NewFetch, Fetch
  <2>2. CASE f \in Joined(v)
    <3>1. PICK g \in fetches : g.current /\ f = [g EXCEPT !.view = v]
      BY <2>2 DEF Joined
    <3> QED
      BY <3>1 DEF Fetch
  <2> QED
    BY <1>1, <2>1, <2>2
<1>3. /\ orders[v].status # "ready"
      /\ orders' \in [Views -> [status : {"idle", "fetching", "ready", "stale", "error"}, ids : SUBSET Ids]]
      /\ orders'[v].status = "fetching"
      /\ \A w \in Views \ {v} : orders'[w] = orders[w]
      /\ UNCHANGED <<library, events, manifest, pins, batches>>
  BY DEF OpenView
<1>4. \A g \in Replaced(fetches, {v}) : \E h \in fetches : LeftOf(g, h, {v})
  BY ReplacedAreLeft
<1>5. ViewsTypeOK'
  <2>1. fetches' \subseteq Fetch
    BY <1>1, <1>2, <1>4 DEF LeftOf
  <2>2. ASSUME NEW g \in fetches', NEW h \in fetches', g.view = h.view, g.current, h.current
        PROVE  g = h
    <3>1. \A x \in Replaced(fetches, {v}) : x.current => x.view # v
      BY <1>4 DEF LeftOf
    <3>2. CASE g = f \/ h = f
      BY <1>1, <1>2, <2>2, <3>1, <3>2
    <3>3. CASE g # f /\ h # f
      BY <1>1, <2>2, <3>3, ReplacedCountOnce
    <3> QED
      BY <3>2, <3>3
  <2> QED
    BY <1>3, <2>1, <2>2
<1>6. FetchesCount'
  <2>1. ASSUME NEW g \in fetches' PROVE orders'[g.view].status # "idle" /\ orders'[g.net].status # "idle"
                                        /\ (g.current => orders'[g.view].status = "fetching")
    <3>1. CASE g = f
      BY <1>2, <1>3, <3>1 DEF FetchesCount, Fetch
    <3>2. CASE g \in Replaced(fetches, {v})
      <4>1. PICK h \in fetches : LeftOf(g, h, {v})
        BY <1>4, <3>2
      <4> QED
        BY <1>3, <4>1 DEF FetchesCount, LeftOf, Fetch
    <3> QED
      BY <1>1, <3>1, <3>2
  <2> QED
    BY <2>1 DEF FetchesCount
<1>7. AnswersAreCurrent'
  <2>1. ASSUME events = <<>>, NEW g \in fetches', g.current, g.state = "looked"
        PROVE  g.answer = library
    <3>1. CASE g = f
      BY <1>2, <2>1, <3>1 DEF AnswersAreCurrent
    <3>2. CASE g \in Replaced(fetches, {v})
      BY <1>4, <2>1, <3>2 DEF AnswersAreCurrent, LeftOf
    <3> QED
      BY <1>1, <3>1, <3>2
  <2> QED
    BY <1>3, <2>1 DEF AnswersAreCurrent
<1> QED
  BY <1>5, <1>6, <1>7

LEMMA AnswerNext ==
  ASSUME ViewsInv, NEW f \in fetches, OrderAnswered(f) \/ OrderFailed(f)
  PROVE  ViewsInv'
<1> USE DEF ViewsInv, ViewsTypeOK
<1>1. /\ f \in Fetch /\ f.view \in Views /\ f.answer \in SUBSET Ids
      /\ fetches' = fetches \ {f}
      /\ UNCHANGED <<library, events, batches>>
      /\ manifest \in Manifest
  BY DEF OrderAnswered, OrderFailed, Fetch
<1>2. /\ orders' \in [Views -> [status : {"idle", "fetching", "ready", "stale", "error"}, ids : SUBSET Ids]]
      /\ \A w \in Views \ {f.view} : orders'[w] = orders[w]
      /\ ~f.current => orders' = orders
      /\ orders'[f.view].status # "idle"
      /\ orders'[f.view].status = "ready" =>
           \/ orders' = orders
           \/ f.current /\ f.state = "looked" /\ orders'[f.view].ids = f.answer
  BY <1>1 DEF OrderAnswered, OrderFailed, FetchesCount
<1>3. pins' \in [Views -> SUBSET Ids] /\ manifest' \in Manifest
  <2>1. Ingested(manifest, f.answer, {}) \in Manifest
    BY <1>1, ManifestOperations
  <2>2. orders[f.view].ids \in SUBSET Ids
    BY <1>1
  <2>3. \/ PinAndHydrate(f.view, Ingested(manifest, f.answer, {}), f.answer)
        \/ PinAndHydrate(f.view, manifest, orders[f.view].ids)
    BY DEF OrderAnswered, OrderFailed
  <2> QED
    BY <1>1, <2>1, <2>2, <2>3, PinsAndHydrates
<1>4. ViewsTypeOK'
  BY <1>1, <1>2, <1>3
<1>5. FetchesCount'
  <2>1. \A g \in fetches' : g.current => g.view # f.view \/ ~f.current
    BY <1>1
  <2> QED
    BY <1>1, <1>2, <2>1 DEF FetchesCount, Fetch
<1>6. AnswersAreCurrent'
  BY <1>1, <1>2 DEF AnswersAreCurrent
<1> QED
  BY <1>4, <1>5, <1>6

LEMMA EventNext ==
  ASSUME ViewsInv, HandleCategoryUpdated
  PROVE  ViewsInv'
<1> USE DEF ViewsInv, ViewsTypeOK
<1> DEFINE e == Head(events)
<1>1. /\ e \in [dead : SUBSET Ids, all : BOOLEAN] /\ events' \in Seq([dead : SUBSET Ids, all : BOOLEAN])
      /\ UNCHANGED <<library, pins, batches>>
  <2>1. events # <<>> /\ events' = Tail(events) /\ UNCHANGED <<library, pins, batches>>
    BY DEF HandleCategoryUpdated
  <2> QED
    BY <2>1, QueueTyping
<1>2. manifest' \in Manifest
  <2>1. manifest \in Manifest /\ e.dead \in SUBSET Ids
    BY <1>1
  <2> QED
    <3>1. EmptyManifest \in Manifest
      BY DEF EmptyManifest, Manifest
    <3> QED
      BY <2>1, <3>1, ManifestOperations DEF HandleCategoryUpdated
<1>3. /\ orders' \in [Views -> [status : {"idle", "fetching", "ready", "stale", "error"}, ids : SUBSET Ids]]
      /\ \A v \in Entries : orders'[v].status = "fetching"
      /\ \A v \in Views : orders'[v].status # "ready"
      /\ Entries \subseteq Views
  BY <1>1 DEF HandleCategoryUpdated, Entries
<1>4. fetches' = {NewFetch(v, FALSE) : v \in Entries}
  <2>1. Replaced(fetches, Entries) = {}
    <3>1. \A g \in fetches : g.view \in Entries /\ g.net \in Entries
      BY DEF FetchesCount, Entries, Fetch
    <3> QED
      BY <3>1 DEF Replaced
  <2> QED
    BY <2>1 DEF HandleCategoryUpdated
<1>5. \A f \in fetches' : /\ f \in Fetch /\ f.view \in Entries /\ f.net = f.view
                          /\ f = NewFetch(f.view, FALSE) /\ f.state = "sent"
  <2> DEFINE New(v) == NewFetch(v, FALSE)
  <2>1. \A v \in Entries : New(v) \in Fetch /\ New(v).view = v /\ New(v).net = v /\ New(v).state = "sent"
    BY <1>3 DEF NewFetch, Fetch
  <2>2. \A f \in fetches' : \E v \in Entries : f = New(v)
    BY <1>4
  <2> HIDE DEF New
  <2>3. ASSUME NEW f \in fetches'
        PROVE  f \in Fetch /\ f.view \in Entries /\ f.net = f.view /\ f = New(f.view) /\ f.state = "sent"
    <3>1. PICK v \in Entries : f = New(v)
      BY <2>2
    <3>2. f.view = v
      BY <2>1, <3>1
    <3> QED
      BY <2>1, <3>1, <3>2
  <2> QED
    BY <2>3 DEF New
<1>6. ViewsTypeOK'
  <2>1. \A f, g \in fetches' : f.view = g.view => f = g
    BY <1>5
  <2> QED
    BY <1>1, <1>2, <1>3, <1>5, <2>1
<1>7. FetchesCount'
  BY <1>3, <1>5 DEF FetchesCount
<1>8. AnswersAreCurrent'
  BY <1>3, <1>5 DEF AnswersAreCurrent
<1> QED
  BY <1>6, <1>7, <1>8

\* Whatever changes in the library is announced.
LEMMA LibraryNext ==
  ASSUME ViewsInv, NEW id \in Ids, LibraryChanges(id)
  PROVE  ViewsInv'
<1> USE DEF ViewsInv, ViewsTypeOK
<1>1. PICK dead \in {{}, library \ library'}, every \in BOOLEAN :
        events' = Append(events, [dead |-> dead, all |-> every])
  BY DEF LibraryChanges
<1>2. /\ library' \in SUBSET Ids
      /\ UNCHANGED <<orders, fetches, manifest, pins, batches>>
  BY DEF LibraryChanges
<1>3. events' \in Seq([dead : SUBSET Ids, all : BOOLEAN]) /\ events' # <<>>
  <2>1. [dead |-> dead, all |-> every] \in [dead : SUBSET Ids, all : BOOLEAN]
    BY <1>1
  <2> QED
    BY <1>1, <2>1
<1> QED
  BY <1>2, <1>3 DEF FetchesCount, AnswersAreCurrent

LEMMA LooksNext ==
  ASSUME ViewsInv, NEW f \in fetches, ServerLooks(f)
  PROVE  ViewsInv'
<1> USE DEF ViewsInv, ViewsTypeOK
<1> DEFINE Seen(g) == [g EXCEPT !.state = "looked", !.answer = library]
<1>1. /\ UNCHANGED <<library, events, orders, manifest, pins, batches>>
      /\ \A h \in fetches' : \E g \in fetches : h = g \/ h = Seen(g)
      /\ \A g \in fetches : \/ g.net = f.net /\ g.state = "sent"
                            \/ ~(g.net = f.net /\ g.state = "sent")
  BY DEF ServerLooks
<1>2. \A g \in fetches : /\ Seen(g) \in Fetch /\ Seen(g).view = g.view /\ Seen(g).net = g.net
                         /\ Seen(g).current = g.current /\ Seen(g).answer = library
  BY DEF Fetch
<1> HIDE DEF Seen
<1>3. ViewsTypeOK'
  <2>1. fetches' \subseteq Fetch
    BY <1>1, <1>2
  <2>2. ASSUME NEW g \in fetches', NEW h \in fetches', g.view = h.view, g.current, h.current
        PROVE  g = h
    <3> DEFINE Made(x, y) == x = IF y.net = f.net /\ y.state = "sent" THEN Seen(y) ELSE y
    <3>1. PICK y \in fetches : Made(g, y)
      BY DEF ServerLooks, Seen
    <3>2. PICK z \in fetches : Made(h, z)
      BY DEF ServerLooks, Seen
    <3>3. y.view = g.view /\ y.current /\ z.view = h.view /\ z.current
      BY <1>2, <2>2, <3>1, <3>2
    <3>4. y = z
      BY <2>2, <3>3
    <3> QED
      BY <3>1, <3>2, <3>4
  <2> QED
    BY <1>1, <2>1, <2>2
<1>4. FetchesCount'
  BY <1>1, <1>2 DEF FetchesCount
<1>5. AnswersAreCurrent'
  BY <1>1, <1>2 DEF AnswersAreCurrent
<1> QED
  BY <1>3, <1>4, <1>5

(* Requests of ordering.js that still count are one for each view, and when   *)
(* no event waits their answers, and the views that are ready, are as new as  *)
(* the server's lists.                                                       *)
THEOREM ViewsKeep == ViewsSpec => []ViewsInv
<1>1. ViewsInv /\ [ViewsNext]_viewVars => ViewsInv'
  <2> SUFFICES ASSUME ViewsInv, [ViewsNext]_viewVars PROVE ViewsInv'
    OBVIOUS
  <2>1. ASSUME ViewsTypeOK', UNCHANGED <<library, events, orders, fetches>>
        PROVE  ViewsInv'
    BY <2>1 DEF ViewsInv, FetchesCount, AnswersAreCurrent
  <2>2. CASE \/ FlushQueue \/ RetryFailed
             \/ \E v \in Views : ShowRow(v)
             \/ \E b \in batches : BatchSettled(b) \/ ServerLooksUp(b)
    BY <2>1, <2>2, RecordsNext DEF ViewsInv
  <2>3. CASE UNCHANGED viewVars
    BY <2>1, <2>3 DEF viewVars, ViewsInv, ViewsTypeOK
  <2> QED
    BY <2>2, <2>3, OpenNext, AnswerNext, EventNext, LibraryNext, LooksNext DEF ViewsNext
<1> QED
  BY <1>1, ViewsInitHolds, PTL DEF ViewsSpec

(* When a page has handled every event, each view that counts as ready has   *)
(* the order the server has, however answers, events and openings interleave. *)
THEOREM ReadyIsCurrent == ViewsSpec => []ReadyViewIsCurrent
<1>1. ViewsInv => ReadyViewIsCurrent
  BY DEF ViewsInv, AnswersAreCurrent, ReadyViewIsCurrent
<1> QED
  BY <1>1, ViewsKeep, PTL

(* Orders, requests, batches and the manifest's sets stay well typed.          *)
THEOREM ViewsTyping == ViewsSpec => []ViewsTypeOK
<1>1. ViewsInv => ViewsTypeOK
  BY DEF ViewsInv
<1> QED
  BY <1>1, ViewsKeep, PTL

-----------------------------------------------------------------------------
(* GuestProgress: the store and the page agree, and nobody's progress goes back. *)

Op == {Read} \cup Writes
Records == [Urls -> 0..MaxSaves]
Renamed(u) == \E o \in moved : NewUrl[o] = u

\* Of a queue q, a store d and a cache c: the last transaction about a url says what
\* the cache does, and where there is none the store does.
Untouched(q, u) == \A i \in 1..Len(q) : ~Touches(q[i], u)
LastTouch(q, i, u) == Touches(q[i], u) /\ \A j \in i+1..Len(q) : ~Touches(q[j], u)
LastAgrees(q, c) == \A u \in Urls : \A i \in 1..Len(q) : LastTouch(q, i, u) => q[i].put[u] = c[u]
RestAgrees(q, d, c) == \A u \in Urls : Untouched(q, u) => d[u] = c[u]

\* No transaction replaces a record of u by an older one.
Forward(q, d, u) ==
    /\ \A j \in 1..Len(q) : (\A k \in 1..j-1 : ~Touches(q[k], u)) /\ d[u] # None /\ q[j].put[u] # None
                              => d[u] <= q[j].put[u]
    /\ \A i, j \in 1..Len(q) :
         /\ i < j /\ \A k \in i+1..j-1 : ~Touches(q[k], u)
         /\ q[i].put[u] # None /\ q[j].put[u] # None
         => q[i].put[u] <= q[j].put[u]

DatabaseIsOpen ==
    /\ loading \in {"categories", "videos"} => db
    /\ loaded => db
    /\ ~db => queue = <<>>
NothingIsLater(c, d, q, t) ==
    /\ \A u \in Urls : c[u] <= t /\ d[u] <= t
    /\ \A i \in 1..Len(q) : \A u \in Urls : q[i].put[u] <= t

ProgressInv ==
    /\ ProgressTypeOK
    /\ DatabaseIsOpen
    /\ LastAgrees(queue, cache)
    /\ loaded => RestAgrees(queue, disk, cache)
    /\ now >= 1 /\ NothingIsLater(cache, disk, queue, now)
    /\ \A u \in Urls : Renamed(u) \/ Forward(queue, disk, u)

-----------------------------------------------------------------------------
(* Queues. *)

LEMMA TailOfQueue ==
  ASSUME NEW q \in Seq(Op), q # <<>>
  PROVE  /\ Head(q) = q[1] /\ Head(q) \in Op /\ Len(q) \in Nat \ {0}
         /\ Tail(q) \in Seq(Op) /\ Len(Tail(q)) = Len(q) - 1
         /\ \A i \in 1..Len(q)-1 : Tail(q)[i] = q[i+1]
         /\ \A i \in 1..Len(q) : q[i] \in Op
OBVIOUS

LEMMA AppendToQueue ==
  ASSUME NEW q \in Seq(Op), NEW op \in Op
  PROVE  /\ Append(q, op) \in Seq(Op) /\ Len(q) \in Nat /\ Len(Append(q, op)) = Len(q) + 1
         /\ \A i \in 1..Len(q) : Append(q, op)[i] = q[i] /\ q[i] \in Op
         /\ Append(q, op)[Len(q) + 1] = op
OBVIOUS

LEMMA OpFields ==
  ASSUME NEW op \in Op
  PROVE  /\ op.gone \in SUBSET Urls /\ op.put \in Records /\ op.read \in BOOLEAN
         /\ op.read => \A u \in Urls : ~Touches(op, u)
<1>1. CASE op = Read
  BY <1>1, ProgressAssumption DEF Read, Records, Touches, None
<1>2. CASE op \in Writes
  BY <1>2 DEF Writes, Records
<1> QED
  BY <1>1, <1>2 DEF Op

LEMMA TailAgrees ==
  ASSUME NEW q \in Seq(Op), q # <<>>, NEW c, LastAgrees(q, c)
  PROVE  LastAgrees(Tail(q), c)
<1>1. ASSUME NEW u \in Urls, NEW i \in 1..Len(Tail(q)), LastTouch(Tail(q), i, u)
      PROVE  Tail(q)[i].put[u] = c[u]
  <2>1. i + 1 \in 1..Len(q) /\ Tail(q)[i] = q[i+1]
    BY TailOfQueue
  <2>2. ASSUME NEW j \in (i+1)+1..Len(q) PROVE ~Touches(q[j], u)
    <3>1. j - 1 \in i+1..Len(Tail(q)) /\ Tail(q)[j-1] = q[j]
      BY TailOfQueue
    <3> QED
      BY <1>1, <3>1 DEF LastTouch
  <2> QED
    BY <1>1, <2>1, <2>2 DEF LastAgrees, LastTouch
<1> QED
  BY <1>1 DEF LastAgrees

\* What a queue says of u without its first transaction.
LEMMA TailUntouched ==
  ASSUME NEW q \in Seq(Op), q # <<>>, NEW u \in Urls
  PROVE  /\ Untouched(Tail(q), u) /\ ~Touches(Head(q), u) => Untouched(q, u)
         /\ Untouched(Tail(q), u) /\ Touches(Head(q), u) => LastTouch(q, 1, u)
<1> SUFFICES ASSUME Untouched(Tail(q), u)
             PROVE  \A i \in 2..Len(q) : ~Touches(q[i], u)
  BY TailOfQueue DEF Untouched, LastTouch
<1> TAKE i \in 2..Len(q)
<1>1. i - 1 \in 1..Len(Tail(q)) /\ Tail(q)[i-1] = q[i]
  BY TailOfQueue
<1> QED
  BY <1>1 DEF Untouched

\* The first transaction runs, or it is a read and leaves the store alone.
LEMMA TailForward ==
  ASSUME NEW q \in Seq(Op), q # <<>>, NEW d \in Records, NEW e \in Records, NEW u \in Urls,
         Forward(q, d, u),
         IF Touches(Head(q), u) THEN e[u] = Head(q).put[u] ELSE e[u] = d[u]
  PROVE  Forward(Tail(q), e, u)
<1> DEFINE t == Tail(q)
<1>0. \A i \in 1..Len(t) : i+1 \in 1..Len(q) /\ t[i] = q[i+1]
  BY TailOfQueue
<1>1. ASSUME NEW j \in 1..Len(t), \A k \in 1..j-1 : ~Touches(t[k], u), e[u] # None, t[j].put[u] # None
      PROVE  e[u] <= t[j].put[u]
  <2>1. \A k \in 2..j : ~Touches(q[k], u)
    <3> TAKE k \in 2..j
    <3>1. k-1 \in 1..j-1 /\ t[k-1] = q[k]
      BY TailOfQueue
    <3> QED
      BY <1>1, <3>1
  <2>2. CASE Touches(Head(q), u)
    BY <1>0, <1>1, <2>1, <2>2, TailOfQueue DEF Forward
  <2>3. CASE ~Touches(Head(q), u)
    <3>1. \A k \in 1..(j+1)-1 : ~Touches(q[k], u)
      BY <2>1, <2>3, TailOfQueue
    <3> QED
      BY <1>0, <1>1, <2>3, <3>1 DEF Forward
  <2> QED
    BY <2>2, <2>3
<1>2. ASSUME NEW i \in 1..Len(t), NEW j \in 1..Len(t), i < j,
             \A k \in i+1..j-1 : ~Touches(t[k], u), t[i].put[u] # None, t[j].put[u] # None
      PROVE  t[i].put[u] <= t[j].put[u]
  <2>1. \A k \in (i+1)+1..(j+1)-1 : ~Touches(q[k], u)
    <3> TAKE k \in (i+1)+1..(j+1)-1
    <3>1. k-1 \in i+1..j-1 /\ t[k-1] = q[k]
      BY TailOfQueue
    <3> QED
      BY <1>2, <3>1
  <2> QED
    BY <1>0, <1>2, <2>1 DEF Forward
<1> QED
  BY <1>1, <1>2 DEF Forward

\* A transaction is added that says what the cache does from now on.
LEMMA AppendAgrees ==
  ASSUME NEW q \in Seq(Op), NEW op \in Op, NEW c, NEW b,
         LastAgrees(q, b),
         \A u \in Urls : IF Touches(op, u) THEN op.put[u] = c[u] ELSE c[u] = b[u]
  PROVE  /\ LastAgrees(Append(q, op), c)
         /\ \A d : RestAgrees(q, d, b) => RestAgrees(Append(q, op), d, c)
<1> DEFINE a == Append(q, op)
<1>1. ASSUME NEW u \in Urls, NEW i \in 1..Len(a), LastTouch(a, i, u)
      PROVE  a[i].put[u] = c[u]
  <2>1. CASE i = Len(q) + 1
    BY <1>1, <2>1, AppendToQueue DEF LastTouch
  <2>2. CASE i \in 1..Len(q)
    <3>1. ~Touches(op, u)
      BY <1>1, <2>2, AppendToQueue DEF LastTouch
    <3>2. LastTouch(q, i, u)
      BY <1>1, <2>2, AppendToQueue DEF LastTouch
    <3> QED
      BY <2>2, <3>1, <3>2, AppendToQueue DEF LastAgrees
  <2> QED
    BY <2>1, <2>2, AppendToQueue
<1>2. ASSUME NEW d, NEW u \in Urls, RestAgrees(q, d, b), Untouched(a, u) PROVE d[u] = c[u]
  <2>1. ~Touches(op, u)
    BY <1>2, AppendToQueue DEF Untouched
  <2>2. Untouched(q, u)
    BY <1>2, AppendToQueue DEF Untouched
  <2> QED
    BY <1>2, <2>1, <2>2 DEF RestAgrees
<1> QED
  BY <1>1, <1>2 DEF LastAgrees, RestAgrees

\* A transaction is added that is not older than what it follows.
LEMMA AppendForward ==
  ASSUME NEW q \in Seq(Op), NEW op \in Op, NEW d \in Records, NEW u \in Urls, Forward(q, d, u),
         op.put[u] # None => /\ \A i \in 1..Len(q) : LastTouch(q, i, u) => q[i].put[u] <= op.put[u]
                             /\ Untouched(q, u) => d[u] <= op.put[u]
  PROVE  Forward(Append(q, op), d, u)
<1> DEFINE a == Append(q, op)
<1>1. ASSUME NEW j \in 1..Len(a), \A k \in 1..j-1 : ~Touches(a[k], u), d[u] # None, a[j].put[u] # None
      PROVE  d[u] <= a[j].put[u]
  <2>1. CASE j = Len(q) + 1
    <3>1. Untouched(q, u)
      BY <1>1, <2>1, AppendToQueue DEF Untouched
    <3> QED
      BY <1>1, <2>1, <3>1, AppendToQueue
  <2>2. CASE j \in 1..Len(q)
    BY <1>1, <2>2, AppendToQueue DEF Forward
  <2> QED
    BY <2>1, <2>2, AppendToQueue
<1>2. ASSUME NEW i \in 1..Len(a), NEW j \in 1..Len(a), i < j,
             \A k \in i+1..j-1 : ~Touches(a[k], u), a[i].put[u] # None, a[j].put[u] # None
      PROVE  a[i].put[u] <= a[j].put[u]
  <2>0. i \in 1..Len(q)
    BY <1>2, AppendToQueue
  <2>1. CASE j = Len(q) + 1
    <3>1. LastTouch(q, i, u)
      BY <1>2, <2>0, <2>1, AppendToQueue DEF LastTouch, Touches
    <3> QED
      BY <1>2, <2>0, <2>1, <3>1, AppendToQueue
  <2>2. CASE j \in 1..Len(q)
    BY <1>2, <2>0, <2>2, AppendToQueue DEF Forward
  <2> QED
    BY <2>1, <2>2, AppendToQueue
<1> QED
  BY <1>1, <1>2 DEF Forward

-----------------------------------------------------------------------------
(* Steps. *)

LEMMA ProgressInitHolds == ProgressInit => ProgressInv
<1> SUFFICES ASSUME ProgressInit PROVE ProgressInv
  OBVIOUS
<1> USE DEF ProgressInit
<1>1. Len(<<>>) = 0 /\ 1..0 = {}
  OBVIOUS
<1>2. cache \in Records /\ disk \in Records
  BY ProgressAssumption DEF Records, None
<1>3. ProgressTypeOK
  <2>1. {profile, db, loaded} \subseteq BOOLEAN
    OBVIOUS
  <2>2. now \in 0..MaxSaves /\ timers \in [Urls -> Nat]
    BY ProgressAssumption
  <2>3. queue \in Seq({Read} \cup Writes)
    OBVIOUS
  <2> QED
    BY <1>1, <1>2, <2>1, <2>2, <2>3 DEF ProgressTypeOK, Records
<1>4. NothingIsLater(cache, disk, queue, now)
  BY <1>1 DEF NothingIsLater, None
<1>5. LastAgrees(queue, cache)
  BY <1>1 DEF LastAgrees
<1>6. \A u \in Urls : Forward(queue, disk, u)
  BY <1>1 DEF Forward
<1> QED
  BY <1>3, <1>4, <1>5, <1>6 DEF ProgressInv, DatabaseIsOpen

\* The cache changes, and with it the store if it is open.
Says(op, c, b) == \A u \in Urls : IF Touches(op, u) THEN op.put[u] = c[u] ELSE c[u] = b[u]
IsNew(op) == \A u \in Urls : Renamed(u) \/ op.put[u] = None \/ op.put[u] >= now

Writing(op) ==
    /\ queue' = Enqueued(op)
    /\ cache' \in Records /\ Says(op, cache', cache) /\ IsNew(op)
    /\ now' \in now..MaxSaves
    /\ \A u \in Urls : cache'[u] <= now' /\ op.put[u] <= now'
    /\ marks' \subseteq Urls /\ timers' \in [Urls -> Nat] /\ \A u \in marks' : timers'[u] > 0
    /\ paths' \subseteq Urls
    /\ UNCHANGED <<profile, loading, db, loaded, disk, moved>>

LEMMA WriteKeeps ==
  ASSUME ProgressInv, NEW op \in Writes, Writing(op)
  PROVE  ProgressInv'
<1> USE DEF ProgressInv, Writing
<1>0. queue \in Seq(Op) /\ op \in Op /\ now \in 0..MaxSaves /\ disk \in Records /\ cache \in Records
  BY DEF ProgressTypeOK, Op, Records
<1>1. CASE db
  <2>1. queue' = Append(queue, op)
    BY <1>1 DEF Enqueued
  <2> /\ queue' \in Seq(Op) /\ Len(queue) \in Nat /\ Len(queue') = Len(queue) + 1
      /\ \A i \in 1..Len(queue) : queue'[i] = queue[i] /\ queue[i] \in Op
      /\ queue'[Len(queue) + 1] = op
    BY <1>0, <2>1, AppendToQueue
  <2>2. ProgressTypeOK'
    <3>1. \A i \in 1..Len(queue') : queue'[i].read => i \in 1..Len(queue)
      <4>1. ~op.read
        BY DEF Writes
      <4> QED
        BY <1>0, <4>1
    <3>2. (loading = "videos" <=> \E i \in 1..Len(queue) : queue[i].read)'
      BY <3>1 DEF ProgressTypeOK
    <3>3. (\A i, j \in 1..Len(queue) : queue[i].read /\ queue[j].read => i = j)'
      BY <3>1 DEF ProgressTypeOK
    <3> QED
      BY <3>2, <3>3 DEF ProgressTypeOK, Records, Op
  <2>3. LastAgrees(queue, cache)'
    BY <1>0, <2>1, AppendAgrees DEF Says
  <2>4. (loaded => RestAgrees(queue, disk, cache))'
    BY <1>0, <2>1, AppendAgrees DEF Says
  <2>5. NothingIsLater(cache, disk, queue, now)'
    <3>1. \A u \in Urls : disk[u] \in Nat /\ disk[u] <= now'
      BY <1>0, ProgressAssumption DEF NothingIsLater, Records
    <3>2. \A i \in 1..Len(queue') : \A u \in Urls : queue'[i].put[u] <= now'
      <4> TAKE i \in 1..Len(queue')
      <4> TAKE u \in Urls
      <4>1. CASE i = Len(queue) + 1
        BY <4>1
      <4>2. CASE i \in 1..Len(queue)
        <5>1. queue[i].put[u] \in Nat /\ queue[i].put[u] <= now
          BY <4>2, OpFields, ProgressAssumption DEF NothingIsLater, Records
        <5> QED
          BY <1>0, <4>2, <5>1
      <4> QED
        BY <4>1, <4>2
    <3> QED
      BY <3>1, <3>2 DEF NothingIsLater
  <2>6. ASSUME NEW u \in Urls, ~Renamed(u) PROVE Forward(queue, disk, u)'
    <3>1. \A i \in 1..Len(queue) : queue[i].put[u] \in 0..MaxSaves /\ queue[i].put[u] <= now
      BY OpFields DEF NothingIsLater, Records
    <3>2. disk[u] \in 0..MaxSaves /\ disk[u] <= now /\ op.put[u] \in 0..MaxSaves
      BY <1>0, OpFields DEF NothingIsLater, Records
    <3>3. op.put[u] = None \/ op.put[u] >= now
      BY <2>6 DEF IsNew
    <3>4. op.put[u] # None => /\ \A i \in 1..Len(queue) : queue[i].put[u] <= op.put[u]
                              /\ disk[u] <= op.put[u]
      BY <1>0, <3>1, <3>2, <3>3, ProgressAssumption
    <3> QED
      BY <1>0, <2>1, <2>6, <3>4, AppendForward
  <2> QED
    <3>1. \A u \in Urls : Renamed(u)' \/ Forward(queue, disk, u)'
      BY <2>6 DEF Renamed
    <3>2. DatabaseIsOpen' /\ now' >= 1
      BY <1>0, <1>1 DEF DatabaseIsOpen
    <3> QED
      BY <2>2, <2>3, <2>4, <2>5, <3>1, <3>2
<1>2. CASE ~db
  <2>1. queue = <<>> /\ queue' = <<>> /\ ~loaded
    BY <1>2 DEF Enqueued, DatabaseIsOpen
  <2>2. Len(<<>>) = 0 /\ 1..0 = {}
    OBVIOUS
  <2>3. ProgressTypeOK'
    BY <2>1 DEF ProgressTypeOK, Records
  <2>4. NothingIsLater(cache, disk, queue, now)'
    <3>1. \A u \in Urls : disk[u] <= now'
      BY <1>0, ProgressAssumption DEF NothingIsLater, Records
    <3> QED
      BY <2>1, <2>2, <3>1 DEF NothingIsLater
  <2>5. LastAgrees(queue, cache)' /\ \A u \in Urls : Forward(queue, disk, u)'
    BY <2>1, <2>2 DEF LastAgrees, Forward
  <2> QED
    BY <1>0, <2>1, <2>3, <2>4, <2>5 DEF DatabaseIsOpen, Renamed
<1> QED
  BY <1>1, <1>2

\* Only what is written about a url changes the record of it.
LEMMA WriteGoesForward ==
  ASSUME ProgressInv, NEW op \in Writes, Writing(op),
         NEW u \in Urls, ~Renamed(u), cache[u] # None, cache'[u] # None
  PROVE  cache'[u] >= cache[u]
<1>1. /\ cache[u] \in 0..MaxSaves /\ cache'[u] \in 0..MaxSaves /\ cache[u] <= now
      /\ op.put[u] \in 0..MaxSaves /\ now \in 0..MaxSaves
  BY DEF ProgressInv, ProgressTypeOK, NothingIsLater, Records, Writes, Writing
<1>2. CASE Touches(op, u)
  BY <1>1, <1>2, ProgressAssumption DEF Says, IsNew, Writing
<1>3. CASE ~Touches(op, u)
  BY <1>1, <1>3 DEF Says, Writing
<1> QED
  BY <1>2, <1>3

\* Saving, completing, clearing and renaming write what they change.
LEMMA SaveWrites ==
  ASSUME ProgressInv, NEW u \in Urls, SaveProgress(u)
  PROVE  \E op \in Writes : Writing(op)
<1> DEFINE op == Write({}, One(u, now'))
<1>1. /\ now \in 1..MaxSaves /\ now' \in now..MaxSaves /\ now' \in 1..MaxSaves
      /\ cache \in Records /\ cache' = [cache EXCEPT ![u] = now']
      /\ \A v \in Urls : cache[v] <= now
  BY ProgressAssumption DEF SaveProgress, Later, ProgressInv, ProgressTypeOK, Records, NothingIsLater
<1>2. op \in Writes /\ op.gone = {} /\ \A v \in Urls : op.put[v] = IF v = u THEN now' ELSE None
  BY <1>1, ProgressAssumption DEF Write, Writes, One, Nothing, None
<1>3. Says(op, cache', cache)
  BY <1>1, <1>2 DEF Says, Touches, Records, None
<1>4. IsNew(op)
  BY <1>1, <1>2, ProgressAssumption DEF IsNew
<1>5. \A v \in Urls : cache'[v] <= now' /\ op.put[v] <= now'
  BY <1>1, <1>2, ProgressAssumption DEF Records, None
<1>6. Writing(op)
  BY <1>1, <1>3, <1>4, <1>5 DEF Writing, SaveProgress, ProgressInv, ProgressTypeOK, Records
<1> QED
  BY <1>2, <1>6

LEMMA DeleteWrites ==
  ASSUME ProgressInv, NEW urls \in SUBSET Urls, Deleted(urls),
         marks' \subseteq Urls, timers' \in [Urls -> Nat], \A u \in marks' : timers'[u] > 0,
         UNCHANGED <<profile, loading, db, loaded, disk, paths, moved, now>>
  PROVE  \E op \in Writes : Writing(op)
<1> DEFINE op == Write(urls, Nothing)
<1>1. /\ now \in 1..MaxSaves /\ now' \in now..MaxSaves
      /\ cache \in Records /\ cache' = [u \in Urls |-> IF u \in urls THEN None ELSE cache[u]]
      /\ \A v \in Urls : cache[v] <= now
  BY ProgressAssumption DEF Deleted, ProgressInv, ProgressTypeOK, Records, NothingIsLater
<1>2. op \in Writes /\ op.gone = urls /\ \A v \in Urls : op.put[v] = None
  BY ProgressAssumption DEF Write, Writes, Nothing, None
<1>3. cache' \in Records /\ \A v \in Urls : cache'[v] <= now' /\ op.put[v] <= now'
  BY <1>1, <1>2, ProgressAssumption DEF Records, None
<1>4. Says(op, cache', cache) /\ IsNew(op)
  BY <1>1, <1>2 DEF Says, Touches, IsNew
<1>5. Writing(op)
  BY <1>1, <1>3, <1>4 DEF Writing, Deleted, ProgressInv, ProgressTypeOK
<1> QED
  BY <1>2, <1>5

LEMMA CompletionWrites ==
  ASSUME ProgressInv, NEW u \in Urls, CompleteVideo(u), ~profile
  PROVE  \E op \in Writes : Writing(op)
<1>1. marks' \subseteq Urls /\ timers' \in [Urls -> Nat] /\ \A v \in marks' : timers'[v] > 0
  BY DEF CompleteVideo, ProgressInv, ProgressTypeOK
<1>2. Deleted({u}) /\ UNCHANGED <<profile, loading, db, loaded, disk, paths, moved, now>>
  BY DEF CompleteVideo
<1> QED
  BY <1>1, <1>2, DeleteWrites

LEMMA ClearWrites ==
  ASSUME ProgressInv, clearAllVideoProgress
  PROVE  \E op \in Writes : Writing(op)
<1>1. marks' \subseteq Urls /\ timers' \in [Urls -> Nat] /\ \A v \in marks' : timers'[v] > 0
  BY DEF clearAllVideoProgress, ProgressInv, ProgressTypeOK
<1>2. Deleted(Urls) /\ UNCHANGED <<profile, loading, db, loaded, disk, paths, moved, now>>
  BY DEF clearAllVideoProgress
<1> QED
  BY <1>1, <1>2, DeleteWrites

\* The records of renamed files go where their files went.
LEMMA MappedRecords ==
  ASSUME NEW f \in Records, NEW olds \in SUBSET DOMAIN NewUrl, NEW u \in Urls
  PROVE  /\ Mapped(f, olds) \in Records
         /\ (\E o \in olds : NewUrl[o] = u /\ f[o] # None) =>
               /\ Mapped(f, olds)[u] # None
               /\ \E o \in olds : Mapped(f, olds)[u] = f[o]
         /\ ~(\E o \in olds : NewUrl[o] = u /\ f[o] # None) =>
               Mapped(f, olds)[u] = IF u \in olds THEN None ELSE f[u]
<1> DEFINE From(v) == CHOOSE o \in olds : NewUrl[o] = v /\ f[o] # None
<1>1. \A v \in Urls : (\E o \in olds : NewUrl[o] = v /\ f[o] # None) =>
                        From(v) \in olds /\ f[From(v)] # None
  OBVIOUS
<1>2. \A v \in Urls : Mapped(f, olds)[v] =
         IF \E o \in olds : NewUrl[o] = v /\ f[o] # None THEN f[From(v)]
         ELSE IF v \in olds THEN None ELSE f[v]
  BY DEF Mapped
<1> HIDE DEF From
<1>3. \A v \in Urls : Mapped(f, olds)[v] \in 0..MaxSaves
  <2> TAKE v \in Urls
  <2>1. CASE \E o \in olds : NewUrl[o] = v /\ f[o] # None
    <3>1. From(v) \in Urls
      BY <1>1, <2>1, NewUrlAssumption
    <3> QED
      BY <1>2, <2>1, <3>1 DEF Records
  <2>2. CASE ~(\E o \in olds : NewUrl[o] = v /\ f[o] # None)
    BY <1>2, <2>2, ProgressAssumption DEF Records, None
  <2> QED
    BY <2>1, <2>2
<1>4. Mapped(f, olds) \in Records
  BY <1>3 DEF Mapped, Records
<1> QED
  BY <1>1, <1>2, <1>4

LEMMA RenameWrites ==
  ASSUME ProgressInv, NEW u \in DOMAIN NewUrl, renameVideoProgress(u)
  PROVE  \E op \in Writes : Writing(op)
<1> DEFINE op == Write({u}, One(NewUrl[u], cache[u]))
<1>1. /\ now \in 1..MaxSaves /\ now' = now /\ cache \in Records
      /\ \A v \in Urls : cache[v] <= now
      /\ u \in Urls /\ NewUrl[u] \in Urls /\ u \in moved /\ cache[u] # None
      /\ cache' = Mapped(cache, {u})
  BY ProgressAssumption, NewUrlAssumption
     DEF renameVideoProgress, ProgressInv, ProgressTypeOK, Records, NothingIsLater
<1>2. op \in Writes /\ op.gone = {u} /\ \A v \in Urls : op.put[v] = IF v = NewUrl[u] THEN cache[u] ELSE None
  BY <1>1, ProgressAssumption DEF Write, Writes, One, Nothing, None, Records
<1>3. /\ cache' \in Records
      /\ \A v \in Urls : cache'[v] = IF v = NewUrl[u] THEN cache[u] ELSE IF v = u THEN None ELSE cache[v]
  BY <1>1, MappedRecords
<1>4. \A v \in Urls : cache'[v] <= now' /\ op.put[v] <= now'
  BY <1>1, <1>2, <1>3, ProgressAssumption DEF None
<1>5. Says(op, cache', cache) /\ IsNew(op)
  BY <1>1, <1>2, <1>3 DEF Says, Touches, IsNew, Renamed
<1>6. Writing(op)
  <2>1. queue' = Enqueued(op) /\ UNCHANGED <<profile, loading, db, loaded, disk, moved, marks, timers, paths>>
    BY DEF renameVideoProgress
  <2>2. /\ marks' \subseteq Urls /\ timers' \in [Urls -> Nat] /\ \A v \in marks' : timers'[v] > 0
        /\ paths' \subseteq Urls /\ now' \in now..MaxSaves
    BY <1>1, <2>1 DEF ProgressInv, ProgressTypeOK
  <2> HIDE DEF op
  <2> QED
    BY <1>3, <1>4, <1>5, <2>1, <2>2 DEF Writing
<1> QED
  BY <1>2, <1>6

LEMMA ResolvedWrites ==
  ASSUME ProgressInv, PathsResolved
  PROVE  (\E op \in Writes : Writing(op)) \/ (UNCHANGED <<queue, cache>>)
<1> USE DEF ProgressInv
<1> DEFINE olds == {u \in paths \cap moved : cache[u] # None}
<1>1. PICK stale \in SUBSET (paths \ moved) :
         LET kept == [u \in Urls |-> IF u \in stale THEN None ELSE Mapped(cache, olds)[u]]
         IN /\ cache' = kept
            /\ queue' = IF olds \cup stale = {} THEN queue
                        ELSE Enqueued(Write(olds \cup stale,
                               [u \in Urls |-> IF \E o \in olds : NewUrl[o] = u THEN kept[u] ELSE None]))
  BY DEF PathsResolved
<1> DEFINE put == [u \in Urls |-> IF \E o \in olds : NewUrl[o] = u THEN cache'[u] ELSE None]
           op == Write(olds \cup stale, put)
<1>2. /\ now \in 1..MaxSaves /\ now' = now /\ cache \in Records
      /\ \A v \in Urls : cache[v] <= now
      /\ olds \in SUBSET DOMAIN NewUrl /\ olds \subseteq moved /\ \A o \in olds : cache[o] # None /\ o \in Urls
      /\ stale \in SUBSET Urls
  <2> HIDE DEF put, op
  <2>1. /\ now \in 1..MaxSaves /\ cache \in Records /\ paths \subseteq Urls
        /\ \A v \in Urls : cache[v] <= now
    <3>1. {cache, disk} \subseteq Records /\ now \in 0..MaxSaves /\ now >= 1 /\ paths \subseteq Urls
      BY DEF ProgressTypeOK, Records
    <3>2. \A v \in Urls : cache[v] <= now
      BY DEF NothingIsLater
    <3> QED
      BY <3>1, <3>2, ProgressAssumption
  <2>2. now' = now
    BY DEF PathsResolved
  <2>3. moved \subseteq DOMAIN NewUrl /\ DOMAIN NewUrl \subseteq Urls
    BY NewUrlAssumption DEF ProgressTypeOK
  <2> QED
    BY <2>1, <2>2, <2>3
<1>3. cache' = [u \in Urls |-> IF u \in stale THEN None ELSE Mapped(cache, olds)[u]]
  BY <1>1
<1> HIDE DEF olds
<1>4. /\ cache' \in Records
      /\ \A u \in Urls : IF u \in stale THEN cache'[u] = None
                         ELSE IF \E o \in olds : NewUrl[o] = u
                         THEN cache'[u] # None /\ \E o \in olds : cache'[u] = cache[o]
                         ELSE cache'[u] = IF u \in olds THEN None ELSE cache[u]
  BY <1>2, <1>3, MappedRecords, ProgressAssumption DEF Records, None
<1>5. \A u \in Urls : cache'[u] <= now'
  BY <1>2, <1>4, ProgressAssumption DEF None
<1>6. CASE olds \cup stale = {}
  <2>1. \A u \in Urls : cache'[u] = cache[u]
    BY <1>4, <1>6
  <2>2. cache' = cache
    BY <1>2, <1>4, <2>1 DEF Records
  <2> QED
    BY <1>1, <1>6, <2>2 DEF olds
<1>7. CASE olds \cup stale # {}
  <2>1. queue' = Enqueued(op)
    BY <1>1, <1>7 DEF olds
  <2>2. op \in Writes /\ op.gone = olds \cup stale /\ op.put = put
    BY <1>2, <1>4, ProgressAssumption DEF Write, Writes, Records, None
  <2> HIDE DEF op
  <2>3. ASSUME NEW u \in Urls
        PROVE  /\ IF Touches(op, u) THEN op.put[u] = cache'[u] ELSE cache'[u] = cache[u]
               /\ op.put[u] <= now'
               /\ Renamed(u) \/ op.put[u] = None
    <3>1. op.put[u] = IF \E o \in olds : NewUrl[o] = u THEN cache'[u] ELSE None
      BY <2>2
    <3>2. CASE \E o \in olds : NewUrl[o] = u
      BY <1>2, <1>4, <1>5, <2>2, <3>1, <3>2 DEF Touches, Renamed
    <3>3. CASE ~\E o \in olds : NewUrl[o] = u
      BY <1>2, <1>4, <2>2, <3>1, <3>3, ProgressAssumption DEF Touches, None
    <3> QED
      BY <3>2, <3>3
  <2>4. Says(op, cache', cache) /\ IsNew(op) /\ \A u \in Urls : op.put[u] <= now'
    BY <2>3 DEF Says, IsNew
  <2>5. UNCHANGED <<profile, loading, db, loaded, disk, moved, marks, timers>> /\ paths' = {}
    BY DEF PathsResolved
  <2>6. /\ marks' \subseteq Urls /\ timers' \in [Urls -> Nat] /\ \A v \in marks' : timers'[v] > 0
        /\ paths' \subseteq Urls /\ now' \in now..MaxSaves
    BY <1>2, <2>5 DEF ProgressTypeOK
  <2>7. Writing(op)
    BY <1>4, <1>5, <2>1, <2>4, <2>5, <2>6 DEF Writing
  <2> QED
    BY <2>2, <2>7
<1> QED
  BY <1>6, <1>7

\* The first transaction runs.
LEMMA RunKeeps ==
  ASSUME ProgressInv, RunTransaction
  PROVE  /\ ProgressInv'
         /\ \A u \in Urls : Renamed(u) \/ disk[u] = None \/ disk'[u] = None \/ disk'[u] >= disk[u]
<1> USE DEF ProgressInv
<1> DEFINE op == Head(queue)
<1>1. /\ queue # <<>> /\ queue \in Seq(Op) /\ ~op.read /\ queue' = Tail(queue)
      /\ disk \in Records /\ disk' = Ran(disk, op) /\ now \in 0..MaxSaves
      /\ UNCHANGED <<profile, loading, db, loaded, cache, marks, timers, paths, moved, now>>
  BY DEF RunTransaction, ProgressTypeOK, Op, Records
<1>2. /\ op = queue[1] /\ op \in Op /\ Len(queue) \in Nat \ {0} /\ 1 \in 1..Len(queue)
      /\ queue' \in Seq(Op) /\ Len(queue') = Len(queue) - 1
      /\ \A i \in 1..Len(queue') : queue'[i] = queue[i+1] /\ i+1 \in 1..Len(queue)
      /\ \A i \in 2..Len(queue) : queue[i] = queue'[i-1] /\ i-1 \in 1..Len(queue')
  BY <1>1, TailOfQueue
<1>3. /\ op.put \in Records
      /\ \A u \in Urls : disk'[u] = IF Touches(op, u) THEN op.put[u] ELSE disk[u]
  BY <1>1, <1>2, OpFields DEF Ran, Over, Touches, None
<1>4. disk' \in Records
  BY <1>1, <1>3, ProgressAssumption DEF Ran, Over, Records, None
<1>5. ProgressTypeOK'
  <2>1. (\E i \in 1..Len(queue') : queue'[i].read) <=> (\E i \in 1..Len(queue) : queue[i].read)
    <3>1. ASSUME NEW i \in 1..Len(queue), queue[i].read PROVE i \in 2..Len(queue)
      BY <1>1, <1>2, <3>1
    <3> QED
      BY <1>2, <3>1
  <2>2. \A i, j \in 1..Len(queue') : queue'[i].read /\ queue'[j].read => i = j
    <3> TAKE i, j \in 1..Len(queue')
    <3>1. queue[i+1].read /\ queue[j+1].read => i + 1 = j + 1
      BY <1>2 DEF ProgressTypeOK
    <3> QED
      BY <1>2, <3>1
  <2> QED
    BY <1>1, <1>2, <1>4, <2>1, <2>2 DEF ProgressTypeOK, Op, Records
<1>6. LastAgrees(queue, cache)'
  BY <1>1, TailAgrees
<1>7. (loaded => RestAgrees(queue, disk, cache))'
  <2>1. ASSUME loaded, NEW u \in Urls, Untouched(Tail(queue), u) PROVE disk'[u] = cache[u]
    <3>1. CASE Touches(op, u)
      <4>1. LastTouch(queue, 1, u)
        BY <1>1, <2>1, <3>1, TailUntouched
      <4> QED
        BY <1>2, <1>3, <3>1, <4>1 DEF LastAgrees
    <3>2. CASE ~Touches(op, u)
      <4>1. Untouched(queue, u)
        BY <1>1, <2>1, <3>2, TailUntouched
      <4> QED
        BY <1>3, <2>1, <3>2, <4>1 DEF RestAgrees
    <3> QED
      BY <3>1, <3>2
  <2> QED
    BY <1>1, <2>1 DEF RestAgrees
<1>8. NothingIsLater(cache, disk, queue, now)'
  <2>1. \A u \in Urls : op.put[u] <= now
    BY <1>2 DEF NothingIsLater
  <2>2. \A u \in Urls : disk'[u] <= now
    BY <1>3, <2>1 DEF NothingIsLater
  <2> QED
    BY <1>1, <1>2, <2>2 DEF NothingIsLater
<1>9. ASSUME NEW u \in Urls, ~Renamed(u)
      PROVE  /\ Forward(queue, disk, u)'
             /\ disk[u] = None \/ disk'[u] = None \/ disk'[u] >= disk[u]
  <2>1. Forward(queue, disk, u)
    BY <1>9
  <2>2. Forward(Tail(queue), disk', u)
    BY <1>1, <1>3, <1>4, <2>1, TailForward
  <2>3. disk[u] \in 0..MaxSaves /\ op.put[u] \in 0..MaxSaves
    BY <1>1, <1>3 DEF Records
  <2>4. disk[u] # None /\ op.put[u] # None => disk[u] <= op.put[u]
    BY <1>2, <2>1 DEF Forward
  <2> QED
    BY <1>1, <1>3, <2>2, <2>3, <2>4, ProgressAssumption
<1> QED
  BY <1>1, <1>5, <1>6, <1>7, <1>8, <1>9 DEF DatabaseIsOpen, Renamed

\* The read of a load comes to its turn, and leaves the queue.
LEMMA ReadLeaves ==
  ASSUME ProgressInv, queue # <<>>, Head(queue).read
  PROVE  LET rest == Tail(queue)
         IN /\ rest \in Seq(Op) /\ \A i \in 1..Len(rest) : ~rest[i].read
            /\ loading = "videos" /\ db
            /\ LastAgrees(rest, cache)
            /\ NothingIsLater(cache, disk, rest, now)
            /\ \A u \in Urls : Renamed(u) \/ Forward(rest, disk, u)
            /\ RestAgrees(queue, disk, cache) => RestAgrees(rest, disk, cache)
<1> USE DEF ProgressInv
<1> DEFINE op == Head(queue)
           rest == Tail(queue)
<1>1. /\ queue \in Seq(Op) /\ disk \in Records /\ now \in 0..MaxSaves
      /\ op = queue[1] /\ op \in Op /\ Len(queue) \in Nat \ {0} /\ 1 \in 1..Len(queue)
      /\ rest \in Seq(Op) /\ Len(rest) = Len(queue) - 1
      /\ \A i \in 1..Len(rest) : rest[i] = queue[i+1] /\ i+1 \in 1..Len(queue) /\ i+1 # 1
  <2>1. queue \in Seq(Op) /\ disk \in Records /\ now \in 0..MaxSaves
    BY DEF ProgressTypeOK, Op, Records
  <2> QED
    BY <2>1, TailOfQueue
<1>2. \A u \in Urls : ~Touches(op, u)
  BY <1>1, OpFields
<1>3. loading = "videos" /\ db
  BY <1>1 DEF ProgressTypeOK, DatabaseIsOpen
<1>4. \A i \in 1..Len(rest) : ~rest[i].read
  BY <1>1 DEF ProgressTypeOK
<1>5. LastAgrees(rest, cache)
  BY <1>1, TailAgrees
<1>6. NothingIsLater(cache, disk, rest, now)
  BY <1>1 DEF NothingIsLater
<1>7. ASSUME NEW u \in Urls, ~Renamed(u) PROVE Forward(rest, disk, u)
  <2>1. Forward(queue, disk, u)
    BY <1>7
  <2> QED
    BY <1>1, <1>2, <2>1, TailForward
<1>8. RestAgrees(queue, disk, cache) => RestAgrees(rest, disk, cache)
  BY <1>1, <1>2, TailUntouched DEF RestAgrees
<1> QED
  BY <1>1, <1>3, <1>4, <1>5, <1>6, <1>7, <1>8

LEMMA ReadFailsKeeps ==
  ASSUME ProgressInv, VideosReadFails
  PROVE  ProgressInv'
<1>1. /\ queue # <<>> /\ Head(queue).read /\ queue' = Tail(queue) /\ loading' = "ready"
      /\ UNCHANGED <<profile, db, loaded, cache, disk, marks, timers, paths, moved, now>>
  BY DEF VideosReadFails
<1>2. ProgressTypeOK'
  <2>1. queue' \in Seq(Op) /\ \A i \in 1..Len(queue') : ~queue'[i].read
    BY <1>1, ReadLeaves
  <2> QED
    BY <1>1, <2>1 DEF ProgressInv, ProgressTypeOK, Op
<1> QED
  BY <1>1, <1>2, ReadLeaves DEF ProgressInv, DatabaseIsOpen, Renamed

\* A load takes the newer record of each url, and writes what it has.
LEMMA LoadKeeps ==
  ASSUME ProgressInv, VideosRead
  PROVE  /\ ProgressInv'
         /\ \A u \in Urls : cache[u] = None \/ cache'[u] >= cache[u]
<1> DEFINE rest == Tail(queue)
           op == Write({}, Merged)
<1>1. /\ queue # <<>> /\ Head(queue).read /\ queue' = Append(rest, op)
      /\ cache' = Merged /\ loading' = "ready" /\ loaded' = TRUE /\ paths' \subseteq Urls
      /\ UNCHANGED <<profile, db, disk, marks, timers, moved, now>>
  BY DEF VideosRead, flushCachesToIndexedDB
<1>2. /\ cache \in Records /\ disk \in Records /\ now \in 1..MaxSaves
      /\ \A u \in Urls : cache[u] <= now /\ disk[u] <= now
  BY ProgressAssumption DEF ProgressInv, ProgressTypeOK, Records, NothingIsLater
<1>3. /\ Merged \in Records
      /\ \A u \in Urls : Merged[u] = IF disk[u] >= cache[u] THEN disk[u] ELSE cache[u]
  <2>1. \A u \in Urls : Merged[u] = IF disk[u] >= cache[u] THEN disk[u] ELSE cache[u]
    <3> TAKE u \in Urls
    <3>1. disk[u] \in 0..MaxSaves /\ cache[u] \in 0..MaxSaves
      BY <1>2 DEF Records
    <3>2. Merged[u] = IF disk[u] = 0 THEN cache[u] ELSE IF disk[u] >= cache[u] THEN disk[u] ELSE cache[u]
      BY DEF Merged, preferNewerProgress, None
    <3> QED
      BY <3>1, <3>2, ProgressAssumption
  <2> QED
    BY <1>2, <2>1 DEF Merged, Records
<1>4. /\ op \in Op /\ op \in Writes /\ ~op.read
      /\ \A u \in Urls : op.put[u] = Merged[u] /\ (Touches(op, u) <=> Merged[u] # None)
  BY <1>3 DEF Op, Write, Writes, Records, Touches
<1> HIDE DEF op
<1>5. /\ rest \in Seq(Op) /\ \A i \in 1..Len(rest) : ~rest[i].read
      /\ db /\ LastAgrees(rest, cache)
      /\ NothingIsLater(cache, disk, rest, now)
      /\ \A u \in Urls : Renamed(u) \/ Forward(rest, disk, u)
  BY <1>1, ReadLeaves
<1>6. /\ queue' \in Seq(Op) /\ Len(rest) \in Nat /\ Len(queue') = Len(rest) + 1
      /\ \A i \in 1..Len(rest) : queue'[i] = rest[i] /\ rest[i] \in Op
      /\ queue'[Len(rest) + 1] = op
  BY <1>1, <1>4, <1>5, AppendToQueue
<1>7. ProgressTypeOK'
  <2>1. \A i \in 1..Len(queue') : ~queue'[i].read
    BY <1>4, <1>5, <1>6
  <2> QED
    BY <1>1, <1>3, <1>6, <2>1 DEF ProgressInv, ProgressTypeOK, Records, Op
<1>8. LastAgrees(queue, cache)'
  <2>1. \A u \in Urls : IF Touches(op, u) THEN op.put[u] = Merged[u] ELSE Merged[u] = cache[u]
    <3> TAKE u \in Urls
    <3>1. disk[u] \in 0..MaxSaves /\ cache[u] \in 0..MaxSaves
      BY <1>2 DEF Records
    <3>2. Merged[u] = 0 => cache[u] = 0
      BY <1>3, <3>1, ProgressAssumption
    <3> QED
      BY <1>4, <3>2 DEF None
  <2> QED
    BY <1>1, <1>4, <1>5, <2>1, AppendAgrees
<1>9. RestAgrees(queue, disk, cache)'
  <2>1. ASSUME NEW u \in Urls, Untouched(queue', u) PROVE disk[u] = Merged[u]
    <3>1. ~Touches(op, u)
      BY <1>6, <2>1 DEF Untouched
    <3> QED
      BY <1>2, <1>3, <1>4, <3>1, ProgressAssumption DEF Records, None
  <2> QED
    BY <1>1, <2>1 DEF RestAgrees
<1>10. NothingIsLater(cache, disk, queue, now)'
  <2>1. \A u \in Urls : Merged[u] <= now
    BY <1>2, <1>3
  <2>2. \A i \in 1..Len(queue') : \A u \in Urls : queue'[i].put[u] <= now
    <3> TAKE i \in 1..Len(queue')
    <3>1. i = Len(rest) + 1 \/ i \in 1..Len(rest)
      BY <1>6
    <3> QED
      BY <1>4, <1>5, <1>6, <2>1, <3>1 DEF NothingIsLater
  <2> QED
    BY <1>1, <1>2, <2>1, <2>2 DEF NothingIsLater
<1>11. ASSUME NEW u \in Urls, ~Renamed(u) PROVE Forward(queue, disk, u)'
  <2>1. \A i \in 1..Len(rest) : LastTouch(rest, i, u) => rest[i].put[u] <= op.put[u]
    <3> TAKE i \in 1..Len(rest)
    <3>1. LastTouch(rest, i, u) => rest[i].put[u] = cache[u]
      BY <1>5 DEF LastAgrees
    <3> QED
      BY <1>2, <1>3, <1>4, <3>1, ProgressAssumption DEF Records
  <2>2. disk[u] <= op.put[u]
    BY <1>2, <1>3, <1>4, ProgressAssumption DEF Records
  <2>3. Forward(rest, disk, u)
    BY <1>5, <1>11
  <2> QED
    BY <1>1, <1>2, <1>4, <1>5, <2>1, <2>2, <2>3, AppendForward
<1>12. \A u \in Urls : cache[u] = None \/ cache'[u] >= cache[u]
  BY <1>1, <1>2, <1>3, ProgressAssumption DEF Records
<1> QED
  BY <1>1, <1>5, <1>7, <1>8, <1>9, <1>10, <1>11, <1>12 DEF ProgressInv, DatabaseIsOpen, Renamed

\* A load asks the store, which changes nothing yet.
LEMMA AskKeeps ==
  ASSUME ProgressInv, CategoriesRead
  PROVE  ProgressInv'
<1> USE DEF ProgressInv
<1>1. /\ queue' = Append(queue, Read) /\ loading = "categories" /\ loading' = "videos" /\ db
      /\ queue \in Seq(Op) /\ Read \in Op /\ disk \in Records
      /\ UNCHANGED <<profile, db, loaded, cache, disk, marks, timers, paths, moved, now>>
  BY DEF CategoriesRead, DatabaseIsOpen, ProgressTypeOK, Op, Records
<1>2. /\ queue' \in Seq(Op) /\ Len(queue) \in Nat /\ Len(queue') = Len(queue) + 1
      /\ \A i \in 1..Len(queue) : queue'[i] = queue[i] /\ queue[i] \in Op
      /\ queue'[Len(queue) + 1] = Read
  BY <1>1, AppendToQueue
<1>3. \A u \in Urls : ~Touches(Read, u) /\ Read.put[u] = None
  BY DEF Read, Touches
<1>4. ProgressTypeOK'
  <2>1. \A i \in 1..Len(queue) : ~queue[i].read
    BY <1>1 DEF ProgressTypeOK
  <2>2. Read.read
    BY DEF Read
  <2>3. \A i \in 1..Len(queue') : queue'[i].read <=> i = Len(queue) + 1
    BY <1>2, <2>1, <2>2
  <2> QED
    BY <1>1, <1>2, <2>3 DEF ProgressTypeOK, Op
<1>5. LastAgrees(queue, cache)' /\ (loaded => RestAgrees(queue, disk, cache))'
  BY <1>1, <1>3, AppendAgrees
<1>6. NothingIsLater(cache, disk, queue, now)'
  <2>1. \A i \in 1..Len(queue') : \A u \in Urls : queue'[i].put[u] <= now
    <3> TAKE i \in 1..Len(queue')
    <3>1. i = Len(queue) + 1 \/ i \in 1..Len(queue)
      BY <1>2
    <3>2. now >= 0
      BY DEF ProgressTypeOK
    <3> QED
      BY <1>2, <1>3, <3>1, <3>2 DEF NothingIsLater, None
  <2> QED
    BY <1>1, <2>1 DEF NothingIsLater
<1>7. ASSUME NEW u \in Urls, ~Renamed(u) PROVE Forward(queue, disk, u)'
  BY <1>1, <1>3, <1>7, AppendForward
<1> QED
  BY <1>1, <1>4, <1>5, <1>6, <1>7 DEF DatabaseIsOpen, Renamed

\* The other steps change neither the cache nor the queue nor the store, but for a
\* reload, which empties the page.
LEMMA RestKeeps ==
  ASSUME ProgressInv,
         \/ initProgressDB \/ Opened \/ OpenFails \/ PathsUnanswered \/ ChangeProfile
         \/ \E u \in Urls : MarkEnds(u) \/ (CompleteVideo(u) /\ profile)
         \/ \E u \in DOMAIN NewUrl : RenameFile(u)
         \/ PathsResolved /\ UNCHANGED <<queue, cache>>
         \/ UNCHANGED progressVars
  PROVE  ProgressInv' /\ UNCHANGED <<cache, disk>>
<1> USE DEF ProgressInv, ProgressTypeOK
<1>1. UNCHANGED <<cache, disk, queue, now, loaded>> /\ moved \subseteq moved'
  BY DEF initProgressDB, Opened, OpenFails, PathsUnanswered, ChangeProfile, MarkEnds, CompleteVideo,
         RenameFile, PathsResolved, progressVars
<1>2. \A u \in Urls : Renamed(u)' \/ Forward(queue, disk, u)'
  BY <1>1 DEF Renamed
<1>3. /\ profile' \in BOOLEAN /\ db' \in BOOLEAN
      /\ loading' \in {"off", "opening", "categories", "videos", "ready", "held"}
      /\ loading' = "videos" <=> loading = "videos"
      /\ DatabaseIsOpen'
  BY <1>1 DEF initProgressDB, Opened, OpenFails, PathsUnanswered, ChangeProfile, MarkEnds, CompleteVideo,
         RenameFile, PathsResolved, progressVars, DatabaseIsOpen
<1>4. marks' \subseteq Urls /\ timers' \in [Urls -> Nat] /\ \A u \in marks' : timers'[u] > 0
  <2>1. ASSUME NEW u \in Urls, MarkEnds(u)
        PROVE  marks' \subseteq Urls /\ timers' \in [Urls -> Nat] /\ \A v \in marks' : timers'[v] > 0
    BY <2>1 DEF MarkEnds
  <2>2. ASSUME NEW u \in Urls, CompleteVideo(u)
        PROVE  marks' \subseteq Urls /\ timers' \in [Urls -> Nat] /\ \A v \in marks' : timers'[v] > 0
    BY <2>2 DEF CompleteVideo
  <2> QED
    BY <2>1, <2>2 DEF initProgressDB, Opened, OpenFails, PathsUnanswered, ChangeProfile,
         RenameFile, PathsResolved, progressVars
<1>5. paths' \subseteq Urls /\ moved' \subseteq DOMAIN NewUrl
  BY DEF initProgressDB, Opened, OpenFails, PathsUnanswered, ChangeProfile, MarkEnds, CompleteVideo,
         RenameFile, PathsResolved, progressVars
<1>6. ProgressTypeOK'
  BY <1>1, <1>3, <1>4, <1>5
<1> QED
  BY <1>1, <1>2, <1>3, <1>6 DEF LastAgrees, RestAgrees, NothingIsLater, LastTouch, Untouched

LEMMA ReloadKeeps ==
  ASSUME ProgressInv, Reload
  PROVE  ProgressInv' /\ disk' = disk /\ \A u \in Urls : cache'[u] = None
<1>1. /\ loading' = "off" /\ db' = FALSE /\ loaded' = FALSE /\ queue' = <<>> /\ cache' = Nothing
      /\ marks' = {} /\ timers' = [u \in Urls |-> 0] /\ paths' = {}
      /\ UNCHANGED <<profile, disk, moved, now>>
  BY DEF Reload
<1>2. Len(<<>>) = 0 /\ 1..0 = {}
  OBVIOUS
<1>3. Nothing \in Records /\ \A u \in Urls : Nothing[u] = 0
  BY ProgressAssumption DEF Nothing, Records, None
<1>4. ProgressTypeOK'
  <2>1. queue' \in Seq({Read} \cup Writes) /\ timers' \in [Urls -> Nat]
    BY <1>1
  <2> QED
    BY <1>1, <1>2, <1>3, <2>1 DEF ProgressInv, ProgressTypeOK, Records
<1>5. NothingIsLater(cache, disk, queue, now)'
  BY <1>1, <1>2, <1>3, ProgressAssumption DEF NothingIsLater, ProgressInv, ProgressTypeOK
<1>6. LastAgrees(queue, cache)' /\ \A u \in Urls : Forward(queue, disk, u)'
  BY <1>1, <1>2 DEF LastAgrees, Forward
<1> QED
  BY <1>1, <1>3, <1>4, <1>5, <1>6 DEF ProgressInv, DatabaseIsOpen, None

-----------------------------------------------------------------------------
(* Theorems. *)

LEMMA ProgressStep ==
  ASSUME ProgressInv, [ProgressNext]_progressVars
  PROVE  /\ ProgressInv'
         /\ \A u \in Urls :
              \/ Renamed(u)
              \/ /\ cache[u] # None /\ cache'[u] # None => cache'[u] >= cache[u]
                 /\ disk[u] # None /\ disk'[u] # None => disk'[u] >= disk[u]
<1> DEFINE Claim == /\ ProgressInv'
                    /\ \A u \in Urls :
                        \/ Renamed(u)
                        \/ /\ cache[u] # None /\ cache'[u] # None => cache'[u] >= cache[u]
                           /\ disk[u] # None /\ disk'[u] # None => disk'[u] >= disk[u]
<1> SUFFICES Claim
  OBVIOUS
<1>0. \A u \in Urls : cache[u] >= cache[u] /\ disk[u] >= disk[u]
  BY DEF ProgressInv, ProgressTypeOK
<1>1. ASSUME \E op \in Writes : Writing(op) PROVE Claim
  BY <1>0, <1>1, WriteKeeps, WriteGoesForward DEF Writing
<1>2. CASE RunTransaction
  BY <1>0, <1>2, RunKeeps DEF RunTransaction
<1>3. CASE VideosRead
  BY <1>0, <1>3, LoadKeeps DEF VideosRead
<1>4. CASE VideosReadFails
  BY <1>0, <1>4, ReadFailsKeeps DEF VideosReadFails
<1>5. CASE CategoriesRead
  BY <1>0, <1>5, AskKeeps DEF CategoriesRead
<1>6. CASE Reload
  BY <1>0, <1>6, ReloadKeeps
<1>7. CASE \/ initProgressDB \/ Opened \/ OpenFails \/ PathsUnanswered \/ ChangeProfile
           \/ \E u \in Urls : MarkEnds(u) \/ (CompleteVideo(u) /\ profile)
           \/ \E u \in DOMAIN NewUrl : RenameFile(u)
           \/ PathsResolved /\ UNCHANGED <<queue, cache>>
           \/ UNCHANGED progressVars
  BY <1>0, <1>7, RestKeeps
<1>8. CASE clearAllVideoProgress
  BY <1>1, <1>8, ClearWrites
<1>9. ASSUME NEW u \in Urls, SaveProgress(u) \/ CompleteVideo(u) \/ MarkEnds(u) PROVE Claim
  <2>1. CASE SaveProgress(u)
    BY <1>1, <2>1, SaveWrites
  <2>2. CASE MarkEnds(u) \/ (CompleteVideo(u) /\ profile)
    BY <1>7, <2>2
  <2>3. CASE CompleteVideo(u) /\ ~profile
    BY <1>1, <2>3, CompletionWrites
  <2> QED
    BY <1>9, <2>1, <2>2, <2>3
<1>10. ASSUME NEW u \in DOMAIN NewUrl, renameVideoProgress(u) \/ RenameFile(u) PROVE Claim
  <2>1. CASE renameVideoProgress(u)
    BY <1>1, <2>1, RenameWrites
  <2>2. CASE RenameFile(u)
    BY <1>7, <2>2
  <2> QED
    BY <1>10, <2>1, <2>2
<1>11. CASE PathsResolved
  BY <1>1, <1>7, <1>11, ResolvedWrites
<1> HIDE DEF Claim
<1>12. CASE initProgressDB \/ Opened \/ OpenFails \/ PathsUnanswered \/ ChangeProfile \/ UNCHANGED progressVars
  BY <1>7, <1>12
<1>13. CASE ProgressNext
  <2>1. CASE \E u \in Urls : SaveProgress(u) \/ CompleteVideo(u) \/ MarkEnds(u)
    BY <1>9, <2>1
  <2>2. CASE \E u \in DOMAIN NewUrl : renameVideoProgress(u) \/ RenameFile(u)
    BY <1>10, <2>2
  <2> QED
    BY <1>2, <1>3, <1>4, <1>5, <1>6, <1>8, <1>11, <1>12, <1>13, <2>1, <2>2 DEF ProgressNext
<1> QED
  BY <1>12, <1>13

(* In the queue of transactions the last one about a url says what the page   *)
(* shows of it, and none replaces a record by an older one.                   *)
THEOREM ProgressKeeps == ProgressSpec => []ProgressInv
<1>1. ProgressInv /\ [ProgressNext]_progressVars => ProgressInv'
  BY ProgressStep
<1> QED
  BY <1>1, ProgressInitHolds, PTL DEF ProgressSpec

(* When the transactions of progressDB.js have run, the store holds what the  *)
(* page shows, whatever was saved, completed, renamed or cleared during a load. *)
THEOREM StoreFollows == ProgressSpec => []StoreFollowsCache
<1>1. ProgressInv => StoreFollowsCache
  <2> SUFFICES ASSUME ProgressInv, loaded, NEW u \in Urls PROVE WillHold(u, cache[u])
    BY DEF StoreFollowsCache
  <2>1. CASE Untouched(queue, u)
    BY <2>1 DEF ProgressInv, RestAgrees, Untouched, WillHold
  <2>2. CASE \E i \in 1..Len(queue) : LastTouch(queue, i, u)
    BY <2>2 DEF ProgressInv, LastAgrees, LastTouch, WillHold
  <2>3. Untouched(queue, u) \/ \E i \in 1..Len(queue) : LastTouch(queue, i, u)
    <3> DEFINE touching == {i \in 1..Len(queue) : Touches(queue[i], u)}
    <3>1. Len(queue) \in Nat
      BY DEF ProgressInv, ProgressTypeOK
    <3>2. ASSUME touching # {} PROVE \E i \in touching : \A j \in touching : j <= i
      <4>1. IsFiniteSet(touching) /\ touching \in SUBSET Nat
        <5>1. IsFiniteSet(1..Len(queue)) /\ touching \in SUBSET (1..Len(queue))
          BY <3>1, FS_Interval
        <5> QED
          BY <3>1, <5>1, FS_Subset
      <4> QED
        BY <3>2, <4>1, HasGreatest
    <3>3. ASSUME NEW i \in touching, \A j \in touching : j <= i PROVE LastTouch(queue, i, u)
      BY <3>1, <3>3 DEF LastTouch
    <3> QED
      BY <3>2, <3>3 DEF Untouched
  <2> QED
    BY <2>1, <2>2, <2>3
<1> QED
  BY <1>1, ProgressKeeps, PTL

(* No load, late transaction or answer of the server replaces a record by an  *)
(* older one, save where a file was renamed.                                  *)
THEOREM GoesForward == ProgressSpec => ProgressGoesForward
<1>1. ProgressInv /\ [ProgressNext]_progressVars =>
        [\A u \in Urls :
           \/ \E o \in moved : NewUrl[o] = u
           \/ /\ cache[u] # None /\ cache'[u] # None => cache'[u] >= cache[u]
              /\ disk[u] # None /\ disk'[u] # None => disk'[u] >= disk[u]]_progressVars
  BY ProgressStep DEF Renamed
<1> QED
  BY <1>1, ProgressKeeps, PTL DEF ProgressSpec, ProgressGoesForward

(* The cache, the store and the queue stay well typed, and a load that waits  *)
(* for the store has exactly one read in the queue.                           *)
THEOREM ProgressTyping == ProgressSpec => []ProgressTypeOK
<1>1. ProgressInv => ProgressTypeOK
  BY DEF ProgressInv
<1> QED
  BY <1>1, ProgressKeeps, PTL

-----------------------------------------------------------------------------
(* Gallery: a timeline without gaps, and an overlay that shows its month. *)

\* A request is for the overlay as it is, or for none that can be open again.
OverlayInv ==
    /\ \A a \in monthAsks : a.nr <= overlay.nr
    /\ \A a, b \in monthAsks : a.nr = b.nr => a = b
    /\ OverlayShowsItsMonth
    /\ \A a \in monthAsks : a.nr = overlay.nr /\ a.month = overlay.month => a.filter = overlay.filter

\* Pages are asked for one after the other.
PagesFollow ==
    /\ datesPage <= LastPage \/ datesPage = 1
    /\ \A a \in asks : a.page <= LastPage + 1 \/ a.page = 2
    /\ \A a \in asks : a.by = "date" => a.page <= Length[a.filter]

\* The first n pages are there, and a refetch keeps them, the one under way and the
\* next.
Shown(n) ==
    \A p \in 1..n \cap 1..Length[filter] :
        /\ p \in timeline[filter]
        /\ p <= span[filter]
        /\ refetching[filter] # 0 => p <= refetching[filter]

LoadsAlone ==
    /\ isLoading /\ ~mounted /\ asks = {} /\ datesPage = 1
    /\ \E n \in Loads : UnderWay(n) /\ load[n] \in {"categories", filter}
    /\ \A m, n \in Loads : UnderWay(m) /\ UnderWay(n) => m = n

ShowsPages ==
    /\ \A n \in Loads : ~UnderWay(n)
    /\ viewKey = filter
    /\ Shown(datesPage)
    /\ ~hasMoreDates => Shown(Length[filter])
    /\ \A a \in asks : a.filter = filter /\ a.by # "date" /\ Shown(a.page - 1)
    /\ timeline[filter] \subseteq 1..Length[filter]

\* A timeline that nothing has disturbed is being loaded, or it shows what was.
TimelineInv ==
    /\ PagesFollow
    /\ ~disturbed => IF viewKey = NoView THEN LoadsAlone ELSE ShowsPages

GalleryInv == GalleryTypeOK /\ TimelineInv /\ OverlayInv

-----------------------------------------------------------------------------
LEMMA LastPageIsLast ==
  ASSUME Filters # {}
  PROVE  LastPage \in Nat /\ \A f \in Filters : Length[f] <= LastPage
<1> DEFINE lengths == {Length[f] : f \in Filters}
<1>1. lengths \in SUBSET Nat /\ lengths # {}
  BY GalleryAssumption
<1>2. IsFiniteSet(lengths)
  <2>1. Length \in Surjection(Filters, lengths)
    BY GalleryAssumption DEF Surjection
  <2> QED
    BY <2>1, GalleryAssumption, FS_Surjection
<1>3. \E n \in lengths : \A m \in lengths : m <= n
  BY <1>1, <1>2, HasGreatest
<1>4. \E n \in lengths : \A f \in Filters : Length[f] <= n
  BY <1>3
<1>5. LastPage \in lengths /\ \A f \in Filters : Length[f] <= LastPage
  BY <1>4, Zenon DEF LastPage
<1> QED
  BY <1>1, <1>5

LEMMA GalleryBounds ==
  ASSUME filter \in Filters
  PROVE  /\ LastPage \in Nat /\ \A f \in Filters : Length[f] \in 0..LastPage
         /\ MaxAsks \in Nat /\ MaxOverlays \in Nat /\ MaxLoads \in Nat
         /\ 1 \in Pages /\ \A p \in Nat \ {0} : p <= LastPage + 1 => p \in Pages
         /\ Pages \subseteq Nat \ {0}
  BY LastPageIsLast, GalleryAssumption DEF Pages

-----------------------------------------------------------------------------
\* Loads of the timeline.

LEMMA GalleryInitHolds == GalleryInit => GalleryInv
<1> SUFFICES ASSUME GalleryInit PROVE GalleryInv
  OBVIOUS
<1>1. LastPage \in Nat /\ \A f \in Filters : Length[f] <= LastPage
  BY LastPageIsLast DEF GalleryInit
<1>2. GalleryTypeOK
  <2>1. timeline \in [Filters -> SUBSET Pages] /\ {span, refetching} \subseteq [Filters -> 0..LastPage]
        /\ load \in [Loads -> Filters \cup {"unused", "categories", "done"}]
    BY <1>1 DEF GalleryInit
  <2>2. overlay \in Overlay /\ datesPage \in Pages
    BY <1>1, GalleryBounds DEF GalleryInit, Overlay
  <2> QED
    BY <2>1, <2>2 DEF GalleryInit, GalleryTypeOK
<1>3. TimelineInv
  BY <1>1, GalleryAssumption DEF GalleryInit, TimelineInv, PagesFollow, LoadsAlone, Loads, UnderWay
<1>4. OverlayInv
  BY GalleryAssumption DEF GalleryInit, OverlayInv, OverlayShowsItsMonth
<1> QED
  BY <1>2, <1>3, <1>4 DEF GalleryInv

LEMMA LoadAndRenderKeeps ==
  ASSUME GalleryInv, filter' \in Filters,
         LoadAndRender(FALSE) \/ LoadAndRender(TRUE),
         UNCHANGED overlayVars
  PROVE  GalleryInv'
<1>1. LastPage \in Nat /\ \A f \in Filters : Length[f] <= LastPage
  BY LastPageIsLast DEF GalleryInv, GalleryTypeOK
<1> USE GalleryAssumption
<1>2. \A a \in Ask : [a EXCEPT !.own = FALSE] \in Ask /\ [a EXCEPT !.own = FALSE].page = a.page
                     /\ [a EXCEPT !.own = FALSE].by = a.by
                     /\ [a EXCEPT !.own = FALSE].filter = a.filter
  BY DEF Ask
<1>3. /\ asks' \subseteq Ask /\ \A a \in asks' : \E b \in asks : a.page = b.page /\ a.by = b.by /\ a.filter = b.filter
      /\ datesPage' = 1 /\ viewKey' = NoView
      /\ UNCHANGED <<timeline, span, refetching, overlay, monthAsks>>
      /\ load' \in [Loads -> Filters \cup {"unused", "categories", "done"}]
      /\ {hasMoreDates, isLoading, mounted, disturbed}' \subseteq BOOLEAN
  <2>1. CASE UNCHANGED <<isLoading, mounted, load, asks>> /\ disturbed' = TRUE
    BY <2>1 DEF GalleryInv, GalleryTypeOK, LoadAndRender, overlayVars
  <2>2. CASE /\ asks' = {[a EXCEPT !.own = FALSE] : a \in asks} /\ isLoading' = TRUE /\ mounted' = FALSE
             /\ \E n \in Loads : load' = [load EXCEPT ![n] = "categories"]
             /\ disturbed' = Busy
    <3>1. asks \subseteq Ask
      BY DEF GalleryInv, GalleryTypeOK
    <3>3. ASSUME NEW a \in asks' PROVE a \in Ask /\ \E b \in asks : a.page = b.page /\ a.by = b.by /\ a.filter = b.filter
      <4>1. PICK b \in asks : a = [b EXCEPT !.own = FALSE]
        BY <2>2
      <4>2. b \in Ask
        BY <3>1
      <4> QED
        BY <1>2, <4>1, <4>2
    <3>2. Busy \in BOOLEAN
      BY DEF Busy
    <3> QED
      BY <2>2, <3>2, <3>3 DEF GalleryInv, GalleryTypeOK, LoadAndRender, overlayVars
  <2> QED
    BY <2>1, <2>2 DEF LoadAndRender
<1>7. GalleryTypeOK'
  BY <1>3, GalleryBounds DEF GalleryInv, GalleryTypeOK
<1>4. PagesFollow'
  BY <1>3 DEF GalleryInv, TimelineInv, PagesFollow
<1>5. viewKey' = NoView /\ (~disturbed' => LoadsAlone')
  BY DEF GalleryInv, GalleryTypeOK, LoadAndRender, LoadsAlone, Busy, UnderWay, Loads
<1>6. OverlayInv'
  BY DEF GalleryInv, overlayVars, OverlayInv, OverlayShowsItsMonth
<1> QED
  BY <1>7, <1>4, <1>5, <1>6 DEF GalleryInv, TimelineInv

LEMMA CategoriesKeep ==
  ASSUME GalleryInv, NEW n \in Loads, CategoriesCame(n)
  PROVE  GalleryInv'
<1> USE GalleryAssumption
<1>1. GalleryTypeOK'
  BY DEF GalleryInv, GalleryTypeOK, CategoriesCame, overlayVars, Loads
<1>2. PagesFollow'
  BY DEF GalleryInv, TimelineInv, CategoriesCame, PagesFollow
<1>3. LoadsAlone => LoadsAlone'
  BY DEF GalleryInv, GalleryTypeOK, CategoriesCame, LoadsAlone, UnderWay, Loads
<1>4. ~ShowsPages
  BY DEF CategoriesCame, ShowsPages, UnderWay
<1>5. OverlayInv'
  BY DEF GalleryInv, CategoriesCame, overlayVars, OverlayInv, OverlayShowsItsMonth
<1> QED
  BY <1>1, <1>2, <1>3, <1>4, <1>5 DEF GalleryInv, TimelineInv, CategoriesCame

LEMMA LoadedKeeps ==
  ASSUME GalleryInv, NEW n \in Loads, Loaded(n)
  PROVE  GalleryInv'
<1> USE GalleryAssumption
<1>0. LastPage \in Nat /\ \A f \in Filters : Length[f] <= LastPage
  BY LastPageIsLast DEF GalleryInv, GalleryTypeOK
<1>1. GalleryTypeOK'
  <2> filter \in Filters
    BY DEF GalleryInv, GalleryTypeOK
  <2>1. \A f \in Filters : 1..Length[f] \cap {1} \in SUBSET Pages
    BY GalleryBounds
  <2>2. timeline' \in [Filters -> SUBSET Pages]
    BY <2>1 DEF GalleryInv, GalleryTypeOK, Loaded
  <2>3. span' \in [Filters -> 0..LastPage]
    <3>1. (IF datesPage < LastPage THEN datesPage ELSE LastPage) \in 0..LastPage
      BY GalleryBounds DEF GalleryInv, GalleryTypeOK
    <3> QED
      BY <3>1 DEF GalleryInv, GalleryTypeOK, Loaded
  <2>4. load' \in [Loads -> Filters \cup {"unused", "categories", "done"}]
        /\ UNCHANGED <<filter, refetching, asks, overlay, monthAsks>>
    BY DEF GalleryInv, GalleryTypeOK, Loaded, overlayVars
  <2>5. disturbed' \in BOOLEAN /\ hasMoreDates' \in BOOLEAN
    <3> DEFINE more == Length[load[n]] > 1
    <3>1. disturbed' \in BOOLEAN /\ (hasMoreDates' = more \/ hasMoreDates' = FALSE)
      BY Zenon DEF GalleryInv, GalleryTypeOK, Loaded
    <3>2. more = TRUE \/ more = FALSE
      OBVIOUS
    <3> QED
      BY <3>1, <3>2, Zenon
  <2>6. isLoading' = FALSE /\ mounted' = TRUE /\ viewKey' \in Filters /\ datesPage' = 1
    BY DEF Loaded
  <2> QED
    BY <2>2, <2>3, <2>4, <2>5, <2>6, GalleryBounds DEF GalleryInv, GalleryTypeOK
<1>2. PagesFollow'
  BY DEF GalleryInv, TimelineInv, Loaded, PagesFollow
<1>3. ASSUME ~disturbed' PROVE ShowsPages'
  <2>1. ~disturbed /\ hasMoreDates' = (Length[load[n]] > 1)
        /\ timeline'[load[n]] = 1..Length[load[n]] \cap {1}
    BY <1>3 DEF GalleryInv, GalleryTypeOK, Loaded
  <2>2. LoadsAlone /\ load[n] = filter
    BY <2>1 DEF GalleryInv, TimelineInv, ShowsPages, LoadsAlone, Loaded
  <2>3. span'[filter] = IF 1 < LastPage THEN 1 ELSE LastPage
    BY <2>2 DEF GalleryInv, GalleryTypeOK, Loaded, LoadsAlone
  <2>4. \A p \in 1..Length[filter] \cap {1} : p <= span'[filter]
    BY <1>0, <2>3 DEF GalleryInv, GalleryTypeOK
  <2>5. Shown(1)' /\ (~hasMoreDates' => Shown(Length[filter])')
    <3>1. UNCHANGED <<filter, refetching>> /\ filter \in Filters /\ Length[filter] \in Nat
          /\ refetching[filter] \in Nat
      <4>1. UNCHANGED <<filter, refetching>> /\ filter \in Filters /\ refetching \in [Filters -> 0..LastPage]
        BY DEF GalleryInv, GalleryTypeOK, Loaded
      <4> QED
        BY <4>1, GalleryBounds
    <3>2. \A p \in 1..Length[filter] : p = 1 => p \in timeline'[filter]
      BY <2>1, <2>2
    <3>3. ~hasMoreDates' => \A p \in 1..Length[filter] : p = 1
      <4>1. hasMoreDates' = (Length[filter] > 1)
        BY <2>1, <2>2
      <4>2. ~hasMoreDates' => ~(Length[filter] > 1)
        BY <4>1, Zenon
      <4> QED
        BY <3>1, <4>2
    <3> QED
      BY <2>4, <3>1, <3>2, <3>3 DEF Shown
  <2>6. asks' = {} /\ datesPage' = 1 /\ viewKey' = filter' /\ filter' = filter
        /\ \A m \in Loads : ~UnderWay(m)'
    BY <2>2 DEF GalleryInv, GalleryTypeOK, Loaded, LoadsAlone, UnderWay
  <2> QED
    BY <2>1, <2>2, <2>5, <2>6 DEF ShowsPages
<1>4. OverlayInv'
  BY DEF GalleryInv, Loaded, overlayVars, OverlayInv, OverlayShowsItsMonth
<1>5. viewKey' # NoView
  BY DEF Loaded
<1> QED
  BY <1>1, <1>2, <1>3, <1>4, <1>5 DEF GalleryInv, TimelineInv

-----------------------------------------------------------------------------
\* Pages.

LEMMA FewerAreShown ==
  ASSUME GalleryInv, NEW n \in Nat, NEW m \in Nat, Shown(n), m <= n \/ Length[filter] <= n
  PROVE  Shown(m)
<1>1. filter \in Filters /\ Length[filter] \in Nat
  BY GalleryAssumption DEF GalleryInv, GalleryTypeOK
<1>2. \A p \in 1..m \cap 1..Length[filter] : p \in 1..n \cap 1..Length[filter]
  BY <1>1
<1> QED
  BY <1>2 DEF Shown

LEMMA MoreAsked ==
  ASSUME GalleryInv, LoadMoreDates \/ JumpToYear \/ \E p \in Pages : JumpToDate(p)
  PROVE  GalleryInv'
<1>1. PICK by \in {"more", "year", "date"}, p \in Nat :
        /\ mounted /\ AskFor(by, p)
        /\ IF by = "date" THEN disturbed' /\ p \in 1..Length[filter]
           ELSE p = datesPage + 1 /\ UNCHANGED disturbed
  <2>1. datesPage + 1 \in Nat /\ Pages \subseteq Nat
    BY GalleryBounds DEF GalleryInv, GalleryTypeOK
  <2>2. CASE LoadMoreDates
    BY <2>1, <2>2 DEF LoadMoreDates
  <2>3. CASE JumpToYear
    BY <2>1, <2>3 DEF JumpToYear
  <2>4. CASE \E p \in Pages : JumpToDate(p)
    <3>1. disturbed' = TRUE
      BY <2>4 DEF JumpToDate
    <3> QED
      BY <2>1, <2>4, <3>1 DEF JumpToDate
  <2> QED
    BY <2>2, <2>3, <2>4
<1>2. /\ UNCHANGED <<filter, viewKey, timeline, span, refetching, datesPage, hasMoreDates,
                     isLoading, mounted, load, chosen, troubles, overlay, monthAsks>>
      /\ disturbed' \in BOOLEAN
  <2>1. UNCHANGED disturbed \/ disturbed' = TRUE
    BY DEF LoadMoreDates, JumpToYear, JumpToDate
  <2> QED
    BY <2>1 DEF LoadMoreDates, JumpToYear, JumpToDate, overlayVars, GalleryInv, GalleryTypeOK
<1>3. PICK n \in 1..MaxAsks :
        asks' = asks \cup {[by |-> by, filter |-> filter, page |-> p, own |-> by = "more", nr |-> n]}
  BY <1>1 DEF AskFor
<1> DEFINE ask == [by |-> by, filter |-> filter, page |-> p, own |-> by = "more", nr |-> n]
<1>4. /\ p \in Pages
      /\ p <= LastPage + 1 \/ p = 2
      /\ by = "date" => p <= Length[filter]
  <2>1. filter \in Filters /\ datesPage \in Nat \ {0}
    BY GalleryBounds DEF GalleryInv, GalleryTypeOK
  <2>2. datesPage <= LastPage \/ datesPage = 1
    BY DEF GalleryInv, TimelineInv, PagesFollow
  <2>3. LastPage \in Nat /\ MaxAsks \in Nat /\ Length[filter] \in 0..LastPage
    BY <2>1, GalleryBounds
  <2>4. n >= 1 /\ 2 \in Pages
    BY <2>3 DEF Pages
  <2>5. CASE by = "date"
    BY <1>1, <2>3, <2>5, <2>1, GalleryBounds
  <2>6. CASE by # "date"
    BY <1>1, <2>1, <2>2, <2>3, <2>4, <2>6, GalleryBounds
  <2> QED
    BY <2>5, <2>6
<1>5. ask \in Ask
  <2>1. \A own \in BOOLEAN :
          [by |-> by, filter |-> filter, page |-> p, own |-> own, nr |-> n] \in Ask
    BY <1>1, <1>3, <1>4 DEF Ask, GalleryInv, GalleryTypeOK
  <2>2. (by = "more") \in BOOLEAN
    BY Zenon
  <2> QED
    BY <2>1, <2>2, Zenon
<1>6. GalleryTypeOK'
  BY <1>2, <1>3, <1>5 DEF GalleryInv, GalleryTypeOK, Loads, Pages
<1>7. PagesFollow'
  BY <1>2, <1>3, <1>4 DEF GalleryInv, TimelineInv, PagesFollow
<1>8. ASSUME ~disturbed' PROVE viewKey' # NoView /\ ShowsPages'
  <2>1. ~disturbed /\ by # "date" /\ p - 1 = datesPage
    BY <1>1, <1>8, GalleryBounds DEF GalleryInv, GalleryTypeOK
  <2>2. viewKey # NoView /\ ShowsPages
    BY <1>1, <2>1 DEF GalleryInv, TimelineInv, LoadsAlone
  <2>3. \A m : Shown(m)' <=> Shown(m)
    BY <1>2 DEF Shown
  <2>4. ask.filter = filter /\ ask.by # "date" /\ ask.page - 1 = datesPage
    BY <2>1
  <2> QED
    BY <1>2, <1>3, <2>2, <2>3, <2>4 DEF ShowsPages, UnderWay
<1>9. OverlayInv'
  BY <1>2 DEF GalleryInv, OverlayInv, OverlayShowsItsMonth
<1> QED
  BY <1>6, <1>7, <1>8, <1>9 DEF GalleryInv, TimelineInv

\* What an answer with another page does.
LEMMA AppendKeeps ==
  ASSUME GalleryInv, NEW a \in asks, AppendIds(a), a.page \in 1..Length[a.filter],
         UNCHANGED <<filter, viewKey, refetching>>
  PROVE  /\ datesPage' = a.page /\ datesPage' \in Pages /\ datesPage' <= LastPage
         /\ hasMoreDates' \in BOOLEAN /\ disturbed' \in BOOLEAN
         /\ timeline' \in [Filters -> SUBSET Pages] /\ span' \in [Filters -> 0..LastPage]
         /\ ~disturbed' => /\ ~disturbed /\ viewKey # NoView /\ ShowsPages
                           /\ \A n : Shown(n) => Shown(n)'
                           /\ Shown(a.page)'
                           /\ ~hasMoreDates' => a.page = Length[filter]
                           /\ timeline'[filter] \subseteq 1..Length[filter]
<1>1. /\ a \in Ask /\ filter \in Filters /\ timeline \in [Filters -> SUBSET Pages]
      /\ {span, refetching} \subseteq [Filters -> 0..LastPage]
      /\ disturbed \in BOOLEAN /\ viewKey \in Filters \cup {NoView}
  BY DEF GalleryInv, GalleryTypeOK
<1>2. a.filter \in Filters /\ a.page \in Pages
  BY <1>1 DEF Ask
<1>3. LastPage \in Nat /\ Length[a.filter] \in 0..LastPage /\ Length[filter] \in 0..LastPage
      /\ Pages \subseteq Nat \ {0}
  BY <1>1, <1>2, GalleryBounds
<1>4. datesPage' = a.page /\ datesPage' \in Pages /\ datesPage' <= LastPage
  BY <1>2, <1>3 DEF AppendIds
<1>5. \A s, p \in Nat : s * p \in Nat /\ (p >= 1 => s * p >= s) /\ (s >= 1 => s * p >= p)
  OBVIOUS
<1>6. \A s \in 0..LastPage : (IF s * a.page < LastPage THEN s * a.page ELSE LastPage) \in 0..LastPage
  BY <1>2, <1>3, <1>5
<1>7. timeline' \in [Filters -> SUBSET Pages] /\ span' \in [Filters -> 0..LastPage]
  BY <1>1, <1>2, <1>6 DEF AppendIds
<1>8. disturbed' \in BOOLEAN
  <2>1. (disturbed \/ refetching[viewKey] # 0) \in BOOLEAN
    BY Zenon
  <2> QED
    BY <2>1, <1>1, Zenon DEF AppendIds
<1>9. hasMoreDates' = (a.page < Length[a.filter])
  BY DEF AppendIds
<1>10. (hasMoreDates' = TRUE \/ hasMoreDates' = FALSE) /\ (~hasMoreDates' => ~(a.page < Length[a.filter]))
  <2>1. (a.page < Length[a.filter]) = TRUE \/ (a.page < Length[a.filter]) = FALSE
    OBVIOUS
  <2> QED
    BY <1>9, <2>1, Zenon
<1>11. ASSUME ~disturbed'
       PROVE  /\ ~disturbed /\ viewKey # NoView /\ ShowsPages
              /\ \A n : Shown(n) => Shown(n)'
              /\ Shown(a.page)'
              /\ ~hasMoreDates' => a.page = Length[filter]
              /\ timeline'[filter] \subseteq 1..Length[filter]
  <2>1. ~disturbed
    BY <1>11 DEF AppendIds
  <2>2. viewKey # NoView /\ ShowsPages
    BY <2>1 DEF GalleryInv, TimelineInv, LoadsAlone
  <2>3. viewKey = filter /\ a.filter = filter
    BY <2>2 DEF ShowsPages
  <2>4. refetching[filter] = 0 /\ refetching' = refetching
    BY <1>11, <2>2, <2>3 DEF AppendIds
  <2>5. /\ timeline'[filter] = timeline[filter] \cup {a.page}
        /\ span'[filter] = IF span[filter] * a.page < LastPage THEN span[filter] * a.page ELSE LastPage
    BY <1>1, <2>2, <2>3 DEF AppendIds
  <2>6. span'[filter] >= span[filter] /\ (span[filter] >= 1 => span'[filter] >= a.page)
    <3>1. span[filter] \in 0..LastPage /\ a.page \in Nat /\ a.page >= 1 /\ a.page <= LastPage
      BY <1>1, <1>3, <1>2
    <3> QED
      BY <3>1, <1>3, <1>5, <2>5
  <2>7. \A n : Shown(n) => Shown(n)'
    <3>1. span[filter] \in Nat /\ span'[filter] \in Nat
      BY <1>1, <1>3, <1>7
    <3> QED
      BY <2>4, <2>5, <2>6, <3>1 DEF Shown
  <2>8. span[filter] >= 1
    <3>1. datesPage \in Nat \ {0}
      BY GalleryBounds DEF GalleryInv, GalleryTypeOK
    <3>2. 1 \in 1..datesPage \cap 1..Length[filter]
      BY <1>3, <2>3, <3>1
    <3> QED
      BY <2>2, <3>2 DEF ShowsPages, Shown
  <2>9. Shown(a.page)'
    <3>1. Shown(a.page - 1)'
      BY <2>2, <2>7 DEF ShowsPages
    <3>2. \A p \in 1..a.page : p \in 1..a.page-1 \/ p = a.page
      BY <1>2, <1>3
    <3>3. a.page \in timeline'[filter] /\ a.page <= span'[filter]
      BY <2>5, <2>6, <2>8
    <3> QED
      BY <3>1, <3>2, <3>3, <2>4 DEF Shown
  <2>10. ~hasMoreDates' => a.page = Length[filter]
    BY <1>3, <1>10, <2>3
  <2>11. timeline'[filter] \subseteq 1..Length[filter]
    BY <2>2, <2>3, <2>5 DEF ShowsPages
  <2> QED
    BY <2>1, <2>2, <2>7, <2>9, <2>10, <2>11
<1> QED
  BY <1>4, <1>7, <1>8, <1>10, <1>11

LEMMA MoreKeeps ==
  ASSUME GalleryInv, NEW a \in asks, MoreCame(a) \/ DateCame(a)
  PROVE  GalleryInv'
<1>1. /\ UNCHANGED <<filter, viewKey, refetching, isLoading, load, chosen, overlay, monthAsks>>
      /\ asks' = asks \ {a} /\ (UNCHANGED mounted \/ mounted' = TRUE)
  BY DEF MoreCame, DateCame, overlayVars
<1>2. a \in Ask /\ a.filter \in Filters /\ a.page \in Nat \ {0} /\ Length[a.filter] \in Nat /\ LastPage \in Nat
  BY GalleryBounds DEF GalleryInv, GalleryTypeOK, Ask
<1> DEFINE appended == AppendIds(a) /\ a.page \in 1..Length[a.filter]
           typed == /\ datesPage' \in Pages /\ (datesPage' <= LastPage \/ datesPage' = 1)
                    /\ hasMoreDates' \in BOOLEAN /\ disturbed' \in BOOLEAN
                    /\ timeline' \in [Filters -> SUBSET Pages] /\ span' \in [Filters -> 0..LastPage]
           result == typed /\ (~disturbed' => viewKey # NoView /\ ShowsPages')
<1>3. ASSUME appended PROVE result
  <2>1. /\ datesPage' = a.page /\ typed
        /\ ~disturbed' => /\ ~disturbed /\ viewKey # NoView /\ ShowsPages
                          /\ \A n : Shown(n) => Shown(n)'
                          /\ Shown(a.page)'
                          /\ ~hasMoreDates' => a.page = Length[filter]
                          /\ timeline'[filter] \subseteq 1..Length[filter]
    BY <1>1, <1>3, AppendKeeps
  <2>2. ASSUME ~disturbed' PROVE ShowsPages'
    BY <1>1, <2>1, <2>2 DEF ShowsPages, UnderWay
  <2> QED
    BY <2>1, <2>2
<1>4. ASSUME MoreCame(a) /\ a.page > Length[a.filter] /\ UNCHANGED <<disturbed, datesPage, timeline, span>>
             /\ hasMoreDates' = FALSE
      PROVE  result
  <2>1. ASSUME ~disturbed' PROVE viewKey # NoView /\ ShowsPages'
    <3>1. viewKey # NoView /\ ShowsPages
      BY <1>4, <2>1 DEF GalleryInv, TimelineInv, LoadsAlone
    <3>2. \A m : Shown(m)' <=> Shown(m)
      BY <1>1, <1>4 DEF Shown
    <3>3. a.filter = filter /\ Shown(a.page - 1)
      BY <3>1 DEF ShowsPages
    <3>4. Shown(Length[filter])
      BY <1>2, <1>4, <3>3, FewerAreShown
    <3> QED
      BY <1>1, <1>4, <3>1, <3>2, <3>4 DEF ShowsPages, UnderWay
  <2>2. typed
    BY <1>4 DEF GalleryInv, GalleryTypeOK, TimelineInv, PagesFollow
  <2> QED
    BY <2>1, <2>2
<1>5. ASSUME MoreCame(a) /\ disturbed' = TRUE /\ UNCHANGED <<datesPage, timeline, span>> /\ hasMoreDates' = FALSE
      PROVE  result
  BY <1>5 DEF GalleryInv, GalleryTypeOK, TimelineInv, PagesFollow
<1>6. ASSUME DateCame(a) /\ UNCHANGED <<datesPage, hasMoreDates, timeline, span, disturbed>>
      PROVE  result
  <2>1. disturbed
    BY <1>6 DEF GalleryInv, TimelineInv, LoadsAlone, ShowsPages, DateCame
  <2> QED
    BY <1>6, <2>1 DEF GalleryInv, GalleryTypeOK, TimelineInv, PagesFollow
<1>7. result
  <2>1. CASE MoreCame(a)
    <3>1. a.page <= Length[a.filter] => a.page \in 1..Length[a.filter]
      BY <1>2
    <3>2. CASE a.page <= Length[a.filter] /\ AppendIds(a)
      BY <1>3, <3>1, <3>2
    <3>3. CASE /\ \/ a.page > Length[a.filter] /\ UNCHANGED <<disturbed, troubles>>
                  \/ RequestFails /\ disturbed' = TRUE
               /\ hasMoreDates' = FALSE /\ UNCHANGED <<datesPage, timeline, span>>
      BY <1>4, <1>5, <2>1, <3>3
    <3> QED
      BY <2>1, <3>2, <3>3 DEF MoreCame
  <2>2. CASE DateCame(a)
    <3>1. a.page \in 1..Length[a.filter]
      BY <1>2, <2>2 DEF DateCame, GalleryInv, TimelineInv, PagesFollow
    <3> QED
      BY <1>3, <1>6, <2>2, <3>1 DEF DateCame
  <2> QED
    BY <2>1, <2>2
<1>8. GalleryTypeOK'
  BY <1>1, <1>7 DEF GalleryInv, GalleryTypeOK
<1>9. PagesFollow'
  BY <1>1, <1>7 DEF GalleryInv, TimelineInv, PagesFollow
<1>10. OverlayInv'
  BY <1>1 DEF GalleryInv, OverlayInv, OverlayShowsItsMonth
<1> QED
  BY <1>1, <1>7, <1>8, <1>9, <1>10 DEF GalleryInv, TimelineInv

LEMMA YearKeeps ==
  ASSUME GalleryInv, NEW a \in asks, YearCame(a)
  PROVE  GalleryInv'
<1> DEFINE next == [a EXCEPT !.page = @ + 1, !.filter = filter]
<1>1. /\ UNCHANGED <<filter, viewKey, refetching, isLoading, load, chosen, overlay, monthAsks>>
      /\ UNCHANGED mounted \/ mounted' = TRUE
  BY DEF YearCame, overlayVars
<1>2. a \in Ask /\ a.filter \in Filters /\ a.page \in Nat \ {0} /\ Length[a.filter] \in Nat
      /\ LastPage \in Nat /\ Length[a.filter] <= LastPage /\ filter \in Filters
  BY GalleryBounds DEF GalleryInv, GalleryTypeOK, Ask
<1>3. next.filter = filter /\ next.page = a.page + 1 /\ next.by = a.by
      /\ (a.page < Length[a.filter] => next \in Ask /\ next.page <= LastPage)
  <2>1. next.filter = filter /\ next.page = a.page + 1 /\ next.by = a.by
    BY <1>2 DEF Ask
  <2>2. a.page < Length[a.filter] => a.page + 1 <= LastPage /\ a.page + 1 \in Pages
    BY <1>2, GalleryBounds
  <2>3. a.page + 1 \in Pages => next \in Ask
    BY <1>2 DEF Ask
  <2> QED
    BY <2>1, <2>2, <2>3
<1>4. a.by # "date"
  BY DEF YearCame
<1>5. CASE AppendIds(a) /\ a.page \in 1..Length[a.filter]
           /\ asks' \subseteq (asks \ {a}) \cup {next}
           /\ (next \in asks' => next \in asks \/ a.page < Length[a.filter])
  <2>1. /\ datesPage' = a.page /\ datesPage' \in Pages /\ datesPage' <= LastPage
        /\ hasMoreDates' \in BOOLEAN /\ disturbed' \in BOOLEAN
        /\ timeline' \in [Filters -> SUBSET Pages] /\ span' \in [Filters -> 0..LastPage]
        /\ ~disturbed' => /\ ~disturbed /\ viewKey # NoView /\ ShowsPages
                          /\ \A n : Shown(n) => Shown(n)'
                          /\ Shown(a.page)'
                          /\ ~hasMoreDates' => a.page = Length[filter]
                          /\ timeline'[filter] \subseteq 1..Length[filter]
    BY <1>1, <1>5, AppendKeeps
  <2>2. asks' \subseteq Ask
    BY <1>3, <1>5 DEF GalleryInv, GalleryTypeOK
  <2>3. GalleryTypeOK'
    BY <1>1, <2>1, <2>2 DEF GalleryInv, GalleryTypeOK
  <2>4. PagesFollow'
    <3>1. \A b \in asks' : b \in asks \/ (b.page <= LastPage /\ b.by # "date")
      BY <1>3, <1>4, <1>5
    <3>2. LastPage <= LastPage + 1 /\ \A b \in asks' : b.page \in Nat
      BY <1>2, <2>2, GalleryBounds DEF Ask
    <3> QED
      BY <1>2, <2>1, <3>1, <3>2 DEF GalleryInv, TimelineInv, PagesFollow
  <2>5. ASSUME ~disturbed' PROVE viewKey' # NoView /\ ShowsPages'
    <3>1. ASSUME NEW b \in asks' PROVE b.filter = filter /\ b.by # "date" /\ Shown(b.page - 1)'
      <4>1. CASE b \in asks
        BY <2>1, <2>5, <4>1 DEF ShowsPages
      <4>2. CASE b = next
        <5>1. b.filter = filter /\ b.by # "date" /\ b.page - 1 = a.page
          BY <1>2, <1>3, <1>4, <4>2
        <5> QED
          BY <2>1, <2>5, <5>1
      <4> QED
        BY <1>5, <4>1, <4>2
    <3> QED
      BY <1>1, <2>1, <2>5, <3>1 DEF ShowsPages, UnderWay
  <2>6. OverlayInv'
    BY <1>1 DEF GalleryInv, OverlayInv, OverlayShowsItsMonth
  <2> QED
    BY <2>3, <2>4, <2>5, <2>6 DEF GalleryInv, TimelineInv
<1>6. CASE asks' = asks \ {a} /\ UNCHANGED <<datesPage, hasMoreDates, timeline, span, disturbed>>
  <2>1. GalleryTypeOK'
    BY <1>1, <1>6 DEF GalleryInv, GalleryTypeOK
  <2>2. PagesFollow'
    BY <1>6 DEF GalleryInv, TimelineInv, PagesFollow
  <2>3. ~LoadsAlone
    BY DEF LoadsAlone
  <2>4. ShowsPages => ShowsPages'
    <3>1. \A m : Shown(m)' <=> Shown(m)
      BY <1>1, <1>6 DEF Shown
    <3> QED
      BY <1>1, <1>6, <3>1 DEF ShowsPages, UnderWay
  <2>5. OverlayInv'
    BY <1>1 DEF GalleryInv, OverlayInv, OverlayShowsItsMonth
  <2> QED
    BY <1>1, <1>6, <2>1, <2>2, <2>3, <2>4, <2>5 DEF GalleryInv, TimelineInv
<1> QED
  <2>1. a.page <= Length[a.filter] => a.page \in 1..Length[a.filter]
    BY <1>2
  <2>2. CASE a.page <= Length[a.filter] /\ AppendIds(a)
    BY <1>5, <2>1, <2>2 DEF YearCame
  <2>3. CASE asks' = asks \ {a} /\ UNCHANGED <<datesPage, hasMoreDates, timeline, span, disturbed>>
    BY <1>6, <2>3
  <2> QED
    BY <2>2, <2>3 DEF YearCame

LEMMA RefetchKeeps ==
  ASSUME GalleryInv, Invalidate \/ \E f \in Filters : Refetched(f)
  PROVE  GalleryInv'
<1>1. UNCHANGED <<filter, viewKey, span, datesPage, hasMoreDates, isLoading, mounted,
                  load, asks, disturbed, chosen, overlay, monthAsks>>
  BY DEF Invalidate, Refetched, overlayVars
<1>2. /\ filter \in Filters /\ timeline \in [Filters -> SUBSET Pages]
      /\ span \in [Filters -> 0..LastPage] /\ refetching \in [Filters -> 0..LastPage]
      /\ LastPage \in Nat /\ \A f \in Filters : Length[f] \in Nat
  BY GalleryBounds DEF GalleryInv, GalleryTypeOK
<1>3. /\ timeline' \in [Filters -> SUBSET Pages] /\ refetching' \in [Filters -> 0..LastPage]
      /\ \A n : Shown(n) => Shown(n)'
      /\ timeline[filter] \subseteq 1..Length[filter] => timeline'[filter] \subseteq 1..Length[filter]
  <2>1. CASE Invalidate
    <3>1. refetching' = span /\ timeline' = timeline
      BY <2>1 DEF Invalidate
    <3> QED
      BY <1>1, <1>2, <3>1 DEF Shown
  <2>2. ASSUME NEW f \in Filters, Refetched(f)
        PROVE  /\ timeline' \in [Filters -> SUBSET Pages] /\ refetching' \in [Filters -> 0..LastPage]
               /\ \A n : Shown(n) => Shown(n)'
               /\ timeline[filter] \subseteq 1..Length[filter] => timeline'[filter] \subseteq 1..Length[filter]
    <3>1. /\ refetching[f] # 0
          /\ refetching' = [refetching EXCEPT ![f] = 0]
          /\ timeline' = [timeline EXCEPT ![f] = 1..refetching[f] \cap 1..Length[f]] \/ timeline' = timeline
      BY <2>2 DEF Refetched
    <3>2. 1..refetching[f] \cap 1..Length[f] \subseteq Pages
      BY <1>2, GalleryBounds
    <3>3. timeline' \in [Filters -> SUBSET Pages] /\ refetching' \in [Filters -> 0..LastPage]
      BY <1>2, <3>1, <3>2
    <3>4. ASSUME NEW n, Shown(n) PROVE Shown(n)'
      <4>1. CASE f = filter
        BY <1>1, <1>2, <3>1, <3>4, <4>1 DEF Shown
      <4>2. CASE f # filter
        BY <1>1, <1>2, <3>1, <3>4, <4>2 DEF Shown
      <4> QED
        BY <4>1, <4>2
    <3>5. timeline[filter] \subseteq 1..Length[filter] => timeline'[filter] \subseteq 1..Length[filter]
      BY <1>2, <3>1
    <3> QED
      BY <3>3, <3>4, <3>5
  <2> QED
    BY <2>1, <2>2
<1>4. GalleryTypeOK'
  BY <1>1, <1>3 DEF GalleryInv, GalleryTypeOK
<1>5. PagesFollow' /\ (LoadsAlone => LoadsAlone')
  BY <1>1 DEF GalleryInv, TimelineInv, PagesFollow, LoadsAlone, UnderWay
<1>6. ShowsPages => ShowsPages'
  BY <1>1, <1>3 DEF ShowsPages, UnderWay
<1>7. OverlayInv'
  BY <1>1 DEF GalleryInv, OverlayInv, OverlayShowsItsMonth
<1> QED
  BY <1>1, <1>4, <1>5, <1>6, <1>7 DEF GalleryInv, TimelineInv

-----------------------------------------------------------------------------
\* The overlay.

OverlayTyped ==
    overlay \in Overlay /\ monthAsks \subseteq [nr: 1..MaxOverlays, month: Months, filter: Filters]

LEMMA OverlayStepKeeps ==
  ASSUME GalleryInv, OverlayNext
  PROVE  GalleryInv'
<1>1. UNCHANGED timelineVars
  BY DEF OverlayNext, OpenMonthOverlay, CloseOverlay, MonthCame
<1>2. /\ overlay \in Overlay /\ monthAsks \subseteq [nr: 1..MaxOverlays, month: Months, filter: Filters]
      /\ filter \in Filters /\ overlay.nr \in Nat /\ NoView \notin Months /\ MaxOverlays \in Nat
  BY GalleryAssumption, GalleryBounds DEF GalleryInv, GalleryTypeOK, Overlay
<1>3. OverlayTyped' /\ OverlayInv'
  <2>1. ASSUME NEW m \in Months, OpenMonthOverlay(m) PROVE OverlayTyped' /\ OverlayInv'
    <3> DEFINE ask == [nr |-> overlay.nr + 1, month |-> m, filter |-> filter]
    <3>1. overlay.nr + 1 \in 1..MaxOverlays /\ ask \in [nr: 1..MaxOverlays, month: Months, filter: Filters]
      BY <1>2, <2>1 DEF OpenMonthOverlay, Overlay
    <3>2. /\ overlay'.month = m /\ overlay'.filter = filter /\ overlay'.status = "loading"
          /\ overlay'.media = {} /\ overlay'.nr = overlay.nr + 1
          /\ monthAsks' = monthAsks \cup {ask}
      BY <2>1 DEF OpenMonthOverlay
    <3>3. OverlayTyped'
      BY <1>2, <2>1, <3>1 DEF OpenMonthOverlay, OverlayTyped, Overlay
    <3>4. \A a \in monthAsks : a.nr \in Nat /\ a.nr < overlay.nr + 1
      BY <1>2 DEF GalleryInv, OverlayInv
    <3> HIDE DEF ask
    <3>5. ask.nr = overlay.nr + 1 /\ ask.filter = filter
      BY DEF ask
    <3>6. OverlayInv'
      BY <1>2, <3>2, <3>4, <3>5 DEF GalleryInv, OverlayInv, OverlayShowsItsMonth
    <3> QED
      BY <3>3, <3>6
  <2>2. CASE CloseOverlay
    <3>1. /\ overlay'.month = NoView /\ overlay'.status = "loading"
          /\ overlay'.media = {} /\ overlay'.nr = overlay.nr + 1
          /\ monthAsks' = monthAsks
      BY <1>2, <2>2 DEF CloseOverlay, Overlay
    <3>2. OverlayTyped'
      <4>1. overlay.nr + 1 \in 0..MaxOverlays
        BY <1>2, <2>2 DEF CloseOverlay
      <4>2. overlay' = [overlay EXCEPT !.month = NoView, !.status = "loading", !.media = {}, !.nr = overlay.nr + 1]
        BY <2>2 DEF CloseOverlay
      <4> QED
        BY <1>2, <3>1, <4>1, <4>2 DEF OverlayTyped, Overlay
    <3>3. \A a \in monthAsks : a.nr \in Nat /\ a.nr < overlay.nr + 1
      BY <1>2 DEF GalleryInv, OverlayInv
    <3> QED
      BY <1>2, <3>1, <3>2, <3>3 DEF GalleryInv, OverlayInv, OverlayShowsItsMonth
  <2>3. ASSUME NEW a \in monthAsks, MonthCame(a) PROVE OverlayTyped' /\ OverlayInv'
    <3>1. monthAsks' = monthAsks \ {a}
      BY <2>3 DEF MonthCame
    <3>2. CASE overlay' = overlay
      BY <1>2, <3>1, <3>2 DEF GalleryInv, OverlayTyped, OverlayInv, OverlayShowsItsMonth
    <3>3. CASE a.nr = overlay.nr /\ a.month = overlay.month /\ OverlayAnswered(a)
      <4>1. a.filter = overlay.filter /\ a.month \in Months /\ a.filter \in Filters
        BY <1>2, <3>3 DEF GalleryInv, OverlayInv
      <4>2. /\ overlay' \in Overlay /\ overlay'.nr = overlay.nr /\ overlay'.month = overlay.month
            /\ overlay'.filter = overlay.filter
            /\ overlay'.media = overlay.media \/ overlay'.media = {<<overlay.month, overlay.filter>>}
        <5>1. overlay.month = a.month /\ {<<a.month, a.filter>>} \in SUBSET (Months \X Filters)
          BY <3>3, <4>1
        <5>2. CASE overlay' = [overlay EXCEPT !.status = "loaded", !.media = {<<a.month, a.filter>>}]
          BY <1>2, <4>1, <5>1, <5>2 DEF Overlay
        <5>3. CASE overlay' = [overlay EXCEPT !.status = "error"]
          BY <1>2, <5>3 DEF Overlay
        <5> QED
          BY <3>3, <5>2, <5>3 DEF OverlayAnswered
      <4>3. \A b \in monthAsks' : b.nr # overlay.nr
        BY <3>1, <3>3 DEF GalleryInv, OverlayInv
      <4> QED
        BY <1>2, <3>1, <4>2, <4>3 DEF GalleryInv, OverlayTyped, OverlayInv, OverlayShowsItsMonth
    <3> QED
      BY <2>3, <3>2, <3>3 DEF MonthCame
  <2> QED
    BY <2>1, <2>2, <2>3 DEF OverlayNext
<1>4. TimelineInv'
  BY <1>1 DEF GalleryInv, timelineVars, TimelineInv, PagesFollow, LoadsAlone, ShowsPages, Shown, UnderWay
<1>5. GalleryTypeOK'
  BY <1>1, <1>3 DEF GalleryInv, GalleryTypeOK, timelineVars, OverlayTyped
<1> QED
  BY <1>3, <1>4, <1>5 DEF GalleryInv

-----------------------------------------------------------------------------
(* Theorems. *)

LEMMA GalleryStep == GalleryInv /\ [GalleryNext]_galleryVars => GalleryInv'
<1> SUFFICES ASSUME GalleryInv, [GalleryNext]_galleryVars PROVE GalleryInv'
  OBVIOUS
<1>1. ASSUME NEW f \in Filters, ToolbarFilter(f) \/ SetCategoryFilter(f) PROVE GalleryInv'
  <2>1. filter' \in Filters /\ (LoadAndRender(TRUE) \/ LoadAndRender(FALSE)) /\ UNCHANGED overlayVars
    BY <1>1 DEF ToolbarFilter, SetCategoryFilter, ChooseFilter
  <2> QED
    BY <2>1, LoadAndRenderKeeps
<1>2. CASE RefreshGallery
  <2>1. filter' \in Filters /\ LoadAndRender(FALSE) /\ UNCHANGED overlayVars
    BY <1>2 DEF RefreshGallery, GalleryInv, GalleryTypeOK
  <2> QED
    BY <2>1, LoadAndRenderKeeps
<1>3. CASE TimelineNext
  BY <1>1, <1>2, <1>3, CategoriesKeep, LoadedKeeps, MoreAsked, MoreKeeps, YearKeeps, RefetchKeeps
     DEF TimelineNext
<1>4. CASE UNCHANGED galleryVars
  BY <1>4 DEF galleryVars, timelineVars, overlayVars, GalleryInv, GalleryTypeOK, TimelineInv, PagesFollow,
              LoadsAlone, ShowsPages, Shown, UnderWay, OverlayInv, OverlayShowsItsMonth
<1> QED
  BY <1>3, <1>4, OverlayStepKeeps DEF GalleryNext

(* An undisturbed timeline is being loaded by one load alone, or has every    *)
(* page that scrolling, jumps and refetches count from; the overlay's requests *)
(* are older than what it shows, or about it.                                 *)
THEOREM GalleryKeeps == GallerySpec => []GalleryInv
  BY GalleryInitHolds, GalleryStep, PTL DEF GallerySpec

(* The timeline of an undisturbed gallery has no gap up to the page that       *)
(* loadMoreDates goes on from, and is complete when it says there is no more.  *)
THEOREM TimelineIsWhole == GallerySpec => []TimelineHasNoGaps
<1>1. GalleryInv => TimelineHasNoGaps
  <2> SUFFICES ASSUME GalleryInv, ~disturbed, viewKey # NoView
               PROVE  /\ viewKey = filter
                      /\ 1..datesPage \cap 1..Length[filter] \subseteq timeline[filter]
                      /\ ~hasMoreDates => timeline[filter] = 1..Length[filter]
    BY DEF TimelineHasNoGaps
  <2>1. ShowsPages
    BY DEF GalleryInv, TimelineInv
  <2> QED
    BY <2>1 DEF ShowsPages, Shown
<1> QED
  BY <1>1, GalleryKeeps, PTL

(* fetchMonthMedia shows in the overlay only the month and filter it was      *)
(* opened for, and no answer while that month is being asked for.             *)
THEOREM OverlayIsRight == GallerySpec => []OverlayShowsItsMonth
<1>1. GalleryInv => OverlayShowsItsMonth
  BY DEF GalleryInv, OverlayInv
<1> QED
  BY <1>1, GalleryKeeps, PTL

(* Pages asked for, spans and months stay within what the server has.          *)
THEOREM GalleryTyping == GallerySpec => []GalleryTypeOK
<1>1. GalleryInv => GalleryTypeOK
  BY DEF GalleryInv
<1> QED
  BY <1>1, GalleryKeeps, PTL

-----------------------------------------------------------------------------
(* LiveTranscode. *)

(* A container plays, loads, waits for and resumes with jobs the service has *)
(* got.                                                                      *)
HasRealJobs(r) ==
    /\ r.phase \in {"polling", "loading", "buffering", "playing"} => Real(r.job)
    /\ r.phase = "playing" => Real(r.source)
    /\ r.resuming = "polling" => Real(r.newJob)
TranscodeInv == TranscodeTypeOK /\ \A p \in Players : HasRealJobs(player[p])

LEMMA TranscodeInitHolds == TranscodeInit => TranscodeInv
<1> SUFFICES ASSUME TranscodeInit PROVE TranscodeInv
  OBVIOUS
<1>0. 0 \in 0..MaxResumes /\ 0 \in 0..(MaxPolls - 1)
  BY TranscodeAssumption
<1>1. ASSUME NEW p \in Players
      PROVE  player[p] \in Container /\ player[p].phase = "unused" /\ player[p].resuming = "no"
  <2>1. player[p] = [phase |-> "unused", shown |-> FALSE, job |-> NoJob, source |-> NoJob,
                     polled |-> NoJob, newJob |-> NoJob, resuming |-> "no", attempts |-> 0,
                     polls |-> 0, stalls |-> {}, asked |-> "no"]
    BY DEF TranscodeInit
  <2> QED
    BY <1>0, <2>1 DEF Container
<1> QED
  BY <1>1 DEF TranscodeInit, TranscodeInv, TranscodeTypeOK, HasRealJobs

(* The service never forgets a job, so what a container has stays real.      *)
LEMMA JobsStayReal ==
    ASSUME TranscodeInv, native' = native,
           jobs' \in [Jobs -> {"none", "starting", "streaming", "broken"}],
           \A j \in Jobs : jobs[j] # "none" => jobs'[j] # "none"
    PROVE  /\ \A r \in Container : HasRealJobs(r) => HasRealJobs(r)'
           /\ player' = player => TranscodeInv'
<1>1. \A j : Real(j) => Real(j)'
  BY DEF Real
<1>2. \A r \in Container : HasRealJobs(r) => HasRealJobs(r)'
  BY <1>1 DEF HasRealJobs
<1> QED
  BY <1>1, <1>2 DEF TranscodeInv, TranscodeTypeOK

LEMMA ContainerChanges ==
    ASSUME TranscodeInv, native' = native,
           jobs' \in [Jobs -> {"none", "starting", "streaming", "broken"}],
           \A j \in Jobs : jobs[j] # "none" => jobs'[j] # "none",
           NEW p \in Players, NEW r \in Container, HasRealJobs(r)',
           player' = [player EXCEPT ![p] = r]
    PROVE  TranscodeInv'
<1>1. player' \in [Players -> Container] /\ player'[p] = r
  BY DEF TranscodeInv, TranscodeTypeOK
<1>2. ASSUME NEW q \in Players PROVE HasRealJobs(player[q])'
  <2>1. CASE q = p
    BY <1>1, <2>1 DEF HasRealJobs, Real
  <2>2. CASE q # p
    <3>1. PICK s \in Container : s = player[q] /\ HasRealJobs(s)
      BY DEF TranscodeInv, TranscodeTypeOK
    <3>2. HasRealJobs(s)' /\ player'[q] = s
      BY <2>2, <3>1, JobsStayReal DEF TranscodeInv, TranscodeTypeOK
    <3> QED
      BY <3>2 DEF HasRealJobs, Real
  <2> QED
    BY <2>1, <2>2
<1> QED
  BY <1>1, <1>2 DEF TranscodeInv, TranscodeTypeOK, HasRealJobs, Real

(* The same when the service does nothing.                                   *)
LEMMA ContainerSteps ==
    ASSUME TranscodeInv, UNCHANGED <<native, jobs>>,
           NEW p \in Players, NEW r \in Container, HasRealJobs(r),
           player' = [player EXCEPT ![p] = r]
    PROVE  TranscodeInv'
<1>1. jobs' \in [Jobs -> {"none", "starting", "streaming", "broken"}]
  BY DEF TranscodeInv, TranscodeTypeOK
<1>2. HasRealJobs(r)'
  BY DEF HasRealJobs, Real
<1> QED
  BY <1>1, <1>2, ContainerChanges

LEMMA TurnsAreCounted ==
    ASSUME TranscodeInv, NEW p \in Players, NEW j, NEW answered, Asked(p, j, answered) = "again"
    PROVE  player[p].polls + 1 \in 0..(MaxPolls - 1)
<1>1. player[p].polls \in 0..(MaxPolls - 1) /\ MaxPolls \in Nat
  BY TranscodeAssumption DEF TranscodeInv, TranscodeTypeOK, Container
<1>2. player[p].polls + 1 # MaxPolls
  BY DEF Asked
<1> QED
  BY <1>1, <1>2

LEMMA ResumedParts ==
    ASSUME NEW r \in Container
    PROVE  /\ Resumed(r) \in Container /\ Resumed(r).phase = r.phase /\ Resumed(r).resuming = "no"
           /\ Resumed(r).job = r.newJob /\ Resumed(r).source \in {r.source, r.newJob}
           /\ Resumed(r).newJob = r.newJob
  BY DEF Resumed, Container

LEMMA ResumesAreTyped ==
    ASSUME NEW r \in Container, HasRealJobs(r)
    PROVE  /\ autoResumeTranscode(r) \in Container /\ HasRealJobs(autoResumeTranscode(r))
           /\ Real(r.newJob) /\ native \in BOOLEAN => Resumed(r) \in Container /\ HasRealJobs(Resumed(r))
<1>1. MaxResumes \in Nat /\ MaxPolls \in Nat \ {0} /\ 0 \in 0..(MaxPolls - 1)
  BY TranscodeAssumption
<1>3. autoResumeTranscode(r) \in Container
  <2>1. CASE r.resuming # "no" \/ r.attempts >= MaxResumes
    BY <2>1 DEF autoResumeTranscode
  <2>2. CASE ~(r.resuming # "no" \/ r.attempts >= MaxResumes)
    <3>1. r.attempts + 1 \in 0..MaxResumes
      BY <1>1, <2>2 DEF Container
    <3>2. autoResumeTranscode(r) = [r EXCEPT !.resuming = "posted", !.attempts = r.attempts + 1, !.polls = 0]
      BY <2>2 DEF autoResumeTranscode, Container
    <3> QED
      BY <1>1, <3>1, <3>2 DEF Container
  <2> QED
    BY <2>1, <2>2
<1>4. HasRealJobs(autoResumeTranscode(r))
  BY DEF autoResumeTranscode, HasRealJobs, Container
<1>5. ASSUME Real(r.newJob) PROVE Resumed(r) \in Container /\ HasRealJobs(Resumed(r))
  BY <1>5 DEF Resumed, HasRealJobs, Container
<1> QED
  BY <1>3, <1>4, <1>5

LEMMA TranscodeStep == TranscodeInv /\ [TranscodeNext]_transcodeVars => TranscodeInv'
<1> SUFFICES ASSUME TranscodeInv, [TranscodeNext]_transcodeVars PROVE TranscodeInv'
  OBVIOUS
<1>0. /\ native \in BOOLEAN /\ player \in [Players -> Container]
      /\ jobs \in [Jobs -> {"none", "starting", "streaming", "broken"}]
      /\ \A p \in Players : HasRealJobs(player[p])
      /\ 0 \in 0..MaxResumes /\ 0 \in 0..(MaxPolls - 1)
  BY TranscodeAssumption DEF TranscodeInv, TranscodeTypeOK
<1>1. ASSUME NEW p \in Players, Show(p)
      PROVE  TranscodeInv'
  <2>1. PICK r \in Container : r = player[p] /\ HasRealJobs(r)
    BY DEF TranscodeInv, TranscodeTypeOK
  <2>2. PICK s : s = [r EXCEPT !.phase = "asking", !.shown = TRUE]
    OBVIOUS
  <2>3. s \in Container /\ HasRealJobs(s)
    BY <1>1, <2>1, <2>2 DEF Show, Container, HasRealJobs, Real
  <2>4. player' = [player EXCEPT ![p] = s] /\ UNCHANGED <<native, jobs>>
    BY <1>1, <2>1, <2>2 DEF Show, TranscodeInv, TranscodeTypeOK
  <2> QED
    BY <2>3, <2>4, ContainerSteps
<1>2. ASSUME NEW p \in Players, PlayCached(p)
      PROVE  TranscodeInv'
  <2>1. PICK r \in Container : r = player[p] /\ HasRealJobs(r)
    BY DEF TranscodeInv, TranscodeTypeOK
  <2>2. PICK s : s = [r EXCEPT !.phase = "cached"]
    OBVIOUS
  <2>3. s \in Container /\ HasRealJobs(s)
    BY <1>2, <2>1, <2>2 DEF PlayCached, Container, HasRealJobs, Real
  <2>4. player' = [player EXCEPT ![p] = s] /\ UNCHANGED <<native, jobs>>
    BY <1>2, <2>1, <2>2 DEF PlayCached, TranscodeInv, TranscodeTypeOK
  <2> QED
    BY <2>3, <2>4, ContainerSteps
<1>3. ASSUME NEW p \in Players, StartFails(p)
      PROVE  TranscodeInv'
  <2>1. PICK r \in Container : r = player[p] /\ HasRealJobs(r)
    BY DEF TranscodeInv, TranscodeTypeOK
  <2>2. PICK s : s = [r EXCEPT !.phase = "failed"]
    OBVIOUS
  <2>3. s \in Container /\ HasRealJobs(s)
    BY <1>3, <2>1, <2>2 DEF StartFails, Container, HasRealJobs, Real
  <2>4. player' = [player EXCEPT ![p] = s] /\ UNCHANGED <<native, jobs>>
    BY <1>3, <2>1, <2>2 DEF StartFails, TranscodeInv, TranscodeTypeOK
  <2> QED
    BY <2>3, <2>4, ContainerSteps
<1>4. ASSUME NEW p \in Players, Transcoded(p)
      PROVE  TranscodeInv'
  <2>1. PICK r \in Container : r = player[p] /\ HasRealJobs(r)
    BY DEF TranscodeInv, TranscodeTypeOK
  <2>2. PICK j \in NewJobs, status \in {"starting", "streaming"} :
          /\ Started(j, status)
          /\ player' = [player EXCEPT ![p].job = j, ![p].polls = 0,
                          ![p].phase = IF status = "streaming" THEN "loading" ELSE "polling"]
    BY <1>4 DEF Transcoded
  <2>3. PICK s : s = [r EXCEPT !.job = j, !.polls = 0,
                               !.phase = IF status = "streaming" THEN "loading" ELSE "polling"]
    OBVIOUS
  <2>4. /\ j \in Jobs /\ jobs'[j] = status /\ native' = native
        /\ jobs' \in [Jobs -> {"none", "starting", "streaming", "broken"}]
        /\ \A i \in Jobs : jobs[i] # "none" => jobs'[i] # "none"
    BY <1>0, <1>4, <2>2 DEF Transcoded, NewJobs, Started
  <2>5. HasRealJobs(r)'
    BY <2>1, <2>4, JobsStayReal
  <2>6. s \in Container /\ HasRealJobs(s)'
    <3>1. s \in Container
      <4>1. PICK goesOn \in {"loading", "polling"} : goesOn = IF status = "streaming" THEN "loading" ELSE "polling"
        OBVIOUS
      <4>2. s = [r EXCEPT !.job = j, !.polls = 0, !.phase = goesOn]
        BY <2>3, <4>1
      <4> QED
        BY <1>0, <2>4, <4>1, <4>2 DEF Container
    <3>2. s.job = j /\ s.phase # "playing" /\ s.resuming = r.resuming /\ s.newJob = r.newJob
      BY <2>1, <2>2, <2>3 DEF Container
    <3>3. Real(s.job)'
      BY <2>2, <2>4, <3>2 DEF Real
    <3> QED
      BY <2>5, <3>1, <3>2, <3>3 DEF HasRealJobs, Real
  <2>7. player' = [player EXCEPT ![p] = s]
    BY <1>0, <2>1, <2>2, <2>3
  <2> QED
    BY <2>4, <2>6, <2>7, ContainerChanges
<1>5. ASSUME NEW p \in Players, PollStream(p)
      PROVE  TranscodeInv'
  <2>1. PICK r \in Container : r = player[p] /\ HasRealJobs(r)
    BY DEF TranscodeInv, TranscodeTypeOK
  <2>2. PICK answered \in BOOLEAN :
          LET turn == Asked(p, player[p].job, answered) IN
          player' = [player EXCEPT
                       ![p].phase = CASE turn = "stream" -> "loading"
                                      [] turn = "error" -> "failed"
                                      [] turn = "again" -> "polling",
                       ![p].polls = IF turn = "again" THEN @ + 1 ELSE @]
    BY <1>5 DEF PollStream
  <2> DEFINE turn == Asked(p, player[p].job, answered)
  <2>9. PICK goesOn, polls :
          /\ goesOn = CASE turn = "stream" -> "loading"
                        [] turn = "error" -> "failed"
                        [] turn = "again" -> "polling"
          /\ polls = IF turn = "again" THEN player[p].polls + 1 ELSE player[p].polls
    OBVIOUS
  <2>3. PICK s : s = [r EXCEPT !.phase = goesOn, !.polls = polls]
    OBVIOUS
  <2>4. turn \in {"stream", "error", "again"}
    BY DEF Asked
  <2>5. turn = "again" => r.polls + 1 \in 0..(MaxPolls - 1)
    BY <2>1, TurnsAreCounted
  <2>6. player' = [player EXCEPT ![p] = s] /\ UNCHANGED <<native, jobs>>
    <3>1. player' = [player EXCEPT ![p].phase = goesOn, ![p].polls = polls]
      BY <1>0, <2>2, <2>9
    <3> QED
      BY <1>0, <1>5, <2>1, <2>3, <3>1 DEF PollStream
  <2>7. r.phase = "polling"
    BY <1>5, <2>1 DEF PollStream
  <2> HIDE DEF turn
  <2>8. s \in Container /\ HasRealJobs(s)
    <3>1. goesOn \in {"loading", "failed", "polling"} /\ polls \in 0..(MaxPolls - 1)
      BY <2>1, <2>4, <2>5, <2>9 DEF Container
    <3> QED
      BY <2>1, <2>3, <2>7, <3>1 DEF Container, HasRealJobs
  <2> QED
    BY <2>6, <2>8, ContainerSteps
<1>6a. ASSUME NEW p \in Players, ManifestParsed(p)
      PROVE  TranscodeInv'
  <2>1. PICK r \in Container : r = player[p] /\ HasRealJobs(r)
    BY DEF TranscodeInv, TranscodeTypeOK
  <2>2. PICK s : s = [r EXCEPT !.phase = "buffering"]
    OBVIOUS
  <2>3. s \in Container /\ HasRealJobs(s)
    BY <1>6a, <2>1, <2>2 DEF ManifestParsed, Container, HasRealJobs, Real
  <2>4. player' = [player EXCEPT ![p] = s] /\ UNCHANGED <<native, jobs>>
    BY <1>6a, <2>1, <2>2 DEF ManifestParsed, TranscodeInv, TranscodeTypeOK
  <2> QED
    BY <2>3, <2>4, ContainerSteps
<1>6b. ASSUME NEW p \in Players, LoadFails(p)
      PROVE  TranscodeInv'
  <2>1. PICK r \in Container : r = player[p] /\ HasRealJobs(r)
    BY DEF TranscodeInv, TranscodeTypeOK
  <2>2. PICK s : s = [r EXCEPT !.phase = "failed"]
    OBVIOUS
  <2>3. s \in Container /\ HasRealJobs(s)
    BY <1>6b, <2>1, <2>2 DEF LoadFails, Container, HasRealJobs, Real
  <2>4. player' = [player EXCEPT ![p] = s] /\ UNCHANGED <<native, jobs>>
    BY <1>6b, <2>1, <2>2 DEF LoadFails, TranscodeInv, TranscodeTypeOK
  <2> QED
    BY <2>3, <2>4, ContainerSteps
<1>6. ASSUME NEW p \in Players, LoadSettles(p)
      PROVE  TranscodeInv'
  <2>1. PICK r \in Container : r = player[p] /\ HasRealJobs(r) /\ r.phase \in {"loading", "buffering"}
    BY <1>6 DEF LoadSettles, TranscodeInv, TranscodeTypeOK
  <2>2. UNCHANGED <<native, jobs>>
    BY <1>6 DEF LoadSettles
  <2>3. ASSUME NEW polled \in {NoJob, player[p].job},
               player' = [player EXCEPT ![p].phase = "playing", ![p].source = player[p].job,
                                        ![p].polled = polled]
        PROVE  TranscodeInv'
    <3>1. PICK s : s = [r EXCEPT !.phase = "playing", !.source = r.job, !.polled = polled]
      OBVIOUS
    <3>2. s \in Container /\ HasRealJobs(s)
      BY <2>1, <2>3, <3>1 DEF Container, HasRealJobs
    <3>3. player' = [player EXCEPT ![p] = s]
      BY <1>0, <2>1, <2>3, <3>1
    <3> QED
      BY <2>2, <3>2, <3>3, ContainerSteps
  <2>4. CASE player' = [player EXCEPT ![p].phase = "failed"]
    <3>1. PICK s : s = [r EXCEPT !.phase = "failed"]
      OBVIOUS
    <3>2. s \in Container /\ HasRealJobs(s)
      BY <2>1, <3>1 DEF Container, HasRealJobs
    <3>3. player' = [player EXCEPT ![p] = s]
      BY <1>0, <2>1, <2>4, <3>1
    <3> QED
      BY <2>2, <3>2, <3>3, ContainerSteps
  <2> QED
    BY <1>6, <2>3, <2>4 DEF LoadSettles
<1>7. ASSUME NEW p \in Players, ResumeStarted(p)
      PROVE  TranscodeInv'
  <2>1. PICK r \in Container : r = player[p] /\ HasRealJobs(r)
    BY DEF TranscodeInv, TranscodeTypeOK
  <2>2. PICK j \in NewJobs, status \in {"starting", "streaming"} :
          /\ Started(j, status)
          /\ LET q == [player[p] EXCEPT !.newJob = j, !.resuming = "polling"] IN
             player' = [player EXCEPT ![p] = IF status = "streaming" THEN Resumed(q) ELSE q]
    BY <1>7 DEF ResumeStarted
  <2>3. PICK q : q = [r EXCEPT !.newJob = j, !.resuming = "polling"]
    OBVIOUS
  <2>4. PICK s : s = IF status = "streaming" THEN Resumed(q) ELSE q
    OBVIOUS
  <2>5. /\ j \in Jobs /\ jobs'[j] = status /\ native' = native
        /\ jobs' \in [Jobs -> {"none", "starting", "streaming", "broken"}]
        /\ \A i \in Jobs : jobs[i] # "none" => jobs'[i] # "none"
    BY <1>0, <1>7, <2>2 DEF ResumeStarted, NewJobs, Started
  <2>6. HasRealJobs(r)'
    BY <2>1, <2>5, JobsStayReal
  <2>7. q \in Container /\ HasRealJobs(q)' /\ Real(q.newJob)'
    BY <2>1, <2>3, <2>5, <2>6 DEF Container, HasRealJobs, Real
  <2>8. s \in Container /\ HasRealJobs(s)'
    <3>1. CASE status = "starting"
      BY <2>4, <2>7, <3>1
    <3>2. CASE status = "streaming"
      BY <2>4, <2>7, <3>2, ResumedParts DEF HasRealJobs, Real
    <3> QED
      BY <2>2, <3>1, <3>2
  <2>9. player' = [player EXCEPT ![p] = s]
    BY <2>1, <2>2, <2>3, <2>4
  <2> QED
    BY <2>5, <2>8, <2>9, ContainerChanges
<1>8. ASSUME NEW p \in Players, PollResume(p)
      PROVE  TranscodeInv'
  <2>1. PICK r \in Container : r = player[p] /\ HasRealJobs(r) /\ r.resuming = "polling"
    BY <1>8 DEF PollResume, TranscodeInv, TranscodeTypeOK
  <2>2. PICK answered \in BOOLEAN :
          LET turn == Asked(p, player[p].newJob, answered) IN
          player' = [player EXCEPT ![p] =
                       CASE turn = "stream" -> Resumed(player[p])
                         [] turn = "error" -> [player[p] EXCEPT !.resuming = "no"]
                         [] turn = "again" -> [player[p] EXCEPT !.polls = @ + 1]]
    BY <1>8 DEF PollResume
  <2> DEFINE turn == Asked(p, player[p].newJob, answered)
  <2>3. turn \in {"stream", "error", "again"}
    BY DEF Asked
  <2>4. turn = "again" => r.polls + 1 \in 0..(MaxPolls - 1)
    BY <2>1, TurnsAreCounted
  <2>5. UNCHANGED <<native, jobs>>
    BY <1>8 DEF PollResume
  <2>6. CASE turn = "stream"
    <3>1. PICK s : s = Resumed(r)
      OBVIOUS
    <3>2. player' = [player EXCEPT ![p] = s]
      BY <2>1, <2>2, <2>6, <3>1
    <3>3. s \in Container /\ HasRealJobs(s)
      BY <1>0, <2>1, <3>1, ResumesAreTyped DEF HasRealJobs
    <3> QED
      BY <2>5, <3>2, <3>3, ContainerSteps
  <2>7. CASE turn = "error"
    <3>1. PICK s : s = [r EXCEPT !.resuming = "no"]
      OBVIOUS
    <3>2. player' = [player EXCEPT ![p] = s]
      BY <2>1, <2>2, <2>7, <3>1
    <3>3. s \in Container /\ HasRealJobs(s)
      BY <2>1, <3>1 DEF Container, HasRealJobs
    <3> QED
      BY <2>5, <3>2, <3>3, ContainerSteps
  <2>8. CASE turn = "again"
    <3>1. PICK s : s = [r EXCEPT !.polls = r.polls + 1]
      OBVIOUS
    <3>2. player' = [player EXCEPT ![p] = s]
      BY <2>1, <2>2, <2>8, <3>1 DEF Container
    <3>3. s \in Container /\ HasRealJobs(s)
      BY <2>1, <2>4, <2>8, <3>1 DEF Container, HasRealJobs
    <3> QED
      BY <2>5, <3>2, <3>3, ContainerSteps
  <2> QED
    BY <2>3, <2>6, <2>7, <2>8
<1>9. ASSUME NEW p \in Players, ResumeRefused(p)
      PROVE  TranscodeInv'
  <2>1. PICK r \in Container : r = player[p] /\ HasRealJobs(r)
    BY DEF TranscodeInv, TranscodeTypeOK
  <2>2. PICK s : s = [r EXCEPT !.resuming = "no"]
    OBVIOUS
  <2>3. s \in Container /\ HasRealJobs(s)
    BY <1>9, <2>1, <2>2 DEF ResumeRefused, Container, HasRealJobs, Real
  <2>4. player' = [player EXCEPT ![p] = s] /\ UNCHANGED <<native, jobs>>
    BY <1>9, <2>1, <2>2 DEF ResumeRefused, TranscodeInv, TranscodeTypeOK
  <2> QED
    BY <2>3, <2>4, ContainerSteps
<1>10. ASSUME NEW p \in Players, VideoWaits(p)
      PROVE  TranscodeInv'
  <2>1. PICK r \in Container : r = player[p] /\ HasRealJobs(r)
    BY DEF TranscodeInv, TranscodeTypeOK
  <2>2. PICK s : s = [r EXCEPT !.stalls = {"last"} \cup IF "last" \in r.stalls THEN {"older"} ELSE r.stalls]
    OBVIOUS
  <2>3. s \in Container /\ HasRealJobs(s)
    BY <1>10, <2>1, <2>2 DEF VideoWaits, Container, HasRealJobs, Real
  <2>4. player' = [player EXCEPT ![p] = s] /\ UNCHANGED <<native, jobs>>
    BY <1>10, <2>1, <2>2 DEF VideoWaits, TranscodeInv, TranscodeTypeOK
  <2> QED
    BY <2>3, <2>4, ContainerSteps
<1>11. ASSUME NEW p \in Players, Playing(p)
      PROVE  TranscodeInv'
  <2>1. PICK r \in Container : r = player[p] /\ HasRealJobs(r)
    BY DEF TranscodeInv, TranscodeTypeOK
  <2>2. PICK s : s = [r EXCEPT !.stalls = r.stalls \ {"last"}, !.attempts = 0]
    OBVIOUS
  <2>3. s \in Container /\ HasRealJobs(s)
    BY <1>11, <2>1, <2>2, <1>0 DEF Playing, Container, HasRealJobs, Real
  <2>4. player' = [player EXCEPT ![p] = s] /\ UNCHANGED <<native, jobs>>
    BY <1>11, <2>1, <2>2 DEF Playing, TranscodeInv, TranscodeTypeOK
  <2> QED
    BY <2>3, <2>4, ContainerSteps
<1>12. ASSUME NEW p \in Players, StallLasts(p)
      PROVE  TranscodeInv'
  <2>1. PICK r \in Container : r = player[p] /\ HasRealJobs(r)
    BY DEF TranscodeInv, TranscodeTypeOK
  <2>2. PICK t \in player[p].stalls :
          player' = [player EXCEPT ![p].stalls = @ \ {t}, ![p].asked = "sent"]
    BY <1>12 DEF StallLasts
  <2>3. PICK s : s = [r EXCEPT !.stalls = r.stalls \ {t}, !.asked = "sent"]
    OBVIOUS
  <2>4. s \in Container /\ HasRealJobs(s)
    BY <2>1, <2>3 DEF Container, HasRealJobs
  <2>5. player' = [player EXCEPT ![p] = s] /\ UNCHANGED <<native, jobs>>
    BY <1>0, <1>12, <2>1, <2>2, <2>3 DEF StallLasts
  <2> QED
    BY <2>4, <2>5, ContainerSteps
<1>13. ASSUME NEW p \in Players, StatusLooked(p)
      PROVE  TranscodeInv'
  <2>1. PICK r \in Container : r = player[p] /\ HasRealJobs(r)
    BY DEF TranscodeInv, TranscodeTypeOK
  <2>2. PICK asked \in {"good", "bad"} : player' = [player EXCEPT ![p].asked = asked]
    BY <1>13 DEF StatusLooked
  <2>3. PICK s : s = [r EXCEPT !.asked = asked]
    OBVIOUS
  <2>4. s \in Container /\ HasRealJobs(s)
    BY <2>1, <2>3 DEF Container, HasRealJobs
  <2>5. player' = [player EXCEPT ![p] = s] /\ UNCHANGED <<native, jobs>>
    BY <1>0, <1>13, <2>1, <2>2, <2>3 DEF StatusLooked
  <2> QED
    BY <2>4, <2>5, ContainerSteps
<1>14. ASSUME NEW p \in Players, StatusAnswered(p)
      PROVE  TranscodeInv'
  <2>1. PICK r \in Container : r = player[p] /\ HasRealJobs(r)
    BY DEF TranscodeInv, TranscodeTypeOK
  <2>2. PICK q : q = [r EXCEPT !.asked = "no"]
    OBVIOUS
  <2>3. PICK s : s = IF r.asked = "good" THEN q ELSE autoResumeTranscode(q)
    OBVIOUS
  <2>4. q \in Container /\ HasRealJobs(q)
    BY <2>1, <2>2 DEF Container, HasRealJobs
  <2>5. s \in Container /\ HasRealJobs(s)
    BY <2>3, <2>4, ResumesAreTyped
  <2>6. player' = [player EXCEPT ![p] = s] /\ UNCHANGED <<native, jobs>>
    BY <1>14, <2>1, <2>2, <2>3 DEF StatusAnswered
  <2> QED
    BY <2>5, <2>6, ContainerSteps
<1>15. ASSUME NEW p \in Players, WatchSeesError(p)
      PROVE  TranscodeInv'
  <2>1. PICK r \in Container : r = player[p] /\ HasRealJobs(r)
    BY DEF TranscodeInv, TranscodeTypeOK
  <2>2. PICK q : q = [r EXCEPT !.polled = NoJob]
    OBVIOUS
  <2>3. PICK s : s = autoResumeTranscode(q)
    OBVIOUS
  <2>4. q \in Container /\ HasRealJobs(q)
    BY <2>1, <2>2 DEF Container, HasRealJobs
  <2>5. s \in Container /\ HasRealJobs(s)
    BY <2>3, <2>4, ResumesAreTyped
  <2>6. player' = [player EXCEPT ![p] = s] /\ UNCHANGED <<native, jobs>>
    BY <1>0, <1>15, <2>1, <2>2, <2>3 DEF WatchSeesError
  <2> QED
    BY <2>5, <2>6, ContainerSteps
<1>16. ASSUME NEW p \in Players, WatchEnds(p)
      PROVE  TranscodeInv'
  <2>1. PICK r \in Container : r = player[p] /\ HasRealJobs(r)
    BY DEF TranscodeInv, TranscodeTypeOK
  <2>2. PICK s : s = [r EXCEPT !.polled = NoJob]
    OBVIOUS
  <2>3. s \in Container /\ HasRealJobs(s)
    BY <1>16, <2>1, <2>2 DEF WatchEnds, Container, HasRealJobs, Real
  <2>4. player' = [player EXCEPT ![p] = s] /\ UNCHANGED <<native, jobs>>
    BY <1>16, <2>1, <2>2 DEF WatchEnds, TranscodeInv, TranscodeTypeOK
  <2> QED
    BY <2>3, <2>4, ContainerSteps
<1>17. ASSUME NEW p \in Players, Leave(p)
      PROVE  TranscodeInv'
  <2>1. PICK r \in Container : r = player[p] /\ HasRealJobs(r)
    BY DEF TranscodeInv, TranscodeTypeOK
  <2>2. PICK s : s = [r EXCEPT !.shown = FALSE]
    OBVIOUS
  <2>3. s \in Container /\ HasRealJobs(s)
    BY <1>17, <2>1, <2>2 DEF Leave, Container, HasRealJobs, Real
  <2>4. player' = [player EXCEPT ![p] = s] /\ UNCHANGED <<native, jobs>>
    BY <1>17, <2>1, <2>2 DEF Leave, TranscodeInv, TranscodeTypeOK
  <2> QED
    BY <2>3, <2>4, ContainerSteps
<1>18. ASSUME CloseViewer
      PROVE  TranscodeInv'
  <2>1. /\ player' = [p \in Players |-> [player[p] EXCEPT !.shown = FALSE]]
        /\ UNCHANGED <<native, jobs>>
    BY <1>18 DEF CloseViewer
  <2>2. ASSUME NEW p \in Players
        PROVE  player'[p] \in Container /\ HasRealJobs(player[p])'
    <3>1. player[p] \in Container /\ HasRealJobs(player[p]) /\ player'[p] = [player[p] EXCEPT !.shown = FALSE]
      BY <1>0, <2>1
    <3> QED
      BY <2>1, <3>1 DEF Container, HasRealJobs, Real
  <2> QED
    BY <1>0, <2>1, <2>2 DEF TranscodeInv, TranscodeTypeOK, HasRealJobs
<1>19. ASSUME NEW j \in Jobs, JobStreams(j) \/ JobBreaks(j)
      PROVE  TranscodeInv'
  BY <1>0, <1>19, JobsStayReal DEF JobStreams, JobBreaks
<1>20. ASSUME UNCHANGED transcodeVars
      PROVE  TranscodeInv'
  BY <1>0, <1>20, JobsStayReal DEF transcodeVars
<1> QED
  BY <1>1, <1>2, <1>3, <1>4, <1>5, <1>6a, <1>6b, <1>6, <1>7, <1>8, <1>9, <1>10, <1>11, <1>12, <1>13,
     <1>14, <1>15, <1>16, <1>17, <1>18, <1>19, <1>20 DEF TranscodeNext, StartStep, ResumeStep

(* Whatever stalls, resumes, late answers and leaving do, what plays and     *)
(* what is asked about is a job the service has got, and retries are counted. *)
THEOREM TranscodeTyping == TranscodeSpec => []TranscodeTypeOK
<1>1. TranscodeInv => TranscodeTypeOK
  BY DEF TranscodeInv
<1> QED
  BY <1>1, TranscodeInitHolds, TranscodeStep, PTL DEF TranscodeSpec

-----------------------------------------------------------------------------
(* The whole page. *)

(* What a part of the page does is a step of its own specification, or none. *)
LEMMA PartsStep ==
    [BrowserNext]_parts =>
        /\ [ClientNext]_allVars /\ [ViewsNext]_viewVars /\ [TranscodeNext]_transcodeVars
        /\ [ProgressNext]_progressVars /\ [GalleryNext]_galleryVars
<1> SUFFICES ASSUME [BrowserNext]_parts
             PROVE  /\ [ClientNext]_allVars /\ [ViewsNext]_viewVars /\ [TranscodeNext]_transcodeVars
                    /\ [ProgressNext]_progressVars /\ [GalleryNext]_galleryVars
  OBVIOUS
<1>1. UNCHANGED parts => UNCHANGED <<allVars, viewVars, transcodeVars, progressVars, galleryVars>>
  BY DEF parts
<1>2. TimelineNext \/ OverlaidNext => GalleryNext
  BY DEF OverlaidNext, GalleryNext, TimelineNext
<1> QED
  BY <1>1, <1>2 DEF BrowserNext, Uploading, Viewing, Transcoding, Saving, Browsing

(* The parts do not disturb each other: a page implements each of them, and  *)
(* all their state stays well typed together.                                *)
THEOREM PageTyping == BrowserSpec => []BrowserTypeOK
<1>1. BrowserInit => ClientInit /\ ViewsInit /\ TranscodeInit /\ ProgressInit /\ GalleryInit
  BY DEF BrowserInit
<1>2. BrowserSpec => BrowserInit /\ [][BrowserNext]_parts
  BY DEF BrowserSpec
<1>3. BrowserSpec => ClientSpec /\ ViewsSpec /\ TranscodeSpec /\ ProgressSpec /\ GallerySpec
  BY <1>1, <1>2, PartsStep, PTL DEF ClientSpec, ViewsSpec, TranscodeSpec, ProgressSpec, GallerySpec
<1>4. ClientTypeOK /\ ViewsTypeOK /\ TranscodeTypeOK /\ ProgressTypeOK /\ GalleryTypeOK => BrowserTypeOK
  BY DEF BrowserTypeOK
<1> QED
  BY <1>3, <1>4, ClientTyping, ViewsTyping, TranscodeTyping, ProgressTyping, GalleryTyping, PTL
=============================================================================
