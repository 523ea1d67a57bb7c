----------------------------- MODULE DocumentList -----------------------------
(***************************************************************************)
(* The list of documents of the desktop application:                       *)
(* cosmic/src/page/document_list.rs, its component documents.rs with       *)
(* Filtered and Pagination, and the document provider behind them.         *)
(*                                                                         *)
(*     change --> set_expired --> Refresh --> LoadArchive                  *)
(*            --> fetch (ObservableCache) --> Loaded                       *)
(*     criterion --> filter_now --> background --> FilteringComplete       *)
(*                                                                         *)
(* update() handles one message at a time; the tasks it starts run beside  *)
(* each other and are answered in any order.  A filter computes indices    *)
(* into the rows it was started with.  A page of the list is drawn after   *)
(* every message.                                                          *)
(*                                                                         *)
(* A document is its guid, by which it is sorted, and its tags; the query  *)
(* finds the documents of Found.  One filter stands for those by status,   *)
(* type, source and tag and for the search mode.  The library is what the  *)
(* sources hold together, each document in one of them: a source that      *)
(* fails to answer is left out of the list without a word, so that         *)
(* loading never fails.  Left out: covers, opening a document or its       *)
(* details, the tags offered for editing.                                  *)
(***************************************************************************)
EXTENDS Naturals, FiniteSets, Sequences, Functions

CONSTANTS Docs,       \* guids, numbers
          Found,      \* the documents that match the query
          Tags,
          None,
          Libraries,  \* what the sources may hold at first
          MaxChanges, \* bound on changes to the library
          MaxSteps    \* bound on these, on what the user does and on requests
                      \* that fail, together

ASSUME DocsAssumption == Docs \subseteq Nat /\ IsFiniteSet(Docs) /\ Found \subseteq Docs
ASSUME NoneAssumption ==
    /\ None \notin Tags
    /\ \A docs \in SUBSET [guid : Docs, tags : SUBSET Tags] : docs # None
ASSUME BoundsAssumption ==
    /\ {MaxChanges, MaxSteps} \subseteq Nat
    /\ Libraries \subseteq UNION {[D -> SUBSET Tags] : D \in SUBSET Docs}

VARIABLES library,    \* guid |-> tags of the document
          cache,      \* documents_cache
          list,       \* the DocumentState
          criteria,   \* search_query and the filters
          descending, \* sort_direction
          filtering,  \* is_filtering
          selected,   \* selected_documents
          dialog,     \* merge_dialog
          tasks,      \* tasks and messages under way
          panicked,
          changes, steps,
          owed,       \* history: a filter was asked for and not started, or the
                      \*          rows changed under the filter
          apart,      \* history: each change was made when the last one was
                      \*          done with, and no request about it failed
          whole       \* history: every source answered when the cache was filled

known == <<cache, whole>>
bounds == <<changes, steps>>
filter == <<criteria, filtering, owed>>
vars == <<library, known, list, filter, descending, selected, dialog, tasks,
          panicked, bounds, apart>>

Document == [guid : Docs, tags : SUBSET Tags]
Stored == {[guid |-> g, tags |-> library[g]] : g \in DOMAIN library}

\* filter_document
Matches(c, d) == /\ c.query => d.guid \in Found
                 /\ c.tag # None => c.tag \in d.tags

\* start_background_filtering, Filtered::filter: indices into the rows.
Filtered(c, rows) == {i \in DOMAIN rows : Matches(c, rows[i])}

\* sort_documents: each document after those that come before it.
Sorted(docs, down) ==
    LET place(d) == Cardinality({e \in docs : IF down THEN e.guid >= d.guid ELSE e.guid <= d.guid})
    IN  [i \in 1..Cardinality(docs) |-> CHOOSE d \in docs : place(d) = i]

Loaded == list.state = "Loaded"
NotLoaded(state) == [state |-> state, rows |-> << >>, shown |-> {}]
Guids == {list.rows[i].guid : i \in DOMAIN list.rows}

\* filtered_items; an index without a row panics.
Shown == {list.rows[i] : i \in list.shown}

\* get_selected_documents
SelectedDocuments == {d \in Range(list.rows) : d.guid \in selected}

(***************************************************************************)
(* Tasks.                                                                  *)
(***************************************************************************)
\* A number that no load under way has.
FreeNumber(ts) ==
    LET used == {t.n : t \in {u \in ts : u.do \in {"load", "fetch", "loaded", "tags"}}}
    IN  CHOOSE n \in 1..(Cardinality(used) + 1) :
            n \notin used /\ \A k \in 1..(n - 1) : k \in used

\* A message LoadArchive on its way.
Reload(ts) == ts \cup {[do |-> "load", n |-> FreeNumber(ts)]}

\* Mutant: the subscribers hear of it, the cache stays.
ExpireKept(ts) == UNCHANGED known /\ tasks' = Reload(ts)

\* set_expired of the provider: the cache is dropped and the subscription of
\* the application turns that into a Refresh.
Expire(ts) == cache' = None /\ tasks' = Reload(ts) /\ UNCHANGED whole

Pending(kinds) == \E t \in tasks : t.do \in kinds
Changing == Pending({"load", "fetch", "loaded", "batch", "applied", "merge",
                     "expire", "read", "item", "merged"})

Bounded == steps < MaxSteps /\ steps' = steps + 1

\* A request fails although nothing is wrong with it.
Fail == Bounded /\ UNCHANGED changes

\* One more change of the library.
Change ==
    /\ ~panicked
    /\ Bounded
    /\ changes < MaxChanges
    /\ changes' = changes + 1
    /\ apart' = (apart /\ ~Changing)
    /\ UNCHANGED panicked

Act ==
    /\ ~panicked
    /\ Bounded
    /\ UNCHANGED <<library, known, changes, panicked, apart>>

\* A click in the merge dialog.
Click == ~panicked /\ UNCHANGED <<library, known, bounds, panicked, apart>>

\* A message is handled that changes neither the library nor the bounds.
Handle(t) ==
    /\ ~panicked
    /\ t \in tasks
    /\ UNCHANGED <<library, known, bounds, apart, dialog, descending>>

(***************************************************************************)
(* Filtering.                                                              *)
(***************************************************************************)
Init ==
    /\ library \in Libraries
    /\ cache = None
    /\ list = NotLoaded("New")
    /\ criteria = [query |-> FALSE, tag |-> None]
    /\ descending = FALSE
    /\ filtering = FALSE
    /\ selected = {}
    /\ dialog = None
    /\ tasks = Reload({})
    /\ panicked = FALSE
    /\ changes = 0 /\ steps = 0
    /\ owed = FALSE /\ apart = TRUE /\ whole = TRUE

\* A filter by c over the rows of l starts when none runs.
Start(c, l, ts) ==
    IF l.state = "Loaded" /\ ~filtering
    THEN /\ filtering' = TRUE
         /\ tasks' = ts \cup {[do |-> "filtered", shown |-> Filtered(c, l.rows)]}
         /\ owed' = FALSE
    ELSE /\ tasks' = ts
         /\ owed' = (owed \/ l.state = "Loaded")
         /\ UNCHANGED filtering

NotTimers == {t \in tasks : t.do # "timer"}

\* Mutant: the debounce counter is left alone.
FilterNowBesideTimer(c, l, done) == criteria' = c /\ Start(c, l, tasks \ done)

\* filter_now.  The debounce counter goes up: a timer that is running does
\* nothing when it ends.
FilterNow(c, l, done) == criteria' = c /\ Start(c, l, NotTimers \ done)

\* SearchChanged; the timer remembers the query.
SearchChanged(query) ==
    /\ Act
    /\ criteria' = [criteria EXCEPT !.query = query]
    /\ tasks' = NotTimers \cup (IF Loaded THEN {[do |-> "timer", query |-> query]} ELSE {})
    /\ UNCHANGED <<list, filtering, owed, descending, selected, dialog>>

ClearSearch ==
    /\ Act
    /\ FilterNow([criteria EXCEPT !.query = FALSE], list, {})
    /\ UNCHANGED <<list, descending, selected, dialog>>

\* StatusFilterChanged, TypeFilterChanged, SourceFilterChanged, the Clear...
\* of each, CycleTag, SearchModeChanged, and SetAvailableSources without the
\* source that is filtered by.
FilterChanged(tag) ==
    /\ Act
    /\ FilterNow([criteria EXCEPT !.tag = tag], list, {})
    /\ UNCHANGED <<list, descending, selected, dialog>>

DebounceTimeout(t) ==
    /\ Handle(t) /\ t.do = "timer"
    /\ Start([criteria EXCEPT !.query = t.query], list, tasks \ {t})
    /\ UNCHANGED <<criteria, list, selected, panicked>>

\* The tags are there: TagFiltersUpdated.
TagsLoaded(t) ==
    /\ Handle(t) /\ t.do = "tags"
    /\ FilterNow(criteria, list, {t})
    /\ UNCHANGED <<list, selected, panicked>>

\* sort_now: sort_unfiltered shows all rows until they are filtered again.
SortNow ==
    LET l == [list EXCEPT !.rows = Sorted(Range(@), descending'), !.shown = DOMAIN list.rows]
    IN  list' = l /\ FilterNow(criteria, l, {})

\* SortSubjectChanged and ToggleSortDirection.
ToggleSortDirection ==
    /\ Act
    /\ descending' = ~descending
    /\ IF Loaded THEN SortNow ELSE UNCHANGED <<list, filter, tasks>>
    /\ UNCHANGED <<selected, dialog>>

\* The indices are those of the rows the filter was started with.
FilteringComplete(t) ==
    /\ Handle(t) /\ t.do = "filtered"
    /\ filtering' = FALSE
    /\ IF Loaded
       THEN /\ list' = [list EXCEPT !.shown = t.shown]
            /\ panicked' = ~(t.shown \subseteq DOMAIN list.rows)
       ELSE UNCHANGED <<list, panicked>>
    /\ tasks' = tasks \ {t}
    /\ UNCHANGED <<criteria, owed, selected>>

(***************************************************************************)
(* Loading.                                                                *)
(***************************************************************************)
\* LoadArchive
LoadArchive(t) ==
    /\ Handle(t) /\ t.do = "load"
    /\ list' = NotLoaded("Loading")
    /\ tasks' = (tasks \ {t}) \cup {[do |-> "fetch", n |-> t.n], [do |-> "tags", n |-> t.n]}
    /\ UNCHANGED <<filter, selected, panicked>>

\* What the sources answer together: all there is, or without the documents
\* of those that fail, which are only logged.
Aggregated(docs) ==
    \/ docs = Stored /\ whole' = TRUE /\ UNCHANGED bounds
    \/ docs # Stored /\ whole' = FALSE /\ Fail

\* get_documents: what is cached, or what the sources answer, which is cached.
Fetch(t) ==
    /\ ~panicked
    /\ t \in tasks /\ t.do = "fetch"
    /\ \/ cache # None /\ UNCHANGED <<known, bounds>>
       \/ /\ cache = None
          /\ \E docs \in SUBSET Stored : cache' = docs /\ Aggregated(docs)
    /\ tasks' = (tasks \ {t}) \cup {[do |-> "loaded", n |-> t.n, docs |-> cache']}
    /\ UNCHANGED <<library, list, filter, descending, selected, dialog, panicked, apart>>

LoadedList(docs) ==
    LET rows == Sorted(docs, descending)
    IN  [state |-> "Loaded", rows |-> rows, shown |-> Filtered(criteria, rows)]

\* Mutant: the early return of the other handlers, of a list not loaded.
DocumentsReloaded(t) ==
    /\ Handle(t) /\ t.do = "loaded"
    /\ list' = IF Loaded THEN LoadedList(t.docs) ELSE list
    /\ tasks' = (tasks \ {t}) \cup {[do |-> "prune"]}
    /\ owed' = filtering
    /\ UNCHANGED <<criteria, filtering, selected, panicked>>

\* Loaded.  A filter that is under way is for the rows before.
DocumentsLoaded(t) ==
    /\ Handle(t) /\ t.do = "loaded"
    /\ list' = LoadedList(t.docs)
    /\ tasks' = (tasks \ {t}) \cup {[do |-> "prune"]}
    /\ owed' = filtering
    /\ UNCHANGED <<criteria, filtering, selected, panicked>>

(***************************************************************************)
(* Rows that change one by one.                                            *)
(***************************************************************************)
\* update_item: the row of the same guid, which is not filtered again.
Updated(rows, docs) ==
    [i \in DOMAIN rows |->
        IF \E d \in docs : d.guid = rows[i].guid
        THEN CHOOSE d \in docs : d.guid = rows[i].guid ELSE rows[i]]

UpdateItems(t, docs) ==
    /\ tasks' = tasks \ {t}
    /\ IF Loaded
       THEN /\ list' = [list EXCEPT !.rows = Updated(@, docs)]
            /\ owed' = (owed \/ list' # list)
       ELSE UNCHANGED <<list, owed>>
    /\ UNCHANGED <<criteria, filtering, selected, panicked>>

RefreshDocument(t) == Handle(t) /\ t.do = "item" /\ UpdateItems(t, {t.doc})
BatchTagsApplied(t) == Handle(t) /\ t.do = "applied" /\ UpdateItems(t, t.docs)

(***************************************************************************)
(* Selection.                                                              *)
(***************************************************************************)
ToggleDocumentSelected(g) ==
    /\ Act
    /\ Loaded /\ \E d \in Shown : d.guid = g
    /\ selected' = IF g \in selected THEN selected \ {g} ELSE selected \cup {g}
    /\ UNCHANGED <<list, filter, descending, dialog, tasks>>

ToggleAllSelected(all) ==
    /\ Act
    /\ Loaded /\ Shown # {}
    /\ selected' = IF all THEN selected \cup {d.guid : d \in Shown} ELSE {}
    /\ UNCHANGED <<list, filter, descending, dialog, tasks>>

\* Mutant: the selection outlives the documents.
Unpruned == selected

\* FilterSelectedDocuments: a document that is gone is not selected.
Pruned == IF Loaded THEN selected \cap Guids ELSE selected

FilterSelectedDocuments(t) ==
    /\ Handle(t) /\ t.do = "prune"
    /\ selected' = Pruned
    /\ tasks' = tasks \ {t}
    /\ UNCHANGED <<list, filter, panicked>>

(***************************************************************************)
(* Changes of the library.                                                 *)
(***************************************************************************)
Retagged(d, add, tag) ==
    [d EXCEPT !.tags = IF add THEN @ \cup {tag} ELSE @ \ {tag}]

\* batch_add_tags and batch_remove_tags: the copies that will replace the
\* rows are made before the requests are.
BatchTags(add, tag) ==
    /\ Change
    /\ SelectedDocuments # {}
    /\ tasks' = tasks \cup
          {[do |-> "batch", add |-> add, tag |-> tag,
            left |-> {d.guid : d \in SelectedDocuments},
            docs |-> {Retagged(d, add, tag) : d \in SelectedDocuments}]}
    /\ UNCHANGED <<library, known, list, filter, descending, selected, dialog>>

\* One document of a batch; that it is gone or its request fails is logged.
BatchDocument(t) ==
    /\ ~panicked
    /\ t \in tasks /\ t.do = "batch"
    /\ \E g \in t.left :
          /\ tasks' = (tasks \ {t}) \cup {[t EXCEPT !.left = @ \ {g}]}
          /\ \/ /\ g \in DOMAIN library
                /\ library' = [library EXCEPT ![g] = IF t.add THEN @ \cup {t.tag} ELSE @ \ {t.tag}]
                /\ UNCHANGED <<bounds, apart>>
             \/ /\ IF g \in DOMAIN library THEN Fail ELSE UNCHANGED bounds
                /\ apart' = FALSE
                /\ UNCHANGED library
    /\ UNCHANGED <<known, list, filter, descending, selected, dialog, panicked>>

\* A change is through, or has failed: the caches are dropped, and the
\* messages in `then` follow.
Finish(t, then) ==
    /\ ~panicked
    /\ Expire((tasks \ {t}) \cup then)
    /\ UNCHANGED <<list, filter, descending, selected, dialog, panicked>>

BatchDone(t) ==
    /\ t \in tasks /\ t.do = "batch" /\ t.left = {}
    /\ Finish(t, {[do |-> "applied", docs |-> t.docs]})
    /\ UNCHANGED <<library, bounds, apart>>

OpenMergeDialog ==
    /\ Act
    /\ dialog = None
    /\ Cardinality(SelectedDocuments) >= 2
    /\ dialog' = [candidates |-> {d.guid : d \in SelectedDocuments}, winner |-> None]
    /\ UNCHANGED <<list, filter, descending, selected, tasks>>

MergeWinnerSelected(g) ==
    /\ Click
    /\ dialog # None /\ g \in dialog.candidates
    /\ dialog' = [dialog EXCEPT !.winner = g]
    /\ UNCHANGED <<list, filter, descending, selected, tasks>>

CancelMerge ==
    /\ Click
    /\ dialog # None
    /\ dialog' = None
    /\ UNCHANGED <<list, filter, descending, selected, tasks>>

ConfirmMerge ==
    /\ Change
    /\ dialog # None /\ dialog.winner # None
    /\ dialog' = None
    /\ tasks' = tasks \cup {[do |-> "merge", winner |-> dialog.winner,
                             losers |-> dialog.candidates \ {dialog.winner}]}
    /\ UNCHANGED <<library, known, list, filter, descending, selected>>

\* merge_documents: the winner has the tags of all; without the winner there
\* is nothing to do, and a loser that is gone is passed over.
Merged(winner, losers) ==
    IF winner \notin DOMAIN library THEN library
    ELSE [g \in DOMAIN library \ losers |->
             IF g = winner
             THEN UNION {library[h] : h \in ({winner} \cup losers) \cap DOMAIN library}
             ELSE library[g]]

\* MergeCompleted is a LoadArchive as well.
MergeDocuments(t) ==
    /\ t \in tasks /\ t.do = "merge"
    /\ Finish(t, {[do |-> "merged"]})
    /\ \/ library' = Merged(t.winner, t.losers) /\ UNCHANGED <<bounds, apart>>
       \/ Fail /\ apart' = FALSE /\ UNCHANGED library

MergeCompleted(t) ==
    /\ Handle(t) /\ t.do = "merged"
    /\ tasks' = Reload(tasks \ {t})
    /\ UNCHANGED <<list, filter, selected, panicked>>

\* A change from elsewhere: new tags from the page of a document, a document
\* found by a scan, one that a source no longer has.
Edit(g, tags) ==
    /\ Change
    /\ library' = [h \in DOMAIN library \cup {g} |-> IF h = g THEN tags ELSE library[h]]
    /\ library' # library
    /\ tasks' = tasks \cup {[do |-> "expire", guid |-> g]}
    /\ UNCHANGED <<known, list, filter, descending, selected, dialog>>

RemoveDocument(g) ==
    /\ Change
    /\ g \in DOMAIN library
    /\ library' = [h \in DOMAIN library \ {g} |-> library[h]]
    /\ tasks' = tasks \cup {[do |-> "expire", guid |-> g]}
    /\ UNCHANGED <<known, list, filter, descending, selected, dialog>>

EditDone(t) ==
    /\ t \in tasks /\ t.do = "expire"
    /\ Finish(t, {[do |-> "read", guid |-> t.guid]})
    /\ UNCHANGED <<library, bounds, apart>>

\* A document of the library, or less of it: without the files whose requests
\* fail, and the tags these have.
PartOf(d, g) == d.guid = g /\ g \in DOMAIN library /\ d.tags \subseteq library[g]

\* refresh_single_document for the page of the document, which is as it is
\* unless a request fails, of which the page is not told.
ReadDocument(t) ==
    /\ ~panicked
    /\ t \in tasks /\ t.do = "read"
    /\ LET stored == {d \in Stored : d.guid = t.guid}
       IN  \E docs \in {stored, {}} \cup {{d} : d \in {e \in Document : PartOf(e, t.guid)}} :
             /\ tasks' = (tasks \ {t}) \cup {[do |-> "item", doc |-> d] : d \in docs}
             /\ IF docs = stored THEN UNCHANGED <<bounds, apart>> ELSE Fail /\ apart' = FALSE
    /\ UNCHANGED <<library, known, list, filter, descending, selected, dialog, panicked>>

(***************************************************************************)
(* The specification.  What has been started is answered.                  *)
(***************************************************************************)
Message(t) ==
    \/ LoadArchive(t) \/ DocumentsLoaded(t) \/ TagsLoaded(t)
    \/ DebounceTimeout(t) \/ FilteringComplete(t)
    \/ RefreshDocument(t) \/ BatchTagsApplied(t)
    \/ FilterSelectedDocuments(t) \/ MergeCompleted(t)

Work(t) ==
    \/ Fetch(t) \/ BatchDocument(t) \/ BatchDone(t) \/ MergeDocuments(t)
    \/ EditDone(t) \/ ReadDocument(t)

Runs == \E t \in tasks : Message(t) \/ Work(t)

Uses ==
    \/ \E query \in BOOLEAN : SearchChanged(query)
    \/ ClearSearch \/ ToggleSortDirection
    \/ \E tag \in Tags \cup {None} : FilterChanged(tag)
    \/ \E g \in Docs : ToggleDocumentSelected(g) \/ MergeWinnerSelected(g)
    \/ \E all \in BOOLEAN : ToggleAllSelected(all)
    \/ OpenMergeDialog \/ CancelMerge

Changes ==
    \/ \E add \in BOOLEAN, tag \in Tags : BatchTags(add, tag)
    \/ ConfirmMerge
    \/ \E g \in Docs : RemoveDocument(g) \/ \E tags \in SUBSET Tags : Edit(g, tags)

Next == Runs \/ Uses \/ Changes

Spec == Init /\ [][Next]_vars /\ WF_vars(Runs)

(***************************************************************************)
(* Properties.                                                             *)
(***************************************************************************)
TypeOK ==
    /\ DOMAIN library \subseteq Docs /\ \A g \in DOMAIN library : library[g] \subseteq Tags
    /\ cache = None \/ cache \subseteq Document
    /\ list.state \in {"New", "Loading", "Loaded"}
    /\ Range(list.rows) \subseteq Document
    /\ criteria \in [query : BOOLEAN, tag : Tags \cup {None}]
    /\ selected \subseteq Docs
    /\ filtering <=> Pending({"filtered"})

\* What is filtered is what matches: the list is never drawn with an index that
\* no row has, and when no filter runs and no timer is about to start one, the
\* rows shown are those that match the query and the filters as they are now.
\* (Unless a request to filter came while a filter ran, which drops it, or rows
\* have changed under a filter.)
FilterTrue ==
    ~owed =>
        /\ ~panicked
        /\ Loaded /\ ~filtering /\ ~Pending({"timer"}) =>
              list.shown = Filtered(criteria, list.rows)

\* The list is the library: when nothing is under way it has all documents,
\* as they are, in the order asked for, or those of the sources that answered
\* when it was loaded last.  (For changes made one after the other; the copies
\* a batch puts into the rows may otherwise be stale.)
ListTrue ==
    Loaded /\ apart /\ ~Changing =>
        LET docs == Range(list.rows)
        IN  /\ docs \subseteq Stored /\ (whole => docs = Stored)
            /\ list.rows = Sorted(docs, descending)

\* Only a document that is in the list is selected, whatever was merged or
\* removed: a batch or a merge never takes one that is not seen to be.
SelectionExists ==
    Loaded /\ ~Pending({"prune"}) => selected \subseteq Guids

\* The list does not stay "loading", and no filter is left running, which
\* would keep every later one from being started.
Settles ==
    /\ list.state \in {"New", "Loading"} ~> Loaded \/ panicked
    /\ filtering ~> ~filtering \/ panicked
=============================================================================
