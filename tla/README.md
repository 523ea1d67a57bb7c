# read-flow in TLA+

read-flow is a personal library: it scans directories for books and papers, keeps what it finds in an SQLite database, and
serves it to a desktop application (`cosmic/`), a web application (`pwa/`) and other instances of itself. This directory holds
TLA+ models of the parts whose correctness depends on the order in which things happen, TLC runs that check them on small
instances, and TLAPS proofs of the results that matter most.

## 1. Inventory

| Part | Where | State it keeps | Operations | Talks to |
|---|---|---|---|---|
| Caches and providers | `provider/src/async`, `provider/src/sync` | a value behind a RwLock; a broadcast channel | `provide`, `set_expired`, `subscribe`, combinators | everything below |
| ApplicationModule | `core/src/lib.rs`, `core/src/settings.rs` | the configuration file, the settings / pool / client caches, the write mutex | `settings`, `db_client`, `update_settings`, `save_settings`, `reload_settings`, `check_missing` | caches, file system, audit log |
| Audit log | `core/src/audit/`, `core/src/db/dao/audit.rs` | operations, their status, numbered events | create, append, finish, interrupt at start-up, list | every mutation of the library |
| Library database | `core/src/db/` | files, contents, documents, metadata, covers, tags, reading states | scan writes, enrichment, import, merge, delete, tag, link by file name | SQLite |
| Scan pipeline | `core/src/scan/` | three tasks, two bounded channels, a batch, counters, progress events | traverse, fingerprint, write, link, complete | library database, audit log |
| Reading progress | `core/src/db/dao/reading_state.rs`, `cosmic/src/reading_progress.rs` | position and status with their time stamps | upsert, set status, merge of two viewers' positions | all devices of a user |
| Remote sources | `core/src/db/dao/remotes.rs`, `cosmic/src/page/preferences.rs`, `page/mod.rs` | ordered rows, the list shown, the clients of the provider | add, edit, remove, swap | aggregator, other servers |
| Client of another server, authentication | `core/src/client.rs`, `core/src/server/token.rs`, `authn.rs` | a cached bearer token; a secret, a limiter of failures | send, fetch, invalidate, retry; issue, verify, check | REST server |
| REST server | `core/src/server/` | the application's state | handlers | ApplicationModule, library |
| EPUB viewer | `cosmic/src/page/epub_viewer/`, `epub/` | chapters, pages per chapter and layout, pending targets, a search | open, turn, jump, search, resize, close | reading progress |
| MuPDF viewer | `cosmic/src/page/mu_pdf_viewer.rs` | pages as they are discovered, lists and pictures, colours, spreads, a layout number | open, turn, select, font size, colours, close | reading progress |
| Document list | `cosmic/src/page/document_list.rs`, `component/documents.rs` | rows, criteria, a filter, a selection, a merge dialog | load, search, filter, sort, tag in batches, merge | document provider |
| Document details | `cosmic/src/page/document_details.rs` | a document, a draft of its metadata, tags, covers, a thumbnail picker | edit, tag, set the status, select a cover, make a thumbnail, remove a format | document provider |
| Document provider, aggregator | `cosmic/src/document_provider.rs`, `aggregator.rs` | the documents cache, the clients of all sources | requests to all sources, expiry of the cache | ApplicationModule, clients |
| Web application | `pwa/` | stores, offline database | sync | REST server |
| Online library | `core/src/online_library/` | none | browse, import | library |

### What is hard in them, and what makes them correct

| Part | What is hard | What must hold |
|---|---|---|
| ObservableCache | callers that miss together, an expiry in the middle of a fetch, a provider that fails or is dropped under the lock, a subscriber slower than the ring | no value older than the last expiry is kept; one fetch at a time; a lost message is made up for; every call returns |
| ApplicationModule | four caches derived from one file and expired one after the other; writers of three kinds; locks held in a chain | who starts after a writer returned sees the change; no client of two versions is kept; no update is lost; no deadlock |
| Audit log | the change, its event and the last status share one transaction, two or none; processes stop anywhere; several processes open the database | the history claims nothing that did not happen; a change of one transaction is recorded; nothing stays unfinished after recovery; what is over stays |
| Scan pipeline | three tasks, three bounded channels in a ring through the caller, every step may fail, the caller may leave | nothing is forgotten at the end; the numbers agree with what happened; the scan ends |
| Library database, linking | statements outside transactions, decisions on snapshots, rows read, merged and written back, copies enriched at the same time | rows refer to rows that exist; what was found is described; titles are kept; a group has one document |
| Reading progress | nothing orders two viewers or two sources; stamps of one second and of one millisecond compared as strings; delayed and lost writes | a source keeps the newest; a status rises by reading and falls only by hand; switching viewers resumes |
| EPUB viewer | book and position arrive in any order and between drawings; pages are cached per layout and pages are numbers; targets are deferred | no line is lost between pages; a target stays on the screen; opening and closing keeps the place |
| MuPDF viewer | pages, lists, pictures and the stored page arrive in streams and tasks that nothing stops; pictures are rendered on demand | every page shown gets its picture; the stored page is reached and kept; turning skips nothing |
| Remote sources | the tasks of two buttons overlap; orders are unique while they are renumbered; statements fail | the list is the table; each source has one client; moves move only what they say |
| Authentication | token lifetimes counted from two ends, restarts that change the secret, a token shared by concurrent requests | one retry is enough; no own token is seen expired; the limiter counts exactly; requests end |
| Document list, details | every answer may come after the state it was computed for is gone: indices of older rows, copies, drafts, covers | what is shown is the library, the filter is the criteria, the selection exists, the chosen cover stays |

`PROJECT.json` lists under "hazards" the line at which each of these bites and the properties that speak of it.

## 2. Modules

    FreshCache  <--implements--  ObservableCache  <--  DocumentList_proofs       MCObservableCache
                                 SettingsChain    <--  SettingsChain_proofs      MCSettingsChain
                                 AuditLog         <--  AuditLog_proofs           MCAuditLog
                                 ScanPipeline     <--  Library_proofs            MCScanPipeline
                                 Library          <--  Library_proofs            MCLibrary
                                 ReadingProgress  <--  Viewers_proofs            MCReadingProgress
                                 Authentication   <--  Authentication_proofs     MCAuthentication
                                 RemoteSources    <--  RemoteSources_proofs      MCRemoteSources
               EpubPagination <- EpubViewer <-+
                                 MuPdfViewer <-+- Viewers  <--  Viewers_proofs   MCViewers
                                 DocumentList     <--  DocumentList_proofs       MCDocumentList
                                 DocumentDetails  <--  DocumentDetails_proofs    MCDocumentDetails

An MC module adds what its run needs: symmetry sets and the values of structured constants. A `_proofs` module holds the theorems
of the modules it extends; two that meet in the system share one, and where they would share names the second module has its own
(`ScanSpec`). Modules that model one component compose by what they take from each other: `SettingsChain` chains four caches, each
step of `provide` being one action with the name it has in `ObservableCache`; `DocumentList` and `DocumentDetails` take the
reading and storing of a cached value as one step, which is what the refinement of `FreshCache` allows; `EpubViewer` and
`MuPdfViewer` end in the stored position `ReadingProgress` begins with; `Library` takes a file where `ScanPipeline` leaves it.

**FreshCache** is the promise of a cache: a call returns, at one instant between its start and its end, a version no older than
the last expiry and than every version returned before.

**ObservableCache** (`provider/src/async/observable_cache.rs`). `value` is the content of the `RwLock`, `lock` its write guard,
`source` the version of the data behind the inner provider, `expired` and `floor` remember the expiries. `Call`, `ReadLocked`,
`WriteLocked`, `FetchValue`, `Store`, `FetchFails` and `Cancel` are `provide()` between two awaits, the drop of its future included;
`SetExpired` empties the value and broadcasts; `Receive` is a subscriber with its lag, which loads once for each message it
gets and does not try again when the load fails (`failed`). The read guard is released before anything
else is awaited, so it needs no variable. `Cache` is the same protocol without the broadcast.

**SettingsChain** (`core/src/lib.rs`, `core/src/settings.rs`, the preference form and the documents cache of `cosmic`). A cached
value is the set of the versions of the file it was built from. `frame[p][k]` is task p inside cache k's `provide`; filling
`db_client` opens frames in `settings` and `connection_pool` under its lock, as the nested calls do. The writers are
`update_settings` (reads, changes and writes the file under `settings_write_lock`), `save_settings` (writes the copy its form
took at start-up) and a person who edits the file, followed by `reload_settings`. `Invalidate` is one `set_expired()` of
`invalidate_caches`. `CancelUpdate` is a REST handler dropped at its await.

**AuditLog** (`core/src/audit`, `core/src/db/dao/audit.rs`, handlers in `datasource.rs`, `documents.rs`, `lib.rs`). Every
operation is a call of one of eight kinds of handlers, which differ in what shares a transaction, in what they do when the history
cannot be written, and in what they remove before. A transaction is one step; every statement outside one may fail. `Crash` stops
a process between any two steps; `Start`, `InterruptEvent`, `InterruptFinish` and `Serve` are `ApplicationModule::new` with
`interrupt_stale_operations`, one statement at a time.

**ScanPipeline** (`core/src/scan/scanner.rs`, `pipeline.rs`, the callers in `scan/mod.rs` and `cosmic/src/app.rs`). `at` says where
each file is: a channel, a fingerprinting task, the writer's batch, its transaction, or one of the ends. The channels are
bounded, sends wait, and a send to a caller that left is ignored as in the code. A batch begins, rejects, writes, fails, loses an
event's foreign key, commits and is enriched as in `flush_batch_with_audit`.

**Library** (`core/src/db/dao/files.rs`, `documents.rs`, `datasource.rs`, the enrichment in `scanner.rs`). The rows of files,
contents, documents and metadata. A step is a transaction or an autocommitted statement. A scan fingerprints, writes a batch, and
runs one task per new or changed file (`Extract`, `EnsureSelect`, `EnsureCreate`, `EnsureAssign`, `MergeRead`, `MergeWrite`); at
the end `auto_link_documents` goes over a snapshot, group by group, statement by statement (`LinkStart` to `LinkDone`). Between any
two of these statements the user imports, merges, removes, edits, somebody changes a file, or the process dies. Metadata is a
title, which the first value wins, and the authors, which are collected.

**ReadingProgress** (`core/src/db/dao/reading_state.rs`, `save_reading_state` and `merge` in `cosmic`, the readers of `pwa`). A
row holds the two formats' positions, a stamp and a status. A viewer asks all sources, merges, stamps and sends; `DeliverSave` and
`DeliverEdit` are the statements of a source, `Lose` and `HearNothing` a source that fails. Stamps are numbers in the order of
their strings: within second n, the web application's `…n.000Z` and `…n.500Z`, then the desktop's `…nZ`. A position is named by
the number of the save that made it; the percentage matters only by the two thresholds of the status.

**EpubPagination** (`paginate_blocks` and its helpers) cuts a chapter, a sequence of blocks with a height, into pages; a text block
may go on on the next page. `ReadsAsWhole` is the reference definition. **EpubViewer** (`cosmic/src/page/epub_viewer/mod.rs`,
opening and closing in `page/mod.rs`) is one record and the messages of `update()`, each an operator from the viewer before to the viewer
after, most of them between two calls of `maybe_repaginate`. The chapters and the stored position arrive in either order; the
layout is known after the first drawing; bookmarks, anchors, links and matches of a search are targets that may have to wait for
the pages; preferences change the mode in between.

**MuPdfViewer** (`cosmic/src/page/mu_pdf_viewer.rs`) has a stream for each thread that reads the document (pages, then a mark, then
display lists) and a set of pictures being rendered. Every message carries the number of the layout it is about, and is dropped for
another. **Viewers** opens a document in one of the two viewers and states what they have in common.

**RemoteSources** (`core/src/db/dao/remotes.rs`, `cosmic/src/page/preferences.rs`, `page/mod.rs`). `rows` is the table with its
UNIQUE orders, `list` what the preference page shows, `clients` what the document provider asks. A button is an action; its
statement, its answer, the change of the clients, and the fetch it ends in are tasks or messages of their own, in any order.
Dialogs are modal. The rows are a set, as their orders are unique.

**Authentication** (`core/src/client.rs`, `core/src/server/token.rs`, `authn.rs`, `oauth_token` in `server/mod.rs`). Requests of
one client share its token; its lock is held only to read or to write it, so requests that miss together each fetch one. A message
takes at most `Transit` ticks or is lost. `Restart` gives the server a new secret, `ChangePassword` changes the settings. The
limiter's window and budget are those of `BasicAuthLimiter`; `past` remembers all failures for comparison.

**DocumentList** and **DocumentDetails** (`cosmic/src/page/document_list.rs`, `component/documents.rs`, `document_details.rs`, and
what `page/mod.rs`, `document_provider.rs` and `aggregator.rs` do for them). `tasks` is the set of requests, background
computations and messages under way, answered in any order; `update()` takes one at a time. The aggregator logs a source that
fails and answers without its documents, their files or their metadata, which the cache keeps and the list shows as loaded; so no
load fails, `LoadingFailed` never comes, and partial answers are what `Fetch` and `GetSingleDocument` may give. In the list, a
filter returns indices into the rows it was started with, a timer starts one, and a subscription turns each expiry of the cache
into a new load. On the page of a document each click sends a request, whose answer and whose expiry of the caches both cause a
refresh; the metadata form saves a draft, the picker renders pages in the background. The list beside the page is its `row`:
`Refresh` only sends `LoadArchive`, whose `Fetch` reads and fills `cache` and whose answer, `Loaded`, comes when it comes, as does
what a read of the page tells the list. A panic is a state of the model.

Every definition that models code is listed with its lines in `PROJECT.json` under "map".

## 3. Runs

| Run | Instance | What it shows |
|---|---|---|
| `cache` | 1 reader, 1 subscriber, ring of one slot, 3 versions | `FilledOnce`, the refinement of `FreshCache`; with fairness, `CallReturns` and `SubscriberCatchesUp`, the latter for a subscriber whose last load did not fail |
| `settings_chain` | a reader that is also a documents view; an updater, a form and an editor, two of whom write | `ReadYourWrites`, `UpdatesKept` (only an older form's copy undoes an update); with fairness, `NobodyWaitsForEver` |
| `audit` | 2 processes, 2 operations of any kinds, 1 crash | `HistoryTrue`, `Recovered`, `OverIsOver` |
| `audit_failure_rolled_back` | as `audit`, no crash | violation of `FailureRecorded` |
| `scan` | 3 files, 2 hashing tasks, channels of one slot, batches of 2 | `NothingForgotten`, `CountersTrue`, `CallerSeesAll`; with fairness, `ScanEnds` |
| `library` | 3 paths in 2 groups, 3 contents of which 2 have metadata, 2 scans, 1 step of the user or a change of the disk, crashes | `GroupsTogether`, `DescribedAfterScan`, `TitlesKept` |
| `reading` | 2 sources, a desktop EPUB viewer and a browser page, 2 saves, 1 edit, 1 failure | `LastWriterWins`, `SwitchingResumes` |
| `viewers` | EPUB: 3 chapters of 1 to 4 blocks, 3 layouts, 2 readings, 3 steps; MuPDF: 3 or 4 pages, 1 reading, 2 steps | `PagesReadAsWhole`; of both viewers `OnScreen`, `PlaceRestored`, `ClosingKeepsPlaces`, `TurningInOrder` |
| `remotes` | up to 2 rows found at the start, 3 URLs, 2 buttons, 1 failure, 1 restart | `ListTrue`, `ClientsTrue`, `PatienceServed`, `PlacesKept` |
| `authentication` | 2 concurrent requests of 3, one of which cannot be sent twice, tokens of 2 ticks, 1 restart, 1 change of the password | `RetrySuffices`, `ExpiryUnseen`, `LimiterExact`; with fairness, `RequestsEnd` |
| `document_list` | 2 documents, 1 tag, 3 steps, one of them a change | `FilterTrue`, `ListTrue`, `SelectionExists`; with fairness, `Settles` |
| `document_details` | 2 formats, 2 titles, 2 pages, 1 tag, 4 steps, two of them changes | `PageTrue`, `PreviewTrue`, `CoversTrue`, `ChosenCoverKept` |

Every property of a passing run has a mutant in `PROJECT.json`: a definition of the model changed as a plausible bug would change
the code, under which TLC finds the property violated.

**Finding.** `delete_content_from_document` writes its failed status into the transaction it then drops, so the operation stays
"started" (`audit_failure_rolled_back`); its documentation says the failure is recorded.

**Where the properties stop.** Some properties hold under a condition the model keeps as a history variable, because the code does
something else without it. These conditions are part of the result:

- `UpdatesKept`: a preference form writes back the settings it was given when it was built, so it does undo an older update.
- `CountersTrue`: a batch that fails to commit, or is rolled back for one file's event, leaves files reported as processed that are
  in no library (`scanner.rs:830`, `768-797`).
- `HistoryTrue`: a second process marks the running operations of the first as interrupted (`alone`).
- `SwitchingResumes`: two saves that overlap, or that carry the same stamp (a desktop save within a second of the last one is refused
  without a word), or strings that sort the wrong way (`orderly`, `spaced`).
- `GroupsTogether`: a content with copies in two groups ends in whichever was linked last, and leaves the other (`Separate`).
  `DescribedAfterScan` excludes a crash between the commit of a batch and its enrichment: the next scan finds the files unchanged
  and does not enrich them (`calm`; `scanner.rs:839`). It also excludes a batch with two contents of one document that lacks the
  metadata of one of them (imported without any, linked or merged, then moved to other paths): their tasks read the document's row,
  and the one that writes last drops the author the other one brought (`Apart`; `scanner.rs:906`, `documents.rs:266`). TLC finds
  that with six changes; the attempt to prove the property without `Apart` found it first.
- `Restored`, `ClosingKeepsPlace` of `EpubViewer`: a page that begins with a ruler or a picture has no path to store
  (`start_tag.rs:71` against `mod.rs:3271`); a viewer closed from outside before its first update with pages has none.
  `TurningSkipsNothing` excludes turning right after a resize, which keeps the page's number. Not covered: reopening drifts
  backwards when a page starts with the tail of a split block, and stale matches of a search index chapters that are gone
  (`mod.rs:3326`).
- The MuPDF viewer, closed while its pages are coming, stores the first page, though `current_progress` is said to be `None` "while the
  document is still opening" (`mu_pdf_viewer.rs:783`); opened again at once it gets the pages of the old thread as well (`mixed`).
  Pictures that were being rendered when the colours changed stay (`hasty`); the right page of a spread that appears as the window
  grows has no picture before the next step (`resized`); from the right page of a spread the last single page cannot be turned to
  (`Stuck`). After a change of the font size it goes back to the page it was opened at.
- `PatienceServed`, `ClientsTrue`, `ListTrue` of `RemoteSources`: users who do not wait for the list meet `unwrap` on it, and
  clients of sources changed twice at once may be left over (`alone`, `blind`);
  an addition that counted the rows before a removal renumbered them leaves a gap, and later additions are refused, after a restart too,
  until a removal closes it (`preferences.rs:2861`); a list fetched earlier may be answered later
  (`overtaken`). A removal may be refused, when renumbering meets the UNIQUE index (rows stored as 2, 1, 3; `remotes.rs:72`; a
  swap takes a detour, `remotes.rs:89`). The desktop makes clients only for sources submitted since it started (`given`;
  `app.rs:236`), though `REQUIREMENTS.org:530` speaks of the configured ones.
- `RetrySuffices`: another request may store, after a restart, a token issued before it (`stale`).
- `FilterTrue`: a request to filter that comes while a filter runs is dropped, and a filter may end for rows that have changed, also
  for fewer, which panics (`owed`). `ListTrue` of `DocumentList` speaks of changes made one after the other (`apart`): a batch
  copies its documents back into the rows. When a source failed as the cache was filled (`whole`), the list has documents of the
  library only, but may lack those of that source until the next change expires the cache (`aggregator.rs:98`). Metadata that was not
  answered is seen in `DocumentDetails`; in the list a document is its guid and its tags, which come with its files.
- `SubscriberCatchesUp`: a subscriber whose load fails shows the error until the next message; nothing loads again (`failed`;
  `document_list.rs:1193`).
- `PageTrue`: of two reads of the page, or of two loads of the list, the one answered last stays, whichever was read last, and a read
  of the page may overtake a load; a source that fails, or one file of it, is left out of page and row without a word (`calm`).
  `PreviewTrue`, `CoversTrue` and
  `ChosenCoverKept` speak of clicks made one after the other (`apart`): answers of the thumbnail picker are taken by whatever
  picker is open, and saving the form saves the whole draft. All of them speak of behaviours without a panic: a message for a page
  that was closed panics (`page/mod.rs:558`), which removing the last format of a document leads to.

**Bounds.** They are named in the `.cfg` files. Two of three writers of `SettingsChain` write once; two writers and a reader are
what the races need. Two operations meet in the audit log only through recovery, which takes whole sets; one crash stops a
handler, or the recovery of a second process, anywhere. A ring of one slot laps at once. A batch of two and three files give a
full, a partial and an empty batch; channels of one slot fill with every pair of files, and the code's capacities (twice the
tasks, 64 and 256) only make waiting rarer. In `library`, two scans make a first and a repeated one, three paths a group of two
and a group of one, and one change can fall anywhere in either scan. Two saves are what one viewer needs to overwrite another's;
the clock of `ReadingProgress` starts half a second into a second and reaches the next one, so two stamps can be equal, ordered,
or in the wrong order. The small book has anchors, a ruler, blocks longer than a page, a chapter of one block that is outside the
reading order; three steps are a jump, something that disturbs it and a turn. Three MuPDF pages end in half a spread, four in a
whole one; a second opening only repeats the first, as every page may be stored at the start. Two buttons of `RemoteSources`
overlap; rows found at the start have any orders without gaps, from 0 or from 1. In `authentication` a tick is half a minute and
the leeway is half of what the validator grants, which only makes `ExpiryUnseen` harder. In `document_list` three steps are a
change, a criterion and a failure, over at most two documents. `DocumentDetails` is explored under `Told`: as long as requests
come one after the other, and otherwise for two changes that overlap while the page is open. Under `Prompt`, of the tasks that
meet in too many orders, some go first, in any order of their own: those of the list's load, unless all steps so far were changes,
and, once `apart` is over, those about pictures and the messages that only start a read or a load. So loads are seen late and
overtaken when one or two changes are all there is. Timers that were superseded and identical pending messages are kept once. The
proofs of section 4 drop all bounds of their modules.

**Fairness.** The fair runs assume that tokio polls every task that can go on, that its locks and channels serve waiters in the
order they came (so a caller that wants a lock again and again gets it: strong fairness of the lock steps), that a provider
answers or fails, and does not fail for ever when expiries without end make it asked without end (no caller tries again by
itself), that a message arrives or is lost, that the desktop's runtime answers the tasks and messages it has, and, for the scan,
that a caller which has not left reads its channel in a loop, as both callers do. Nobody is assumed to start a call, to expire a
cache, to drop a future, to fail, to press a button or to leave.

**Deadlock** is looked for in the runs of the cache and of the settings. The other systems rightly stop: an operation that is over,
a scan that ended, a closed viewer and a clock at its bound do nothing more.

## 4. Proofs

The theorems hold for any number of callers, processes, operations, files, sources and viewers, and any value of the bounds. The
assumptions are the named `ASSUME`s of the modules; TLC evaluates them in every run. No proof uses a bound beyond its being a number.

- `DocumentList_proofs`, of the list: `FiltersAreTrue`, `ListIsLibrary`, `SelectedExist`, `TypeCorrect`. That no row is missing
  for an index rests on which rows a filter under way was started with (`FilterInv`), and on the spinner that lets one run at a
  time. The list is the library, or a part of it if a source did not answer, because a change that is under way keeps everything
  else away that brings documents (that is what `apart` says), and when it is done the cache is dropped before anybody asks
  (`LibraryInv`); a batch's copies are what the library will have when its requests are through (`BatchTrue`). `Sorted` is defined
  by rank, and its lemmas (`Places`, `SortedIsAll`) rest on finite sets.
- `DocumentList_proofs`, of `ObservableCache`, the cache behind the list, which it extends as well: `CacheTypeCorrect`,
  `MutualExclusion`, `Freshness`, `FilledByOne`, `Refinement`. That the cached value is no older than the last expiry is not
  inductive: the invariant must say it of a fetched version that is not stored yet (`FetchInv`), which is where holding the lock
  over the fetch matters, because `SetExpired` needs the same lock. The refinement maps each step to a step of `FreshCache` or to
  none.
- `SettingsChain_proofs`: `YoursRead`, `QuietIsFresh`, `NoUpdateLost`, `TypeCorrect`. The invariant says of every version that is
  cached, or on its way into a cache, that it is `Fine`: no older than what the writers that have already expired that cache wrote.
  A cache is expired after those it is filled from, and only while nobody fills it; that is what makes the deepest-first order of
  `invalidate_caches` right, and the mutant that reverses it wrong.
- `AuditLog_proofs`: `TypeCorrect`, `Truthful`, `Atomicity`, `Completion`, `Recovery`, `Interruption`, `Finality`, `Silence`, and
  `History` and `Over`, which put them together as the run checks them. The inductive invariant says, per operation, what the place
  of its handler implies for its status and its events (`OpInv`) and what the history may say of it (`OpTruth`), and, per process,
  that a recovery which met no error still has every unfinished operation of its own on its list, and, as long as processes do not
  overlap, only dead ones (`StaleInv`). The proof has a lemma per group of actions.
- `Library_proofs`: `TypeCorrect`, `Titles`, `Together`, `ScanDescribes`. That rows refer to rows that exist, over merges,
  removals and crashes, needs that only contents with a row are linked (`Rows`), which is why a document may go when none of its
  contents is left, that a task knows what it enriches (`Job`), and that the linking pass has a document to write to (`Linker`).
  What a scan brings about rests on a second invariant, `Calm`, which says what is true in each phase of a scan that nothing
  disturbs. In the walk, a content that is not described yet has a task that will do it through the document it is linked to by
  then (`Coming`), although copies of a content may be linked to several new documents one after the other; a task that is about
  to write brings every author the row has by now (`Stores`), since tasks of two contents meet at a document only when it tells of
  both (`Rivals`, which is what `Apart` gives). In the linking pass, the documents in the snapshot still tell of their contents
  (`SnapshotTrue`), the document of the group in hand will (`LinkerTold`), and the groups that are done stay linked, because under
  `Separate` no later group has their contents (`GroupsLinked`).
- `Library_proofs`, of `ScanPipeline`, which finds the files that `Library` links: `ScanTypeCorrect`, `NothingLeftBehind`,
  `TrueNumbers`, `CallerInformed`. `NothingForgotten` needs the order in which the stages end (`Ends`); the counters need how many
  files are at a place and how a move changes it (`Numbers`, over finite sets); what the caller has seen is what was sent less what
  is in the channel (`Reports`, `Silence`).
- `DocumentDetails_proofs`: `PageIsTrue`, `PreviewIsTrue`, `CoversAreTrue`, `ChosenIsKept`, `TypeCorrect`. The properties speak of
  a page to which everything was answered, so the invariants follow the answers that are on their way. What was read is the
  document unless something makes the page read again (`RefreshInv`): every request that succeeds is told to the page and every
  read is of what the source has then. The list's row is the document, or a load or an answer that brings it is under way, and
  what is cached is the document or will be dropped, with a load to follow (`ListInv`); `calm` is over when an answer is taken
  while an older one, with something else in it, is still on its way. A saved thumbnail is the exception, shown without being
  read, and so nothing but refreshes may go on beside it (`ThumbnailInv`). What is on the page, covers and preview alike, is right
  or a task under way brings what is (`CoversInv`, `PreviewInv`), as long as requests come one at a time (`OneInv`). The chosen
  cover is kept since whatever may still write the metadata has that cover, or one that `update_document_metadata` refuses because
  its content left the document (`ChosenInv`); the latter is why a removal and a draft may overlap.
- `Viewers_proofs`, of the two viewers: `PagesAreTheChapter`, `PagesAreWhole`, `ShownOnScreen`, `ReaderIsBack`, `PlacesAreKept`,
  `PagesAreTurned`. `Paginate` and `Top` are
  recursive functions. What they compute is proved without induction over data: a set of numbers with 0 and every successor is all of
  them (`NatSet`, by the pigeonhole principle), so a place from which cutting goes on for ever does not exist, and the path from the first
  line to the end does (`PathExists`), which is the recursion's only solution (`Defined`, `Unfolded`). Since what is left of a chapter
  gets less with each page (`LeftIs`) and a page ends where the next begins (`LinesOfPage`), the pages are the chapter
  (`PagesAreTheChapter`), for any blocks and page size. What the reader sees rests on what the viewer heads for
  (`EpubInv`): a block is sought by its page, deferred until there are pages, or noted as a chapter and a path until there are blocks, and
  `maybe_repaginate` goes on heading for it whichever of these it was (`RepaginatedIs`). Pages that are cached are of the layout drawn
  last, which is why a target stays on the screen after a change of layout. Of the MuPDF viewer (`PdfInv`), the threads that
  matter are those of the current layout, one at most, and it has sent what precedes its place in the stream (`Ordered`); each visible
  page with a display list has a picture or one is being rendered (`Asked`), in the current colours (`Coloured`). That turning skips
  nothing follows from how the pages of one table follow each other (`PagesFollow`) and from which of them are side by side; that
  closing keeps the place, from which block is at the top of the page or of the scrolled text (`BlockAtTop`, `PageShown`) and where its
  path leads (`ElementEnd`). The latter needs `ElementAssumption`: in a chapter that is one `html` element, the blocks of one element
  follow each other, since the parser pushes an element's anchor right before its block (`end_tag.rs:478`), or before its children, and
  then no block of its own (`end_tag.rs:432`).
  The attempt to prove it showed that the property was too strong for a book with such anchors, and that the book the runs had was
  without them: a paragraph whose anchor ended the page before is stored by its path, which leads back to the anchor. It now says
  that nothing there is to read lies between the old place and the new one, and the run's book has anchors.
- `Viewers_proofs`, of `ReadingProgress`, where their positions go: `ProgressTypeCorrect`, `LastWriter`, `Resuming`,
  `StatusRises`. `LastWriterWins` is inductive with the fact that a missing row was told nothing. `SwitchingResumes` speaks of the
  sources at rest only; its strengthening `Turns` says what is in flight (at most one save to each source, newer than its row,
  with the last positions) and what an open viewer knows.
- `Authentication_proofs`: `NoTokenExpires`, `OneRetry`, `LimiterIsExact`, `TypeCorrect`. The first rests on the age of a token wherever it is
  (`TimesInv`) and on the assumption that two messages take no longer than the client's margin and the validator's leeway together;
  the second on the process that issued whatever a request can still send (`RetryInv`). The limiter drops old failures from the
  front of its queue when it is asked, and the property counts all failures since the server began: the queue is a suffix of them,
  in the order of their times, and what was dropped has expired, unless the queue is full of later ones (`LimiterInv`).
- `RemoteSources_proofs`: `ListIsTable`, `PatientUsers`, `PlacesAreKept`, `ClientsAreTrue`, `TypeCorrect`. The list is the table
  because every task that changed the table becomes one that a fetch follows, and the last fetch read what is there now
  (`ListInv`). What a user who waits relies on is one invariant (`Patience`): there is one chain of tasks, a swap is of two
  neighbours, and no order is beyond the number of rows, which a removal keeps since ranks are below it (`Ranks`, over finite
  sets). Two lemmas stand for most steps: a task that neither writes nor fetches (`QuietStep`), and one that a fetch follows
  (`FetchFollows`). That the clients are those of the rows (`ClientsInv`) needs that the URLs of the rows differ, that tasks under
  way speak of different sources, and what each of them will still register or forget, so that tasks of different buttons may end
  in any order.

Out of the prover's reach, and left to TLC: the properties under fairness (`SubscriberCatchesUp`, `CallReturns`,
`NobodyWaitsForEver`, `ScanEnds`, `RequestsEnd`, `Settles`), ENABLED, induction over data, and anything about RECURSIVE operators
(there are none in the modules with theorems). All invariants and all action properties the passing runs check are proved.

## 5. Not modelled

- Of the library: members of archives, tags, covers and reading states of the database, which hang on contents; `update_file`.
  `DocumentDetails` has them as its page sees them.
- The connection pool: where a handler waits for a second connection (`datasource.rs:810`), the model takes the outcome (the
  statement fails). Handlers that complete their operation though a statement failed (`datasource.rs:863`), or after the commit they are
  said to join (`documents.rs:706`), are kinds of `AuditLog` that its properties exclude.
- Tag rules: an early `?` leaves tags applied under an operation that stays started (`tag/mod.rs:58`).
- The REST server's handlers beyond what the modules above take from them, a handler dropped between saving a file and expiring the
  caches (`lib.rs:230`), the visibility rules; the online library; the command line, which calls one operation after the other.
- The merging of one document's metadata from several sources. Documents get ids of their own from the source that has them, so
  documents of two sources are not merged; a comment (`aggregator.rs`, "local client wins") says what `buffer_unordered` does not.
- In the desktop application: navigation, windows, widgets, the format picker and tag editor of the list, pagination of lists
  (`pagination.rs`), sending to another source, the sidebar and highlights of the viewer.
- The web application's offline copy, `status_updated_at`, positions of the old format, and devices with different clocks.
- Parsing, hashing, rendering, HTTP routing: request-local or pure; `PROJECT.json` names each part.

## 6. Plan

In the order of what they would add:

1. `ConnectionPool`: the pool of three against handlers that hold one connection and wait for another (liveness).
2. Tags and covers in `Library`, with the tag rules as a kind of handler of `AuditLog`.
3. `OfflineLibrary`: the web application's offline database and its synchronisation.
4. The merge of directory settings, and the lists' pagination, as operators against a reference definition.
5. Proofs: an abstract history (an operation is started, then ends once) implemented by `AuditLog`.
