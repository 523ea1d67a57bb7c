---------------------------- MODULE DocumentDetails ----------------------------
(***************************************************************************)
(* The page of one document in the desktop application:                    *)
(* cosmic/src/page/document_details.rs, what pages/mod.rs does with its    *)
(* messages, and the requests of the document provider and the aggregator. *)
(*                                                                         *)
(*     click --> request --> written, set_expired --> answer               *)
(*                                    |                  |                 *)
(*                                    v                  v                 *)
(*                  LoadArchive <-- Refresh --> RefreshDocument            *)
(*                        |                           |                    *)
(*                        v                           v                    *)
(*              fetch --> Loaded           read --> DocumentRefreshed      *)
(*                          |                         |                    *)
(*                     row of the list <--------------+--> page            *)
(*                                                                         *)
(* update() handles one message at a time; requests and reads run beside   *)
(* it and are answered in any order, the list's load among them.  A        *)
(* message for a page that has been closed panics; one for a page that was *)
(* opened again reaches that page.                                         *)
(*                                                                         *)
(* The guid of a document is made by the source that has it                *)
(* (documents.rs:767), so one source stands for all.  A content has one    *)
(* copy, tags and a status; of the metadata there are the title and the    *)
(* selected cover.  A source that fails leaves out what it would have      *)
(* answered, and nobody is told.  A picture is the page it was rendered from, or "scan". *)
(* Left out: opening the document, sending it to another source and        *)
(* synchronising, the filmstrip of the thumbnail picker.                   *)
(***************************************************************************)
EXTENDS Naturals, FiniteSets

CONSTANTS Contents,   \* fingerprints
          Titles,
          Tags,
          Pages,      \* pages of a content, numbers from 0
          None,
          MaxChanges, \* bound on changes to the document
          MaxSteps    \* bound on these, on other clicks and on requests that
                      \* fail, together

ASSUME NoneAssumption == None \notin Contents \cup Titles \cup {0, 1}
ASSUME PagesAssumption == 0 \in Pages /\ Pages \subseteq Nat
ASSUME BoundsAssumption == {MaxChanges, MaxSteps} \subseteq Nat

VARIABLES library,  \* the document as its source has it
          images,   \* covers: fingerprint |-> picture
          row,      \* the document in the list, which the page is opened with,
                    \*          without contents if the list does not have it, or
                    \*          None while the list is loaded
          cache,    \* documents_cache: the document as it was loaded last, or None
          page,     \* the DocumentDetails
          tasks,    \* requests and messages under way
          panicked,
          chosen,   \* history: the cover that was chosen last
          calm,     \* history: no refresh or load failed or was overtaken by an
                    \*          older one, and nothing was changed beside a thumbnail
          apart,    \* history: one thing was done after the other, none failed, and
                    \*          the page was opened with the document as it was
          changes, steps

list == <<row, cache>>
bounds == <<changes, steps>>
order == <<calm, apart>>
vars == <<library, images, list, page, tasks, panicked, chosen, order, bounds>>

Meta == [title : Titles, cover : Contents \cup {None}]
Content == [tags : SUBSET Tags, read : BOOLEAN]
Documents == [meta : Meta, contents : UNION {[C -> Content] : C \in SUBSET Contents}]

\* What a picture shows: a page of a content, trimmed or not.
View == [content : Contents, page : Pages, trim : BOOLEAN]
Picture == View \cup {[content |-> c, page |-> None, trim |-> FALSE] : c \in Contents}
Scanned(c) == [content |-> c, page |-> None, trim |-> FALSE]

\* ThumbnailPickerState
Pickers == [content : Contents, page : Pages, trim : BOOLEAN, counted : BOOLEAN,
            preview : View \cup {None}, saving : BOOLEAN]

\* The covers of contents.
Covers == UNION {[C -> Picture] : C \in SUBSET Contents}

ASSUME DocumentAssumption ==
    None \notin Documents /\ None \notin View /\ None \notin Pickers /\ None \notin Covers

AllTags(doc) == UNION {doc.contents[c].tags : c \in DOMAIN doc.contents}
Exists == DOMAIN library.contents # {}

\* The list is loaded and has the document.
Listed == row # None /\ DOMAIN row.contents # {}

\* new
NewPage(doc) ==
    [doc |-> doc, tags |-> AllTags(doc), draft |-> doc.meta, editing |-> FALSE,
     covers |-> None, picker |-> None, asked |-> None]

Pick(p) == [content |-> p.content, page |-> p.page, trim |-> p.trim]

(***************************************************************************)
(* Tasks and bounds.                                                       *)
(***************************************************************************)
Pending(kinds) == \E t \in tasks : t.do \in kinds
Quiet == tasks = {}

Bounded == steps < MaxSteps /\ steps' = steps + 1

\* A request fails although nothing is wrong with it.
Fail == Bounded /\ apart' = FALSE /\ UNCHANGED <<changes, calm>>
Works == UNCHANGED <<bounds, order>>

SavingThumbnail ==
    \E t \in tasks : t.do \in {"request", "answer"} /\ t.what.is = "thumbnail"

\* The slider that is being dragged keeps the user from anything else.
CanAct == ~panicked /\ ~Pending({"release"})

\* A click on the page; `alone` tells whether it matters what is under way.
Click(alone) ==
    /\ CanAct /\ page # None /\ page.asked = None
    /\ Bounded
    /\ apart' = (apart /\ (alone => Quiet))
    /\ UNCHANGED <<library, images, list, panicked, changes, calm>>

\* A click that changes the document.
Change ==
    /\ CanAct /\ page # None
    /\ Bounded
    /\ changes < MaxChanges /\ changes' = changes + 1
    /\ apart' = (apart /\ Quiet)
    /\ calm' = (calm /\ ~SavingThumbnail)
    /\ UNCHANGED <<library, images, list, panicked>>

\* A message for the page is handled.  Without the page it panics.
Handle(t) ==
    /\ ~panicked
    /\ t \in tasks
    /\ UNCHANGED <<library, images, cache, chosen, bounds, order>>

Delivered(t) == /\ Handle(t) /\ page # None /\ UNCHANGED panicked

\* A request or a read goes on.
Work(t) ==
    /\ ~panicked
    /\ t \in tasks
    /\ UNCHANGED <<row, page, panicked, chosen>>

Init ==
    /\ \E title \in Titles, cover \in Contents :
          library = [meta |-> [title |-> title, cover |-> cover],
                     contents |-> [c \in Contents |-> [tags |-> {}, read |-> FALSE]]]
    /\ images = [c \in Contents |-> Scanned(c)]
    /\ row = library /\ cache = library
    /\ page = None
    /\ tasks = {}
    /\ panicked = FALSE
    /\ chosen = library.meta.cover
    /\ calm = TRUE /\ apart = TRUE
    /\ changes = 0 /\ steps = 0

(***************************************************************************)
(* Opening and closing.                                                    *)
(***************************************************************************)
\* OpenDocumentDetails from the list.  The covers are those of the contents it
\* has now.
Open ==
    /\ CanAct
    /\ page = None /\ Listed
    /\ page' = NewPage(row)
    /\ tasks' = tasks \cup {[do |-> "covers", of |-> DOMAIN row.contents]}
    /\ calm' = (calm /\ Quiet) /\ apart' = (apart /\ Quiet /\ row = library)
    /\ UNCHANGED <<library, images, list, panicked, chosen, bounds>>

\* Escape and the button that closes the page.
Close ==
    /\ CanAct /\ page # None /\ page.asked = None
    /\ page' = None
    /\ UNCHANGED <<library, images, list, tasks, panicked, chosen, order, bounds>>

ReadCovers(t) ==
    /\ Work(t) /\ t.do = "covers"
    /\ \E found \in {t.of \cap DOMAIN images, {}} :
          /\ tasks' = (tasks \ {t}) \cup
                {[do |-> "covers-loaded", covers |-> [c \in found |-> images[c]]]}
          /\ IF found = {} THEN Fail ELSE Works
    /\ UNCHANGED <<library, images, cache>>

CoversLoaded(t) ==
    /\ Delivered(t) /\ t.do = "covers-loaded"
    /\ page' = [page EXCEPT !.covers = t.covers]
    /\ tasks' = tasks \ {t}
    /\ UNCHANGED row

\* A page that is not open is looked up and panics.
Panic(t) ==
    /\ Handle(t)
    /\ t.do \in {"refresh", "refreshed", "covers-loaded", "answer", "counted",
                "preview", "failed"}
    /\ page = None
    /\ panicked' = TRUE
    /\ tasks' = tasks \ {t}
    /\ UNCHANGED <<page, row>>

(***************************************************************************)
(* Refreshing.                                                             *)
(***************************************************************************)
RefreshMessage == [do |-> "refresh"]

\* Refresh, which follows every set_expired: the page that is open gets a
\* RefreshDocument and the list a LoadArchive.
Refresh(t) ==
    /\ Handle(t) /\ t.do = "expired"
    /\ tasks' = (tasks \ {t}) \cup {[do |-> "load"]}
                             \cup IF page = None THEN {} ELSE {RefreshMessage}
    /\ UNCHANGED <<row, page, panicked>>

RefreshDocument(t) ==
    /\ Delivered(t) /\ t.do = "refresh"
    /\ tasks' = (tasks \ {t}) \cup {[do |-> "read"]}
    /\ UNCHANGED <<page, row>>

\* What is on its way to the page or the list is what is answered now.
Agrees(doc) == \A t \in tasks : t.do \in {"loaded", "refreshed", "row"} => t.doc = doc

\* A source does not answer, or not all of it, which is only logged.
Missed == Bounded /\ calm' = FALSE /\ apart' = FALSE /\ UNCHANGED changes

Restricted(doc, C) == [doc EXCEPT !.contents = [c \in C |-> doc.contents[c]]]

\* get_single_document.  A document without files is not there, and a file
\* whose request fails is left out.
GetSingleDocument(t) ==
    /\ Work(t) /\ t.do = "read"
    /\ \E C \in SUBSET DOMAIN library.contents :
          /\ tasks' = (tasks \ {t}) \cup
                {[do |-> "refreshed", doc |-> IF C = {} THEN None ELSE Restricted(library, C)]}
          /\ \/ /\ C = DOMAIN library.contents
                /\ calm' = (calm /\ (Exists => Agrees(library)))
                /\ UNCHANGED <<bounds, apart>>
             \/ C # DOMAIN library.contents /\ Missed
    /\ UNCHANGED <<library, images, cache>>

\* Mutant: the tag editor is not told.
RefreshedWithoutTags(doc) == page' = [page EXCEPT !.doc = doc]

\* The page and its tag editor show the answer.
Refreshed(doc) == page' = [page EXCEPT !.doc = doc, !.tags = AllTags(doc)]

\* The list is told as well.
DocumentRefreshed(t) ==
    /\ Delivered(t) /\ t.do = "refreshed"
    /\ IF t.doc = None THEN tasks' = tasks \ {t} /\ UNCHANGED page
       ELSE /\ tasks' = (tasks \ {t}) \cup {[do |-> "row", doc |-> t.doc]}
            /\ Refreshed(t.doc)
    /\ UNCHANGED row

(***************************************************************************)
(* The list.                                                               *)
(***************************************************************************)
LoadArchive(t) ==
    /\ Handle(t) /\ t.do = "load"
    /\ row' = None
    /\ tasks' = (tasks \ {t}) \cup {[do |-> "fetch"]}
    /\ UNCHANGED <<page, panicked>>

\* The document in what the sources answer; its source may fail to tell the
\* files, and then it is not there, or to tell the metadata.
Answers ==
    {library, Restricted(library, {})} \cup
    {[library EXCEPT !.meta = [title |-> title, cover |-> None]] : title \in Titles}

\* get_documents: what is cached, or what the sources answer, which is cached.
Fetch(t) ==
    /\ Work(t) /\ t.do = "fetch"
    /\ cache' \in IF cache = None THEN Answers ELSE {cache}
    /\ tasks' = (tasks \ {t}) \cup {[do |-> "loaded", doc |-> cache']}
    /\ \/ /\ cache' \in {cache, library}
          /\ calm' = (calm /\ (Exists => Agrees(cache')))
          /\ UNCHANGED <<bounds, apart>>
       \/ cache' \notin {cache, library} /\ Missed
    /\ UNCHANGED <<library, images>>

Loaded(t) ==
    /\ Handle(t) /\ t.do = "loaded"
    /\ row' = t.doc
    /\ tasks' = tasks \ {t}
    /\ UNCHANGED <<page, panicked>>

\* RefreshDocument of the list: the row becomes what the page has, if there is
\* one.  When a format was removed a refresh of the page follows.
RowRefreshed(t) ==
    /\ Handle(t) /\ t.do \in {"row", "row-of-format"}
    /\ row' = IF Listed THEN t.doc ELSE row
    /\ tasks' = (tasks \ {t}) \cup IF t.do = "row" THEN {} ELSE {RefreshMessage}
    /\ UNCHANGED <<page, panicked>>

(***************************************************************************)
(* Requests.  The provider expires its caches when a request is through,   *)
(* whether it failed or not, and then it is answered.                      *)
(***************************************************************************)
Request(r) == tasks' = tasks \cup {[do |-> "request", what |-> r]}

Answered(t, ok) ==
    /\ cache' = None
    /\ tasks' = (tasks \ {t}) \cup {[do |-> "expired"], [do |-> "answer", what |-> t.what, ok |-> ok]}

\* add_tag of the tag editor, which shows the tag at once, and of the page.
AddTag(tag) ==
    /\ Change /\ page.asked = None
    /\ tag \notin page.tags
    /\ page' = [page EXCEPT !.tags = @ \cup {tag}]
    /\ Request([is |-> "tag", tag |-> tag, add |-> TRUE, left |-> DOMAIN page.doc.contents])
    /\ UNCHANGED chosen

RemoveTag(tag) ==
    /\ Change /\ page.asked = None
    /\ tag \in page.tags
    /\ page' = [page EXCEPT !.tags = @ \ {tag}]
    /\ Request([is |-> "tag", tag |-> tag, add |-> FALSE, left |-> DOMAIN page.doc.contents])
    /\ UNCHANGED chosen

\* The contents with a tag or without it, and with a status.
Tagged(contents, tag, add) ==
    [c \in DOMAIN contents |->
        [contents[c] EXCEPT !.tags = IF add THEN @ \cup {tag} ELSE @ \ {tag}]]
Read(contents, read) == [c \in DOMAIN contents |-> [contents[c] EXCEPT !.read = read]]

\* The next content of a request for several becomes as `new` has it; a request
\* that fails is logged.
EachContent(t, new, told) ==
    \E c \in t.what.left :
       /\ tasks' = (tasks \ {t}) \cup {[t EXCEPT !.what.left = @ \ {c}]} \cup told
       /\ \/ /\ library' = IF c \in DOMAIN library.contents
                           THEN [library EXCEPT !.contents[c] = new[c]] ELSE library
             /\ Works
          \/ Fail /\ UNCHANGED library
       /\ UNCHANGED images

\* add_document_tags and delete_document_tags
TagContents(t) ==
    /\ Work(t) /\ t.do = "request" /\ t.what.is = "tag"
    /\ EachContent(t, Tagged(library.contents, t.what.tag, t.what.add), {})
    /\ UNCHANGED cache

\* The contents are updated one after the other, the caches expired each time.
UpdateReadingStatus(read) ==
    /\ Change /\ page.asked = None
    /\ Request([is |-> "status", read |-> read, left |-> DOMAIN page.doc.contents])
    /\ UNCHANGED <<page, chosen>>

UpdateStatuses(t) ==
    /\ Work(t) /\ t.do = "request" /\ t.what.is = "status"
    /\ EachContent(t, Read(library.contents, t.what.read), {[do |-> "expired"]})
    /\ cache' = None

AllContentsDone(t) ==
    /\ Work(t) /\ t.do = "request" /\ t.what.is \in {"tag", "status"} /\ t.what.left = {}
    /\ Answered(t, TRUE)
    /\ UNCHANGED <<library, images>> /\ Works

(***************************************************************************)
(* Metadata.                                                               *)
(***************************************************************************)
EditDocumentMeta ==
    /\ Click(TRUE) /\ ~page.editing
    /\ page' = [page EXCEPT !.draft = page.doc.meta, !.editing = TRUE]
    /\ UNCHANGED <<tasks, chosen>>

\* DocumentMetaTitleChanged, and the like.
DocumentMetaChanged(title) ==
    /\ Click(FALSE) /\ page.editing /\ title # page.draft.title
    /\ page' = [page EXCEPT !.draft.title = title]
    /\ UNCHANGED <<tasks, chosen>>

\* The draft stays as it is.
CancelDocumentMeta ==
    /\ Click(FALSE) /\ page.editing
    /\ page' = [page EXCEPT !.editing = FALSE]
    /\ UNCHANGED <<tasks, chosen>>

SaveDocumentMeta ==
    /\ Change /\ page.asked = None /\ page.editing
    /\ page' = [page EXCEPT !.editing = FALSE]
    /\ Request([is |-> "meta", meta |-> page.draft])
    /\ UNCHANGED chosen

\* SelectCover saves the whole draft.
SelectCover(c) ==
    /\ Change /\ page.asked = None
    /\ page.covers # None /\ page.picker = None
    /\ c \in DOMAIN page.covers \cap DOMAIN page.doc.contents /\ c # page.doc.meta.cover
    /\ page' = [page EXCEPT !.doc.meta.cover = c, !.draft.cover = c]
    /\ Request([is |-> "cover", meta |-> page'.draft])
    /\ chosen' = c

\* update_document_metadata: all fields are replaced, unless the cover is that
\* of a content that is gone.  Failures are logged by the aggregator, and the
\* page is told that it worked.
UpdateDocumentMetadata(t) ==
    /\ Work(t) /\ t.do = "request" /\ t.what.is \in {"meta", "cover"}
    /\ Answered(t, TRUE)
    /\ \/ /\ library' = IF DOMAIN images # {} /\ t.what.meta.cover \in DOMAIN images \cup {None}
                        THEN [library EXCEPT !.meta = t.what.meta] ELSE library
          /\ Works
       \/ Fail /\ UNCHANGED library
    /\ UNCHANGED images

(***************************************************************************)
(* Removing a format, or a copy of it.                                     *)
(***************************************************************************)
\* RequestRemoveFormat and RequestDeleteSource: the dialog, which is modal.
AskToRemove(what, c) ==
    /\ Click(FALSE)
    /\ c \in DOMAIN page.doc.contents
    /\ page' = [page EXCEPT !.asked = [is |-> what, content |-> c]]
    /\ UNCHANGED <<tasks, chosen>>

CancelRemoval ==
    /\ CanAct /\ page # None /\ page.asked # None
    /\ page' = [page EXCEPT !.asked = None]
    /\ UNCHANGED <<library, images, list, tasks, panicked, chosen, order, bounds>>

ConfirmRemoval ==
    /\ Change /\ page.asked # None
    /\ Request(page.asked)
    /\ page' = [page EXCEPT !.asked = None]
    /\ chosen' = IF page.asked = [is |-> "format", content |-> chosen] THEN None ELSE chosen

Without(f, c) == [d \in DOMAIN f \ {c} |-> f[d]]

\* remove_content_from_document: the cover and the choice of it go as well.
RemoveContent(t) ==
    /\ Work(t) /\ t.do = "request" /\ t.what.is = "format"
    /\ \/ /\ library' = [meta |-> [library.meta EXCEPT !.cover =
                                      IF @ = t.what.content THEN None ELSE @],
                         contents |-> Without(library.contents, t.what.content)]
          /\ images' = Without(images, t.what.content)
          /\ Answered(t, TRUE) /\ Works
       \/ Answered(t, FALSE) /\ Fail /\ UNCHANGED <<library, images>>

\* delete_document_source: the content has no file any more, but stays.
DeleteSource(t) ==
    /\ Work(t) /\ t.do = "request" /\ t.what.is = "copy"
    /\ \/ /\ library' = [library EXCEPT !.contents = Without(@, t.what.content)]
          /\ Answered(t, TRUE) /\ Works
       \/ Answered(t, FALSE) /\ Fail /\ UNCHANGED library
    /\ UNCHANGED images

\* The last format was removed: the page is closed, and told to refresh.
IsLastFormat == Cardinality(DOMAIN page.doc.contents) <= 1

FormatRemoved(t) ==
    /\ Delivered(t) /\ t.do = "answer" /\ t.what.is = "format"
    /\ \/ /\ t.ok /\ IsLastFormat
          /\ page' = None
          /\ tasks' = (tasks \ {t}) \cup {RefreshMessage}
       \/ /\ t.ok /\ ~IsLastFormat
          /\ tasks' = (tasks \ {t}) \cup {[do |-> "row-of-format", doc |-> page.doc]}
          /\ UNCHANGED page
       \/ ~t.ok /\ tasks' = tasks \ {t} /\ UNCHANGED page
    /\ UNCHANGED row

(***************************************************************************)
(* Thumbnails.                                                             *)
(***************************************************************************)
OpenThumbnailPicker(c) ==
    /\ Click(TRUE)
    /\ page.covers # None /\ page.picker = None
    /\ c \in DOMAIN page.covers \cap DOMAIN page.doc.contents
    /\ page' = [page EXCEPT !.picker =
                   [content |-> c, page |-> 0, trim |-> FALSE, counted |-> FALSE,
                    preview |-> None, saving |-> FALSE]]
    /\ tasks' = tasks \cup {[do |-> "count"]}
    /\ UNCHANGED chosen

\* get_pdf_page_count
CountPages(t) ==
    /\ Work(t) /\ t.do = "count"
    /\ \/ tasks' = (tasks \ {t}) \cup {[do |-> "counted"]} /\ Works
       \/ tasks' = (tasks \ {t}) \cup {[do |-> "failed"]} /\ Fail
    /\ UNCHANGED <<library, images, cache>>

\* thumbnail_load_tasks
LoadPreview(p, n, ts) ==
    tasks' = ts \cup IF p # None /\ p.counted
                     THEN {[do |-> "render", view |-> [Pick(p) EXCEPT !.page = n]]} ELSE {}

ThumbnailPageCountLoaded(t) ==
    /\ Delivered(t) /\ t.do = "counted"
    /\ page' = IF page.picker = None THEN page ELSE [page EXCEPT !.picker.counted = TRUE]
    /\ LoadPreview(page'.picker, 0, tasks \ {t})
    /\ UNCHANGED row

\* A click in the picker, which is not apart while it is saved.
PickerClick ==
    /\ CanAct /\ page # None /\ page.asked = None /\ page.picker # None
    /\ Bounded
    /\ apart' = (apart /\ ~page.picker.saving)
    /\ calm' = (calm /\ ~page.picker.saving)
    /\ UNCHANGED <<library, images, list, panicked, chosen, changes>>

\* ThumbnailPageSelected in the filmstrip, which is empty without a count.
ThumbnailPageSelected(n) ==
    /\ PickerClick /\ page.picker.counted /\ n # page.picker.page
    /\ page' = [page EXCEPT !.picker.page = n]
    /\ LoadPreview(page'.picker, n, tasks)

ThumbnailTrimToggled ==
    /\ PickerClick
    /\ page' = [page EXCEPT !.picker.trim = ~@]
    /\ LoadPreview(page'.picker, page'.picker.page, tasks)

\* ThumbnailPageScrubbed, and likewise ThumbnailPaddingChanged and
\* ThumbnailMarginChanged: a slider moves and is yet to be released.
ThumbnailPageScrubbed(n) ==
    /\ PickerClick /\ page.picker.counted /\ n # page.picker.page
    /\ page' = [page EXCEPT !.picker.page = n]
    /\ tasks' = tasks \cup {[do |-> "release"]}

ThumbnailReloadPreview(t) ==
    /\ Handle(t) /\ t.do = "release"
    /\ IF page = None THEN tasks' = tasks \ {t}
       ELSE LoadPreview(page.picker, page.picker.page, tasks \ {t})
    /\ UNCHANGED <<page, row, panicked>>

CancelThumbnailPicker ==
    /\ PickerClick
    /\ page' = [page EXCEPT !.picker = None]
    /\ UNCHANGED tasks

\* get_pdf_page_preview
RenderPreview(t) ==
    /\ Work(t) /\ t.do = "render"
    /\ \/ tasks' = (tasks \ {t}) \cup {[do |-> "preview", view |-> t.view]} /\ Works
       \/ tasks' = (tasks \ {t}) \cup {[do |-> "failed"]} /\ Fail
    /\ UNCHANGED <<library, images, cache>>

\* Mutant: an answer that is late is shown.
ShownAnyway(p, view) == p # None

\* The page and the parameters are those of the picker now; the content is
\* not looked at.
Wanted(p, view) == p # None /\ p.page = view.page /\ p.trim = view.trim

ThumbnailBigPreviewLoaded(t) ==
    /\ Delivered(t) /\ t.do = "preview"
    /\ page' = IF Wanted(page.picker, t.view) THEN [page EXCEPT !.picker.preview = t.view] ELSE page
    /\ tasks' = tasks \ {t}
    /\ UNCHANGED row

\* Why there is no count or preview is shown in the picker.
ThumbnailFailed(t) ==
    /\ Delivered(t) /\ t.do = "failed"
    /\ tasks' = tasks \ {t}
    /\ UNCHANGED <<page, row>>

\* Offered when a preview is there, of whatever page.
SaveThumbnail ==
    /\ CanAct /\ page # None /\ page.asked = None
    /\ Bounded
    /\ changes < MaxChanges /\ changes' = changes + 1
    /\ page.picker # None /\ ~page.picker.saving /\ page.picker.preview # None
    /\ page' = [page EXCEPT !.picker.saving = TRUE]
    /\ Request([is |-> "thumbnail", view |-> Pick(page.picker)])
    /\ chosen' = page.picker.content
    /\ apart' = (apart /\ Quiet /\ page.picker.preview = Pick(page.picker))
    /\ calm' = (calm /\ Quiet)
    /\ UNCHANGED <<library, images, list, panicked>>

\* set_pdf_page_thumbnail: the picture is stored, then it becomes the cover;
\* either may fail.
SetPageThumbnail(t) ==
    /\ Work(t) /\ t.do = "request" /\ t.what.is = "thumbnail"
    /\ LET c == t.what.view.content
           Stored == /\ c \in DOMAIN library.contents
                     /\ images' = [images EXCEPT ![c] = t.what.view]
       IN  \/ /\ Stored
              /\ library' = [library EXCEPT !.meta.cover = c]
              /\ Answered(t, TRUE) /\ Works
           \/ /\ Stored \/ UNCHANGED images
              /\ Answered(t, FALSE) /\ Fail /\ UNCHANGED library

\* The covers with what the picker has.
Covered(covers, p) ==
    [c \in DOMAIN covers \cup {p.content} |-> IF c = p.content THEN p.preview ELSE covers[c]]

\* Mutant: the draft of the form keeps the cover it had.
ShowThumbnailOnly(p) ==
    [page EXCEPT !.picker = None, !.covers = Covered(@, p),
                 !.doc.meta.cover = p.content]

\* Mutant: the covers stay as they were loaded.
ShowOldThumbnail(p) ==
    [page EXCEPT !.picker = None, !.doc.meta.cover = p.content, !.draft.cover = p.content]

\* What the picker has is shown as the cover.
ShowThumbnail(p) ==
    [page EXCEPT !.picker = None, !.covers = Covered(@, p),
                 !.doc.meta.cover = p.content, !.draft.cover = p.content]

ThumbnailSaved(t) ==
    /\ Delivered(t) /\ t.do = "answer" /\ t.what.is = "thumbnail"
    /\ page' = IF page.picker = None THEN page
               ELSE IF ~t.ok THEN [page EXCEPT !.picker.saving = FALSE]
               ELSE IF page.picker.preview = None THEN [page EXCEPT !.picker = None]
               ELSE ShowThumbnail(page.picker)
    /\ tasks' = tasks \ {t}
    /\ UNCHANGED row

\* TagsAdded, TagsRemoved (a refresh is chained to these), ReadingStatusUpdated,
\* DocumentMetaSaved and SourceDeleted ask for a refresh; CoverSelected and
\* failures do not.
RequestAnswered(t) ==
    /\ Delivered(t) /\ t.do = "answer" /\ t.what.is \in {"tag", "status", "meta", "cover", "copy"}
    /\ tasks' = (tasks \ {t}) \cup IF t.ok /\ t.what.is # "cover" THEN {RefreshMessage} ELSE {}
    /\ UNCHANGED <<page, row>>

(***************************************************************************)
(* Elsewhere: the list tags the document, the viewer sets its status; each *)
(* of them expires the caches.                                             *)
(***************************************************************************)
ChangedElsewhere ==
    /\ CanAct /\ Bounded
    /\ changes < MaxChanges /\ changes' = changes + 1
    /\ Exists
    /\ \/ \E tag \in Tags, add \in BOOLEAN :
             library' = [library EXCEPT !.contents = Tagged(@, tag, add)]
       \/ \E c \in DOMAIN library.contents, read \in BOOLEAN :
             library' = [library EXCEPT !.contents[c].read = read]
    /\ tasks' = tasks \cup {[do |-> "expired"]}
    /\ apart' = (apart /\ Quiet)
    /\ cache' = None
    /\ UNCHANGED <<images, row, page, panicked, chosen, calm>>

(***************************************************************************)
(* Everything together.                                                    *)
(***************************************************************************)
Message(t) ==
    \/ Panic(t) \/ CoversLoaded(t)
    \/ Refresh(t) \/ RefreshDocument(t) \/ DocumentRefreshed(t)
    \/ LoadArchive(t) \/ Loaded(t) \/ RowRefreshed(t)
    \/ RequestAnswered(t) \/ FormatRemoved(t)
    \/ ThumbnailPageCountLoaded(t) \/ ThumbnailReloadPreview(t)
    \/ ThumbnailBigPreviewLoaded(t) \/ ThumbnailFailed(t) \/ ThumbnailSaved(t)

Background(t) ==
    \/ ReadCovers(t) \/ GetSingleDocument(t) \/ Fetch(t)
    \/ TagContents(t) \/ UpdateStatuses(t) \/ AllContentsDone(t)
    \/ UpdateDocumentMetadata(t) \/ RemoveContent(t) \/ DeleteSource(t)
    \/ CountPages(t) \/ RenderPreview(t) \/ SetPageThumbnail(t)

Uses ==
    \/ Open \/ Close
    \/ \E tag \in Tags : AddTag(tag) \/ RemoveTag(tag)
    \/ \E read \in BOOLEAN : UpdateReadingStatus(read)
    \/ EditDocumentMeta \/ CancelDocumentMeta \/ SaveDocumentMeta
    \/ \E title \in Titles : DocumentMetaChanged(title)
    \/ \E c \in Contents :
          SelectCover(c) \/ OpenThumbnailPicker(c)
          \/ \E what \in {"format", "copy"} : AskToRemove(what, c)
    \/ CancelRemoval \/ ConfirmRemoval
    \/ \E n \in Pages : ThumbnailPageSelected(n) \/ ThumbnailPageScrubbed(n)
    \/ ThumbnailTrimToggled \/ CancelThumbnailPicker \/ SaveThumbnail

Next ==
    \/ \E t \in tasks : Message(t) \/ Background(t)
    \/ Uses
    \/ ChangedElsewhere

Spec == Init /\ [][Next]_vars

(***************************************************************************)
(* Properties.                                                             *)
(***************************************************************************)
\* Every variable has the values of its type; what a picker shows is of some
\* page of some content.
TypeOK ==
    /\ library \in Documents
    /\ {row, cache} \subseteq Documents \cup {None}
    /\ images \in Covers
    /\ page # None =>
          /\ page.doc \in Documents /\ page.draft \in Meta
          /\ page.tags \subseteq Tags
          /\ page.picker # None => page.picker \in Pickers
    /\ {panicked, calm, apart} \subseteq BOOLEAN
    /\ chosen \in Contents \cup {None}
    /\ changes \in 0 .. MaxChanges /\ steps \in 0 .. MaxSteps

\* When everything is answered, the list shows the document as the source has
\* it, and so do the page and its tag editor, whatever was changed meanwhile,
\* whether it worked or failed: the loads and refreshes that the expired caches
\* and the answers cause leave nothing of what was there before, unless an older
\* one was answered last or a source did not answer (document_details.rs:1965).
PageTrue ==
    (~panicked /\ Quiet /\ calm /\ Exists) =>
        /\ row = library
        /\ page # None => page.doc = library /\ page.tags = AllTags(library)

\* When no rendering is under way, the picker shows a preview, and of the page
\* and with the parameters it has now, however its clicks and the answers to
\* them were interleaved (document_details.rs:1708).
PreviewTrue ==
    (/\ page # None /\ ~panicked /\ apart
     /\ page.picker # None
     /\ ~Pending({"count", "counted", "render", "preview", "release"}))
    => page.picker.preview = Pick(page.picker)

\* When everything is answered, the covers on the page are those the source
\* has, also the one that was just made from a page (document_details.rs:1797).
CoversTrue ==
    (page # None /\ ~panicked /\ Quiet /\ apart /\ page.covers # None) =>
        \A c \in DOMAIN library.contents \cap DOMAIN page.covers :
           page.covers[c] = images[c]

\* When everything is answered, the document has the cover that was chosen
\* last, by selecting it or by making a thumbnail, also when a form that was
\* open meanwhile is saved with all that it has (document_details.rs:1797).
ChosenCoverKept ==
    (~panicked /\ Quiet /\ apart /\ Exists) => library.meta.cover = chosen
=============================================================================
