------------------------ MODULE DocumentDetails_proofs ------------------------
(***************************************************************************)
(* Proofs about DocumentDetails, for any contents, titles, tags, pages and *)
(* bounds.                                                                 *)
(*                                                                         *)
(* What the page shows is only settled when everything is answered, so the *)
(* invariants follow what is under way.  RefreshInv: unless something is   *)
(* still to be read, what was read is the document.  ListInv: unless       *)
(* something is still to be loaded, what is on its way is the document,    *)
(* and it or a refresh will reach the list.  ThumbnailInv: nothing         *)
(* but refreshes goes on beside a thumbnail that is saved, and by the time *)
(* it is answered the source has it; the page may then show it without     *)
(* reading it again.  OneInv: requests come one at a time, and nothing is  *)
(* read before one is done, unless it sets the status.  CoversInv and      *)
(* PreviewInv: what the page has is right, or something under way will     *)
(* bring what is.  ChosenInv: the source has the chosen cover, or a        *)
(* request that leaves it, and whatever the page may still save has that   *)
(* cover or one that update_document_metadata refuses.                     *)
(***************************************************************************)
EXTENDS DocumentDetails, FiniteSetTheorems, TLAPS

USE DEF list

\* The values of the page and of the removal it asks about.
Removals == [is : {"format", "copy"}, content : Contents]
PageType == [doc : Documents, tags : SUBSET Tags, draft : Meta, editing : BOOLEAN,
             covers : Covers \cup {None}, picker : Pickers \cup {None}, asked : Removals \cup {None}]

\* What the provider is asked to do.
Requests ==
    [is : {"tag"}, tag : Tags, add : BOOLEAN, left : SUBSET Contents]
    \cup [is : {"status"}, read : BOOLEAN, left : SUBSET Contents]
    \cup [is : {"meta", "cover"}, meta : Meta]
    \cup Removals
    \cup [is : {"thumbnail"}, view : View]

\* What a task or a message is about.
TaskType(t) ==
    /\ t.do = "covers" => t.of \subseteq Contents
    /\ t.do = "covers-loaded" => t.covers \in Covers
    /\ t.do = "refreshed" => t.doc \in Documents \cup {None}
    /\ t.do \in {"loaded", "row", "row-of-format"} => t.doc \in Documents
    /\ t.do = "request" => t \in [do : {"request"}, what : Requests]
    /\ t.do = "answer" => t.what \in Requests /\ t.ok \in BOOLEAN
    /\ t.do \in {"render", "preview"} => t.view \in View

\* Every variable keeps its type, and the source has a cover of each content.
TypeInv ==
    /\ library \in Documents /\ row \in Documents \cup {None} /\ cache \in Documents \cup {None}
    /\ images \in Covers /\ DOMAIN library.contents \subseteq DOMAIN images
    /\ page # None => page \in PageType /\ (page.picker # None => page.covers \in Covers)
    /\ panicked \in BOOLEAN /\ calm \in BOOLEAN /\ apart \in BOOLEAN
    /\ chosen \in Contents \cup {None}
    /\ changes \in 0..MaxChanges /\ steps \in 0..MaxSteps
    /\ \A t \in tasks : TaskType(t)

\* What refreshes the page, and what is still to be read for it.
Coming == {"request", "expired", "row-of-format", "refresh", "read"}
Refreshing == {"expired", "row-of-format", "refresh", "read", "refreshed"}

\* What the list is loaded by, and what may still change what is loaded.
Loading == {"load", "fetch", "loaded", "row"}
Expected == {"request", "expired", "load", "fetch"}
Renewing == Refreshing \cup Loading

IsThumbnail(t) == t.do \in {"request", "answer"} /\ t.what.is = "thumbnail"

\* While a thumbnail is saved nothing happens but refreshes, and the picker is
\* what was saved; when it is answered the source has it.
ThumbnailInv ==
    ~panicked /\ (calm \/ apart) =>
        \A t \in tasks : IsThumbnail(t) =>
            /\ \A u \in tasks : u.do \notin Renewing => u = t
            /\ page # None => /\ page.picker # None /\ page.picker.saving
                              /\ Pick(page.picker) = t.what.view
                              /\ apart => page.picker.preview = t.what.view
            /\ t.do = "answer" => /\ apart => t.ok
                                  /\ t.ok => /\ library.meta.cover = t.what.view.content
                                             /\ images[t.what.view.content] = t.what.view

\* Unless there is something to be read, what was read is the document, and
\* when it has come, the page has it.
RefreshInv ==
    ~panicked /\ calm /\ Exists /\ ~Pending(Coming) =>
        /\ page # None => \A t \in tasks : t.do = "refreshed" => t.doc = library
        /\ page # None /\ ~Pending({"refreshed"}) =>
              page.doc = library /\ page.tags = AllTags(library)

\* A document with contents.
Whole(doc) == DOMAIN doc.contents # {}

\* The list is empty only while it is loaded, and what the page has and what was
\* read has contents.  Unless a request is under way the cache is the document.
\* Unless something is to be loaded, what is on its way to the list or the page is
\* the document, and the list has it, or what will bring it is on its way.
ListInv ==
    /\ row = None => Pending({"fetch", "loaded"})
    /\ page # None => Whole(page.doc)
    /\ \A t \in tasks : t.do \in {"row", "row-of-format"} \/ (t.do = "refreshed" /\ t.doc # None)
          => Whole(t.doc)
    /\ calm /\ ~Pending({"request"}) => cache \in {None, library}
    /\ calm /\ Exists =>
          /\ \A doc \in {row, cache} : doc # None => Whole(doc)
          /\ \A t \in tasks : t.do = "loaded" => Whole(t.doc)
    /\ ~panicked /\ calm /\ Exists /\ ~Pending(Expected) =>
          /\ Agrees(library)
          /\ row = library \/ Pending({"loaded", "row"} \cup Refreshing)

\* Requests and their answers come one at a time, and only that for the reading
\* status refreshes the page before it is done.
OneInv ==
    ~panicked /\ apart =>
        /\ \A t, u \in tasks : t.do \in {"request", "answer"} /\ u.do \in {"request", "answer"} => t = u
        /\ \A t \in tasks : t.do = "request" /\ t.what.is # "status" => ~Pending(Renewing)

\* The covers the page has, or is about to have, are those of the source.
CoversInv ==
    ~panicked /\ apart =>
        /\ \A t \in tasks : t.do = "covers-loaded" =>
              \A c \in DOMAIN library.contents \cap DOMAIN t.covers : t.covers[c] = images[c]
        /\ page # None /\ page.covers # None =>
              \A c \in DOMAIN library.contents \cap DOMAIN page.covers :
                  page.covers[c] = images[c]
                  \/ \E t \in tasks : t.do = "answer" /\ IsThumbnail(t) /\ c = t.what.view.content

\* The pages of a content are counted once, and something that is rendered is
\* first asked for and then there.
Counting == {"count", "counted"}
Rendering == {"render", "preview"}

\* The picker has its preview, or something under way will lead to it.
PickerTrue(p, ts) ==
    /\ p.counted = (\A t \in ts : t.do \notin Counting)
    /\ ~p.counted => p.page = 0
    /\ \A t \in ts : t.do \in Rendering => t.view.content = p.content
    /\ \/ \E t \in ts : t.do \in Counting \cup {"release"}
       \/ p.preview = Pick(p)
       \/ \E t \in ts : t.do \in Rendering /\ t.view = Pick(p)

CountsOnce(ts) == \A t, u \in ts : t.do \in Counting /\ u.do \in Counting => t = u

PreviewInv ==
    ~panicked /\ apart =>
        /\ CountsOnce(tasks)
        /\ page # None /\ page.picker # None => PickerTrue(page.picker, tasks)

\* A cover that may be saved: the chosen one, or one that is refused.
Harmless(cover) == cover = chosen \/ cover \notin DOMAIN images \cup {None}

\* The cover a request will leave is the chosen one.
CoverOf(t) ==
    CASE t.what.is \in {"meta", "cover"} ->
            \/ library.meta.cover = chosen /\ Harmless(t.what.meta.cover)
            \/ t.what.meta.cover = chosen /\ chosen \in DOMAIN images
      [] t.what.is = "format" ->
            \/ library.meta.cover = chosen /\ chosen # t.what.content
            \/ chosen = None /\ library.meta.cover = t.what.content
      [] t.what.is = "thumbnail" -> chosen = t.what.view.content
      [] OTHER -> library.meta.cover = chosen

\* The source has the chosen cover, or a request that will give it that; what the
\* page knows leads to no other.
ChosenInv ==
    ~panicked /\ apart /\ Exists =>
        /\ \A t \in tasks : t.do = "request" => CoverOf(t)
        /\ ~Pending({"request"}) => library.meta.cover = chosen
        /\ \A t \in tasks : t.do = "refreshed" =>
              /\ t.doc # None /\ DOMAIN t.doc.contents = DOMAIN library.contents
              /\ Harmless(t.doc.meta.cover)
        /\ page # None /\ ~Pending(Refreshing \cup {"request"}) =>
              DOMAIN page.doc.contents = DOMAIN library.contents
        /\ page # None /\ (\A t \in tasks : ~IsThumbnail(t)) =>
              \A cover \in {page.doc.meta.cover, page.draft.cover} :
                  \/ Harmless(cover)
                  \/ \E t \in tasks : t.do = "request" /\ t.what.is = "format" /\ cover = t.what.content

IInv ==
    /\ TypeInv /\ ThumbnailInv /\ RefreshInv /\ ListInv /\ OneInv /\ CoversInv /\ PreviewInv
    /\ ChosenInv
-----------------------------------------------------------------------------
\* A document is its metadata and the contents it has.
LEMMA DocumentIs ==
    /\ \A d \in Documents : /\ d = [meta |-> d.meta, contents |-> d.contents]
                            /\ d.meta \in Meta /\ DOMAIN d.contents \subseteq Contents
                            /\ d.contents \in [DOMAIN d.contents -> Content]
                            /\ d.meta = [title |-> d.meta.title, cover |-> d.meta.cover]
                            /\ d.meta.title \in Titles /\ d.meta.cover \in Contents \cup {None}
    /\ \A m \in Meta : \A C \in SUBSET Contents : \A f \in [C -> Content] :
          [meta |-> m, contents |-> f] \in Documents
<1>1. \A d \in Documents : \E C \in SUBSET Contents : d.contents \in [C -> Content]
  BY DEF Documents
<1>2. \A d \in Documents : /\ d = [meta |-> d.meta, contents |-> d.contents] /\ d.meta \in Meta
  BY DEF Documents
<1>3. \A d \in Documents : DOMAIN d.contents \subseteq Contents /\ d.contents \in [DOMAIN d.contents -> Content]
  BY <1>1
<1>4. \A d \in Documents : /\ d.meta = [title |-> d.meta.title, cover |-> d.meta.cover]
                           /\ d.meta.title \in Titles /\ d.meta.cover \in Contents \cup {None}
  BY <1>2 DEF Meta
<1>5. \A m \in Meta : \A C \in SUBSET Contents : \A f \in [C -> Content] :
          [meta |-> m, contents |-> f] \in Documents
  BY DEF Documents
<1> QED
  BY <1>2, <1>3, <1>4, <1>5

\* The tags of a document are tags.
LEMMA TagsAre == \A d \in Documents : AllTags(d) \subseteq Tags
<1> SUFFICES ASSUME NEW d \in Documents, NEW x \in AllTags(d)
             PROVE  x \in Tags
  OBVIOUS
<1>1. PICK c \in DOMAIN d.contents : x \in d.contents[c].tags
  BY DEF AllTags
<1>2. d.contents[c] \in Content
  BY DocumentIs
<1> QED
  BY <1>1, <1>2 DEF Content

\* Covers are pictures of contents.
LEMMA CoversAre ==
    /\ \A f \in Covers : DOMAIN f \subseteq Contents /\ f \in [DOMAIN f -> Picture]
    /\ \A C \in SUBSET Contents : [C -> Picture] \subseteq Covers
  BY DEF Covers

\* Changed metadata or contents of the document make a document.
LEMMA LibraryIs ==
    ASSUME library \in Documents
    PROVE  /\ \A m \in Meta : /\ [library EXCEPT !.meta = m] \in Documents
                              /\ [library EXCEPT !.meta = m] = [meta |-> m, contents |-> library.contents]
           /\ \A c \in Contents \cup {None} :
                 /\ [library EXCEPT !.meta.cover = c] \in Documents
                 /\ [library EXCEPT !.meta.cover = c].contents = library.contents
                 /\ [library EXCEPT !.meta.cover = c].meta = [title |-> library.meta.title, cover |-> c]
           /\ \A C \in SUBSET Contents : \A f \in [C -> Content] :
                 /\ [library EXCEPT !.contents = f] \in Documents
                 /\ [library EXCEPT !.contents = f] = [meta |-> library.meta, contents |-> f]
<1>1. library = [meta |-> library.meta, contents |-> library.contents] /\ library.meta \in Meta
      /\ DOMAIN library.contents \in SUBSET Contents
      /\ library.contents \in [DOMAIN library.contents -> Content]
      /\ library.meta = [title |-> library.meta.title, cover |-> library.meta.cover]
  BY DocumentIs
<1>2. \A m : [library EXCEPT !.meta = m] = [meta |-> m, contents |-> library.contents]
  BY <1>1
<1>3. \A f : [library EXCEPT !.contents = f] = [meta |-> library.meta, contents |-> f]
  BY <1>1
<1>4. \A c : [library.meta EXCEPT !.cover = c] = [title |-> library.meta.title, cover |-> c]
  BY <1>1
<1>5. \A c : [library EXCEPT !.meta.cover = c] = [library EXCEPT !.meta = [library.meta EXCEPT !.cover = c]]
  OBVIOUS
<1>6. \A c \in Contents \cup {None} : [title |-> library.meta.title, cover |-> c] \in Meta
  BY <1>1 DEF Meta
<1>7. \A c \in Contents \cup {None} :
          [library EXCEPT !.meta.cover = c]
              = [meta |-> [title |-> library.meta.title, cover |-> c], contents |-> library.contents]
  BY <1>2, <1>4, <1>5
<1>8. \A m \in Meta : [meta |-> m, contents |-> library.contents] \in Documents
  BY <1>1, DocumentIs
<1>9. \A C \in SUBSET Contents : \A f \in [C -> Content] : [meta |-> library.meta, contents |-> f] \in Documents
  BY <1>1, DocumentIs
<1>10. \A m \in Meta : /\ [library EXCEPT !.meta = m] \in Documents
                       /\ [library EXCEPT !.meta = m] = [meta |-> m, contents |-> library.contents]
  BY <1>2, <1>8
<1>11. \A c \in Contents \cup {None} :
                 /\ [library EXCEPT !.meta.cover = c] \in Documents
                 /\ [library EXCEPT !.meta.cover = c].contents = library.contents
                 /\ [library EXCEPT !.meta.cover = c].meta = [title |-> library.meta.title, cover |-> c]
  BY <1>6, <1>7, <1>8
<1>12. \A C \in SUBSET Contents : \A f \in [C -> Content] :
                 /\ [library EXCEPT !.contents = f] \in Documents
                 /\ [library EXCEPT !.contents = f] = [meta |-> library.meta, contents |-> f]
  BY <1>3, <1>9
<1> QED
  BY <1>10, <1>11, <1>12

USE NoneAssumption, PagesAssumption, DocumentAssumption

\* A picker of the page that is changed is a picker.
LEMMA PickersAre ==
    ASSUME NEW p \in Pickers
    PROVE  /\ Pick(p) \in View /\ p # None
           /\ p.page \in Pages /\ p.content \in Contents /\ p.preview \in View \cup {None}
           /\ \A n \in Pages : [p EXCEPT !.page = n] \in Pickers
           /\ \A b \in BOOLEAN : [p EXCEPT !.trim = b] \in Pickers
           /\ \A b \in BOOLEAN : [p EXCEPT !.saving = b] \in Pickers
           /\ [p EXCEPT !.counted = TRUE] \in Pickers
           /\ \A v \in View : [p EXCEPT !.preview = v] \in Pickers
<1>1. Pick(p) \in View
  BY DEF Pickers, Pick, View
<1>2. p.page \in Pages /\ p.content \in Contents /\ p.preview \in View \cup {None}
  BY DEF Pickers
<1>3. \A n \in Pages : [p EXCEPT !.page = n] \in Pickers
  BY DEF Pickers
<1>4. \A b \in BOOLEAN : [p EXCEPT !.trim = b] \in Pickers
  BY DEF Pickers
<1>5. \A b \in BOOLEAN : [p EXCEPT !.saving = b] \in Pickers
  BY DEF Pickers
<1>6. [p EXCEPT !.counted = TRUE] \in Pickers
  BY DEF Pickers
<1>7. \A v \in View : [p EXCEPT !.preview = v] \in Pickers
  BY DEF Pickers
<1>8. p # None
  OBVIOUS
<1> QED
  BY <1>1, <1>2, <1>3, <1>4, <1>5, <1>6, <1>7, <1>8

\* A request has the fields of its kind.
LEMMA RequestsAre ==
    ASSUME NEW t, t \in [do : {"request"}, what : Requests]
    PROVE  /\ t = [do |-> "request", what |-> t.what]
           /\ t.what.is \in {"tag", "status", "meta", "cover", "format", "copy", "thumbnail"}
           /\ t.what.is = "tag" => t.what.tag \in Tags /\ t.what.add \in BOOLEAN
           /\ t.what.is \in {"tag", "status"} => t.what.left \subseteq Contents
           /\ t.what.is = "status" => t.what.read \in BOOLEAN
           /\ t.what.is \in {"meta", "cover"} => t.what.meta \in Meta
           /\ t.what.is \in {"format", "copy"} => t.what.content \in Contents
           /\ t.what.is = "thumbnail" => t.what.view \in View
  BY DEF Requests, Removals

\* A request for several contents is still one when a content of it is done.
LEMMA LeftIs ==
    ASSUME NEW t, t \in [do : {"request"}, what : Requests], t.what.is \in {"tag", "status"},
           NEW c
    PROVE  LET u == [t EXCEPT !.what.left = @ \ {c}]
           IN  u \in [do : {"request"}, what : Requests] /\ u.do = "request" /\ u.what.is = t.what.is
<1> DEFINE u == [t EXCEPT !.what.left = @ \ {c}]
<1>1. u = [do |-> "request", what |-> [t.what EXCEPT !.left = @ \ {c}]]
  BY RequestsAre
<1>2. CASE t.what.is = "tag"
  <2>1. t.what \in [is : {"tag"}, tag : Tags, add : BOOLEAN, left : SUBSET Contents]
    BY <1>2 DEF Requests, Removals
  <2>2. [t.what EXCEPT !.left = @ \ {c}] \in [is : {"tag"}, tag : Tags, add : BOOLEAN, left : SUBSET Contents]
    BY <2>1
  <2> QED
    BY <1>1, <1>2, <2>2 DEF Requests
<1>3. CASE t.what.is = "status"
  <2>1. t.what \in [is : {"status"}, read : BOOLEAN, left : SUBSET Contents]
    BY <1>3 DEF Requests, Removals
  <2>2. [t.what EXCEPT !.left = @ \ {c}] \in [is : {"status"}, read : BOOLEAN, left : SUBSET Contents]
    BY <2>1
  <2> QED
    BY <1>1, <1>3, <2>2 DEF Requests
<1> QED
  BY <1>2, <1>3

\* A content of the library that is changed.
LEMMA ContentChanged ==
    ASSUME library \in Documents, NEW c \in DOMAIN library.contents, NEW k \in Content
    PROVE  /\ [library EXCEPT !.contents[c] = k] \in Documents
           /\ [library EXCEPT !.contents[c] = k].meta = library.meta
           /\ DOMAIN [library EXCEPT !.contents[c] = k].contents = DOMAIN library.contents
<1>1. [library.contents EXCEPT ![c] = k] \in [DOMAIN library.contents -> Content]
  BY DocumentIs
<1>2. DOMAIN library.contents \in SUBSET Contents
  BY DocumentIs
<1>3. [library EXCEPT !.contents[c] = k] = [library EXCEPT !.contents = [library.contents EXCEPT ![c] = k]]
  OBVIOUS
<1>4. [library EXCEPT !.contents[c] = k]
          = [meta |-> library.meta, contents |-> [library.contents EXCEPT ![c] = k]]
  BY <1>3, DocumentIs
<1>5. [meta |-> library.meta, contents |-> [library.contents EXCEPT ![c] = k]] \in Documents
  BY <1>1, <1>2, DocumentIs
<1> QED
  BY <1>4, <1>5


\* A content with another status is a content.
LEMMA ReadChanged ==
    \A k \in Content : \A x \in BOOLEAN : [k EXCEPT !.read = x] \in Content
  BY DEF Content

\* Changed fields of the page.
LEMMA PageIs ==
    ASSUME page \in PageType
    PROVE  /\ page.doc \in Documents /\ page.tags \subseteq Tags /\ page.draft \in Meta
           /\ page.covers \in Covers \cup {None} /\ page.picker \in Pickers \cup {None}
           /\ page.asked \in Removals \cup {None}
           /\ \A x \in SUBSET Tags : [page EXCEPT !.tags = x] \in PageType
           /\ \A x \in Covers : [page EXCEPT !.covers = x] \in PageType
           /\ \A x \in Pickers \cup {None} : [page EXCEPT !.picker = x] \in PageType
           /\ \A x \in Removals \cup {None} : [page EXCEPT !.asked = x] \in PageType
<1>1. /\ page.doc \in Documents /\ page.tags \subseteq Tags /\ page.draft \in Meta
      /\ page.covers \in Covers \cup {None} /\ page.picker \in Pickers \cup {None}
      /\ page.asked \in Removals \cup {None}
  BY DEF PageType
<1>2. \A x \in SUBSET Tags : [page EXCEPT !.tags = x] \in PageType
  BY DEF PageType
<1>3. \A x \in Covers : [page EXCEPT !.covers = x] \in PageType
  BY DEF PageType
<1>4. \A x \in Pickers \cup {None} : [page EXCEPT !.picker = x] \in PageType
  BY DEF PageType
<1>5. \A x \in Removals \cup {None} : [page EXCEPT !.asked = x] \in PageType
  BY DEF PageType
<1> QED
  BY <1>1, <1>2, <1>3, <1>4, <1>5

\* The page has its type.
PageOk == page # None => page \in PageType /\ (page.picker # None => page.covers \in Covers)

\* A new request, or one that goes on.
LEMMA TaskTypes ==
    /\ \A r \in Requests : TaskType([do |-> "request", what |-> r])
    /\ \A r \in Requests : \A ok \in BOOLEAN : TaskType([do |-> "answer", what |-> r, ok |-> ok])
    /\ \A v \in View : TaskType([do |-> "render", view |-> v]) /\ TaskType([do |-> "preview", view |-> v])
    /\ \A k \in {"expired", "load", "fetch", "refresh", "read", "count", "counted", "failed", "release"} :
          TaskType([do |-> k])
    /\ \A d \in Documents \cup {None} : TaskType([do |-> "refreshed", doc |-> d])
    /\ \A d \in Documents : /\ TaskType([do |-> "loaded", doc |-> d]) /\ TaskType([do |-> "row", doc |-> d])
                            /\ TaskType([do |-> "row-of-format", doc |-> d])
    /\ \A C \in SUBSET Contents : TaskType([do |-> "covers", of |-> C])
    /\ \A f \in Covers : TaskType([do |-> "covers-loaded", covers |-> f])
<1>1. \A r \in Requests : TaskType([do |-> "request", what |-> r])
  BY DEF TaskType
<1>2. \A r \in Requests : \A ok \in BOOLEAN : TaskType([do |-> "answer", what |-> r, ok |-> ok])
  BY DEF TaskType
<1>3. \A v \in View : TaskType([do |-> "render", view |-> v]) /\ TaskType([do |-> "preview", view |-> v])
  BY DEF TaskType
<1>4. \A k \in {"expired", "load", "fetch", "refresh", "read", "count", "counted", "failed", "release"} :
          TaskType([do |-> k])
  BY DEF TaskType
<1>5. \A d \in Documents \cup {None} : TaskType([do |-> "refreshed", doc |-> d])
  BY DEF TaskType
<1>6. \A C \in SUBSET Contents : TaskType([do |-> "covers", of |-> C])
  BY DEF TaskType
<1>7. \A f \in Covers : TaskType([do |-> "covers-loaded", covers |-> f])
  BY DEF TaskType
<1>8. \A d \in Documents : /\ TaskType([do |-> "loaded", doc |-> d]) /\ TaskType([do |-> "row", doc |-> d])
                          /\ TaskType([do |-> "row-of-format", doc |-> d])
  BY DEF TaskType
<1> QED
  BY <1>1, <1>2, <1>3, <1>4, <1>5, <1>6, <1>7, <1>8

\* What the page asks for are requests.
LEMMA RequestTypes ==
    /\ \A tag \in Tags : \A b \in BOOLEAN : \A C \in SUBSET Contents :
          [is |-> "tag", tag |-> tag, add |-> b, left |-> C] \in Requests
    /\ \A b \in BOOLEAN : \A C \in SUBSET Contents : [is |-> "status", read |-> b, left |-> C] \in Requests
    /\ \A m \in Meta : [is |-> "meta", meta |-> m] \in Requests /\ [is |-> "cover", meta |-> m] \in Requests
    /\ Removals \subseteq Requests
    /\ \A v \in View : [is |-> "thumbnail", view |-> v] \in Requests
  BY DEF Requests

\* Metadata that is edited.
LEMMA MetaIs ==
    /\ \A m \in Meta : \A title \in Titles : [m EXCEPT !.title = title] \in Meta
    /\ \A m \in Meta : \A c \in Contents \cup {None} : [m EXCEPT !.cover = c] \in Meta
<1>1. \A m \in Meta : \A title \in Titles : [m EXCEPT !.title = title] \in Meta
  BY DEF Meta
<1>2. \A m \in Meta : \A c \in Contents \cup {None} : [m EXCEPT !.cover = c] \in Meta
  BY DEF Meta
<1> QED
  BY <1>1, <1>2

\* A document with another cover is one with the same contents.
LEMMA DocIs ==
    ASSUME NEW d \in Documents, NEW c \in Contents \cup {None}
    PROVE  /\ [d EXCEPT !.meta.cover = c] \in Documents
           /\ [d EXCEPT !.meta.cover = c].contents = d.contents
           /\ [d EXCEPT !.meta.cover = c].meta = [d.meta EXCEPT !.cover = c]
<1>1. [d EXCEPT !.meta.cover = c] = [meta |-> [d.meta EXCEPT !.cover = c], contents |-> d.contents]
  <2>1. [d EXCEPT !.meta.cover = c] = [d EXCEPT !.meta = [d.meta EXCEPT !.cover = c]]
    OBVIOUS
  <2>2. d = [meta |-> d.meta, contents |-> d.contents]
    BY DocumentIs
  <2>3. \A m : [d EXCEPT !.meta = m] = [meta |-> m, contents |-> d.contents]
    BY <2>2
  <2> QED
    BY <2>1, <2>3
<1>2. [meta |-> [d.meta EXCEPT !.cover = c], contents |-> d.contents] \in Documents
  BY MetaIs, DocumentIs
<1> QED
  BY <1>1, <1>2

\* The page with several fields changed at once.
LEMMA PageIs2 ==
    ASSUME page \in PageType
    PROVE  /\ \A d \in Documents : \A x \in SUBSET Tags : [page EXCEPT !.doc = d, !.tags = x] \in PageType
           /\ \A m \in Meta : \A b \in BOOLEAN : [page EXCEPT !.draft = m, !.editing = b] \in PageType
           /\ \A m \in Meta : [page EXCEPT !.draft = m] \in PageType
           /\ \A b \in BOOLEAN : [page EXCEPT !.editing = b] \in PageType
           /\ \A d \in Documents : \A m \in Meta : [page EXCEPT !.doc = d, !.draft = m] \in PageType
           /\ \A d \in Documents : \A m \in Meta : \A f \in Covers :
                 [page EXCEPT !.picker = None, !.covers = f, !.doc = d, !.draft = m] \in PageType
<1>1. \A d \in Documents : \A x \in SUBSET Tags : [page EXCEPT !.doc = d, !.tags = x] \in PageType
  BY DEF PageType
<1>2. \A m \in Meta : \A b \in BOOLEAN : [page EXCEPT !.draft = m, !.editing = b] \in PageType
  BY DEF PageType
<1>3. \A m \in Meta : [page EXCEPT !.draft = m] \in PageType
  BY DEF PageType
<1>4. \A b \in BOOLEAN : [page EXCEPT !.editing = b] \in PageType
  BY DEF PageType
<1>5. \A d \in Documents : \A m \in Meta : [page EXCEPT !.doc = d, !.draft = m] \in PageType
  BY DEF PageType
<1>6. \A d \in Documents : \A m \in Meta : \A f \in Covers :
                 [page EXCEPT !.picker = None, !.covers = f, !.doc = d, !.draft = m] \in PageType
  BY DEF PageType
<1> QED
  BY <1>1, <1>2, <1>3, <1>4, <1>5, <1>6

\* What a click on the page, in its picker, or one that changes the document
\* does whatever it is for.
LEMMA Clicked ==
    ASSUME TypeInv, Change \/ PickerClick \/ (\E alone \in BOOLEAN : Click(alone))
    PROVE  /\ page # None /\ page \in PageType
           /\ library' = library /\ images' = images /\ row' = row /\ cache' = cache /\ panicked' = panicked
           /\ calm' \in BOOLEAN /\ apart' \in BOOLEAN
           /\ changes' \in 0..MaxChanges /\ steps' \in 0..MaxSteps
           /\ (calm' => calm) /\ (apart' => apart)
<1>1. page # None /\ page \in PageType
  BY DEF TypeInv, Change, PickerClick, Click
<1>2. library' = library /\ images' = images /\ row' = row /\ cache' = cache /\ panicked' = panicked
  BY DEF Change, PickerClick, Click
<1>3. changes' \in 0..MaxChanges /\ steps' \in 0..MaxSteps
  BY BoundsAssumption DEF TypeInv, Change, PickerClick, Click, Bounded
<1>4. calm' \in BOOLEAN /\ apart' \in BOOLEAN /\ (calm' => calm) /\ (apart' => apart)
  <2>1. calm \in BOOLEAN /\ apart \in BOOLEAN
    BY DEF TypeInv
  <2>2. CASE Change
    BY <2>1, <2>2, Zenon DEF Change
  <2>3. CASE PickerClick
    BY <2>1, <2>3, Zenon DEF PickerClick
  <2>4. CASE \E alone \in BOOLEAN : Click(alone)
    <3>1. PICK alone \in BOOLEAN : Click(alone)
      BY <2>4
    <3>2. calm' = calm /\ apart' = (apart /\ (alone => Quiet))
      BY <3>1 DEF Click
    <3> QED
      BY <2>1, <3>2, Zenon
  <2> QED
    BY <2>2, <2>3, <2>4
<1> QED
  BY <1>1, <1>2, <1>3, <1>4

\* A click keeps the types when the page and the tasks have theirs.
LEMMA ClickTyped ==
    ASSUME TypeInv, Change \/ PickerClick \/ (\E alone \in BOOLEAN : Click(alone)),
           page' \in PageType,
           page'.picker # None => page'.covers \in Covers,
           \A t \in tasks' : t \in tasks \/ TaskType(t), chosen' \in Contents \cup {None}
    PROVE  TypeInv'
<1>1. PageOk'
  BY DEF PageOk
<1>2. \A t \in tasks' : TaskType(t)
  BY DEF TypeInv
<1> QED
  BY <1>1, <1>2, Clicked DEF TypeInv, PageOk

\* What is rendered is some page of a content.
LEMMA LoadTyped ==
    ASSUME NEW p, p = None \/ p \in Pickers, NEW n \in Pages, NEW ts, LoadPreview(p, n, ts)
    PROVE  \A t \in tasks' : t \in ts \/ TaskType(t)
<1>1. \A v \in View : [v EXCEPT !.page = n] \in View
  BY DEF View
<1>2. p # None => [Pick(p) EXCEPT !.page = n] \in View
  BY <1>1, PickersAre
<1> QED
  BY <1>2, TaskTypes DEF LoadPreview

\* Selecting a cover keeps the types.
LEMMA TypeSelectCover == ASSUME TypeInv, NEW c \in Contents, SelectCover(c) PROVE TypeInv'
<1>1. Change /\ page.picker = None /\ page \in PageType
  BY Clicked DEF SelectCover
<1>2. page' = [page EXCEPT !.doc = [page.doc EXCEPT !.meta.cover = c], !.draft = [page.draft EXCEPT !.cover = c]]
  BY <1>1 DEF SelectCover, PageType
<1>3. [page.doc EXCEPT !.meta.cover = c] \in Documents /\ [page.draft EXCEPT !.cover = c] \in Meta
  BY <1>1, PageIs, DocIs, MetaIs
<1>4. page' \in PageType /\ page'.picker = None /\ page'.draft \in Meta
  <2>1. page' \in PageType
    BY <1>1, <1>2, <1>3, PageIs2
  <2>2. page'.picker = page.picker /\ page'.draft = [page.draft EXCEPT !.cover = c]
    BY <1>1, <1>2 DEF PageType
  <2> QED
    BY <1>1, <1>3, <2>1, <2>2
<1>5. \A t \in tasks' : t \in tasks \/ TaskType(t)
  BY <1>4, TaskTypes, RequestTypes DEF SelectCover, Request
<1> QED
  BY <1>1, <1>4, <1>5, ClickTyped DEF SelectCover

\* So do adding and removing a tag,
LEMMA TypeTagging ==
    ASSUME TypeInv, NEW tag \in Tags, AddTag(tag) \/ RemoveTag(tag) PROVE TypeInv'
<1>1. Change /\ page \in PageType /\ chosen' = chosen /\ (page.picker # None => page.covers \in Covers)
  BY Clicked DEF AddTag, RemoveTag, TypeInv
<1>2. \E x \in SUBSET Tags : page' = [page EXCEPT !.tags = x]
  BY <1>1, PageIs DEF AddTag, RemoveTag
<1>3. page' \in PageType /\ page'.picker = page.picker /\ page'.covers = page.covers
  BY <1>1, <1>2, PageIs DEF PageType
<1>4. DOMAIN page.doc.contents \subseteq Contents
  BY <1>1, PageIs, DocumentIs
<1>5. \A t \in tasks' : t \in tasks \/ TaskType(t)
  <2>1. \E add \in BOOLEAN : tasks' = tasks \cup
           {[do |-> "request", what |-> [is |-> "tag", tag |-> tag, add |-> add, left |-> DOMAIN page.doc.contents]]}
    BY DEF AddTag, RemoveTag, Request
  <2>2. \A add \in BOOLEAN : [is |-> "tag", tag |-> tag, add |-> add, left |-> DOMAIN page.doc.contents] \in Requests
    BY <1>4, RequestTypes
  <2> QED
    BY <2>1, <2>2, TaskTypes
<1> QED
  BY <1>1, <1>3, <1>5, ClickTyped DEF TypeInv

\* setting the reading status,
LEMMA TypeStatus ==
    ASSUME TypeInv, NEW read \in BOOLEAN, UpdateReadingStatus(read) PROVE TypeInv'
<1>1. Change /\ page \in PageType /\ chosen' = chosen /\ (page.picker # None => page.covers \in Covers)
      /\ page' = page
  BY Clicked DEF UpdateReadingStatus, TypeInv
<1>2. DOMAIN page.doc.contents \subseteq Contents
  BY <1>1, PageIs, DocumentIs
<1>3. \A t \in tasks' : t \in tasks \/ TaskType(t)
  BY <1>2, TaskTypes, RequestTypes DEF UpdateReadingStatus, Request
<1> QED
  BY <1>1, <1>3, ClickTyped DEF TypeInv

\* editing the metadata,
LEMMA TypeForm ==
    ASSUME TypeInv, EditDocumentMeta \/ CancelDocumentMeta \/ SaveDocumentMeta
                    \/ (\E title \in Titles : DocumentMetaChanged(title))
    PROVE  TypeInv'
<1>1. Change \/ PickerClick \/ (\E alone \in BOOLEAN : Click(alone))
  BY DEF EditDocumentMeta, CancelDocumentMeta, SaveDocumentMeta, DocumentMetaChanged
<1>2. page # None /\ page \in PageType /\ chosen' = chosen /\ (page.picker # None => page.covers \in Covers)
  BY <1>1, Clicked
     DEF EditDocumentMeta, CancelDocumentMeta, SaveDocumentMeta, DocumentMetaChanged, TypeInv
<1>3. page.doc.meta \in Meta /\ page.draft \in Meta
  BY <1>2, PageIs, DocumentIs
<1>4. page' \in PageType
  BY <1>2, <1>3, PageIs2, MetaIs
  DEF EditDocumentMeta, CancelDocumentMeta, SaveDocumentMeta, DocumentMetaChanged
<1>5. page'.picker = page.picker /\ page'.covers = page.covers
  BY <1>2 DEF EditDocumentMeta, CancelDocumentMeta, SaveDocumentMeta, DocumentMetaChanged, PageType
<1>6. \A t \in tasks' : t \in tasks \/ TaskType(t)
  BY <1>3, TaskTypes, RequestTypes
  DEF EditDocumentMeta, CancelDocumentMeta, SaveDocumentMeta, DocumentMetaChanged, Request
<1> QED
  BY <1>1, <1>2, <1>4, <1>5, <1>6, ClickTyped DEF TypeInv

\* asking for a removal and confirming it,
LEMMA TypeRemoval ==
    ASSUME TypeInv, ConfirmRemoval \/ (\E c \in Contents : \E what \in {"format", "copy"} : AskToRemove(what, c))
    PROVE  TypeInv'
<1>1. Change \/ PickerClick \/ (\E alone \in BOOLEAN : Click(alone))
  BY DEF ConfirmRemoval, AskToRemove
<1>2. page # None /\ page \in PageType /\ (page.picker # None => page.covers \in Covers)
      /\ chosen' \in Contents \cup {None}
  BY <1>1, Clicked DEF ConfirmRemoval, AskToRemove, TypeInv
<1>3. \E x \in Removals \cup {None} : page' = [page EXCEPT !.asked = x]
  BY DEF ConfirmRemoval, AskToRemove, Removals
<1>4. page' \in PageType /\ page'.picker = page.picker /\ page'.covers = page.covers
  BY <1>2, <1>3, PageIs DEF PageType
<1>5. \A t \in tasks' : t \in tasks \/ TaskType(t)
  <2>1. ConfirmRemoval => page.asked \in Requests
    BY <1>2, PageIs, RequestTypes DEF ConfirmRemoval
  <2>2. CASE ConfirmRemoval
    BY <2>1, <2>2, TaskTypes DEF ConfirmRemoval, Request
  <2>3. ~ConfirmRemoval => tasks' = tasks
    BY DEF AskToRemove
  <2> QED
    BY <2>2, <2>3
<1> QED
  BY <1>1, <1>2, <1>4, <1>5, ClickTyped

\* or cancelling it.
LEMMA TypeCancelRemoval == ASSUME TypeInv, CancelRemoval PROVE TypeInv'
<1>1. page' \in PageType /\ page'.picker = page.picker /\ page'.covers = page.covers
  BY PageIs DEF CancelRemoval, TypeInv, PageType
<1> QED
  BY <1>1 DEF CancelRemoval, TypeInv, order, bounds

\* Opening the picker and what is done in it keeps the types,
LEMMA TypePicker ==
    ASSUME TypeInv, (\E c \in Contents : OpenThumbnailPicker(c))
                    \/ (\E n \in Pages : ThumbnailPageSelected(n) \/ ThumbnailPageScrubbed(n))
                    \/ ThumbnailTrimToggled
    PROVE  TypeInv'
<1>1. Change \/ PickerClick \/ (\E alone \in BOOLEAN : Click(alone))
  BY DEF OpenThumbnailPicker, ThumbnailPageSelected, ThumbnailPageScrubbed, ThumbnailTrimToggled
<1>2. page # None /\ page \in PageType /\ chosen' = chosen
  BY <1>1, Clicked DEF OpenThumbnailPicker, ThumbnailPageSelected, ThumbnailPageScrubbed,
                       ThumbnailTrimToggled, PickerClick
<1>3. page.covers \in Covers
  BY <1>2, PageIs DEF TypeInv, OpenThumbnailPicker, ThumbnailPageSelected, ThumbnailPageScrubbed,
                      ThumbnailTrimToggled, PickerClick
<1>4. \E x \in Pickers : page' = [page EXCEPT !.picker = x]
  <2>1. CASE \E c \in Contents : OpenThumbnailPicker(c)
    BY <2>1 DEF OpenThumbnailPicker, Pickers
  <2>2. CASE \E n \in Pages : ThumbnailPageSelected(n) \/ ThumbnailPageScrubbed(n)
    <3>1. PICK n \in Pages : ThumbnailPageSelected(n) \/ ThumbnailPageScrubbed(n)
      BY <2>2
    <3>2. page.picker \in Pickers
      BY <3>1, <1>2, PageIs DEF ThumbnailPageSelected, ThumbnailPageScrubbed, PickerClick
    <3>3. page' = [page EXCEPT !.picker = [page.picker EXCEPT !.page = n]]
      BY <3>1 DEF ThumbnailPageSelected, ThumbnailPageScrubbed
    <3> QED
      BY <3>2, <3>3, PickersAre
  <2>3. CASE ThumbnailTrimToggled
    <3>1. page.picker \in Pickers
      BY <2>3, <1>2, PageIs DEF ThumbnailTrimToggled, PickerClick
    <3>2. page' = [page EXCEPT !.picker = [page.picker EXCEPT !.trim = ~@]]
      BY <2>3 DEF ThumbnailTrimToggled
    <3>3. [page.picker EXCEPT !.trim = ~@] \in Pickers
      BY <3>1 DEF Pickers
    <3> QED
      BY <3>2, <3>3
  <2> QED
    BY <2>1, <2>2, <2>3
<1>5. page' \in PageType /\ page'.covers = page.covers /\ page'.picker \in Pickers
  BY <1>2, <1>4, PageIs DEF PageType
<1>6. \A t \in tasks' : t \in tasks \/ TaskType(t)
  <2>1. CASE \E c \in Contents : OpenThumbnailPicker(c)
    BY <2>1, TaskTypes DEF OpenThumbnailPicker
  <2>2. CASE \E n \in Pages : ThumbnailPageSelected(n)
    BY <2>2, <1>5, LoadTyped DEF ThumbnailPageSelected
  <2>3. CASE \E n \in Pages : ThumbnailPageScrubbed(n)
    BY <2>3, TaskTypes DEF ThumbnailPageScrubbed
  <2>4. CASE ThumbnailTrimToggled
    BY <2>4, <1>5, LoadTyped, PickersAre DEF ThumbnailTrimToggled
  <2> QED
    BY <2>1, <2>2, <2>3, <2>4
<1> QED
  BY <1>1, <1>2, <1>3, <1>5, <1>6, ClickTyped DEF TypeInv

\* cancelling it as well,
LEMMA TypeCancelPicker == ASSUME TypeInv, CancelThumbnailPicker PROVE TypeInv'
<1>1. page' \in PageType /\ page'.picker = None
  BY PageIs, Clicked DEF CancelThumbnailPicker, PageType
<1> QED
  BY <1>1, ClickTyped DEF CancelThumbnailPicker, PickerClick, TypeInv

\* and saving the thumbnail.
LEMMA TypeSaveThumbnail == ASSUME TypeInv, SaveThumbnail PROVE TypeInv'
<1>1. page # None /\ page \in PageType /\ page.picker \in Pickers /\ page.covers \in Covers
  BY PageIs DEF SaveThumbnail, TypeInv
<1>2. page' = [page EXCEPT !.picker = [page.picker EXCEPT !.saving = TRUE]]
  BY DEF SaveThumbnail
<1>3. page' \in PageType /\ page'.covers = page.covers
  <2>1. [page.picker EXCEPT !.saving = TRUE] \in Pickers
    BY <1>1, PickersAre
  <2> QED
    BY <1>1, <1>2, <2>1, PageIs DEF PageType
<1>4. \A t \in tasks' : TaskType(t)
  <2>1. [is |-> "thumbnail", view |-> Pick(page.picker)] \in Requests
    BY <1>1, PickersAre, RequestTypes
  <2> QED
    BY <2>1, TaskTypes DEF SaveThumbnail, Request, TypeInv
<1>5. chosen' \in Contents
  BY <1>1, PickersAre DEF SaveThumbnail
<1>7. UNCHANGED <<library, images, row, cache, panicked>>
      /\ changes' \in 0..MaxChanges /\ steps' \in 0..MaxSteps
  BY BoundsAssumption DEF SaveThumbnail, Bounded, TypeInv
<1>6. calm' \in BOOLEAN /\ apart' \in BOOLEAN
  BY DEF SaveThumbnail, TypeInv
<1> QED
  BY <1>1, <1>3, <1>4, <1>5, <1>6, <1>7 DEF TypeInv

\* A page is opened for a row of the list, and closed.
LEMMA TypeOpenClose == ASSUME TypeInv, Open \/ Close PROVE TypeInv'
<1>1. Open => /\ row \in Documents /\ DOMAIN row.contents \subseteq Contents /\ row.meta \in Meta
              /\ AllTags(row) \subseteq Tags
  BY DocumentIs, TagsAre DEF TypeInv, Open, Listed
<1>2. CASE Open
  <2>1. page' \in PageType /\ page'.picker = None
    BY <1>1, <1>2 DEF Open, NewPage, PageType
  <2>2. \A t \in tasks' : TaskType(t)
    BY <1>1, <1>2, TaskTypes DEF Open, TypeInv
  <2>3. calm' \in BOOLEAN /\ apart' \in BOOLEAN
    BY <1>2 DEF Open, TypeInv
  <2> QED
    BY <1>2, <2>1, <2>2, <2>3 DEF Open, TypeInv, bounds
<1>3. CASE Close
  BY <1>3 DEF Close, TypeInv, order, bounds
<1> QED
  BY <1>2, <1>3

\* The library with other tags or another status has the same contents.
Retagged == /\ library' \in Documents /\ DOMAIN library'.contents = DOMAIN library.contents
            /\ library'.meta = library.meta

\* Contents with a tag or without it, and with a status, are contents.
LEMMA ContentsTagged ==
    ASSUME NEW contents, DOMAIN contents \subseteq Contents, contents \in [DOMAIN contents -> Content]
    PROVE  /\ \A tag \in Tags : \A add \in BOOLEAN : Tagged(contents, tag, add) \in [DOMAIN contents -> Content]
           /\ \A read \in BOOLEAN : Read(contents, read) \in [DOMAIN contents -> Content]
<1>1. ASSUME NEW tag \in Tags, NEW add \in BOOLEAN
      PROVE  Tagged(contents, tag, add) \in [DOMAIN contents -> Content]
  <2>1. \A k \in Content : [k EXCEPT !.tags = IF add THEN @ \cup {tag} ELSE @ \ {tag}] \in Content
    BY DEF Content
  <2> QED
    BY <2>1 DEF Tagged
<1>2. ASSUME NEW read \in BOOLEAN
      PROVE  Read(contents, read) \in [DOMAIN contents -> Content]
  BY ReadChanged DEF Read
<1> QED
  BY <1>1, <1>2

\* Changes elsewhere are of tags or of a status.
LEMMA ElsewhereRetags == ASSUME TypeInv, ChangedElsewhere PROVE Retagged
<1>0. library \in Documents
  BY DEF TypeInv
<1>1. ASSUME NEW tag \in Tags, NEW add \in BOOLEAN,
             library' = [library EXCEPT !.contents = Tagged(@, tag, add)]
      PROVE  Retagged
  <2>1. Tagged(library.contents, tag, add) \in [DOMAIN library.contents -> Content]
        /\ DOMAIN library.contents \in SUBSET Contents
    BY <1>0, DocumentIs, ContentsTagged
  <2>2. library' = [meta |-> library.meta, contents |-> Tagged(library.contents, tag, add)]
        /\ library' \in Documents
    BY <1>0, <1>1, <2>1, LibraryIs
  <2> QED
    BY <2>1, <2>2 DEF Retagged
<1>2. ASSUME NEW c \in DOMAIN library.contents, NEW read \in BOOLEAN,
             library' = [library EXCEPT !.contents[c].read = read]
      PROVE  Retagged
  <2>1. library' = [library EXCEPT !.contents[c] = [library.contents[c] EXCEPT !.read = read]]
    BY <1>2
  <2>2. [library.contents[c] EXCEPT !.read = read] \in Content
    BY <1>0, DocumentIs, ReadChanged
  <2> QED
    BY <1>0, <2>1, <2>2, ContentChanged DEF Retagged
<1> QED
  BY <1>1, <1>2 DEF ChangedElsewhere

\* They keep the types.
LEMMA TypeElsewhere == ASSUME TypeInv, ChangedElsewhere PROVE TypeInv'
<1>1. \A t \in tasks' : TaskType(t)
  BY TaskTypes DEF ChangedElsewhere, TypeInv
<1>2. changes' \in 0..MaxChanges /\ steps' \in 0..MaxSteps
  BY BoundsAssumption DEF ChangedElsewhere, Bounded, TypeInv
<1>3. calm' \in BOOLEAN /\ apart' \in BOOLEAN
  BY DEF ChangedElsewhere, TypeInv
<1> QED
  BY <1>1, <1>2, <1>3, ElsewhereRetags DEF ChangedElsewhere, Retagged, TypeInv

\* What a request or a read that goes on does whatever it is for.
LEMMA Worked ==
    ASSUME TypeInv, NEW t, Work(t), Works \/ Fail
    PROVE  /\ ~panicked /\ t \in tasks /\ TaskType(t)
           /\ row' = row /\ page' = page /\ panicked' = panicked /\ chosen' = chosen
           /\ changes' \in 0..MaxChanges /\ steps' \in 0..MaxSteps
           /\ calm' = calm /\ apart' \in BOOLEAN
           /\ apart' => apart /\ ~Fail
<1>1. changes' \in 0..MaxChanges /\ steps' \in 0..MaxSteps
  BY BoundsAssumption DEF TypeInv, Works, Fail, bounds, Bounded
<1>2. calm' = calm /\ apart' \in BOOLEAN
  BY DEF TypeInv, Works, Fail, order
<1>3. apart' => apart /\ ~Fail
  BY DEF Works, Fail, order
<1> QED
  BY <1>1, <1>2, <1>3 DEF TypeInv, Work

\* It keeps the types when what it writes and the tasks have theirs.
LEMMA WorkTyped ==
    ASSUME TypeInv, NEW t, Work(t), Works \/ Fail, library' \in Documents, images' \in Covers,
           cache' \in {None, cache}, DOMAIN library'.contents \subseteq DOMAIN images',
           \A u \in tasks' : u \in tasks \/ TaskType(u)
    PROVE  TypeInv'
<1>1. \A u \in tasks' : TaskType(u)
  BY DEF TypeInv
<1> QED
  BY <1>1, Worked DEF TypeInv

\* What the contents of a request get, one after the other.
LEMMA EachRetags ==
    ASSUME TypeInv, NEW t, TagContents(t) \/ UpdateStatuses(t)
    PROVE  /\ Retagged /\ images' = images /\ cache' \in {None, cache}
           /\ Work(t) /\ (Works \/ Fail)
           /\ \E c : \E told \in {{}, {[do |-> "expired"]}} :
                 /\ tasks' = (tasks \ {t}) \cup {[t EXCEPT !.what.left = @ \ {c}]} \cup told
                 /\ t.what.is # "status" => told = {}
           /\ t.do = "request" /\ t.what.is \in {"tag", "status"}
<1>1. library \in Documents /\ TaskType(t) /\ t.do = "request" /\ t.what.is \in {"tag", "status"}
      /\ DOMAIN library.contents \subseteq Contents /\ library.contents \in [DOMAIN library.contents -> Content]
  BY DocumentIs DEF TypeInv, TagContents, UpdateStatuses, Work
<1>2. \E new \in [DOMAIN library.contents -> Content] : \E told \in {{}, {[do |-> "expired"]}} :
          EachContent(t, new, told) /\ (t.what.is # "status" => told = {})
  <2>1. CASE TagContents(t)
    <3>1. Tagged(library.contents, t.what.tag, t.what.add) \in [DOMAIN library.contents -> Content]
      BY <1>1, <2>1, ContentsTagged, RequestsAre DEF TagContents, TaskType
    <3> QED
      BY <2>1, <3>1 DEF TagContents
  <2>2. CASE UpdateStatuses(t)
    <3>1. Read(library.contents, t.what.read) \in [DOMAIN library.contents -> Content]
      BY <1>1, <2>2, ContentsTagged, RequestsAre DEF UpdateStatuses, TaskType
    <3> QED
      BY <2>2, <3>1 DEF UpdateStatuses
  <2> QED
    BY <2>1, <2>2
<1>3. PICK new \in [DOMAIN library.contents -> Content], told \in {{}, {[do |-> "expired"]}} :
          EachContent(t, new, told) /\ (t.what.is # "status" => told = {})
  BY <1>2
<1>4. PICK c \in t.what.left :
       /\ tasks' = (tasks \ {t}) \cup {[t EXCEPT !.what.left = @ \ {c}]} \cup told
       /\ \/ /\ library' = IF c \in DOMAIN library.contents
                           THEN [library EXCEPT !.contents[c] = new[c]] ELSE library
             /\ Works
          \/ Fail /\ UNCHANGED library
       /\ UNCHANGED images
  BY <1>3 DEF EachContent
<1>5. Retagged
  <2>1. library' = library => Retagged
    BY <1>1 DEF Retagged
  <2>2. ASSUME c \in DOMAIN library.contents, library' = [library EXCEPT !.contents[c] = new[c]]
        PROVE  Retagged
    <3>1. new[c] \in Content
      BY <2>2
    <3> QED
      BY <1>1, <2>2, <3>1, ContentChanged DEF Retagged
  <2> QED
    BY <1>4, <2>1, <2>2
<1>6. Work(t) /\ cache' \in {None, cache}
  BY DEF TagContents, UpdateStatuses
<1> QED
  BY <1>1, <1>3, <1>4, <1>5, <1>6

\* The next content of a request for several keeps the types.
LEMMA TypeEach == ASSUME TypeInv, NEW t, TagContents(t) \/ UpdateStatuses(t) PROVE TypeInv'
<1>1. t \in [do : {"request"}, what : Requests]
  BY EachRetags DEF TypeInv, TaskType, Work
<1>2. PICK c : \E told \in {{}, {[do |-> "expired"]}} :
          /\ tasks' = (tasks \ {t}) \cup {[t EXCEPT !.what.left = @ \ {c}]} \cup told
          /\ t.what.is # "status" => told = {}
  BY EachRetags
<1>3. TaskType([t EXCEPT !.what.left = @ \ {c}])
  BY <1>1, EachRetags, LeftIs DEF TaskType
<1>4. \A u \in tasks' : u \in tasks \/ TaskType(u)
  BY <1>2, <1>3, TaskTypes
<1> QED
  BY <1>4, EachRetags, WorkTyped DEF Retagged, TypeInv

\* An answer to a request is one to what was asked.
LEMMA AnswerTyped ==
    ASSUME TypeInv, NEW t \in tasks, t.do = "request", NEW ok \in BOOLEAN, Answered(t, ok)
    PROVE  cache' = None /\ \A u \in tasks' : u \in tasks \/ TaskType(u)
<1>1. t.what \in Requests
  BY DEF TypeInv, TaskType
<1> QED
  BY <1>1, TaskTypes DEF Answered

\* What a function without a value has.
LEMMA WithoutIs ==
    ASSUME NEW f, NEW c
    PROVE  /\ DOMAIN Without(f, c) = DOMAIN f \ {c}
           /\ \A d \in DOMAIN f \ {c} : Without(f, c)[d] = f[d]
  BY DEF Without

\* What the source does for a request that is then answered keeps the types.
LEMMA TypeRequests ==
    ASSUME TypeInv, NEW t, AllContentsDone(t) \/ UpdateDocumentMetadata(t) \/ RemoveContent(t)
                           \/ DeleteSource(t) \/ SetPageThumbnail(t)
    PROVE  TypeInv'
<1>1. Work(t) /\ t \in tasks /\ t.do = "request" /\ (Works \/ Fail)
  BY DEF AllContentsDone, UpdateDocumentMetadata, RemoveContent, DeleteSource, SetPageThumbnail,
         Work
<1>2. cache' = None /\ \A u \in tasks' : u \in tasks \/ TaskType(u)
  <2>1. \E ok \in BOOLEAN : Answered(t, ok)
    BY DEF AllContentsDone, UpdateDocumentMetadata, RemoveContent, DeleteSource, SetPageThumbnail
  <2> QED
    BY <1>1, <2>1, AnswerTyped
<1>3. t \in [do : {"request"}, what : Requests]
  BY <1>1 DEF TypeInv, TaskType
<1>4. library \in Documents /\ images \in Covers /\ DOMAIN library.contents \subseteq DOMAIN images
      /\ DOMAIN library.contents \subseteq Contents
      /\ library.contents \in [DOMAIN library.contents -> Content]
      /\ DOMAIN images \subseteq Contents /\ images \in [DOMAIN images -> Picture]
      /\ library.meta \in Meta
  BY DocumentIs, CoversAre DEF TypeInv
<1>5. library' \in Documents /\ images' \in Covers /\ DOMAIN library'.contents \subseteq DOMAIN images'
  <2>1. CASE AllContentsDone(t)
    BY <1>4, <2>1 DEF AllContentsDone
  <2>2. CASE UpdateDocumentMetadata(t)
    <3>1. t.what.meta \in Meta
      BY <1>3, <2>2, RequestsAre DEF UpdateDocumentMetadata
    <3>2. library' = library \/ library' = [library EXCEPT !.meta = t.what.meta]
      BY <2>2 DEF UpdateDocumentMetadata
    <3>3. library' \in Documents /\ library'.contents = library.contents
      <4>1. CASE library' = [library EXCEPT !.meta = t.what.meta]
        <5>1. library' \in Documents /\ library' = [meta |-> t.what.meta, contents |-> library.contents]
          BY <1>4, <3>1, <4>1, LibraryIs
        <5> QED
          BY <5>1
      <4> QED
        BY <1>4, <3>2, <4>1
    <3> QED
      BY <1>4, <2>2, <3>3 DEF UpdateDocumentMetadata
  <2>3. CASE RemoveContent(t)
    <3> DEFINE c == t.what.content
               m == [library.meta EXCEPT !.cover = IF @ = c THEN None ELSE @]
    <3>1. CASE library' = library /\ images' = images
      BY <1>4, <3>1
    <3>2. CASE /\ library' = [meta |-> m, contents |-> Without(library.contents, c)]
               /\ images' = Without(images, c)
      <4>1. m \in Meta
        <5>1. (IF library.meta.cover = c THEN None ELSE library.meta.cover) \in Contents \cup {None}
          BY <1>4 DEF Meta
        <5> QED
          BY <1>4, <5>1, MetaIs
      <4>2. /\ Without(library.contents, c) \in [DOMAIN library.contents \ {c} -> Content]
            /\ Without(images, c) \in [DOMAIN images \ {c} -> Picture]
        BY <1>4 DEF Without
      <4>3. library' \in Documents
        BY <1>4, <3>2, <4>1, <4>2, DocumentIs
      <4>4. images' \in Covers
        BY <1>4, <3>2, <4>2, CoversAre
      <4>5. DOMAIN library'.contents = DOMAIN library.contents \ {c} /\ DOMAIN images' = DOMAIN images \ {c}
        BY <3>2, WithoutIs
      <4> QED
        BY <1>4, <4>3, <4>4, <4>5
    <3> QED
      BY <2>3, <3>1, <3>2 DEF RemoveContent
  <2>4. CASE DeleteSource(t)
    <3> DEFINE c == t.what.content
    <3>1. CASE library' = library
      BY <1>4, <2>4, <3>1 DEF DeleteSource
    <3>2. CASE library' = [library EXCEPT !.contents = Without(@, c)]
      <4>1. Without(library.contents, c) \in [DOMAIN library.contents \ {c} -> Content]
        BY <1>4 DEF Without
      <4>2. DOMAIN library.contents \ {c} \in SUBSET Contents
        BY <1>4
      <4>3. library' \in Documents /\ library' = [meta |-> library.meta, contents |-> Without(library.contents, c)]
        BY <1>4, <3>2, <4>1, <4>2, LibraryIs
      <4>4. DOMAIN library'.contents = DOMAIN library.contents \ {c} /\ images' = images
        BY <2>4, <4>3, WithoutIs DEF DeleteSource
      <4> QED
        BY <1>4, <4>3, <4>4
    <3> QED
      BY <2>4, <3>1, <3>2 DEF DeleteSource
  <2>5. CASE SetPageThumbnail(t)
    <3>1. t.what.view \in View /\ t.what.view \in Picture /\ t.what.view.content \in Contents
      BY <1>3, <2>5, RequestsAre DEF SetPageThumbnail, View, Picture
    <3>2. images' \in Covers /\ DOMAIN images' = DOMAIN images
      <4>1. images' = images \/ images' = [images EXCEPT ![t.what.view.content] = t.what.view]
        BY <2>5 DEF SetPageThumbnail
      <4>2. images' \in [DOMAIN images -> Picture]
        BY <1>4, <3>1, <4>1
      <4> QED
        BY <1>4, <4>2, CoversAre
    <3>3. library' \in Documents /\ library'.contents = library.contents
      <4>1. library' = library \/ library' = [library EXCEPT !.meta.cover = t.what.view.content]
        BY <2>5 DEF SetPageThumbnail
      <4>2. CASE library' = [library EXCEPT !.meta.cover = t.what.view.content]
        BY <1>4, <3>1, <4>2, LibraryIs
      <4> QED
        BY <1>4, <4>1, <4>2
    <3> QED
      BY <1>4, <3>2, <3>3
  <2> QED
    BY <2>1, <2>2, <2>3, <2>4, <2>5
<1> QED
  BY <1>1, <1>2, <1>5, WorkTyped

\* What a message for the page does whatever it is.
LEMMA Handled ==
    ASSUME TypeInv, NEW t, Handle(t)
    PROVE  /\ ~panicked /\ t \in tasks /\ TaskType(t)
           /\ library' = library /\ images' = images /\ cache' = cache /\ chosen' = chosen
           /\ calm' = calm /\ apart' = apart /\ changes' = changes /\ steps' = steps
  BY DEF TypeInv, Handle, bounds, order

\* A message leaves the types right when page, list and new tasks have theirs.
LEMMA HandleTyped ==
    ASSUME TypeInv, NEW t, Handle(t), panicked' \in BOOLEAN, PageOk', row' \in Documents \cup {None},
           \A u \in tasks' : u \in tasks \/ TaskType(u)
    PROVE  TypeInv'
<1>1. \A u \in tasks' : TaskType(u)
  BY DEF TypeInv
<1> QED
  BY <1>1, Handled DEF TypeInv, PageOk

\* A document with fewer contents is a document.
LEMMA RestrictedIs ==
    ASSUME NEW d \in Documents, NEW C \in SUBSET DOMAIN d.contents
    PROVE  /\ Restricted(d, C) \in Documents
           /\ Restricted(d, C).meta = d.meta /\ DOMAIN Restricted(d, C).contents = C
           /\ C = DOMAIN d.contents => Restricted(d, C) = d
<1> DEFINE f == [c \in C |-> d.contents[c]]
<1>1. d = [meta |-> d.meta, contents |-> d.contents] /\ d.meta \in Meta
      /\ DOMAIN d.contents \subseteq Contents /\ d.contents \in [DOMAIN d.contents -> Content]
  BY DocumentIs
<1>2. Restricted(d, C) = [meta |-> d.meta, contents |-> f]
  BY <1>1 DEF Restricted
<1>3. f \in [C -> Content] /\ C \in SUBSET Contents
  BY <1>1
<1>4. C = DOMAIN d.contents => f = d.contents
  BY <1>1
<1> HIDE DEF f
<1>5. [meta |-> d.meta, contents |-> f] \in Documents
  BY <1>1, <1>3, DocumentIs
<1>6. DOMAIN f = C
  BY <1>3
<1> QED
  BY <1>1, <1>2, <1>4, <1>5, <1>6

\* The histories and the counters have their types.
Typed == /\ calm \in BOOLEAN /\ apart \in BOOLEAN
         /\ changes \in 0..MaxChanges /\ steps \in 0..MaxSteps

\* An answer that is whole or one that is not keeps them, and does not bring back
\* what is not calm or apart any more.
LEMMA AnsweredOr ==
    ASSUME TypeInv, \/ Missed
                    \/ /\ \E doc : calm' = (calm /\ (Exists => Agrees(doc)))
                       /\ UNCHANGED <<bounds, apart>>
    PROVE  Typed' /\ (calm' => calm) /\ (apart' => apart)
<1>1. CASE Missed
  <2>1. calm' = FALSE /\ apart' = FALSE /\ changes' = changes
    BY <1>1 DEF Missed
  <2>2. steps' \in 0..MaxSteps
    BY <1>1, BoundsAssumption DEF Missed, Bounded, TypeInv
  <2> QED
    BY <2>1, <2>2 DEF TypeInv, Typed
<1>2. CASE (\E doc : calm' = (calm /\ (Exists => Agrees(doc)))) /\ UNCHANGED <<bounds, apart>>
  <2>1. PICK doc : calm' = (calm /\ (Exists => Agrees(doc)))
    BY <1>2
  <2>2. calm' \in BOOLEAN /\ (calm' => calm)
    BY <2>1, Zenon DEF TypeInv
  <2>3. bounds' = bounds /\ apart' = apart
    BY <1>2
  <2> QED
    BY <2>2, <2>3 DEF TypeInv, Typed, bounds
<1> QED
  BY <1>1, <1>2

\* Reading covers, the document, the list, the page count and a preview keeps the
\* types.
LEMMA TypeReads ==
    ASSUME TypeInv, NEW t, ReadCovers(t) \/ GetSingleDocument(t) \/ Fetch(t) \/ CountPages(t) \/ RenderPreview(t)
    PROVE  TypeInv'
<1>0. t \in tasks /\ Work(t) /\ UNCHANGED <<library, images>> /\ TaskType(t)
  BY DEF ReadCovers, GetSingleDocument, Fetch, CountPages, RenderPreview, Work, TypeInv
<1>1. CASE ReadCovers(t)
  <2>1. Works \/ Fail
    BY <1>1 DEF ReadCovers
  <2>2. PICK found \in {t.of \cap DOMAIN images, {}} :
          tasks' = (tasks \ {t}) \cup {[do |-> "covers-loaded", covers |-> [c \in found |-> images[c]]]}
    BY <1>1 DEF ReadCovers
  <2>3. [c \in found |-> images[c]] \in Covers
    BY <2>2, CoversAre DEF TypeInv
  <2>4. \A u \in tasks' : u \in tasks \/ TaskType(u)
    BY <2>2, <2>3, TaskTypes
  <2> QED
    BY <1>0, <1>1, <2>1, <2>4, WorkTyped DEF ReadCovers, TypeInv
<1>2. CASE GetSingleDocument(t)
  <2>1. \A u \in tasks' : TaskType(u)
    <3>1. PICK C \in SUBSET DOMAIN library.contents :
             tasks' = (tasks \ {t}) \cup
                {[do |-> "refreshed", doc |-> IF C = {} THEN None ELSE Restricted(library, C)]}
      BY <1>2 DEF GetSingleDocument
    <3>2. Restricted(library, C) \in Documents
      BY RestrictedIs DEF TypeInv
    <3> QED
      BY <3>1, <3>2, TaskTypes DEF TypeInv
  <2>2. Typed'
    BY <1>2, BoundsAssumption, AnsweredOr DEF GetSingleDocument
  <2> QED
    BY <1>0, <1>2, <2>1, <2>2 DEF GetSingleDocument, Work, TypeInv, Typed
<1>3. CASE CountPages(t)
  BY <1>0, <1>3, TaskTypes, WorkTyped DEF CountPages, TypeInv
<1>4. CASE RenderPreview(t)
  <2>1. t.view \in View
    BY <1>0, <1>4 DEF RenderPreview, TaskType
  <2> QED
    BY <1>0, <1>4, <2>1, TaskTypes, WorkTyped DEF RenderPreview, TypeInv
<1>5. CASE Fetch(t)
  <2>1. cache' \in Documents
    <3>1. library \in Documents /\ Restricted(library, {}) \in Documents
      BY RestrictedIs DEF TypeInv
    <3>2. \A title \in Titles : [library EXCEPT !.meta = [title |-> title, cover |-> None]] \in Documents
      BY <3>1, LibraryIs DEF Meta
    <3> QED
      BY <1>5, <3>1, <3>2 DEF Fetch, Answers, TypeInv
  <2>2. \A u \in tasks' : TaskType(u)
    BY <1>5, <2>1, TaskTypes DEF Fetch, TypeInv
  <2>3. Typed'
    BY <1>5, AnsweredOr DEF Fetch
  <2> QED
    BY <1>0, <2>1, <2>2, <2>3 DEF Work, TypeInv, Typed
<1> QED
  BY <1>1, <1>2, <1>3, <1>4, <1>5

\* Messages that leave the page alone or close it keep the types,
LEMMA TypeAnswers ==
    ASSUME TypeInv, NEW t, Panic(t) \/ Refresh(t) \/ RefreshDocument(t) \/ RequestAnswered(t)
                           \/ LoadArchive(t) \/ Loaded(t) \/ RowRefreshed(t)
                           \/ FormatRemoved(t) \/ ThumbnailFailed(t)
    PROVE  TypeInv'
<1>1. Handle(t)
  BY DEF Panic, Refresh, RefreshDocument, RequestAnswered, LoadArchive, Loaded, RowRefreshed,
         FormatRemoved, ThumbnailFailed, Delivered
<1>2. panicked' \in BOOLEAN
  BY <1>1
     DEF Panic, Refresh, RefreshDocument, RequestAnswered, LoadArchive, Loaded, RowRefreshed,
         FormatRemoved, ThumbnailFailed, Delivered, TypeInv
<1>3. \A u \in tasks' : u \in tasks \/ TaskType(u)
  <2>1. CASE FormatRemoved(t)
    <3>1. page # None /\ page.doc \in Documents
      BY <2>1, PageIs DEF FormatRemoved, Delivered, TypeInv
    <3>2. \A u \in tasks' : \/ u \in tasks \/ u = [do |-> "refresh"]
                            \/ u = [do |-> "row-of-format", doc |-> page.doc]
      BY <2>1 DEF FormatRemoved, RefreshMessage
    <3> QED
      BY <3>1, <3>2, TaskTypes
  <2>2. CASE ~FormatRemoved(t)
    <3>1. \A u \in tasks' : u \in tasks \/ \E k \in {"refresh", "read", "load", "fetch"} : u = [do |-> k]
      BY <2>2
         DEF Panic, Refresh, RefreshDocument, RequestAnswered, LoadArchive, Loaded,
             RowRefreshed, ThumbnailFailed, RefreshMessage
    <3> QED
      BY <3>1, TaskTypes
  <2> QED
    BY <2>1, <2>2
<1>4. PageOk'
  BY <1>1, PageIs
     DEF Panic, Refresh, RefreshDocument, RequestAnswered, LoadArchive, Loaded, RowRefreshed,
         FormatRemoved, ThumbnailFailed, Delivered, TypeInv, PageOk
<1>5. row' \in Documents \cup {None}
  <2>1. TaskType(t)
    BY <1>1, Handled
  <2>2. CASE Loaded(t)
    BY <2>1, <2>2 DEF Loaded, TaskType
  <2>3. CASE RowRefreshed(t)
    BY <2>1, <2>3 DEF RowRefreshed, TaskType, TypeInv
  <2>4. CASE ~Loaded(t) /\ ~RowRefreshed(t)
    BY <2>4
       DEF Panic, Refresh, RefreshDocument, RequestAnswered, LoadArchive, FormatRemoved,
           ThumbnailFailed, TypeInv
  <2> QED
    BY <2>2, <2>3, <2>4
<1> QED
  BY <1>1, <1>2, <1>3, <1>4, <1>5, HandleTyped

\* The page with the thumbnail that was made in its picker.
LEMMA ShownIs ==
    ASSUME page \in PageType, page.covers \in Covers, page.picker \in Pickers, page.picker.preview # None
    PROVE  LET p == page.picker
               shown == ShowThumbnail(p)
           IN  /\ shown \in PageType /\ shown.picker = None
               /\ shown.covers = Covered(page.covers, p)
               /\ shown.doc = [page.doc EXCEPT !.meta.cover = p.content]
               /\ shown.draft = [page.draft EXCEPT !.cover = p.content]
               /\ shown.tags = page.tags /\ shown.asked = page.asked
<1> DEFINE p == page.picker
           d == [page.doc EXCEPT !.meta.cover = p.content]
           m == [page.draft EXCEPT !.cover = p.content]
           cs == Covered(page.covers, p)
           shown == [page EXCEPT !.picker = None, !.covers = cs, !.doc = d, !.draft = m]
<1>1. p.content \in Contents /\ p.preview \in View
  BY PickersAre
<1>2. d \in Documents /\ m \in Meta
  BY <1>1, PageIs, DocIs, MetaIs
<1>3. cs \in Covers
  <2>1. cs \in [DOMAIN page.covers \cup {p.content} -> Picture]
    BY <1>1, CoversAre DEF Covered, Picture
  <2>2. DOMAIN page.covers \cup {p.content} \in SUBSET Contents
    BY <1>1, CoversAre
  <2> QED
    BY <2>1, <2>2, CoversAre
<1>4. ShowThumbnail(p) = shown
  BY DEF ShowThumbnail, PageType
<1> HIDE DEF d, m, cs
<1>5. shown \in PageType
  BY <1>2, <1>3, PageIs2
<1>6. shown.picker = None /\ shown.covers = cs /\ shown.doc = d /\ shown.draft = m
      /\ shown.tags = page.tags /\ shown.asked = page.asked
  BY DEF PageType
<1> QED
  BY <1>4, <1>5, <1>6 DEF d, m, cs

\* and those that change it.
LEMMA TypePage ==
    ASSUME TypeInv, NEW t, CoversLoaded(t) \/ DocumentRefreshed(t) \/ ThumbnailPageCountLoaded(t)
                           \/ ThumbnailReloadPreview(t) \/ ThumbnailBigPreviewLoaded(t) \/ ThumbnailSaved(t)
    PROVE  TypeInv'
<1>1. Handle(t)
  BY DEF CoversLoaded, DocumentRefreshed, ThumbnailPageCountLoaded, ThumbnailReloadPreview,
         ThumbnailBigPreviewLoaded, ThumbnailSaved, Delivered
<1>2. t \in tasks /\ TaskType(t) /\ (page # None => page \in PageType)
  BY <1>1, Handled DEF TypeInv
<1>3. CASE CoversLoaded(t)
  <2>1. t.covers \in Covers /\ page \in PageType
    BY <1>2, <1>3 DEF CoversLoaded, Delivered, TaskType
  <2>2. page' \in PageType /\ page'.covers = t.covers
    BY <1>3, <2>1, PageIs DEF CoversLoaded, PageType
  <2> QED
    BY <1>1, <1>3, <2>1, <2>2, HandleTyped DEF CoversLoaded, Delivered, PageOk, TypeInv
<1>4. CASE DocumentRefreshed(t)
  <2>1. CASE t.doc = None
    BY <1>1, <1>4, <2>1, HandleTyped DEF DocumentRefreshed, Delivered, PageOk, TypeInv
  <2>2. CASE t.doc # None
    <3>1. t.doc \in Documents /\ AllTags(t.doc) \subseteq Tags /\ page \in PageType
      BY <1>2, <1>4, <2>2, TagsAre DEF DocumentRefreshed, Delivered, TaskType
    <3>2. page' \in PageType
      <4>1. page' = [page EXCEPT !.doc = t.doc, !.tags = AllTags(t.doc)]
        BY <1>4, <2>2 DEF DocumentRefreshed, Refreshed
      <4> QED
        BY <3>1, <4>1, PageIs2
    <3>3. page'.picker = page.picker /\ page'.covers = page.covers
      BY <1>4, <2>2, <3>1 DEF DocumentRefreshed, Refreshed, PageType
    <3>4. \A u \in tasks' : u \in tasks \/ TaskType(u)
      BY <1>4, <2>2, <3>1, TaskTypes DEF DocumentRefreshed
    <3> QED
      BY <1>1, <1>4, <3>2, <3>3, <3>4, HandleTyped DEF DocumentRefreshed, Delivered, PageOk, TypeInv
  <2> QED
    BY <2>1, <2>2
<1>5. CASE ThumbnailPageCountLoaded(t)
  <2>1. page # None /\ page \in PageType /\ page.picker \in Pickers \cup {None}
    BY <1>2, <1>5, PageIs DEF ThumbnailPageCountLoaded, Delivered
  <2>2. PageOk' /\ page'.picker \in Pickers \cup {None}
    <3>1. CASE page.picker = None
      BY <1>5, <2>1, <3>1 DEF ThumbnailPageCountLoaded, PageOk, TypeInv
    <3>2. CASE page.picker # None
      <4>1. page' = [page EXCEPT !.picker = [page.picker EXCEPT !.counted = TRUE]]
        BY <1>5, <3>2 DEF ThumbnailPageCountLoaded
      <4>2. [page.picker EXCEPT !.counted = TRUE] \in Pickers
        BY <2>1, <3>2, PickersAre
      <4>3. page' \in PageType /\ page'.picker \in Pickers /\ page'.covers = page.covers
        BY <2>1, <4>1, <4>2, PageIs DEF PageType
      <4> QED
        BY <2>1, <3>2, <4>3 DEF PageOk, TypeInv
    <3> QED
      BY <3>1, <3>2
  <2>3. \A u \in tasks' : u \in tasks \/ TaskType(u)
    <3>1. LoadPreview(page'.picker, 0, tasks \ {t})
      BY <1>5 DEF ThumbnailPageCountLoaded
    <3> QED
      BY <2>2, <3>1, LoadTyped
  <2> QED
    BY <1>1, <1>5, <2>2, <2>3, HandleTyped DEF ThumbnailPageCountLoaded, Delivered, TypeInv
<1>6. CASE ThumbnailReloadPreview(t)
  <2>1. \A u \in tasks' : u \in tasks \/ TaskType(u)
    <3>1. CASE page = None
      BY <1>6, <3>1 DEF ThumbnailReloadPreview
    <3>2. CASE page # None
      <4>1. page.picker \in Pickers \cup {None} /\ (page.picker # None => page.picker.page \in Pages)
        BY <1>2, <3>2, PageIs, PickersAre
      <4>2. CASE page.picker = None
        BY <1>6, <3>2, <4>2 DEF ThumbnailReloadPreview, LoadPreview
      <4> QED
        BY <1>6, <3>2, <4>1, <4>2, LoadTyped DEF ThumbnailReloadPreview
    <3> QED
      BY <3>1, <3>2
  <2> QED
    BY <1>1, <1>6, <2>1, HandleTyped DEF ThumbnailReloadPreview, PageOk, TypeInv
<1>7. CASE ThumbnailBigPreviewLoaded(t)
  <2>1. page # None /\ page \in PageType /\ page.picker \in Pickers \cup {None} /\ t.view \in View
    BY <1>2, <1>7, PageIs DEF ThumbnailBigPreviewLoaded, Delivered, TaskType
  <2>2. PageOk'
    <3>1. CASE page' = page
      BY <3>1 DEF PageOk, TypeInv
    <3>2. CASE page' # page
      <4>1. page' = [page EXCEPT !.picker = [page.picker EXCEPT !.preview = t.view]] /\ page.picker # None
        BY <1>7, <3>2 DEF ThumbnailBigPreviewLoaded, Wanted
      <4>2. [page.picker EXCEPT !.preview = t.view] \in Pickers
        BY <2>1, <4>1, PickersAre
      <4>3. page' \in PageType /\ page'.picker \in Pickers /\ page'.covers = page.covers
        BY <2>1, <4>1, <4>2, PageIs DEF PageType
      <4> QED
        BY <2>1, <4>1, <4>3 DEF PageOk, TypeInv
    <3> QED
      BY <3>1, <3>2
  <2> QED
    BY <1>1, <1>7, <2>2, HandleTyped DEF ThumbnailBigPreviewLoaded, Delivered, TypeInv
<1>8. CASE ThumbnailSaved(t)
  <2>1. page # None /\ page \in PageType /\ page.picker \in Pickers \cup {None}
    BY <1>2, <1>8, PageIs DEF ThumbnailSaved, Delivered
  <2>2. PageOk'
    <3>1. CASE page' = page
      BY <3>1 DEF PageOk, TypeInv
    <3>2. CASE page.picker # None /\ page' = [page EXCEPT !.picker.saving = FALSE]
      <4>1. page' = [page EXCEPT !.picker = [page.picker EXCEPT !.saving = FALSE]]
        BY <3>2
      <4>2. [page.picker EXCEPT !.saving = FALSE] \in Pickers
        BY <2>1, <3>2, PickersAre
      <4>3. page' \in PageType /\ page'.picker \in Pickers /\ page'.covers = page.covers
        BY <2>1, <4>1, <4>2, PageIs DEF PageType
      <4> QED
        BY <2>1, <3>2, <4>3 DEF PageOk, TypeInv
    <3>3. CASE page' = [page EXCEPT !.picker = None]
      BY <2>1, <3>3, PageIs DEF PageOk, PageType
    <3>4. CASE page.picker # None /\ page.picker.preview # None /\ page' = ShowThumbnail(page.picker)
      BY <2>1, <3>4, ShownIs DEF PageOk, TypeInv
    <3> QED
      BY <1>8, <3>1, <3>2, <3>3, <3>4 DEF ThumbnailSaved
  <2> QED
    BY <1>1, <1>8, <2>2, HandleTyped DEF ThumbnailSaved, Delivered, TypeInv
<1> QED
  BY <1>3, <1>4, <1>5, <1>6, <1>7, <1>8

\* Every step keeps the types.
LEMMA TypeStep == ASSUME TypeInv, [Next]_vars PROVE TypeInv'
<1>1. CASE UNCHANGED vars
  BY <1>1 DEF TypeInv, vars, order, bounds
<1>2. CASE Uses
  BY <1>2, TypeSelectCover, TypeTagging, TypeStatus, TypeForm, TypeRemoval, TypeCancelRemoval,
     TypePicker, TypeCancelPicker, TypeSaveThumbnail, TypeOpenClose
     DEF Uses
<1>3. CASE ChangedElsewhere
  BY <1>3, TypeElsewhere
<1>4. ASSUME NEW t \in tasks, Message(t)
      PROVE  TypeInv'
  BY <1>4, TypeAnswers, TypePage DEF Message
<1>5. ASSUME NEW t \in tasks, Background(t)
      PROVE  TypeInv'
  BY <1>5, TypeEach, TypeRequests, TypeReads DEF Background
<1> QED
  BY <1>1, <1>2, <1>3, <1>4, <1>5 DEF Next

\* They are right in the beginning.
LEMMA TypeInit == ASSUME Init PROVE TypeInv
<1>1. PICK title \in Titles, cover \in Contents :
          library = [meta |-> [title |-> title, cover |-> cover],
                     contents |-> [c \in Contents |-> [tags |-> {}, read |-> FALSE]]]
  BY DEF Init
<1>2. library.meta \in Meta /\ library.contents \in [Contents -> Content]
  BY <1>1 DEF Meta, Content
<1>3. library \in Documents
  BY <1>1, <1>2, DocumentIs
<1>4. images \in Covers /\ DOMAIN images = Contents
  BY CoversAre DEF Init, Scanned, Picture
<1>5. chosen \in Contents
  BY <1>1 DEF Init
<1>6. changes \in 0..MaxChanges /\ steps \in 0..MaxSteps
  BY BoundsAssumption DEF Init
<1> QED
  BY <1>2, <1>3, <1>4, <1>5, <1>6 DEF Init, TypeInv

(***************************************************************************)
(* What the clicks do, by what they are for.                               *)
(***************************************************************************)
Changes ==
    \/ \E tag \in Tags : AddTag(tag) \/ RemoveTag(tag)
    \/ \E read \in BOOLEAN : UpdateReadingStatus(read)
    \/ SaveDocumentMeta
    \/ \E c \in Contents : SelectCover(c)
    \/ ConfirmRemoval

Picking ==
    \/ \E n \in Pages : ThumbnailPageSelected(n) \/ ThumbnailPageScrubbed(n)
    \/ ThumbnailTrimToggled \/ CancelThumbnailPicker

Forms ==
    \/ EditDocumentMeta \/ CancelDocumentMeta \/ \E title \in Titles : DocumentMetaChanged(title)
    \/ CancelRemoval \/ \E c \in Contents : \E what \in {"format", "copy"} : AskToRemove(what, c)

\* Every click is of one of these kinds.
LEMMA UsesAre ==
    ASSUME Uses
    PROVE  Changes \/ Picking \/ Forms \/ Open \/ Close \/ SaveThumbnail \/ (\E c \in Contents : OpenThumbnailPicker(c))
  BY DEF Uses, Changes, Picking, Forms

\* One makes a request, but not for a thumbnail, and leaves the picker alone.
LEMMA ChangesDo ==
    ASSUME TypeInv, Changes
    PROVE  /\ Change /\ page # None /\ page \in PageType
           /\ \E r : r.is # "thumbnail" /\ tasks' = tasks \cup {[do |-> "request", what |-> r]}
           /\ page'.picker = page.picker /\ page'.covers = page.covers
<1>1. Change
  BY DEF Changes, AddTag, RemoveTag, UpdateReadingStatus, SaveDocumentMeta, SelectCover,
         ConfirmRemoval
<1>2. page # None /\ page \in PageType
  BY <1>1, Clicked
<1>3. page'.picker = page.picker /\ page'.covers = page.covers
  BY <1>2
     DEF Changes, AddTag, RemoveTag, UpdateReadingStatus, SaveDocumentMeta, SelectCover,
         ConfirmRemoval, PageType
<1>5. PICK r : r.is # "thumbnail" /\ tasks' = tasks \cup {[do |-> "request", what |-> r]}
  <2>1. ConfirmRemoval => page.asked \in Removals
    BY <1>2, PageIs DEF ConfirmRemoval
  <2> QED
    BY <2>1
       DEF Changes, AddTag, RemoveTag, UpdateReadingStatus, SaveDocumentMeta, SelectCover,
           ConfirmRemoval, Request, Removals
<1> QED
  BY <1>1, <1>2, <1>3, <1>5

\* One in the picker may have something rendered.
LEMMA PickingDo ==
    ASSUME TypeInv, Picking
    PROVE  /\ PickerClick /\ page # None /\ page \in PageType
           /\ chosen' = chosen
           /\ \E p \in Pickers \cup {None} : page' = [page EXCEPT !.picker = p]
           /\ tasks \subseteq tasks' /\ \A u \in tasks' : u \in tasks \/ u.do \in {"render", "release"}
<1>1. PickerClick
  BY DEF Picking, ThumbnailPageSelected, ThumbnailPageScrubbed, ThumbnailTrimToggled,
         CancelThumbnailPicker
<1>2. page # None /\ page \in PageType /\ page.picker \in Pickers /\ chosen' = chosen
  BY <1>1, Clicked, PageIs DEF PickerClick
<1>3. \E p \in Pickers \cup {None} : page' = [page EXCEPT !.picker = p]
  <2>1. ASSUME NEW n \in Pages, ThumbnailPageSelected(n) \/ ThumbnailPageScrubbed(n)
        PROVE  page' = [page EXCEPT !.picker = [page.picker EXCEPT !.page = n]]
    BY <2>1 DEF ThumbnailPageSelected, ThumbnailPageScrubbed
  <2>2. ThumbnailTrimToggled => page' = [page EXCEPT !.picker = [page.picker EXCEPT !.trim = ~@]]
    BY DEF ThumbnailTrimToggled
  <2>3. [page.picker EXCEPT !.trim = ~@] \in Pickers
    BY <1>2 DEF Pickers
  <2>4. CancelThumbnailPicker => page' = [page EXCEPT !.picker = None]
    BY DEF CancelThumbnailPicker
  <2> QED
    BY <1>2, <2>1, <2>2, <2>3, <2>4, PickersAre DEF Picking
<1>4. tasks \subseteq tasks' /\ \A u \in tasks' : u \in tasks \/ u.do \in {"render", "release"}
  BY DEF Picking, ThumbnailPageSelected, ThumbnailPageScrubbed, ThumbnailTrimToggled,
         CancelThumbnailPicker, LoadPreview
<1> QED
  BY <1>1, <1>2, <1>3, <1>4

\* One in a form changes the form.
LEMMA FormsDo ==
    ASSUME TypeInv, Forms
    PROVE  /\ page # None /\ page \in PageType
           /\ UNCHANGED <<library, images, row, cache, tasks, panicked, chosen>>
           /\ page'.doc = page.doc /\ page'.tags = page.tags /\ page'.covers = page.covers /\ page'.picker = page.picker
           /\ page'.draft.cover \in {page.draft.cover, page.doc.meta.cover}
<1>1. page # None /\ page \in PageType /\ UNCHANGED <<library, images, row, cache, tasks, panicked, chosen>>
  BY DEF Forms, EditDocumentMeta, CancelDocumentMeta, DocumentMetaChanged, CancelRemoval,
         AskToRemove, Click, TypeInv
<1>2. page'.doc = page.doc /\ page'.tags = page.tags /\ page'.covers = page.covers /\ page'.picker = page.picker
  BY <1>1
     DEF Forms, EditDocumentMeta, CancelDocumentMeta, DocumentMetaChanged, CancelRemoval,
         AskToRemove, PageType
<1>3. page'.draft.cover \in {page.draft.cover, page.doc.meta.cover}
  <2>1. page.draft \in Meta
    BY <1>1, PageIs
  <2>2. page'.draft = page.draft \/ page'.draft = page.doc.meta \/ \E title \in Titles : page'.draft = [page.draft EXCEPT !.title = title]
    BY <1>1
       DEF Forms, EditDocumentMeta, CancelDocumentMeta, DocumentMetaChanged, CancelRemoval,
           AskToRemove, PageType
  <2> QED
    BY <2>1, <2>2 DEF Meta
<1> QED
  BY <1>1, <1>2, <1>3

\* What is not calm or apart any more never is again, and it does not matter
\* after a panic.
LEMMA Histories ==
    ASSUME TypeInv, Next
    PROVE  (calm' => calm) /\ (apart' => apart) /\ ~panicked
<1>1. ASSUME Uses
      PROVE  (calm' => calm) /\ (apart' => apart) /\ ~panicked
  <2>1. CASE Change \/ PickerClick \/ (\E alone \in BOOLEAN : Click(alone))
    BY <2>1, Clicked DEF Change, PickerClick, Click, CanAct
  <2>2. CASE Open \/ Close \/ CancelRemoval \/ SaveThumbnail
    <3>1. CASE Open
      BY <3>1, Zenon DEF Open, CanAct
    <3>2. CASE Close \/ CancelRemoval
      BY <3>2 DEF Close, CancelRemoval, CanAct, order
    <3>3. CASE SaveThumbnail
      BY <3>3, Zenon DEF SaveThumbnail, CanAct
    <3> QED
      BY <2>2, <3>1, <3>2, <3>3
  <2> QED
    BY <1>1, <2>1, <2>2
       DEF Uses, AddTag, RemoveTag, UpdateReadingStatus, EditDocumentMeta, CancelDocumentMeta,
           SaveDocumentMeta, DocumentMetaChanged, SelectCover, OpenThumbnailPicker, AskToRemove,
           ConfirmRemoval, ThumbnailPageSelected, ThumbnailPageScrubbed, ThumbnailTrimToggled,
           CancelThumbnailPicker
<1>2. ASSUME NEW t \in tasks, Message(t)
      PROVE  (calm' => calm) /\ (apart' => apart) /\ ~panicked
  <2>1. Handle(t)
    BY <1>2
       DEF Message, Panic, Refresh, RefreshDocument, RequestAnswered, FormatRemoved,
           ThumbnailFailed, Delivered, CoversLoaded, DocumentRefreshed, LoadArchive, Loaded,
           RowRefreshed, ThumbnailPageCountLoaded, ThumbnailReloadPreview,
           ThumbnailBigPreviewLoaded, ThumbnailSaved
  <2> QED
    BY <2>1, Handled
<1>3. ASSUME NEW t \in tasks, Background(t)
      PROVE  (calm' => calm) /\ (apart' => apart) /\ ~panicked
  <2>1. CASE Work(t) /\ (Works \/ Fail)
    BY <2>1, Worked
  <2>2. CASE GetSingleDocument(t) \/ Fetch(t)
    <3>1. \/ Missed
          \/ /\ \E doc : calm' = (calm /\ (Exists => Agrees(doc)))
             /\ UNCHANGED <<bounds, apart>>
      BY <2>2 DEF GetSingleDocument, Fetch
    <3>2. ~panicked
      BY <2>2 DEF GetSingleDocument, Fetch, Work
    <3> QED
      BY <3>1, <3>2, AnsweredOr
  <2> QED
    BY <1>3, <2>1, <2>2, EachRetags
       DEF Background, ReadCovers, AllContentsDone, UpdateDocumentMetadata, RemoveContent,
           DeleteSource, CountPages, RenderPreview, SetPageThumbnail
<1>4. CASE ChangedElsewhere
  BY <1>4 DEF ChangedElsewhere, CanAct
<1> QED
  BY <1>1, <1>2, <1>3, <1>4 DEF Next

(***************************************************************************)
(* Thumbnails.                                                             *)
(***************************************************************************)
\* When none is saved there is nothing to show, and when one is, refreshes and
\* changes of the tags do not concern it.
LEMMA ThumbnailGone ==
    ASSUME panicked' \/ ~(calm' \/ apart') \/ (\A u \in tasks' : ~IsThumbnail(u)) PROVE ThumbnailInv'
  BY DEF ThumbnailInv, IsThumbnail

\* Nothing changes for a thumbnail when only refreshes begin and the picker, the
\* cover and the pictures stay.
LEMMA ThumbnailKept ==
    ASSUME ThumbnailInv, ~panicked, calm' => calm, apart' => apart,
           \A u \in tasks' : u \in tasks \/ u.do \in Renewing,
           page' # None => page # None /\ page'.picker = page.picker,
           library'.meta = library.meta, images' = images
    PROVE  ThumbnailInv'
<1> SUFFICES ASSUME calm' \/ apart', NEW t \in tasks', IsThumbnail(t)
             PROVE  /\ \A u \in tasks' : u.do \notin Renewing => u = t
                    /\ page' # None => /\ page'.picker # None /\ page'.picker.saving
                                       /\ Pick(page'.picker) = t.what.view
                                       /\ apart' => page'.picker.preview = t.what.view
                    /\ t.do = "answer" => /\ apart' => t.ok
                                          /\ t.ok => /\ library'.meta.cover = t.what.view.content
                                                     /\ images'[t.what.view.content] = t.what.view
  BY DEF ThumbnailInv, IsThumbnail
<1>1. t \in tasks
  BY DEF IsThumbnail, Renewing, Refreshing, Loading
<1> QED
  BY <1>1 DEF ThumbnailInv

\* With a thumbnail there is nothing else but refreshes, and no click that would
\* go unnoticed.
LEMMA ThumbnailAlone ==
    ASSUME ThumbnailInv, ~panicked, calm \/ apart, NEW t \in tasks, t.do \notin Renewing, ~IsThumbnail(t)
    PROVE  \A u \in tasks : ~IsThumbnail(u)
  BY DEF ThumbnailInv

\* After a click that keeps one of the histories no thumbnail is being saved.
LEMMA ThumbnailClicks ==
    ASSUME TypeInv, ThumbnailInv,
           Change \/ PickerClick \/ (\E c \in Contents : OpenThumbnailPicker(c)), calm' \/ apart'
    PROVE  \A u \in tasks : ~IsThumbnail(u)
<1> SUFFICES ASSUME NEW u \in tasks, IsThumbnail(u) PROVE FALSE
  OBVIOUS
<1>0. ~panicked /\ page # None
  BY DEF Change, PickerClick, OpenThumbnailPicker, Click, CanAct
<1>1. SavingThumbnail /\ ~Quiet
  BY DEF SavingThumbnail, IsThumbnail, Quiet
<1>2. CASE Change
  BY <1>1, <1>2 DEF Change
<1>3. CASE PickerClick
  BY <1>0, <1>3 DEF PickerClick, ThumbnailInv
<1>4. CASE \E c \in Contents : OpenThumbnailPicker(c)
  <2>1. page.picker = None /\ calm' = calm /\ apart' = (apart /\ Quiet)
    BY <1>4, Zenon DEF OpenThumbnailPicker, Click
  <2> QED
    BY <1>0, <1>1, <2>1 DEF ThumbnailInv
<1> QED
  BY <1>2, <1>3, <1>4

\* Clicks keep ThumbnailInv,
LEMMA ThumbnailUses == ASSUME TypeInv, ThumbnailInv, Uses PROVE ThumbnailInv'
<1>0. (calm' => calm) /\ (apart' => apart) /\ ~panicked
  BY Histories DEF Next
<1>1. CASE SaveThumbnail
  <2> SUFFICES ASSUME calm' \/ apart' PROVE ThumbnailInv'
    BY DEF ThumbnailInv
  <2> DEFINE r == [do |-> "request", what |-> [is |-> "thumbnail", view |-> Pick(page.picker)]]
  <2>1. tasks' = {r}
    BY <1>1 DEF SaveThumbnail, Request, Quiet
  <2>2. page.picker \in Pickers /\ page \in PageType
    BY <1>1, PageIs DEF SaveThumbnail, TypeInv
  <2>3. page' = [page EXCEPT !.picker = [page.picker EXCEPT !.saving = TRUE]]
    BY <1>1 DEF SaveThumbnail
  <2>4. page'.picker = [page.picker EXCEPT !.saving = TRUE]
    BY <2>2, <2>3 DEF PageType
  <2>5. page'.picker # None
    BY <2>2, <2>4, PickersAre
  <2>7. page'.picker.saving /\ Pick(page'.picker) = Pick(page.picker) /\ page'.picker.preview = page.picker.preview
    BY <2>2, <2>4 DEF Pickers, Pick
  <2>6. apart' => page.picker.preview = Pick(page.picker)
    BY <1>1 DEF SaveThumbnail
  <2> QED
    BY <2>1, <2>5, <2>6, <2>7 DEF ThumbnailInv, IsThumbnail
<1>2. CASE Changes
  <2>1. \A u \in tasks' : u \in tasks \/ ~IsThumbnail(u)
    BY <1>2, ChangesDo DEF IsThumbnail
  <2> QED
    BY <1>2, <2>1, ChangesDo, ThumbnailClicks, ThumbnailGone
<1>3. CASE Picking
  <2>1. \A u \in tasks' : u \in tasks \/ ~IsThumbnail(u)
    BY <1>3, PickingDo DEF IsThumbnail
  <2> QED
    BY <1>3, <2>1, PickingDo, ThumbnailClicks, ThumbnailGone
<1>4. CASE \E c \in Contents : OpenThumbnailPicker(c)
  <2>1. \A u \in tasks' : u \in tasks \/ ~IsThumbnail(u)
    BY <1>4 DEF OpenThumbnailPicker, IsThumbnail
  <2> QED
    BY <1>4, <2>1, ThumbnailClicks, ThumbnailGone
<1>5. CASE Open
  <2> SUFFICES ASSUME calm' \/ apart' PROVE ThumbnailInv'
    BY DEF ThumbnailInv
  <2>1. tasks' = {[do |-> "covers", of |-> DOMAIN row.contents]}
    BY <1>5 DEF Open, Quiet
  <2> QED
    BY <2>1, ThumbnailGone DEF IsThumbnail
<1>6. CASE Forms
  BY <1>0, <1>6, FormsDo, ThumbnailKept
<1>7. CASE Close
  BY <1>0, <1>7, ThumbnailKept DEF Close
<1> QED
  BY <1>1, <1>2, <1>3, <1>4, <1>5, <1>6, <1>7, UsesAre

\* What comes of reading covers, a page count or a preview.
LEMMA ReadTasks ==
    ASSUME NEW t, ReadCovers(t) \/ CountPages(t) \/ RenderPreview(t)
    PROVE  /\ \A u \in tasks' : u \in tasks \ {t} \/ u.do \in {"covers-loaded", "counted", "preview", "failed"}
           /\ t.do \in {"covers", "count", "render"} /\ Work(t) /\ (Works \/ Fail)
           /\ library' = library /\ images' = images
<1>1. \A u \in tasks' : u \in tasks \ {t} \/ u.do \in {"covers-loaded", "counted", "preview", "failed"}
  <2> SUFFICES ASSUME NEW u \in tasks', u \notin tasks \ {t}
               PROVE  u.do \in {"covers-loaded", "counted", "preview", "failed"}
    OBVIOUS
  <2>1. CASE ReadCovers(t)
    <3>1. PICK found : tasks' = (tasks \ {t}) \cup {[do |-> "covers-loaded", covers |-> [c \in found |-> images[c]]]}
      BY <2>1 DEF ReadCovers
    <3>2. u = [do |-> "covers-loaded", covers |-> [c \in found |-> images[c]]]
      BY <3>1
    <3> QED
      BY <3>2
  <2>2. CASE CountPages(t)
    <3>1. CASE u = [do |-> "counted"]
      BY <3>1
    <3>2. CASE u = [do |-> "failed"]
      BY <3>2
    <3> QED
      BY <2>2, <3>1, <3>2 DEF CountPages
  <2>3. CASE RenderPreview(t)
    <3>1. CASE u = [do |-> "preview", view |-> t.view]
      BY <3>1
    <3>2. CASE u = [do |-> "failed"]
      BY <3>2
    <3> QED
      BY <2>3, <3>1, <3>2 DEF RenderPreview
  <2> QED
    BY <2>1, <2>2, <2>3
<1>2. t.do \in {"covers", "count", "render"} /\ Work(t) /\ (Works \/ Fail) /\ library' = library /\ images' = images
  BY DEF ReadCovers, CountPages, RenderPreview
<1> QED
  BY <1>1, <1>2

\* What messages bring about.
LEMMA MessageTasks ==
    ASSUME NEW t, Message(t)
    PROVE  \A u \in tasks' : \/ u \in tasks \ {t}
                             \/ u.do \in {"refresh", "read", "render", "load", "fetch", "row", "row-of-format"}
<1>1. CASE ThumbnailPageCountLoaded(t) \/ ThumbnailReloadPreview(t)
  BY <1>1 DEF ThumbnailPageCountLoaded, ThumbnailReloadPreview, LoadPreview
<1>2. CASE \/ Refresh(t) \/ RefreshDocument(t) \/ DocumentRefreshed(t) \/ RequestAnswered(t) \/ FormatRemoved(t)
           \/ LoadArchive(t) \/ Loaded(t) \/ RowRefreshed(t)
  BY <1>2
     DEF Refresh, RefreshDocument, DocumentRefreshed, RequestAnswered, FormatRemoved,
         LoadArchive, Loaded, RowRefreshed, RefreshMessage
<1>3. CASE Panic(t) \/ CoversLoaded(t) \/ ThumbnailBigPreviewLoaded(t) \/ ThumbnailFailed(t) \/ ThumbnailSaved(t)
  BY <1>3 DEF Panic, CoversLoaded, ThumbnailBigPreviewLoaded, ThumbnailFailed, ThumbnailSaved
<1> QED
  BY <1>1, <1>2, <1>3 DEF Message

\* messages do,
LEMMA ThumbnailMessages ==
    ASSUME TypeInv, ThumbnailInv, NEW t \in tasks, Message(t)
    PROVE  ThumbnailInv'
<1>0. (calm' => calm) /\ (apart' => apart) /\ ~panicked
  BY Histories DEF Next
<1>1. SUFFICES ASSUME calm' \/ apart', ~panicked' PROVE ThumbnailInv'
  BY ThumbnailGone
<1>2. CASE IsThumbnail(t)
  <2>1. ThumbnailSaved(t)
    BY <1>1, <1>2
       DEF IsThumbnail, Message, Panic, CoversLoaded, Refresh, RefreshDocument, LoadArchive,
           Loaded, RowRefreshed, DocumentRefreshed, RequestAnswered, FormatRemoved,
           ThumbnailPageCountLoaded, ThumbnailReloadPreview, ThumbnailBigPreviewLoaded,
           ThumbnailFailed
  <2>2. tasks' = tasks \ {t}
    BY <2>1 DEF ThumbnailSaved
  <2>3. \A u \in tasks : u.do \in Renewing \/ u = t
    BY <1>0, <1>1, <1>2 DEF ThumbnailInv
  <2> QED
    BY <2>2, <2>3, ThumbnailGone DEF IsThumbnail, Renewing, Refreshing, Loading
<1>3. CASE t.do \in Renewing
  <2>1. \/ Refresh(t) \/ RefreshDocument(t) \/ DocumentRefreshed(t)
        \/ LoadArchive(t) \/ Loaded(t) \/ RowRefreshed(t)
    BY <1>1, <1>3
       DEF Renewing, Refreshing, Loading, Message, Panic, CoversLoaded, RequestAnswered,
           FormatRemoved, ThumbnailPageCountLoaded, ThumbnailReloadPreview,
           ThumbnailBigPreviewLoaded, ThumbnailFailed, ThumbnailSaved
  <2>2. \A u \in tasks' : u \in tasks \/ u.do \in Renewing
    BY <2>1
       DEF Refresh, RefreshDocument, DocumentRefreshed, LoadArchive, Loaded, RowRefreshed,
           RefreshMessage, Renewing, Refreshing, Loading
  <2>3. Handle(t)
    BY <2>1
       DEF Refresh, RefreshDocument, DocumentRefreshed, LoadArchive, Loaded, RowRefreshed, Delivered
  <2>4. page' # None => page # None /\ page'.picker = page.picker
    <3>1. DocumentRefreshed(t) => page # None /\ page \in PageType
      BY DEF DocumentRefreshed, Delivered, TypeInv
    <3> QED
      BY <2>1, <3>1
         DEF Refresh, RefreshDocument, DocumentRefreshed, LoadArchive, Loaded, RowRefreshed,
             Refreshed, PageType
  <2> QED
    BY <1>0, <2>2, <2>3, <2>4, Handled, ThumbnailKept
<1>4. CASE ~IsThumbnail(t) /\ t.do \notin Renewing
  <2>1. \A u \in tasks : ~IsThumbnail(u)
    BY <1>0, <1>1, <1>4, ThumbnailAlone
  <2>2. \A u \in tasks' : u \in tasks \/ ~IsThumbnail(u)
    BY MessageTasks DEF IsThumbnail
  <2> QED
    BY <2>1, <2>2, ThumbnailGone
<1> QED
  BY <1>2, <1>3, <1>4

\* The request for a thumbnail gives the source what the picker has.
LEMMA ThumbnailMade ==
    ASSUME TypeInv, ThumbnailInv, NEW t \in tasks, SetPageThumbnail(t), calm' \/ apart'
    PROVE  ThumbnailInv'
<1>0. (calm' => calm) /\ (apart' => apart) /\ ~panicked
  BY Histories DEF Next, Background
<1>1. t.do = "request" /\ t.what.is = "thumbnail" /\ t.what.view \in View /\ page' = page
  BY RequestsAre DEF SetPageThumbnail, TypeInv, TaskType, Work
<1>2. PICK ok \in BOOLEAN :
         /\ Answered(t, ok) /\ (apart' => ok)
         /\ ok => /\ library' = [library EXCEPT !.meta.cover = t.what.view.content]
                  /\ images' = [images EXCEPT ![t.what.view.content] = t.what.view]
                  /\ t.what.view.content \in DOMAIN library.contents
  <2>1. CASE /\ t.what.view.content \in DOMAIN library.contents
             /\ images' = [images EXCEPT ![t.what.view.content] = t.what.view]
             /\ library' = [library EXCEPT !.meta.cover = t.what.view.content]
             /\ Answered(t, TRUE)
    BY <2>1
  <2>2. CASE Answered(t, FALSE) /\ Fail
    BY <2>2 DEF Fail
  <2> QED
    BY <2>1, <2>2 DEF SetPageThumbnail
<1> DEFINE answer == [do |-> "answer", what |-> t.what, ok |-> ok]
<1>3. tasks' = (tasks \ {t}) \cup {[do |-> "expired"], answer}
  BY <1>2 DEF Answered
<1>4. IsThumbnail(t) /\ \A u \in tasks : u.do \in Renewing \/ u = t
  BY <1>0, <1>1 DEF ThumbnailInv, IsThumbnail
<1>5. \A u \in tasks' : u.do \in Renewing \/ u = answer
  BY <1>3, <1>4 DEF Renewing, Refreshing, Loading
<1>6. ok => library'.meta.cover = t.what.view.content /\ images'[t.what.view.content] = t.what.view
  <2>1. library \in Documents /\ DOMAIN library.contents \subseteq DOMAIN images /\ images \in Covers
    BY DEF TypeInv
  <2>2. ok => images'[t.what.view.content] = t.what.view
    BY <1>2, <2>1, CoversAre
  <2>3. ok => library'.meta.cover = t.what.view.content
    <3>1. t.what.view.content \in Contents
      BY <1>1 DEF View
    <3>2. [library EXCEPT !.meta.cover = t.what.view.content].meta = [title |-> library.meta.title, cover |-> t.what.view.content]
      BY <2>1, <3>1, LibraryIs
    <3>3. CASE ok
      <4>1. library' = [library EXCEPT !.meta.cover = t.what.view.content]
        BY <1>2, <3>3
      <4>2. library'.meta = [title |-> library.meta.title, cover |-> t.what.view.content]
        BY <3>2, <4>1
      <4> QED
        BY <4>2
    <3> QED
      BY <3>3
  <2> QED
    BY <2>2, <2>3
<1>7. page # None => /\ page.picker # None /\ page.picker.saving
                     /\ Pick(page.picker) = t.what.view
                     /\ apart => page.picker.preview = t.what.view
  BY <1>0, <1>4 DEF ThumbnailInv
<1> QED
  BY <1>0, <1>1, <1>2, <1>5, <1>6, <1>7 DEF ThumbnailInv, IsThumbnail, Renewing, Refreshing, Loading

\* and what the source does.
LEMMA ThumbnailBackground ==
    ASSUME TypeInv, ThumbnailInv, NEW t \in tasks, Background(t)
    PROVE  ThumbnailInv'
<1>0. (calm' => calm) /\ (apart' => apart) /\ ~panicked
  BY Histories DEF Next
<1>1. SUFFICES ASSUME calm' \/ apart' PROVE ThumbnailInv'
  BY ThumbnailGone
<1>2. CASE GetSingleDocument(t) \/ Fetch(t)
  <2>1. \A u \in tasks' : u \in tasks \/ u.do \in Renewing
    BY <1>2 DEF GetSingleDocument, Fetch, Renewing, Refreshing, Loading
  <2> QED
    BY <1>0, <1>2, <2>1, ThumbnailKept DEF GetSingleDocument, Fetch, Work
<1>3. CASE ~IsThumbnail(t) /\ ~GetSingleDocument(t) /\ ~Fetch(t)
  <2>1. t.do \notin Renewing
    BY <1>3, EachRetags
       DEF Background, ReadCovers, AllContentsDone, UpdateDocumentMetadata, RemoveContent,
           DeleteSource, CountPages, RenderPreview, SetPageThumbnail, Renewing, Refreshing, Loading
  <2>2. \A u \in tasks : ~IsThumbnail(u)
    BY <1>0, <1>1, <1>3, <2>1, ThumbnailAlone
  <2>3. \A u \in tasks' : u \in tasks \/ ~IsThumbnail(u)
    <3>1. CASE TagContents(t) \/ UpdateStatuses(t)
      <4>1. t \in [do : {"request"}, what : Requests] /\ t.what.is \in {"tag", "status"}
        BY <3>1, EachRetags DEF TypeInv, TaskType
      <4>2. PICK c : \E told \in {{}, {[do |-> "expired"]}} :
                 /\ tasks' = (tasks \ {t}) \cup {[t EXCEPT !.what.left = @ \ {c}]} \cup told
                 /\ t.what.is # "status" => told = {}
        BY <3>1, EachRetags
      <4>3. [t EXCEPT !.what.left = @ \ {c}].what.is = t.what.is
        BY <4>1, LeftIs
      <4> QED
        BY <4>1, <4>2, <4>3 DEF IsThumbnail
    <3>2. CASE ~(TagContents(t) \/ UpdateStatuses(t))
      <4>1. CASE \E ok \in BOOLEAN : Answered(t, ok) /\ t.do = "request"
        BY <1>3, <4>1 DEF Answered, IsThumbnail
      <4>2. CASE ReadCovers(t) \/ CountPages(t) \/ RenderPreview(t)
        BY <4>2, ReadTasks DEF IsThumbnail
      <4> QED
        BY <1>3, <3>2, <4>1, <4>2
           DEF Background, AllContentsDone, UpdateDocumentMetadata, RemoveContent, DeleteSource,
               SetPageThumbnail
    <3> QED
      BY <3>1, <3>2
  <2> QED
    BY <2>2, <2>3, ThumbnailGone
<1>4. CASE IsThumbnail(t) /\ ~GetSingleDocument(t) /\ ~Fetch(t)
  BY <1>1, <1>4, ThumbnailMade, EachRetags
     DEF Background, ReadCovers, AllContentsDone, UpdateDocumentMetadata, RemoveContent,
         DeleteSource, CountPages, RenderPreview, IsThumbnail
<1> QED
  BY <1>2, <1>3, <1>4

\* Every step keeps ThumbnailInv.
LEMMA ThumbnailStep == ASSUME TypeInv, ThumbnailInv, [Next]_vars PROVE ThumbnailInv'
<1>1. CASE UNCHANGED vars
  BY <1>1 DEF vars, order, bounds, ThumbnailInv
<1>2. CASE ChangedElsewhere
  <2>1. (calm' => calm) /\ (apart' => apart) /\ ~panicked
    BY <1>2, Histories DEF Next
  <2>2. \A u \in tasks' : u \in tasks \/ u.do \in Renewing
    BY <1>2 DEF ChangedElsewhere, Renewing, Refreshing, Loading
  <2> QED
    BY <1>2, <2>1, <2>2, ElsewhereRetags, ThumbnailKept DEF ChangedElsewhere, Retagged
<1> QED
  BY <1>1, <1>2, ThumbnailUses, ThumbnailMessages, ThumbnailBackground DEF Next

(***************************************************************************)
(* Requests one at a time.                                                 *)
(***************************************************************************)
\* What a request for several contents leaves.
LEMMA EachTasks ==
    ASSUME TypeInv, NEW t \in tasks, TagContents(t) \/ UpdateStatuses(t)
    PROVE  \E v : /\ v.do = "request" /\ v.what.is = t.what.is
                  /\ \A u \in tasks' : u \in tasks \ {t} \/ u = v \/ (u.do = "expired" /\ t.what.is = "status")
                  /\ v \in tasks' /\ tasks \ {t} \subseteq tasks'
<1>1. t \in [do : {"request"}, what : Requests] /\ t.what.is \in {"tag", "status"}
  BY EachRetags DEF TypeInv, TaskType
<1>2. PICK c : \E told \in {{}, {[do |-> "expired"]}} :
                 /\ tasks' = (tasks \ {t}) \cup {[t EXCEPT !.what.left = @ \ {c}]} \cup told
                 /\ t.what.is # "status" => told = {}
  BY EachRetags
<1> DEFINE v == [t EXCEPT !.what.left = @ \ {c}]
<1>3. v.do = "request" /\ v.what.is = t.what.is
  BY <1>1, LeftIs
<1> HIDE DEF v
<1>4. PICK told \in {{}, {[do |-> "expired"]}} :
                 /\ tasks' = (tasks \ {t}) \cup {v} \cup told
                 /\ t.what.is # "status" => told = {}
  BY <1>2 DEF v
<1>5. \A u \in told : u.do = "expired" /\ t.what.is = "status"
  BY <1>4, <1>1
<1> QED
  BY <1>3, <1>4, <1>5

\* Messages about requests or refreshes may bring refreshes, others do not.
LEMMA MessageRefreshes ==
    ASSUME NEW t, Message(t), t.do \notin Renewing \cup {"answer"}
    PROVE  \A u \in tasks' : u \in tasks \ {t} \/ u.do = "render"
<1>1. CASE ThumbnailPageCountLoaded(t) \/ ThumbnailReloadPreview(t)
  BY <1>1 DEF ThumbnailPageCountLoaded, ThumbnailReloadPreview, LoadPreview
<1>2. CASE Panic(t) \/ CoversLoaded(t) \/ ThumbnailBigPreviewLoaded(t) \/ ThumbnailFailed(t) \/ ThumbnailSaved(t)
  BY <1>2 DEF Panic, CoversLoaded, ThumbnailBigPreviewLoaded, ThumbnailFailed, ThumbnailSaved
<1>3. ~(\/ Refresh(t) \/ RefreshDocument(t) \/ DocumentRefreshed(t) \/ RequestAnswered(t) \/ FormatRemoved(t)
        \/ LoadArchive(t) \/ Loaded(t) \/ RowRefreshed(t))
  BY DEF Refresh, RefreshDocument, DocumentRefreshed, RequestAnswered, FormatRemoved,
         LoadArchive, Loaded, RowRefreshed, Renewing, Refreshing, Loading
<1> QED
  BY <1>1, <1>2, <1>3 DEF Message

\* What does not concern requests or refreshes keeps the order of them.
LEMMA OneKept ==
    ASSUME OneInv, apart' => apart, ~panicked,
           \A u \in tasks' : u \in tasks \/ u.do \notin Renewing \cup {"request", "answer"}
    PROVE  OneInv'
  BY DEF OneInv, Pending

\* OneInv, contraposed.
LEMMA OneGone ==
    ASSUME apart' /\ ~panicked' => /\ \A u, v \in tasks' : ~(u.do \in {"request", "answer"} /\ v.do \in {"request", "answer"} /\ u # v)
                                   /\ \A u, v \in tasks' : ~(u.do = "request" /\ u.what.is # "status" /\ v.do \in Renewing)
    PROVE  OneInv'
  BY DEF OneInv, Pending

\* A request begins when nothing else is under way.
LEMMA OneUses == ASSUME TypeInv, OneInv, Uses PROVE OneInv'
<1>0. (calm' => calm) /\ (apart' => apart) /\ ~panicked
  BY Histories DEF Next
<1>1. CASE Changes \/ SaveThumbnail
  <2>1. PICK r : tasks' = tasks \cup {[do |-> "request", what |-> r]}
    BY <1>1, ChangesDo DEF SaveThumbnail, Request
  <2>2. apart' => Quiet
    <3>1. CASE Changes
      BY <3>1, ChangesDo, Zenon DEF Change
    <3>2. CASE SaveThumbnail
      BY <3>2, Zenon DEF SaveThumbnail
    <3> QED
      BY <1>1, <3>1, <3>2
  <2> QED
    BY <2>1, <2>2, OneGone DEF Quiet, Renewing, Refreshing, Loading
<1>2. CASE Picking
  BY <1>0, <1>2, PickingDo, OneKept DEF Renewing, Refreshing, Loading
<1>3. CASE Forms
  BY <1>0, <1>3, FormsDo, OneKept
<1>4. CASE Close
  BY <1>0, <1>4, OneKept DEF Close
<1>5. CASE Open
  BY <1>0, <1>5, OneKept DEF Open, Renewing, Refreshing, Loading
<1>6. CASE \E c \in Contents : OpenThumbnailPicker(c)
  BY <1>0, <1>6, OneKept DEF OpenThumbnailPicker, Renewing, Refreshing, Loading
<1> QED
  BY <1>1, <1>2, <1>3, <1>4, <1>5, <1>6, UsesAre

\* No message begins a request; what it refreshes comes after an answer, which was alone.
LEMMA OneMessages == ASSUME TypeInv, OneInv, NEW t \in tasks, Message(t) PROVE OneInv'
<1>0. (calm' => calm) /\ (apart' => apart) /\ ~panicked
  BY Histories DEF Next
<1>1. CASE t.do \notin Renewing \cup {"answer"}
  BY <1>0, <1>1, MessageRefreshes, OneKept DEF Renewing, Refreshing, Loading
<1>2. CASE t.do \in Renewing \cup {"answer"}
  <2>1. \A u \in tasks' : u.do \in {"request", "answer"} => u \in tasks \ {t}
    BY MessageTasks
  <2>2. apart => \A u \in tasks \ {t} : u.do = "request" => u.what.is = "status"
    BY <1>0, <1>2 DEF OneInv, Pending
  <2>3. apart => \A u, v \in tasks : u.do \in {"request", "answer"} /\ v.do \in {"request", "answer"} => u = v
    BY <1>0 DEF OneInv
  <2> QED
    BY <1>0, <2>1, <2>2, <2>3, OneGone
<1> QED
  BY <1>1, <1>2

\* A request that goes on stays the only one, and its answer takes its place.
LEMMA OneBackground == ASSUME TypeInv, OneInv, NEW t \in tasks, Background(t) PROVE OneInv'
<1>0. (calm' => calm) /\ (apart' => apart) /\ ~panicked
  BY Histories DEF Next
<1>1. CASE ReadCovers(t) \/ CountPages(t) \/ RenderPreview(t)
  BY <1>0, <1>1, ReadTasks, OneKept DEF Renewing, Refreshing, Loading
<1>2. SUFFICES ASSUME apart', ~(ReadCovers(t) \/ CountPages(t) \/ RenderPreview(t)) PROVE OneInv'
  BY <1>1, OneGone
<1>3. /\ \A u, v \in tasks : u.do \in {"request", "answer"} /\ v.do \in {"request", "answer"} => u = v
      /\ \A u, v \in tasks : ~(u.do = "request" /\ u.what.is # "status" /\ v.do \in Renewing)
  BY <1>0, <1>2 DEF OneInv, Pending
<1>4. CASE GetSingleDocument(t) \/ Fetch(t)
  <2>1. t.do \in Renewing /\ \A u \in tasks' : u \in tasks \/ u.do \in {"refreshed", "loaded"}
    BY <1>4 DEF GetSingleDocument, Fetch, Renewing, Refreshing, Loading
  <2> QED
    BY <1>3, <2>1, OneGone DEF Renewing, Refreshing, Loading
<1>5. CASE TagContents(t) \/ UpdateStatuses(t)
  <2>1. PICK v : /\ v.do = "request" /\ v.what.is = t.what.is
                 /\ \A u \in tasks' : u \in tasks \ {t} \/ u = v \/ (u.do = "expired" /\ t.what.is = "status")
    BY <1>5, EachTasks
  <2>2. t.do = "request"
    BY <1>5 DEF TagContents, UpdateStatuses
  <2>3. \A u \in tasks' : u.do \in {"request", "answer"} => u = v
    BY <1>3, <2>1, <2>2
  <2>4. \A u \in tasks' : v.what.is # "status" => u.do \notin Renewing
    BY <1>3, <2>1, <2>2 DEF Renewing, Refreshing, Loading
  <2> QED
    BY <2>3, <2>4, OneGone
<1>6. CASE \E ok \in BOOLEAN : Answered(t, ok) /\ t.do = "request"
  <2>1. PICK ok \in BOOLEAN : Answered(t, ok) /\ t.do = "request"
    BY <1>6
  <2>2. \A u \in tasks' : u \in tasks \ {t} \/ u = [do |-> "expired"] \/ u = [do |-> "answer", what |-> t.what, ok |-> ok]
    BY <2>1 DEF Answered
  <2>3. \A u \in tasks' : u.do \in {"request", "answer"} => u = [do |-> "answer", what |-> t.what, ok |-> ok]
    BY <1>3, <2>1, <2>2
  <2> QED
    BY <2>3, OneGone
<1> QED
  BY <1>2, <1>4, <1>5, <1>6
     DEF Background, AllContentsDone, UpdateDocumentMetadata, RemoveContent, DeleteSource,
         SetPageThumbnail

\* Every step keeps OneInv.
LEMMA OneStep == ASSUME TypeInv, OneInv, [Next]_vars PROVE OneInv'
<1>1. CASE UNCHANGED vars
  BY <1>1 DEF vars, order, bounds, OneInv, Pending
<1>2. CASE ChangedElsewhere
  <2>1. apart' => tasks = {}
    BY <1>2, Zenon DEF ChangedElsewhere, Quiet
  <2>2. apart' => tasks' = {[do |-> "expired"]}
    BY <1>2, <2>1 DEF ChangedElsewhere
  <2> QED
    BY <2>2, OneGone
<1> QED
  BY <1>1, <1>2, OneUses, OneMessages, OneBackground DEF Next

(***************************************************************************)
(* Refreshing.                                                             *)
(***************************************************************************)
\* While something is to be read nothing is known, and what does not concern the
\* document changes nothing.
LEMMA RefreshComing ==
    ASSUME panicked' \/ ~calm' \/ \E u \in tasks' : u.do \in Coming
    PROVE  RefreshInv'
  BY DEF RefreshInv, Pending

\* A message or a request that is there is something that is coming.
LEMMA RefreshNow ==
    ASSUME \/ [do |-> "expired"] \in tasks' \/ [do |-> "refresh"] \in tasks' \/ [do |-> "read"] \in tasks'
           \/ \E r : [do |-> "request", what |-> r] \in tasks'
           \/ \E d : [do |-> "row-of-format", doc |-> d] \in tasks'
    PROVE  RefreshInv'
<1>1. ASSUME NEW u, u \in tasks', u.do \in Coming PROVE RefreshInv'
  BY <1>1, RefreshComing
<1>2. [do |-> "expired"].do \in Coming /\ [do |-> "refresh"].do \in Coming /\ [do |-> "read"].do \in Coming
      /\ (\A r : [do |-> "request", what |-> r].do \in Coming)
      /\ (\A d : [do |-> "row-of-format", doc |-> d].do \in Coming)
  BY DEF Coming
<1> QED
  BY <1>1, <1>2

\* RefreshInv stays when neither the document nor what the page shows of it
\* changes, and nothing is lost or read.
LEMMA RefreshKept ==
    ASSUME RefreshInv, ~panicked, calm' => calm, library' = library,
           \A u \in tasks : u.do \in Coming \cup {"refreshed"} => u \in tasks',
           \A u \in tasks' : u \in tasks \/ u.do # "refreshed",
           page' # None => page # None /\ page'.doc = page.doc /\ page'.tags = page.tags
    PROVE  RefreshInv'
<1> SUFFICES ASSUME calm', Exists', ~Pending(Coming)'
             PROVE  /\ page' # None => \A t \in tasks' : t.do = "refreshed" => t.doc = library'
                    /\ page' # None /\ ~Pending({"refreshed"})' =>
                          page'.doc = library' /\ page'.tags = AllTags(library')
  BY DEF RefreshInv, AllTags
<1>1. calm /\ Exists /\ ~Pending(Coming)
  BY DEF Exists, Pending
<1>2. \A u \in tasks : u.do = "refreshed" => u \in tasks'
  OBVIOUS
<1>3. ~Pending({"refreshed"})' => ~Pending({"refreshed"})
  BY <1>2 DEF Pending
<1> QED
  BY <1>1, <1>3 DEF RefreshInv, AllTags

\* A click asks for something, which is then coming, or changes nothing of this.
LEMMA RefreshUses == ASSUME TypeInv, ListInv, RefreshInv, Uses PROVE RefreshInv'
<1>0. (calm' => calm) /\ ~panicked
  BY Histories DEF Next
<1>1. CASE Changes \/ SaveThumbnail
  <2>1. PICK r : tasks' = tasks \cup {[do |-> "request", what |-> r]}
    BY <1>1, ChangesDo DEF SaveThumbnail, Request
  <2> QED
    BY <2>1, RefreshNow
<1>2. CASE Picking
  <2>1. library' = library
    BY <1>2, PickingDo DEF PickerClick
  <2>2. page # None /\ page'.doc = page.doc /\ page'.tags = page.tags
    BY <1>2, PickingDo DEF PageType
  <2> QED
    BY <1>0, <1>2, <2>1, <2>2, PickingDo, RefreshKept
<1>3. CASE Forms
  BY <1>0, <1>3, FormsDo, RefreshKept
<1>4. CASE Close
  BY <1>0, <1>4, RefreshKept DEF Close
<1>5. CASE Open
  <2> SUFFICES ASSUME calm', Exists' PROVE RefreshInv'
    BY DEF RefreshInv
  <2>1. calm /\ tasks = {} /\ library' = library /\ row' = row /\ page' = NewPage(row)
    BY <1>5, Zenon DEF Open, Quiet
  <2>2. row = library
    BY <1>0, <2>1 DEF ListInv, Pending, Exists
  <2>3. tasks' = {[do |-> "covers", of |-> DOMAIN row.contents]}
    BY <1>5, <2>1 DEF Open
  <2> QED
    BY <2>1, <2>2, <2>3 DEF RefreshInv, NewPage, Pending, AllTags
<1>6. CASE \E c \in Contents : OpenThumbnailPicker(c)
  <2>1. library' = library /\ page # None /\ page \in PageType
    BY <1>6 DEF OpenThumbnailPicker, Click, TypeInv
  <2>2. page'.doc = page.doc /\ page'.tags = page.tags
    BY <1>6, <2>1 DEF OpenThumbnailPicker, PageType
  <2> QED
    BY <1>0, <1>6, <2>1, <2>2, RefreshKept DEF OpenThumbnailPicker
<1> QED
  BY <1>1, <1>2, <1>3, <1>4, <1>5, <1>6, UsesAre

\* What messages about the picker, the covers and other things change of the page.
Showing(t) ==
    CoversLoaded(t) \/ ThumbnailPageCountLoaded(t) \/ ThumbnailReloadPreview(t) \/ ThumbnailBigPreviewLoaded(t)
    \/ ThumbnailFailed(t) \/ RequestAnswered(t)

\* They leave document, tags and draft alone.
LEMMA ShowingDo ==
    ASSUME TypeInv, NEW t \in tasks, Showing(t)
    PROVE  /\ Handle(t) /\ row' = row /\ panicked' = panicked
           /\ t.do \in {"covers-loaded", "counted", "release", "preview", "failed", "answer"}
           /\ page' # None => page # None /\ page \in PageType /\ page'.doc = page.doc /\ page'.tags = page.tags
                              /\ page'.draft = page.draft
           /\ tasks \ {t} \subseteq tasks'
           /\ \A u \in tasks' : u \in tasks \ {t} \/ u.do = "render" \/ (t.do = "answer" /\ u.do = "refresh")
<1>1. Handle(t) /\ row' = row /\ panicked' = panicked
  BY DEF Showing, CoversLoaded, ThumbnailPageCountLoaded, ThumbnailReloadPreview,
         ThumbnailBigPreviewLoaded, ThumbnailFailed, RequestAnswered, Delivered
<1>2. t.do \in {"covers-loaded", "counted", "release", "preview", "failed", "answer"}
  BY DEF Showing, CoversLoaded, ThumbnailPageCountLoaded, ThumbnailReloadPreview,
         ThumbnailBigPreviewLoaded, ThumbnailFailed, RequestAnswered
<1>3. page' # None => page # None /\ page \in PageType
  BY DEF Showing, CoversLoaded, ThumbnailPageCountLoaded, ThumbnailReloadPreview,
         ThumbnailBigPreviewLoaded, ThumbnailFailed, RequestAnswered, Delivered, TypeInv
<1>4. page' # None => page'.doc = page.doc /\ page'.tags = page.tags /\ page'.draft = page.draft
  BY <1>3
     DEF Showing, CoversLoaded, ThumbnailPageCountLoaded, ThumbnailReloadPreview,
         ThumbnailBigPreviewLoaded, ThumbnailFailed, RequestAnswered, PageType
<1>5. tasks \ {t} \subseteq tasks'
  BY DEF Showing, CoversLoaded, ThumbnailPageCountLoaded, ThumbnailReloadPreview,
         ThumbnailBigPreviewLoaded, ThumbnailFailed, RequestAnswered, LoadPreview
<1>6. \A u \in tasks' : u \in tasks \ {t} \/ u.do = "render" \/ (t.do = "answer" /\ u.do = "refresh")
  <2>1. CASE RequestAnswered(t)
    BY <2>1 DEF RequestAnswered, RefreshMessage
  <2>2. CASE ~RequestAnswered(t)
    <3>1. t.do \notin Renewing \cup {"answer"}
      BY <2>2
         DEF Showing, CoversLoaded, ThumbnailPageCountLoaded, ThumbnailReloadPreview,
             ThumbnailBigPreviewLoaded, ThumbnailFailed, Renewing, Refreshing, Loading
    <3> QED
      BY <3>1, MessageRefreshes DEF Message, Showing
  <2> QED
    BY <2>1, <2>2
<1> QED
  BY <1>1, <1>2, <1>3, <1>4, <1>5, <1>6

\* A document with the cover it has is the same.
LEMMA SameCover == ASSUME NEW d \in Documents PROVE [d EXCEPT !.meta.cover = d.meta.cover] = d
<1>1. d = [meta |-> d.meta, contents |-> d.contents] /\ d.meta = [title |-> d.meta.title, cover |-> d.meta.cover]
  BY DocumentIs
<1>2. [d.meta EXCEPT !.cover = d.meta.cover] = d.meta
  BY <1>1
<1> QED
  BY <1>1, <1>2

\* The last message of a refresh brings the document; that a thumbnail was saved
\* shows what the source has already.
LEMMA RefreshMessages ==
    ASSUME TypeInv, ThumbnailInv, RefreshInv, NEW t \in tasks, Message(t)
    PROVE  RefreshInv'
<1>0. (calm' => calm) /\ ~panicked
  BY Histories DEF Next
<1>1. CASE Showing(t)
  <2>1. library' = library
    BY <1>1, ShowingDo DEF Handle
  <2>2. t.do \notin Coming \cup {"refreshed"}
    BY <1>1, ShowingDo DEF Coming
  <2>3. \A u \in tasks' : u \in tasks \/ u.do # "refreshed"
    BY <1>1, ShowingDo
  <2>4. \A u \in tasks : u.do \in Coming \cup {"refreshed"} => u \in tasks'
    BY <1>1, <2>2, ShowingDo
  <2> QED
    BY <1>0, <1>1, <2>1, <2>3, <2>4, ShowingDo, RefreshKept
<1>2. CASE Panic(t)
  BY <1>2, RefreshComing DEF Panic
<1>3. CASE Refresh(t)
  <2>1. CASE page = None
    BY <1>3, <2>1 DEF Refresh, Handle, RefreshInv
  <2>2. CASE page # None
    BY <1>3, <2>2, RefreshNow DEF Refresh, RefreshMessage
  <2> QED
    BY <2>1, <2>2
<1>4. CASE RefreshDocument(t)
  BY <1>4, RefreshNow DEF RefreshDocument
<1>5. CASE DocumentRefreshed(t)
  <2>0. SUFFICES ASSUME calm', Exists', ~Pending(Coming)' PROVE RefreshInv'
    BY DEF RefreshInv
  <2>1. library' = library /\ page # None /\ t.do = "refreshed" /\ tasks \ {t} \subseteq tasks'
        /\ \A u \in tasks' : u \in tasks \/ u.do = "row"
    BY <1>5 DEF DocumentRefreshed, Delivered, Handle
  <2>2. Exists /\ ~Pending(Coming)
    BY <2>0, <2>1 DEF Exists, Pending, Coming
  <2>3. \A u \in tasks : u.do = "refreshed" => u.doc = library
    BY <1>0, <2>0, <2>1, <2>2 DEF RefreshInv
  <2>4. t.doc = library /\ t.doc # None
    BY <2>1, <2>3 DEF TypeInv
  <2>5. page \in PageType /\ page' = [page EXCEPT !.doc = library, !.tags = AllTags(library)]
    BY <1>5, <2>1, <2>4 DEF DocumentRefreshed, Refreshed, TypeInv
  <2>6. page'.doc = library /\ page'.tags = AllTags(library)
    BY <2>5 DEF PageType
  <2>7. \A u \in tasks' : u.do = "refreshed" => u.doc = library'
    BY <2>1, <2>3
  <2> QED
    BY <2>1, <2>6, <2>7 DEF RefreshInv, AllTags
<1>6. CASE FormatRemoved(t)
  <2>1. CASE t.ok /\ IsLastFormat
    BY <1>6, <2>1, RefreshNow DEF FormatRemoved, RefreshMessage
  <2>3. CASE t.ok /\ ~IsLastFormat
    BY <1>6, <2>3, RefreshNow DEF FormatRemoved
  <2>2. CASE ~t.ok
    BY <1>0, <1>6, <2>2, RefreshKept DEF FormatRemoved, Delivered, Handle, Coming
  <2> QED
    BY <2>1, <2>2, <2>3
<1>7. CASE ThumbnailSaved(t)
  <2>1. library' = library /\ tasks' = tasks \ {t} /\ t.do = "answer" /\ IsThumbnail(t)
        /\ page # None /\ page \in PageType
    BY <1>7 DEF ThumbnailSaved, Delivered, Handle, IsThumbnail, TypeInv
  <2>2. CASE page'.doc = page.doc /\ page'.tags = page.tags
    BY <1>0, <2>1, <2>2, RefreshKept DEF Coming
  <2>3. CASE t.ok /\ page.picker # None /\ page.picker.preview # None /\ page' = ShowThumbnail(page.picker)
    <3>0. SUFFICES ASSUME calm', Exists', ~Pending(Coming)' PROVE RefreshInv'
      BY DEF RefreshInv
    <3>1. Exists /\ ~Pending(Coming) /\ calm /\ library \in Documents
      BY <1>0, <2>1, <3>0 DEF Exists, Pending, Coming, TypeInv
    <3>2. library.meta.cover = t.what.view.content /\ Pick(page.picker) = t.what.view
      BY <1>0, <2>1, <2>3, <3>1 DEF ThumbnailInv
    <3>3. page.picker.content = library.meta.cover
      BY <3>2 DEF Pick
    <3>4. page'.doc = [page.doc EXCEPT !.meta.cover = page.picker.content] /\ page'.tags = page.tags
      BY <2>1, <2>3, ShownIs, PageIs DEF TypeInv
    <3>5. [library EXCEPT !.meta.cover = library.meta.cover] = library
      BY <3>1, SameCover
    <3>6. page.doc = library => page'.doc = library
      BY <3>3, <3>4, <3>5
    <3>7. ~Pending({"refreshed"})' => ~Pending({"refreshed"})
      BY <2>1 DEF Pending
    <3> QED
      BY <1>0, <2>1, <3>1, <3>4, <3>6, <3>7 DEF RefreshInv, AllTags
  <2>4. CASE page' = page \/ page' = [page EXCEPT !.picker = None] \/ page' = [page EXCEPT !.picker.saving = FALSE]
    BY <2>1, <2>2, <2>4 DEF PageType
  <2> QED
    BY <1>7, <2>3, <2>4 DEF ThumbnailSaved
<1>8. CASE LoadArchive(t) \/ Loaded(t) \/ (RowRefreshed(t) /\ t.do = "row")
  <2>1. library' = library /\ page' = page /\ t.do \notin Coming \cup {"refreshed"} /\ tasks \ {t} \subseteq tasks'
        /\ \A u \in tasks' : u \in tasks \/ u.do = "fetch"
    BY <1>8 DEF LoadArchive, Loaded, RowRefreshed, Handle, Coming
  <2> QED
    BY <1>0, <2>1, RefreshKept
<1>9. CASE RowRefreshed(t) /\ t.do # "row"
  BY <1>9, RefreshNow DEF RowRefreshed, RefreshMessage
<1> QED
  BY <1>1, <1>2, <1>3, <1>4, <1>5, <1>6, <1>7, <1>8, <1>9 DEF Message, Showing

\* An answer that leaves it calm is the document, as is what was answered before.
LEMMA ReadWhole ==
    ASSUME TypeInv, NEW t, GetSingleDocument(t), calm' \/ apart', Exists
    PROVE  /\ library' = library /\ tasks' = (tasks \ {t}) \cup {[do |-> "refreshed", doc |-> library]}
           /\ calm' => Agrees(library) /\ (\A u \in tasks : u.do = "refreshed" => u.doc = library)
<1>1. PICK C \in SUBSET DOMAIN library.contents :
          /\ tasks' = (tasks \ {t}) \cup
                {[do |-> "refreshed", doc |-> IF C = {} THEN None ELSE Restricted(library, C)]}
          /\ \/ C = DOMAIN library.contents /\ calm' = (calm /\ (Exists => Agrees(library)))
             \/ C # DOMAIN library.contents /\ Missed
  BY DEF GetSingleDocument
<1>2. C = DOMAIN library.contents /\ calm' = (calm /\ (Exists => Agrees(library)))
  BY <1>1 DEF Missed
<1>3. calm' => Agrees(library)
  BY <1>2, Zenon
<1>4. C # {} /\ Restricted(library, C) = library
  BY <1>2, RestrictedIs DEF Exists, TypeInv
<1>5. tasks' = (tasks \ {t}) \cup {[do |-> "refreshed", doc |-> library]}
  BY <1>1, <1>4
<1>6. library' = library
  BY DEF GetSingleDocument
<1> QED
  BY <1>3, <1>5, <1>6 DEF Agrees

\* What the source does has something coming after it, and reading brings what is
\* there.
LEMMA RefreshBackground ==
    ASSUME TypeInv, RefreshInv, NEW t \in tasks, Background(t)
    PROVE  RefreshInv'
<1>0. (calm' => calm) /\ ~panicked
  BY Histories DEF Next
<1>1. CASE ReadCovers(t) \/ CountPages(t) \/ RenderPreview(t)
  <2>1. page' = page
    BY <1>1, ReadTasks DEF Work
  <2>2. \A u \in tasks : u.do \in Coming \cup {"refreshed"} => u \in tasks'
    <3>1. t.do \notin Coming \cup {"refreshed"}
      BY <1>1, ReadTasks DEF Coming
    <3>2. tasks \ {t} \subseteq tasks'
      BY <1>1 DEF ReadCovers, CountPages, RenderPreview
    <3> QED
      BY <3>1, <3>2
  <2> QED
    BY <1>0, <1>1, <2>1, <2>2, ReadTasks, RefreshKept
<1>2. CASE GetSingleDocument(t)
  <2> SUFFICES ASSUME calm', Exists' PROVE RefreshInv'
    BY DEF RefreshInv
  <2>1. library' = library /\ (\A u \in tasks : u.do = "refreshed" => u.doc = library)
        /\ tasks' = (tasks \ {t}) \cup {[do |-> "refreshed", doc |-> library]}
    <3>1. Exists
      BY <1>2 DEF GetSingleDocument, Exists
    <3> QED
      BY <1>2, <3>1, ReadWhole
  <2>2. \A u \in tasks' : u.do = "refreshed" => u.doc = library
    BY <2>1
  <2>3. Pending({"refreshed"})'
    <3> DEFINE r == [do |-> "refreshed", doc |-> library]
    <3>1. r \in tasks' /\ r.do = "refreshed"
      BY <2>1
    <3> QED
      BY <3>1 DEF Pending
  <2> QED
    BY <2>1, <2>2, <2>3 DEF RefreshInv
<1>3. CASE TagContents(t) \/ UpdateStatuses(t)
  BY <1>3, EachTasks, RefreshComing DEF Coming
<1>4. CASE \E ok \in BOOLEAN : Answered(t, ok)
  BY <1>4, RefreshNow DEF Answered
<1>5. CASE Fetch(t)
  <2>1. library' = library /\ page' = page /\ t.do = "fetch" /\ tasks \ {t} \subseteq tasks'
        /\ \A u \in tasks' : u \in tasks \/ u.do = "loaded"
    BY <1>5 DEF Fetch, Work
  <2> QED
    BY <1>0, <2>1, RefreshKept DEF Coming
<1> QED
  BY <1>1, <1>2, <1>3, <1>4, <1>5
     DEF Background, AllContentsDone, UpdateDocumentMetadata, RemoveContent, DeleteSource,
         SetPageThumbnail

\* Every step keeps RefreshInv.
LEMMA RefreshStep == ASSUME TypeInv, ThumbnailInv, ListInv, RefreshInv, [Next]_vars PROVE RefreshInv'
<1>1. CASE UNCHANGED vars
  BY <1>1 DEF vars, order, bounds, RefreshInv, Pending, Exists, AllTags
<1>2. CASE ChangedElsewhere
  BY <1>2, RefreshNow DEF ChangedElsewhere
<1> QED
  BY <1>1, <1>2, RefreshUses, RefreshMessages, RefreshBackground DEF Next

(***************************************************************************)
(* The list.                                                               *)
(***************************************************************************)
\* What is under way to the list or the page.
Bringing == {"loaded", "row", "row-of-format", "refreshed"}

\* ListInv stays when the document, the row and the cache do not change, nothing
\* under way is lost and nothing comes to the list or the page.
LEMMA ListKept ==
    ASSUME ListInv, ~panicked, calm' => calm, library' = library, row' = row, cache' = cache,
           \A u \in tasks : u.do \in Renewing \cup {"request"} => u \in tasks',
           \A u \in tasks' : u \in tasks \/ u.do \notin Bringing,
           page' # None => Whole(page'.doc)
    PROVE  ListInv'
<1>1. Exists' = Exists /\ (~Pending(Expected)' => ~Pending(Expected)) /\ (~Pending({"request"})' => ~Pending({"request"}))
  BY DEF Exists, Pending, Expected, Renewing, Refreshing, Loading
<1>2. row' = None => Pending({"fetch", "loaded"})'
  BY DEF ListInv, Pending, Renewing, Refreshing, Loading
<1>3. \A t \in tasks' : t.do \in {"row", "row-of-format"} \/ (t.do = "refreshed" /\ t.doc # None) => Whole(t.doc)
  BY DEF ListInv, Bringing
<1>4. calm' /\ ~Pending({"request"})' => cache' \in {None, library'}
  BY <1>1 DEF ListInv
<1>5. calm' /\ Exists' => /\ \A doc \in {row', cache'} : doc # None => Whole(doc)
                          /\ \A t \in tasks' : t.do = "loaded" => Whole(t.doc)
  BY <1>1 DEF ListInv, Bringing
<1>6. ASSUME calm', Exists', ~Pending(Expected)'
      PROVE  Agrees(library)' /\ (row' = library' \/ Pending({"loaded", "row"} \cup Refreshing)')
  <2>1. Agrees(library) /\ (row = library \/ Pending({"loaded", "row"} \cup Refreshing))
    BY <1>1, <1>6 DEF ListInv
  <2>2. Agrees(library)'
    BY <2>1 DEF Agrees, Bringing
  <2>3. Pending({"loaded", "row"} \cup Refreshing) => Pending({"loaded", "row"} \cup Refreshing)'
    BY DEF Pending, Renewing, Loading
  <2> QED
    BY <2>1, <2>2, <2>3
<1> QED
  BY <1>2, <1>3, <1>4, <1>5, <1>6 DEF ListInv, Whole

\* It stays when the caches have expired, or will as a request goes on, and
\* contents only go.
LEMMA ListExpected ==
    ASSUME TypeInv, ListInv, calm' => calm, Exists' => Exists, row' = row, page' = page,
           cache' = None \/ (cache' = cache /\ \E u \in tasks' : u.do = "request"),
           \E u \in tasks' : u.do \in Expected,
           \A u \in tasks : u.do \in {"fetch", "loaded"} => u \in tasks',
           \A u \in tasks' : u \in tasks \/ u.do \notin Bringing
    PROVE  ListInv'
<1>2. row' = None => Pending({"fetch", "loaded"})'
  BY DEF ListInv, Pending
<1>3. \A t \in tasks' : t.do \in {"row", "row-of-format"} \/ (t.do = "refreshed" /\ t.doc # None) => Whole(t.doc)
  BY DEF ListInv, Bringing
<1>4. calm' /\ ~Pending({"request"})' => cache' \in {None, library'}
  BY DEF Pending
<1>5. calm' /\ Exists' => /\ \A doc \in {row', cache'} : doc # None => Whole(doc)
                          /\ \A t \in tasks' : t.do = "loaded" => Whole(t.doc)
  BY DEF ListInv, Bringing
<1>6. Pending(Expected)' /\ (page' # None => Whole(page'.doc))
  BY DEF ListInv, Pending
<1> QED
  BY <1>2, <1>3, <1>4, <1>5, <1>6 DEF ListInv, Whole

\* The page keeps its contents; it is opened with a row that has some.
LEMMA ListUses == ASSUME TypeInv, ListInv, Uses PROVE ListInv'
<1>0. (calm' => calm) /\ ~panicked
  BY Histories DEF Next
<1>1. library' = library /\ row' = row /\ cache' = cache /\ tasks \subseteq tasks'
  BY UsesAre, ChangesDo, PickingDo, FormsDo
     DEF Open, Close, SaveThumbnail, OpenThumbnailPicker, Click, Change, PickerClick, Request
<1>2. \A u \in tasks' : u \in tasks \/ u.do \notin Bringing
  <2>1. CASE Changes \/ SaveThumbnail
    <3>1. PICK r : tasks' = tasks \cup {[do |-> "request", what |-> r]}
      BY <2>1, ChangesDo DEF SaveThumbnail, Request
    <3> QED
      BY <3>1 DEF Bringing
  <2>2. CASE Picking \/ Forms \/ Close
    BY <2>2, PickingDo, FormsDo DEF Close, Bringing
  <2>3. CASE Open
    <3>1. tasks' = tasks \cup {[do |-> "covers", of |-> DOMAIN row.contents]}
      BY <2>3 DEF Open
    <3> QED
      BY <3>1 DEF Bringing
  <2>4. CASE \E c \in Contents : OpenThumbnailPicker(c)
    BY <2>4 DEF OpenThumbnailPicker, Bringing
  <2> QED
    BY <2>1, <2>2, <2>3, <2>4, UsesAre
<1>3. page' # None => Whole(page'.doc)
  <2>1. CASE Changes
    <3>1. page # None /\ page \in PageType /\ page.doc \in Documents
      BY <2>1, ChangesDo, PageIs
    <3>2. page'.doc = page.doc \/ \E c \in Contents : page'.doc = [page.doc EXCEPT !.meta.cover = c]
      BY <2>1, <3>1
         DEF Changes, AddTag, RemoveTag, UpdateReadingStatus, SaveDocumentMeta, SelectCover,
             ConfirmRemoval, PageType
    <3>3. page'.doc.contents = page.doc.contents
      BY <3>1, <3>2, DocIs
    <3> QED
      BY <3>1, <3>3 DEF ListInv, Whole
  <2>2. CASE Picking
    BY <2>2, PickingDo DEF PageType, ListInv
  <2>3. CASE Forms
    BY <2>3, FormsDo DEF ListInv
  <2>4. CASE Open
    BY <2>4 DEF Open, Listed, NewPage, Whole
  <2>5. CASE Close
    BY <2>5 DEF Close
  <2>6. CASE SaveThumbnail \/ \E c \in Contents : OpenThumbnailPicker(c)
    <3>1. page # None /\ page \in PageType
      BY <2>6 DEF SaveThumbnail, OpenThumbnailPicker, Click, TypeInv
    <3>2. page'.doc = page.doc
      BY <2>6, <3>1 DEF SaveThumbnail, OpenThumbnailPicker, PageType
    <3> QED
      BY <3>1, <3>2 DEF ListInv
  <2> QED
    BY <2>1, <2>2, <2>3, <2>4, <2>5, <2>6, UsesAre
<1> QED
  BY <1>0, <1>1, <1>2, <1>3, ListKept

\* What was read has come to the page, and is on its way to the list.
LEMMA ListRefreshed ==
    ASSUME TypeInv, ListInv, calm' => calm, ~panicked, NEW t \in tasks, DocumentRefreshed(t)
    PROVE  ListInv'
<1> DEFINE r == [do |-> "row", doc |-> t.doc]
<1>1. library' = library /\ row' = row /\ cache' = cache /\ t.do = "refreshed" /\ page # None
  BY DEF DocumentRefreshed, Delivered, Handle
<1>2. tasks' = tasks \ {t} \/ (t.doc # None /\ tasks' = (tasks \ {t}) \cup {r})
  BY DEF DocumentRefreshed
<1>3. r.do = "row" /\ r.doc = t.doc
  OBVIOUS
<1> HIDE DEF r
<1>4. /\ Exists' = Exists /\ (Pending(Expected) => Pending(Expected)')
      /\ (Pending({"request"}) => Pending({"request"})')
      /\ (Pending({"fetch", "loaded"}) => Pending({"fetch", "loaded"})')
  BY <1>1, <1>2 DEF Pending, Exists, Expected
<1>5. page' # None => Whole(page'.doc)
  <2>1. CASE t.doc = None
    BY <1>1, <2>1 DEF DocumentRefreshed, ListInv
  <2>2. CASE t.doc # None
    <3>1. Whole(t.doc)
      BY <1>1, <2>2 DEF ListInv
    <3>2. page' = [page EXCEPT !.doc = t.doc, !.tags = AllTags(t.doc)] /\ page \in PageType
      BY <1>1, <2>2 DEF DocumentRefreshed, Refreshed, TypeInv
    <3> QED
      BY <3>1, <3>2 DEF PageType
  <2> QED
    BY <2>1, <2>2
<1>6. \A u \in tasks' : u.do \in {"row", "row-of-format"} \/ (u.do = "refreshed" /\ u.doc # None) => Whole(u.doc)
  BY <1>1, <1>2, <1>3 DEF ListInv
<1>7. \A u \in tasks' : u.do = "loaded" => u \in tasks
  BY <1>2, <1>3
<1>8. ASSUME calm', Exists', ~Pending(Expected)'
      PROVE  Agrees(library)' /\ Pending({"loaded", "row"} \cup Refreshing)'
  <2>1. Agrees(library)
    BY <1>4, <1>8 DEF ListInv
  <2>2. t.doc = library /\ t.doc # None
    BY <1>1, <2>1 DEF Agrees, TypeInv
  <2>3. tasks' = (tasks \ {t}) \cup {r}
    BY <2>2 DEF DocumentRefreshed, r
  <2>4. Agrees(library)'
    BY <1>1, <1>3, <2>1, <2>2, <2>3 DEF Agrees
  <2> QED
    BY <1>3, <2>3, <2>4 DEF Pending
<1> QED
  BY <1>1, <1>4, <1>5, <1>6, <1>7, <1>8 DEF ListInv, Whole

\* A format that was removed has the page refreshed, unless that is closed.
LEMMA ListFormat ==
    ASSUME TypeInv, ListInv, calm' => calm, ~panicked, NEW t \in tasks, FormatRemoved(t)
    PROVE  ListInv'
<1>1. library' = library /\ row' = row /\ cache' = cache /\ t.do = "answer" /\ page # None
  BY DEF FormatRemoved, Delivered, Handle
<1>2. CASE t.ok /\ ~IsLastFormat
  <2> DEFINE r == [do |-> "row-of-format", doc |-> page.doc]
  <2>1. tasks' = (tasks \ {t}) \cup {r} /\ page' = page
    BY <1>2 DEF FormatRemoved
  <2>2. r.do = "row-of-format" /\ r.doc = page.doc
    OBVIOUS
  <2> HIDE DEF r
  <2>3. /\ Exists' = Exists /\ (Pending(Expected) => Pending(Expected)')
        /\ (Pending({"request"}) => Pending({"request"})')
        /\ (Pending({"fetch", "loaded"}) => Pending({"fetch", "loaded"})')
    BY <1>1, <2>1 DEF Pending, Exists, Expected
  <2>4. \A u \in tasks' : u.do \in {"row", "row-of-format"} \/ (u.do = "refreshed" /\ u.doc # None) => Whole(u.doc)
    BY <1>1, <2>1, <2>2 DEF ListInv
  <2>5. \A u \in tasks' : u.do \in {"loaded", "refreshed", "row"} => u \in tasks
    BY <2>1, <2>2
  <2>6. Pending({"loaded", "row"} \cup Refreshing)'
    BY <2>1, <2>2 DEF Pending, Refreshing
  <2>7. Agrees(library) => Agrees(library)'
    BY <1>1, <2>5 DEF Agrees
  <2> QED
    BY <1>1, <2>1, <2>3, <2>4, <2>5, <2>6, <2>7 DEF ListInv, Whole
<1>3. CASE ~(t.ok /\ ~IsLastFormat)
  <2>1. \A u \in tasks' : u \in tasks \/ u.do = "refresh"
    BY <1>3 DEF FormatRemoved, RefreshMessage
  <2>2. tasks \ {t} \subseteq tasks' /\ (page' = None \/ page' = page)
    BY <1>3 DEF FormatRemoved
  <2>3. page' # None => Whole(page'.doc)
    BY <2>2 DEF ListInv
  <2> QED
    BY <1>1, <2>1, <2>2, <2>3, ListKept DEF Renewing, Refreshing, Loading, Bringing
<1> QED
  BY <1>2, <1>3

\* The list shows what was loaded, or what the page has.
LEMMA ListLoads ==
    ASSUME TypeInv, ListInv, calm' => calm, ~panicked, NEW t \in tasks,
           LoadArchive(t) \/ Loaded(t) \/ RowRefreshed(t)
    PROVE  ListInv'
<1>1. /\ library' = library /\ cache' = cache /\ page' = page /\ calm' = calm /\ TaskType(t)
      /\ t.do \in {"load", "loaded", "row", "row-of-format"}
  BY DEF LoadArchive, Loaded, RowRefreshed, Handle, order, TypeInv
<1>2. \A u \in tasks' : u.do \in Bringing => u \in tasks \ {t}
  BY DEF LoadArchive, Loaded, RowRefreshed, RefreshMessage, Bringing
<1>3. \A u \in tasks \ {t} : u \in tasks'
  BY DEF LoadArchive, Loaded, RowRefreshed
<1>4. /\ Exists' = Exists /\ (Pending({"request"}) => Pending({"request"})')
      /\ \A u \in tasks' : u.do \in {"row", "row-of-format"} \/ (u.do = "refreshed" /\ u.doc # None) => Whole(u.doc)
      /\ \A u \in tasks' : u.do = "loaded" => u \in tasks
      /\ Agrees(library) => Agrees(library)'
  BY <1>1, <1>2, <1>3 DEF Pending, Exists, Bringing, ListInv, Agrees
<1>5. CASE LoadArchive(t)
  <2>1. row' = None /\ [do |-> "fetch"] \in tasks'
    BY <1>5 DEF LoadArchive
  <2>2. [do |-> "fetch"].do = "fetch"
    OBVIOUS
  <2>3. Pending({"fetch", "loaded"})' /\ Pending(Expected)'
    BY <2>1, <2>2 DEF Pending, Expected
  <2> QED
    BY <1>1, <1>4, <2>1, <2>3 DEF ListInv, Whole
<1>6. CASE Loaded(t)
  <2>1. row' = t.doc /\ t.do = "loaded" /\ t.doc # None
    BY <1>1, <1>6 DEF Loaded, TaskType
  <2>2. Pending(Expected) => Pending(Expected)'
    BY <1>3, <2>1 DEF Pending, Expected
  <2>3. calm' /\ Exists' /\ ~Pending(Expected)' => row' = library' /\ Agrees(library)'
    BY <1>1, <1>4, <2>1, <2>2 DEF ListInv, Agrees
  <2>4. calm' /\ Exists' => Whole(row')
    BY <1>1, <1>4, <2>1 DEF ListInv
  <2> QED
    BY <1>1, <1>4, <2>1, <2>3, <2>4 DEF ListInv, Whole
<1>7. CASE RowRefreshed(t)
  <2>1. t.do \in {"row", "row-of-format"} /\ row' = (IF Listed THEN t.doc ELSE row)
        /\ t.doc # None /\ Whole(t.doc)
    BY <1>1, <1>7 DEF RowRefreshed, TaskType, ListInv
  <2>2. (Pending(Expected) => Pending(Expected)') /\ (Pending({"fetch", "loaded"}) => Pending({"fetch", "loaded"})')
    BY <1>3, <2>1 DEF Pending, Expected
  <2>3. row' = None => Pending({"fetch", "loaded"})'
    BY <2>1, <2>2 DEF ListInv
  <2>4. calm' /\ Exists' => (row' # None => Whole(row'))
    BY <1>1, <1>4, <2>1 DEF ListInv
  <2>5. ASSUME calm', Exists', ~Pending(Expected)'
        PROVE  row' = library' \/ Pending({"loaded", "row"} \cup Refreshing)'
    <3>1. CASE t.do = "row-of-format"
      <4>1. RefreshMessage \in tasks' /\ RefreshMessage.do = "refresh"
        BY <1>7, <3>1 DEF RowRefreshed, RefreshMessage
      <4> QED
        BY <4>1 DEF Pending, Refreshing
    <3>2. CASE t.do = "row"
      <4>1. t.doc = library
        BY <1>1, <1>4, <2>2, <2>5, <3>2 DEF ListInv, Agrees
      <4>2. CASE Listed
        BY <1>1, <2>1, <4>1, <4>2
      <4>3. CASE ~Listed
        <5>1. row = None
          BY <1>1, <1>4, <2>5, <4>3 DEF ListInv, Listed, Whole
        <5>2. Pending({"fetch", "loaded"})'
          BY <2>2, <5>1 DEF ListInv
        <5> QED
          BY <2>5, <5>2 DEF Pending, Expected
      <4> QED
        BY <4>2, <4>3
    <3> QED
      BY <2>1, <3>1, <3>2
  <2>6. calm' /\ Exists' /\ ~Pending(Expected)' => Agrees(library)'
    BY <1>1, <1>4, <2>2 DEF ListInv
  <2> QED
    BY <1>1, <1>4, <2>3, <2>4, <2>5, <2>6 DEF ListInv, Whole
<1> QED
  BY <1>5, <1>6, <1>7

\* What was loaded comes to the list, and what was read to the page and from it
\* to the list.
LEMMA ListMessages == ASSUME TypeInv, ListInv, NEW t \in tasks, Message(t) PROVE ListInv'
<1>0. (calm' => calm) /\ ~panicked
  BY Histories DEF Next
<1>1. CASE Showing(t)
  <2>1. library' = library /\ cache' = cache /\ row' = row
    BY <1>1, ShowingDo DEF Handle
  <2>2. \A u \in tasks' : u \in tasks \/ u.do \notin Bringing
    BY <1>1, ShowingDo DEF Bringing
  <2>3. \A u \in tasks : u.do \in Renewing \cup {"request"} => u \in tasks'
    BY <1>1, ShowingDo DEF Renewing, Refreshing, Loading
  <2>4. page' # None => Whole(page'.doc)
    BY <1>1, ShowingDo DEF ListInv
  <2> QED
    BY <1>0, <2>1, <2>2, <2>3, <2>4, ListKept
<1>2. CASE Panic(t)
  <2>1. /\ library' = library /\ row' = row /\ cache' = cache /\ page' = page /\ panicked' = TRUE
        /\ tasks' = tasks \ {t} /\ calm' = calm /\ t.do \notin {"fetch", "loaded", "request"}
    BY <1>2 DEF Panic, Handle, order
  <2>2. row' = None => Pending({"fetch", "loaded"})'
    BY <2>1 DEF ListInv, Pending
  <2>3. ~Pending({"request"})' => ~Pending({"request"})
    BY <2>1 DEF Pending
  <2> QED
    BY <2>1, <2>2, <2>3 DEF ListInv, Exists, Whole
<1>3. CASE Refresh(t)
  <2>1. /\ library' = library /\ row' = row /\ cache' = cache /\ page' = page /\ calm' = calm
        /\ tasks \ {t} \subseteq tasks' /\ [do |-> "load"] \in tasks' /\ t.do = "expired"
        /\ \A u \in tasks' : u \in tasks \/ u.do \notin Bringing
    BY <1>3 DEF Refresh, Handle, order, RefreshMessage, Bringing
  <2>2. [do |-> "load"].do = "load"
    OBVIOUS
  <2>3. row' = None => Pending({"fetch", "loaded"})'
    BY <2>1 DEF ListInv, Pending
  <2>4. ~Pending({"request"})' => ~Pending({"request"})
    BY <2>1 DEF Pending
  <2>5. Pending(Expected)'
    BY <2>1, <2>2 DEF Pending, Expected
  <2> QED
    BY <2>1, <2>3, <2>4, <2>5 DEF ListInv, Exists, Whole, Bringing
<1>4. CASE RefreshDocument(t)
  <2>1. /\ library' = library /\ row' = row /\ cache' = cache /\ page' = page /\ calm' = calm
        /\ tasks' = (tasks \ {t}) \cup {[do |-> "read"]} /\ t.do = "refresh"
    BY <1>4 DEF RefreshDocument, Delivered, Handle, order
  <2>2. [do |-> "read"].do = "read" /\ [do |-> "read"] \in tasks'
    BY <2>1
  <2>3. Pending(Refreshing)' /\ (Pending(Expected) => Pending(Expected)') /\ (Pending({"request"}) => Pending({"request"})')
        /\ (Pending({"fetch", "loaded"}) => Pending({"fetch", "loaded"})')
    BY <2>1, <2>2 DEF Pending, Refreshing, Expected
  <2>4. Agrees(library) => Agrees(library)'
    BY <2>1, <2>2 DEF Agrees
  <2>5. \A u \in tasks' : u \in tasks \/ u.do \notin Bringing
    BY <2>1 DEF Bringing
  <2>6. Pending({"loaded", "row"} \cup Refreshing)'
    BY <2>3 DEF Pending
  <2> QED
    BY <1>0, <2>1, <2>3, <2>4, <2>5, <2>6 DEF ListInv, Exists, Whole, Bringing
<1>5. CASE DocumentRefreshed(t)
  BY <1>0, <1>5, ListRefreshed
<1>6. CASE FormatRemoved(t)
  BY <1>0, <1>6, ListFormat
<1>7. CASE ThumbnailSaved(t)
  <2>1. library' = library /\ cache' = cache /\ row' = row /\ tasks' = tasks \ {t} /\ t.do = "answer"
        /\ page # None /\ page \in PageType
    BY <1>7 DEF ThumbnailSaved, Delivered, Handle, TypeInv
  <2>2. page' # None => Whole(page'.doc)
    <3>1. CASE page.picker # None /\ page.picker.preview # None /\ page' = ShowThumbnail(page.picker)
      <4>1. page'.doc = [page.doc EXCEPT !.meta.cover = page.picker.content]
        BY <2>1, <3>1, ShownIs, PageIs DEF TypeInv
      <4>2. page.doc \in Documents /\ page.picker.content \in Contents
        BY <2>1, <3>1, PageIs, PickersAre
      <4>3. page'.doc.contents = page.doc.contents
        BY <4>1, <4>2, DocIs
      <4> QED
        BY <2>1, <4>3 DEF ListInv, Whole
    <3>2. CASE page' = page \/ page' = [page EXCEPT !.picker = None] \/ page' = [page EXCEPT !.picker.saving = FALSE]
      BY <2>1, <3>2 DEF PageType, ListInv
    <3> QED
      BY <1>7, <3>1, <3>2 DEF ThumbnailSaved
  <2> QED
    BY <1>0, <2>1, <2>2, ListKept DEF Renewing, Refreshing, Loading
<1>8. CASE LoadArchive(t) \/ Loaded(t) \/ RowRefreshed(t)
  BY <1>0, <1>8, ListLoads
<1> QED
  BY <1>1, <1>2, <1>3, <1>4, <1>5, <1>6, <1>7, <1>8 DEF Message, Showing

\* A load that leaves it calm brings the document, unless a request is under way,
\* and agrees with what is on its way.
LEMMA ListFetched ==
    ASSUME TypeInv, ListInv, NEW t \in tasks, Fetch(t), calm' => calm, ~panicked
    PROVE  ListInv'
<1> DEFINE r == [do |-> "loaded", doc |-> cache']
<1>1. library' = library /\ row' = row /\ page' = page /\ t.do = "fetch" /\ tasks' = (tasks \ {t}) \cup {r}
  BY DEF Fetch, Work
<1>2. r.do = "loaded" /\ r.doc = cache'
  OBVIOUS
<1> HIDE DEF r
<1>3. /\ Exists' = Exists /\ Pending({"fetch", "loaded"})' /\ Pending({"loaded", "row"} \cup Refreshing)'
      /\ (Pending({"request"}) => Pending({"request"})')
      /\ \A u \in tasks' : u.do \in Bringing => u \in tasks \/ u = r
  BY <1>1, <1>2 DEF Exists, Pending, Bringing
<1>4. cache' # None
  <2>1. library \in Documents /\ \A title \in Titles : [library EXCEPT !.meta = [title |-> title, cover |-> None]] \in Documents
    BY LibraryIs DEF TypeInv, Meta
  <2>2. Restricted(library, {}) \in Documents
    BY <2>1, RestrictedIs
  <2>3. Answers \subseteq Documents
    BY <2>1, <2>2 DEF Answers
  <2> QED
    BY <2>3 DEF Fetch
<1>5. calm' => cache' \in {cache, library} /\ (Exists => Agrees(cache'))
  <2>1. CASE cache' \in {cache, library} /\ calm' = (calm /\ (Exists => Agrees(cache')))
    BY <2>1, Zenon
  <2>2. CASE Missed
    BY <2>2 DEF Missed
  <2> QED
    BY <2>1, <2>2 DEF Fetch
<1>6. calm' /\ ~Pending({"request"})' => cache' = library
  BY <1>3, <1>4, <1>5 DEF ListInv
<1>7. calm' /\ Exists' => Whole(cache')
  BY <1>3, <1>4, <1>5 DEF ListInv, Exists, Whole
<1>8. \A u \in tasks' : u.do \in {"row", "row-of-format"} \/ (u.do = "refreshed" /\ u.doc # None) => Whole(u.doc)
  BY <1>2, <1>3 DEF ListInv, Bringing
<1>9. calm' /\ Exists' => \A u \in tasks' : u.do = "loaded" => Whole(u.doc)
  BY <1>2, <1>3, <1>7 DEF ListInv, Bringing
<1>10. calm' /\ Exists' /\ ~Pending(Expected)' => Agrees(library)'
  <2>1. ~Pending(Expected)' => ~Pending({"request"})'
    BY DEF Pending, Expected
  <2>2. (calm' /\ Exists' /\ ~Pending(Expected)') => (cache' = library /\ Agrees(library))
    BY <1>3, <1>5, <1>6, <2>1
  <2>3. (cache' = library /\ Agrees(library)) => Agrees(library)'
    BY <1>1, <1>2, <1>3 DEF Agrees, Bringing
  <2> QED
    BY <2>2, <2>3
<1> QED
  BY <1>1, <1>3, <1>6, <1>7, <1>8, <1>9, <1>10 DEF ListInv, Whole

\* What was read is on its way to the page, and then to the list.
LEMMA ListRead ==
    ASSUME TypeInv, ListInv, NEW t \in tasks, GetSingleDocument(t), calm' => calm, ~panicked
    PROVE  ListInv'
<1>0. PICK C \in SUBSET DOMAIN library.contents :
          tasks' = (tasks \ {t}) \cup
              {[do |-> "refreshed", doc |-> IF C = {} THEN None ELSE Restricted(library, C)]}
  BY DEF GetSingleDocument
<1> DEFINE r == [do |-> "refreshed", doc |-> IF C = {} THEN None ELSE Restricted(library, C)]
<1>1. library' = library /\ row' = row /\ page' = page /\ cache' = cache /\ t.do = "read" /\ tasks' = (tasks \ {t}) \cup {r}
  BY <1>0 DEF GetSingleDocument, Work
<1>2. r.do = "refreshed" /\ (r.doc # None => Whole(r.doc))
  BY RestrictedIs DEF TypeInv, Whole
<1> HIDE DEF r
<1>3. /\ Exists' = Exists /\ (Pending({"fetch", "loaded"}) => Pending({"fetch", "loaded"})')
      /\ Pending({"loaded", "row"} \cup Refreshing)'
      /\ (Pending({"request"}) => Pending({"request"})')
      /\ \A u \in tasks' : u.do \in Bringing => u \in tasks \/ u = r
  BY <1>1, <1>2 DEF Exists, Pending, Bringing, Refreshing
<1>8. \A u \in tasks' : u.do \in {"row", "row-of-format"} \/ (u.do = "refreshed" /\ u.doc # None) => Whole(u.doc)
  BY <1>2, <1>3 DEF ListInv, Bringing
<1>9. \A u \in tasks' : u.do = "loaded" => u \in tasks
  BY <1>2, <1>3 DEF Bringing
<1>10. ASSUME calm', Exists' PROVE Agrees(library)'
  <2>1. Agrees(library) /\ tasks' = (tasks \ {t}) \cup {[do |-> "refreshed", doc |-> library]}
    BY <1>3, <1>10, ReadWhole
  <2> QED
    BY <1>1, <2>1 DEF Agrees
<1> QED
  BY <1>1, <1>3, <1>8, <1>9, <1>10 DEF ListInv, Whole

\* What requests that are not for a thumbnail do with the contents.
LEMMA RequestsDo ==
    ASSUME TypeInv, NEW t \in tasks,
           AllContentsDone(t) \/ UpdateDocumentMetadata(t) \/ RemoveContent(t) \/ DeleteSource(t)
    PROVE  /\ DOMAIN library'.contents \subseteq DOMAIN library.contents
           /\ \A c \in DOMAIN library'.contents : images'[c] = images[c]
           /\ \E ok \in BOOLEAN : Answered(t, ok)
           /\ t.do = "request" /\ Work(t) /\ ~IsThumbnail(t)
<1>0. library \in Documents /\ DOMAIN library.contents \subseteq Contents
      /\ library.contents \in [DOMAIN library.contents -> Content]
      /\ t \in [do : {"request"}, what : Requests]
  BY DocumentIs
     DEF TypeInv, TaskType, AllContentsDone, UpdateDocumentMetadata, RemoveContent, DeleteSource
<1>1. /\ DOMAIN library'.contents \subseteq DOMAIN library.contents
      /\ \A c \in DOMAIN library'.contents : images'[c] = images[c]
  <2>1. CASE AllContentsDone(t)
    BY <2>1 DEF AllContentsDone
  <2>2. CASE UpdateDocumentMetadata(t)
    <3>1. library' = library \/ library' = [library EXCEPT !.meta = t.what.meta]
      BY <2>2 DEF UpdateDocumentMetadata
    <3>2. [library EXCEPT !.meta = t.what.meta].contents = library.contents
      BY <1>0, DocumentIs
    <3>3. library'.contents = library.contents /\ images' = images
      BY <2>2, <3>1, <3>2 DEF UpdateDocumentMetadata
    <3> QED
      BY <3>3
  <2>3. CASE RemoveContent(t)
    <3> DEFINE m == [library.meta EXCEPT !.cover = IF @ = t.what.content THEN None ELSE @]
               f == Without(library.contents, t.what.content)
    <3>1. CASE library' = library /\ images' = images
      BY <3>1
    <3>2. CASE library' = [meta |-> m, contents |-> f] /\ images' = Without(images, t.what.content)
      <4>1. library'.contents = f /\ DOMAIN f = DOMAIN library.contents \ {t.what.content}
        BY <3>2, WithoutIs
      <4>2. DOMAIN library.contents \subseteq DOMAIN images
        BY DEF TypeInv
      <4> HIDE DEF f
      <4>3. \A c \in DOMAIN library'.contents : c \in DOMAIN images \ {t.what.content}
        BY <4>1, <4>2
      <4>4. ASSUME NEW c \in DOMAIN library'.contents PROVE images'[c] = images[c]
        <5>1. c \in DOMAIN images \ {t.what.content}
          BY <4>3
        <5>2. Without(images, t.what.content)[c] = images[c]
          BY <5>1, WithoutIs
        <5> QED
          BY <3>2, <5>2
      <4> QED
        BY <4>1, <4>4
    <3> QED
      BY <2>3, <3>1, <3>2 DEF RemoveContent
  <2>4. CASE DeleteSource(t)
    <3>1. library' = library \/ library' = [library EXCEPT !.contents = Without(@, t.what.content)]
      BY <2>4 DEF DeleteSource
    <3>2. [library EXCEPT !.contents = Without(@, t.what.content)].contents = Without(library.contents, t.what.content)
      BY <1>0, DocumentIs
    <3>3. library'.contents = library.contents \/ library'.contents = Without(library.contents, t.what.content)
      BY <3>1, <3>2
    <3>4. DOMAIN Without(library.contents, t.what.content) = DOMAIN library.contents \ {t.what.content}
      BY WithoutIs
    <3>5. images' = images
      BY <2>4 DEF DeleteSource
    <3> QED
      BY <3>3, <3>4, <3>5
  <2> QED
    BY <2>1, <2>2, <2>3, <2>4
<1>2. \E ok \in BOOLEAN : Answered(t, ok)
  BY DEF AllContentsDone, UpdateDocumentMetadata, RemoveContent, DeleteSource
<1>3. t.do = "request" /\ Work(t) /\ ~IsThumbnail(t)
  BY DEF AllContentsDone, UpdateDocumentMetadata, RemoveContent, DeleteSource, IsThumbnail
<1> QED
  BY <1>1, <1>2, <1>3

\* A request that goes on expires the caches, or has yet to.
LEMMA ListBackground == ASSUME TypeInv, ListInv, NEW t \in tasks, Background(t) PROVE ListInv'
<1>0. (calm' => calm) /\ ~panicked
  BY Histories DEF Next
<1>1. CASE ReadCovers(t) \/ CountPages(t) \/ RenderPreview(t)
  <2>1. library' = library /\ row' = row /\ cache' = cache /\ page' = page
    BY <1>1, ReadTasks DEF Work, ReadCovers, CountPages, RenderPreview
  <2>2. \A u \in tasks : u.do \in Renewing \cup {"request"} => u \in tasks'
    <3>1. t.do \notin Renewing \cup {"request"}
      BY <1>1, ReadTasks DEF Renewing, Refreshing, Loading
    <3>2. tasks \ {t} \subseteq tasks'
      BY <1>1 DEF ReadCovers, CountPages, RenderPreview
    <3> QED
      BY <3>1, <3>2
  <2>3. \A u \in tasks' : u \in tasks \/ u.do \notin Bringing
    BY <1>1, ReadTasks DEF Bringing
  <2>4. page' # None => Whole(page'.doc)
    BY <2>1 DEF ListInv
  <2> QED
    BY <1>0, <2>1, <2>2, <2>3, <2>4, ListKept
<1>2. CASE GetSingleDocument(t) \/ Fetch(t)
  BY <1>0, <1>2, ListRead, ListFetched
<1>3. CASE TagContents(t) \/ UpdateStatuses(t)
  <2>1. row' = row /\ page' = page /\ (cache' = None \/ cache' = cache) /\ t.do = "request"
    BY <1>3 DEF TagContents, UpdateStatuses, Work
  <2>2. PICK v : /\ v.do = "request" /\ v \in tasks' /\ tasks \ {t} \subseteq tasks'
                 /\ \A u \in tasks' : u \in tasks \ {t} \/ u = v \/ (u.do = "expired" /\ t.what.is = "status")
    BY <1>3, EachTasks
  <2>3. Exists' => Exists
    BY <1>3, EachRetags DEF Retagged, Exists
  <2> QED
    BY <1>0, <2>1, <2>2, <2>3, ListExpected DEF Expected, Bringing
<1>4. CASE (\E ok \in BOOLEAN : Answered(t, ok)) /\ t.do = "request" /\ Work(t) /\ (Exists' => Exists)
  <2>1. PICK ok \in BOOLEAN : Answered(t, ok)
    BY <1>4
  <2>2. /\ cache' = None /\ row' = row /\ page' = page
        /\ tasks' = (tasks \ {t}) \cup {[do |-> "expired"], [do |-> "answer", what |-> t.what, ok |-> ok]}
    BY <1>4, <2>1 DEF Answered, Work
  <2>3. [do |-> "expired"].do = "expired" /\ [do |-> "expired"] \in tasks' /\ tasks \ {t} \subseteq tasks'
        /\ \A u \in tasks' : u \in tasks \/ u.do \in {"expired", "answer"}
    BY <2>2
  <2> QED
    BY <1>0, <1>4, <2>2, <2>3, ListExpected DEF Expected, Bringing
<1>5. ASSUME AllContentsDone(t) \/ UpdateDocumentMetadata(t) \/ RemoveContent(t) \/ DeleteSource(t)
             \/ SetPageThumbnail(t)
      PROVE  DOMAIN library'.contents \subseteq DOMAIN library.contents
  <2>1. CASE SetPageThumbnail(t)
    <3>1. t.what.view.content \in Contents
      BY <2>1, RequestsAre DEF SetPageThumbnail, TypeInv, TaskType, View
    <3>2. library' = library \/ library' = [library EXCEPT !.meta.cover = t.what.view.content]
      BY <2>1 DEF SetPageThumbnail
    <3>3. library'.contents = library.contents
      BY <3>1, <3>2, LibraryIs DEF TypeInv
    <3> QED
      BY <3>3
  <2> QED
    BY <1>5, <2>1, RequestsDo
<1> QED
  BY <1>1, <1>2, <1>3, <1>4, <1>5
     DEF Background, AllContentsDone, UpdateDocumentMetadata, RemoveContent, DeleteSource,
         SetPageThumbnail, Exists

\* Every step keeps ListInv.
LEMMA ListStep == ASSUME TypeInv, ListInv, [Next]_vars PROVE ListInv'
<1>1. CASE UNCHANGED vars
  BY <1>1 DEF vars, order, bounds, ListInv, Pending, Exists, Agrees, Whole
<1>2. CASE ChangedElsewhere
  <2>1. /\ cache' = None /\ row' = row /\ page' = page /\ calm' = calm /\ Exists
        /\ tasks' = tasks \cup {[do |-> "expired"]}
    BY <1>2 DEF ChangedElsewhere
  <2>2. [do |-> "expired"].do = "expired"
    OBVIOUS
  <2> QED
    BY <2>1, <2>2, ListExpected DEF Expected, Bringing
<1> QED
  BY <1>1, <1>2, ListUses, ListMessages, ListBackground DEF Next

(***************************************************************************)
(* Covers.                                                                 *)
(***************************************************************************)
\* Covers stay true when contents only go, the pictures of the others are as
\* they were, and no page or answer gets other covers.
LEMMA CoversKept ==
    ASSUME CoversInv, ~panicked, apart' => apart,
           DOMAIN library'.contents \subseteq DOMAIN library.contents,
           \A c \in DOMAIN library'.contents : images'[c] = images[c],
           \A u \in tasks' : u \in tasks \/ u.do # "covers-loaded",
           \A u \in tasks : u.do = "answer" /\ IsThumbnail(u) => u \in tasks',
           page' # None => page'.covers = None \/ (page # None /\ page'.covers = page.covers)
    PROVE  CoversInv'
<1> SUFFICES ASSUME apart'
    PROVE  /\ \A t \in tasks' : t.do = "covers-loaded" =>
                \A c \in DOMAIN library'.contents \cap DOMAIN t.covers : t.covers[c] = images'[c]
           /\ page' # None /\ page'.covers # None =>
                \A c \in DOMAIN library'.contents \cap DOMAIN page'.covers :
                    page'.covers[c] = images'[c]
                    \/ \E t \in tasks' : t.do = "answer" /\ IsThumbnail(t) /\ c = t.what.view.content
  BY DEF CoversInv, IsThumbnail
<1>1. apart
  OBVIOUS
<1>2. ASSUME NEW t \in tasks', t.do = "covers-loaded", NEW c \in DOMAIN library'.contents \cap DOMAIN t.covers
      PROVE  t.covers[c] = images'[c]
  BY <1>1, <1>2 DEF CoversInv
<1>3. ASSUME page' # None, page'.covers # None, NEW c \in DOMAIN library'.contents \cap DOMAIN page'.covers
      PROVE  \/ page'.covers[c] = images'[c]
             \/ \E t \in tasks' : t.do = "answer" /\ IsThumbnail(t) /\ c = t.what.view.content
  <2>1. page # None /\ page'.covers = page.covers
    BY <1>3
  <2>2. \/ page.covers[c] = images[c]
        \/ \E t \in tasks : t.do = "answer" /\ IsThumbnail(t) /\ c = t.what.view.content
    BY <1>1, <1>3, <2>1 DEF CoversInv
  <2> QED
    BY <1>3, <2>1, <2>2
<1> QED
  BY <1>2, <1>3

\* No click changes the covers.
LEMMA CoversUses == ASSUME TypeInv, CoversInv, Uses PROVE CoversInv'
<1>0. (apart' => apart) /\ ~panicked
  BY Histories DEF Next
<1>1. library' = library /\ images' = images
  BY Clicked, UsesAre, ChangesDo, PickingDo, FormsDo
     DEF Open, Close, SaveThumbnail, OpenThumbnailPicker
<1>2. \A u \in tasks' : u \in tasks \/ u.do # "covers-loaded"
  <2> SUFFICES ASSUME NEW u \in tasks', u \notin tasks PROVE u.do # "covers-loaded"
    OBVIOUS
  <2>1. CASE Changes
    <3>1. PICK q : tasks' = tasks \cup {[do |-> "request", what |-> q]}
      BY <2>1, ChangesDo
    <3>2. u = [do |-> "request", what |-> q]
      BY <3>1
    <3> QED
      BY <3>2
  <2>2. CASE Picking \/ Forms \/ Close
    BY <2>2, PickingDo, FormsDo DEF Close
  <2>3. CASE Open
    <3>1. u = [do |-> "covers", of |-> DOMAIN row.contents]
      BY <2>3 DEF Open
    <3> QED
      BY <3>1
  <2>4. CASE SaveThumbnail
    <3>1. u = [do |-> "request", what |-> [is |-> "thumbnail", view |-> Pick(page.picker)]]
      BY <2>4 DEF SaveThumbnail, Request
    <3> QED
      BY <3>1
  <2>5. CASE \E c \in Contents : OpenThumbnailPicker(c)
    <3>1. u = [do |-> "count"]
      BY <2>5 DEF OpenThumbnailPicker
    <3> QED
      BY <3>1
  <2> QED
    BY <2>1, <2>2, <2>3, <2>4, <2>5, UsesAre
<1>3. \A u \in tasks : u \in tasks'
  BY UsesAre, ChangesDo, PickingDo, FormsDo
     DEF Open, Close, SaveThumbnail, OpenThumbnailPicker, Request
<1>4. page' # None => page'.covers = None \/ (page # None /\ page'.covers = page.covers)
  <2>1. CASE Changes
    BY <2>1, ChangesDo
  <2>2. CASE Picking
    BY <2>2, PickingDo DEF PageType
  <2>3. CASE Forms
    BY <2>3, FormsDo
  <2>4. CASE Open \/ Close
    BY <2>4 DEF Open, Close, NewPage
  <2>5. CASE SaveThumbnail \/ \E c \in Contents : OpenThumbnailPicker(c)
    BY <2>5 DEF SaveThumbnail, OpenThumbnailPicker, Click, TypeInv, PageType
  <2> QED
    BY <2>1, <2>2, <2>3, <2>4, <2>5, UsesAre
<1> QED
  BY <1>0, <1>1, <1>2, <1>3, <1>4, CoversKept

\* The covers that were read come to the page, and the one that was saved as a
\* thumbnail is the one the source has by then.
LEMMA CoversMessages ==
    ASSUME TypeInv, ThumbnailInv, CoversInv, NEW t \in tasks, Message(t)
    PROVE  CoversInv'
<1>0. (apart' => apart) /\ ~panicked
  BY Histories DEF Next
<1>1. CASE CoversLoaded(t)
  <2>0. SUFFICES ASSUME apart' PROVE CoversInv'
    BY DEF CoversInv
  <2>1. library' = library /\ images' = images /\ tasks' = tasks \ {t} /\ page # None /\ page \in PageType
        /\ t.do = "covers-loaded" /\ page' = [page EXCEPT !.covers = t.covers]
    BY <1>1 DEF CoversLoaded, Delivered, Handle, TypeInv
  <2>2. page'.covers = t.covers
    BY <2>1 DEF PageType
  <2>3. \A u \in tasks : u.do = "covers-loaded" =>
           \A c \in DOMAIN library.contents \cap DOMAIN u.covers : u.covers[c] = images[c]
    BY <1>0, <2>0 DEF CoversInv
  <2>4. \A u \in tasks' : u.do = "covers-loaded" =>
           \A c \in DOMAIN library'.contents \cap DOMAIN u.covers : u.covers[c] = images'[c]
    BY <2>1, <2>3
  <2>5. \A c \in DOMAIN library'.contents \cap DOMAIN page'.covers : page'.covers[c] = images'[c]
    BY <2>1, <2>2, <2>3
  <2> QED
    BY <2>4, <2>5 DEF CoversInv
<1>2. CASE ThumbnailSaved(t)
  <2>0. SUFFICES ASSUME apart' PROVE CoversInv'
    BY DEF CoversInv
  <2>1. library' = library /\ images' = images /\ tasks' = tasks \ {t} /\ page # None /\ page \in PageType
        /\ t.do = "answer" /\ IsThumbnail(t) /\ t.what.view \in View
    <3>1. t.what \in Requests /\ t.what.is = "thumbnail"
      BY <1>2 DEF ThumbnailSaved, TypeInv, TaskType
    <3>2. t.what.view \in View
      BY <3>1 DEF Requests, Removals
    <3> QED
      BY <1>2, <3>2 DEF ThumbnailSaved, Delivered, Handle, TypeInv, IsThumbnail
  <2>2. /\ page.picker # None /\ Pick(page.picker) = t.what.view /\ page.picker.preview = t.what.view
        /\ t.ok /\ images[t.what.view.content] = t.what.view
        /\ \A u \in tasks : u.do \notin Renewing => u = t
    BY <1>0, <2>0, <2>1 DEF ThumbnailInv
  <2>3. page' = ShowThumbnail(page.picker)
    BY <1>2, <2>1, <2>2 DEF ThumbnailSaved
  <2>4. page'.covers = Covered(page.covers, page.picker) /\ page.covers \in Covers
    BY <2>1, <2>2, <2>3, ShownIs, PageIs DEF TypeInv
  <2>5. page.picker.content = t.what.view.content
    BY <2>2 DEF Pick
  <2>6. \A c \in DOMAIN page'.covers :
           page'.covers[c] = IF c = t.what.view.content THEN t.what.view ELSE page.covers[c]
    BY <2>2, <2>4, <2>5 DEF Covered
  <2>7. ASSUME NEW c \in DOMAIN library'.contents \cap DOMAIN page'.covers
        PROVE  page'.covers[c] = images'[c]
    <3>1. CASE c = t.what.view.content
      BY <2>1, <2>2, <2>6, <3>1
    <3>2. CASE c # t.what.view.content
      <4>1. c \in DOMAIN page.covers
        BY <2>4, <2>5, <3>2 DEF Covered
      <4>2. page.covers # None
        BY <2>4
      <4>3. \/ page.covers[c] = images[c]
            \/ \E u \in tasks : u.do = "answer" /\ IsThumbnail(u) /\ c = u.what.view.content
        BY <1>0, <2>0, <2>1, <4>1, <4>2 DEF CoversInv
      <4>4. \A u \in tasks : u.do = "answer" => u = t
        BY <2>2 DEF Renewing, Refreshing, Loading
      <4> QED
        BY <2>1, <2>6, <3>2, <4>3, <4>4
    <3> QED
      BY <3>1, <3>2
  <2>8. \A u \in tasks' : u.do # "covers-loaded"
    BY <2>1, <2>2 DEF Renewing, Refreshing, Loading
  <2> QED
    BY <2>7, <2>8 DEF CoversInv
<1>3. CASE ~CoversLoaded(t) /\ ~ThumbnailSaved(t) /\ ~Panic(t)
  <2>1. Handle(t)
    BY <1>3, ShowingDo
       DEF Message, Showing, Refresh, RefreshDocument, DocumentRefreshed, FormatRemoved,
           LoadArchive, Loaded, RowRefreshed, Delivered
  <2>2. page' # None => page # None /\ page'.covers = page.covers
    <3>1. CASE Showing(t)
      BY <1>3, <3>1, ShowingDo
         DEF Showing, ThumbnailPageCountLoaded, ThumbnailReloadPreview,
             ThumbnailBigPreviewLoaded, ThumbnailFailed, RequestAnswered, PageType
    <3>2. CASE \/ Refresh(t) \/ RefreshDocument(t) \/ FormatRemoved(t)
               \/ LoadArchive(t) \/ Loaded(t) \/ RowRefreshed(t)
      BY <3>2 DEF Refresh, RefreshDocument, FormatRemoved, LoadArchive, Loaded, RowRefreshed, Delivered
    <3>3. CASE DocumentRefreshed(t)
      BY <3>3 DEF DocumentRefreshed, Refreshed, Delivered, TypeInv, PageType
    <3> QED
      BY <1>3, <3>1, <3>2, <3>3 DEF Message, Showing
  <2>3. \A u \in tasks' : u \in tasks \/ u.do # "covers-loaded"
    BY MessageTasks
  <2>4. \A u \in tasks : u.do = "answer" /\ IsThumbnail(u) => u \in tasks'
    <3>1. ~(t.do = "answer" /\ IsThumbnail(t))
      BY <1>3
         DEF IsThumbnail, Message, Panic, CoversLoaded, Refresh, RefreshDocument,
             DocumentRefreshed, LoadArchive, Loaded, RowRefreshed, RequestAnswered,
             FormatRemoved, ThumbnailPageCountLoaded, ThumbnailReloadPreview,
             ThumbnailBigPreviewLoaded, ThumbnailFailed
    <3>2. tasks \ {t} \subseteq tasks'
      <4>1. CASE Showing(t)
        BY <4>1, ShowingDo
      <4> QED
        BY <1>3, <4>1
           DEF Message, Showing, Refresh, RefreshDocument, DocumentRefreshed, FormatRemoved,
               LoadArchive, Loaded, RowRefreshed
    <3> QED
      BY <3>1, <3>2
  <2> QED
    BY <1>0, <2>1, <2>2, <2>3, <2>4, CoversKept DEF Handle
<1>4. CASE Panic(t)
  BY <1>4 DEF Panic, CoversInv
<1> QED
  BY <1>1, <1>2, <1>3, <1>4

\* What an answer to a request and the reading of the document leave.
LEMMA AnswerTasks ==
    ASSUME NEW t, NEW ok, Answered(t, ok)
    PROVE  \A u \in tasks' : \/ u \in tasks \ {t} \/ u.do = "expired"
                             \/ u = [do |-> "answer", what |-> t.what, ok |-> ok] /\ u.do = "answer"
<1>1. \A u \in tasks' : u \in tasks \ {t} \/ u = [do |-> "expired"] \/ u = [do |-> "answer", what |-> t.what, ok |-> ok]
  BY DEF Answered
<1> QED
  BY <1>1

\* What comes of reading the document and of loading the list.
LEMMA GetTasks ==
    ASSUME NEW t, GetSingleDocument(t) \/ Fetch(t)
    PROVE  /\ \A u \in tasks' : u \in tasks \ {t} \/ u.do \in {"refreshed", "loaded"}
           /\ tasks \ {t} \subseteq tasks' /\ t.do \in {"read", "fetch"} /\ Work(t)
           /\ library' = library /\ images' = images
  BY DEF GetSingleDocument, Fetch

\* Covers are read as they are; the one that changes is answered for.
LEMMA CoversBackground ==
    ASSUME TypeInv, ThumbnailInv, CoversInv, NEW t \in tasks, Background(t)
    PROVE  CoversInv'
<1>0. (apart' => apart) /\ ~panicked
  BY Histories DEF Next
<1>1. CASE ReadCovers(t)
  <2>0. SUFFICES ASSUME apart' PROVE CoversInv'
    BY DEF CoversInv
  <2>1. PICK found : /\ tasks' = (tasks \ {t}) \cup {[do |-> "covers-loaded", covers |-> [c \in found |-> images[c]]]}
                     /\ found \in {t.of \cap DOMAIN images, {}}
    BY <1>1 DEF ReadCovers
  <2>2. library' = library /\ images' = images /\ page' = page /\ t.do = "covers"
    BY <1>1 DEF ReadCovers, Work
  <2>3. \A u \in tasks' : u.do = "covers-loaded" => u \in tasks \/ u.covers = [c \in found |-> images[c]]
    <3> DEFINE r == [do |-> "covers-loaded", covers |-> [c \in found |-> images[c]]]
    <3>1. r.covers = [c \in found |-> images[c]]
      OBVIOUS
    <3> QED
      BY <2>1, <3>1
  <2>4. \A u \in tasks' : u.do = "covers-loaded" =>
           \A c \in DOMAIN library'.contents \cap DOMAIN u.covers : u.covers[c] = images'[c]
    <3> SUFFICES ASSUME NEW u \in tasks', u.do = "covers-loaded",
                        NEW c \in DOMAIN library'.contents \cap DOMAIN u.covers
                 PROVE  u.covers[c] = images'[c]
      OBVIOUS
    <3>1. CASE u \in tasks
      BY <1>0, <2>0, <2>2, <3>1 DEF CoversInv
    <3>2. CASE u.covers = [d \in found |-> images[d]]
      BY <2>2, <3>2
    <3> QED
      BY <2>3, <3>1, <3>2
  <2>5. \A u \in tasks : u.do = "answer" => u \in tasks'
    BY <2>1, <2>2
  <2>6. page # None /\ page.covers # None =>
              \A c \in DOMAIN library.contents \cap DOMAIN page.covers :
                  page.covers[c] = images[c]
                  \/ \E u \in tasks : u.do = "answer" /\ IsThumbnail(u) /\ c = u.what.view.content
    BY <1>0, <2>0 DEF CoversInv
  <2>7. page' # None /\ page'.covers # None =>
              \A c \in DOMAIN library'.contents \cap DOMAIN page'.covers :
                  page'.covers[c] = images'[c]
                  \/ \E u \in tasks' : u.do = "answer" /\ IsThumbnail(u) /\ c = u.what.view.content
    BY <2>2, <2>5, <2>6
  <2> QED
    BY <2>4, <2>7 DEF CoversInv, IsThumbnail
<1>2. CASE CountPages(t) \/ RenderPreview(t) \/ GetSingleDocument(t) \/ Fetch(t)
  <2>1. library' = library /\ images' = images /\ page' = page
    BY <1>2 DEF CountPages, RenderPreview, GetSingleDocument, Fetch, Work
  <2>2. \A u \in tasks' : u \in tasks \/ u.do # "covers-loaded"
    <3> SUFFICES ASSUME NEW u \in tasks', u \notin tasks PROVE u.do # "covers-loaded"
      OBVIOUS
    <3>1. CASE CountPages(t)
      <4>1. u = [do |-> "counted"] => u.do # "covers-loaded"
        OBVIOUS
      <4>2. u = [do |-> "failed"] => u.do # "covers-loaded"
        OBVIOUS
      <4> QED
        BY <3>1, <4>1, <4>2 DEF CountPages
    <3>2. CASE RenderPreview(t)
      <4>1. u = [do |-> "preview", view |-> t.view] => u.do # "covers-loaded"
        OBVIOUS
      <4>2. u = [do |-> "failed"] => u.do # "covers-loaded"
        OBVIOUS
      <4> QED
        BY <3>2, <4>1, <4>2 DEF RenderPreview
    <3>3. CASE GetSingleDocument(t) \/ Fetch(t)
      <4>1. u.do \in {"refreshed", "loaded"}
        BY <3>3, GetTasks
      <4> QED
        BY <4>1
    <3> QED
      BY <1>2, <3>1, <3>2, <3>3
  <2>3. \A u \in tasks : u.do = "answer" => u \in tasks'
    BY <1>2 DEF CountPages, RenderPreview, GetSingleDocument, Fetch
  <2> QED
    BY <1>0, <2>1, <2>2, <2>3, CoversKept
<1>3. CASE TagContents(t) \/ UpdateStatuses(t)
  <2>1. PICK v : /\ v.do = "request" /\ v.what.is = t.what.is
                 /\ \A u \in tasks' : u \in tasks \ {t} \/ u = v \/ (u.do = "expired" /\ t.what.is = "status")
                 /\ v \in tasks' /\ tasks \ {t} \subseteq tasks'
    BY <1>3, EachTasks
  <2>2. DOMAIN library'.contents = DOMAIN library.contents /\ images' = images /\ page' = page /\ t.do = "request"
    BY <1>3, EachRetags DEF Retagged, Work
  <2>3. \A u \in tasks' : u \in tasks \/ u.do # "covers-loaded"
    BY <2>1
  <2>4. \A u \in tasks : u.do = "answer" => u \in tasks'
    BY <2>1, <2>2
  <2> QED
    BY <1>0, <2>2, <2>3, <2>4, CoversKept
<1>4. CASE AllContentsDone(t) \/ UpdateDocumentMetadata(t) \/ RemoveContent(t) \/ DeleteSource(t)
  <2>1. \A u \in tasks' : u \in tasks \/ u.do # "covers-loaded"
    BY <1>4, RequestsDo, AnswerTasks
  <2>2. \A u \in tasks : u.do = "answer" => u \in tasks'
    BY <1>4, RequestsDo DEF Answered
  <2> QED
    BY <1>0, <1>4, <2>1, <2>2, RequestsDo, CoversKept DEF Work
<1>5. CASE SetPageThumbnail(t)
  <2>0. SUFFICES ASSUME apart' PROVE CoversInv'
    BY DEF CoversInv
  <2>1. library' = [library EXCEPT !.meta.cover = t.what.view.content] /\ page' = page
        /\ images' = [images EXCEPT ![t.what.view.content] = t.what.view]
        /\ Answered(t, TRUE) /\ IsThumbnail(t) /\ t.do = "request"
    BY <1>5, <2>0 DEF SetPageThumbnail, Fail, Work, IsThumbnail
  <2>2. \A u \in tasks : u = t \/ u.do \in Renewing
    BY <1>0, <2>0, <2>1 DEF ThumbnailInv
  <2>3. \A u \in tasks' : u.do # "covers-loaded"
    BY <2>1, <2>2, AnswerTasks DEF Renewing, Refreshing, Loading
  <2>4. library'.contents = library.contents
    <3>1. [library EXCEPT !.meta.cover = t.what.view.content].contents = library.contents
      BY DocumentIs DEF TypeInv
    <3> QED
      BY <2>1, <3>1
  <2>5. \A c : c # t.what.view.content => images'[c] = images[c]
    BY <2>1
  <2>6. \A c \in DOMAIN library.contents : c # t.what.view.content => images'[c] = images[c]
    BY <2>5
  <2>7. page # None /\ page.covers # None =>
              \A c \in DOMAIN library.contents \cap DOMAIN page.covers : page.covers[c] = images[c]
    BY <1>0, <2>0, <2>1, <2>2 DEF CoversInv, Renewing, Refreshing, Loading
  <2> DEFINE answer == [do |-> "answer", what |-> t.what, ok |-> TRUE]
  <2>8. answer \in tasks' /\ answer.do = "answer" /\ answer.what = t.what /\ t.what.is = "thumbnail"
    BY <1>5, <2>1 DEF Answered, SetPageThumbnail
  <2>9. page' # None /\ page'.covers # None =>
              \A c \in DOMAIN library'.contents \cap DOMAIN page'.covers :
                  page'.covers[c] = images'[c]
                  \/ \E u \in tasks' : u.do = "answer" /\ IsThumbnail(u) /\ c = u.what.view.content
    BY <2>1, <2>4, <2>6, <2>7, <2>8 DEF IsThumbnail
  <2> QED
    BY <2>3, <2>9 DEF CoversInv, IsThumbnail
<1> QED
  BY <1>1, <1>2, <1>3, <1>4, <1>5 DEF Background

\* Every step keeps CoversInv.
LEMMA CoversStep == ASSUME TypeInv, ThumbnailInv, CoversInv, [Next]_vars PROVE CoversInv'
<1>1. CASE UNCHANGED vars
  <2>1. library' = library /\ images' = images /\ page' = page /\ tasks' = tasks /\ panicked' = panicked /\ apart' = apart
    BY <1>1 DEF vars, order
  <2>2. panicked => CoversInv'
    BY <2>1 DEF CoversInv
  <2> QED
    BY <2>1, <2>2, CoversKept
<1>2. CASE ChangedElsewhere
  <2>1. (apart' => apart) /\ ~panicked
    BY <1>2, Histories DEF Next
  <2>2. images' = images /\ page' = page /\ tasks' = tasks \cup {[do |-> "expired"]}
    BY <1>2 DEF ChangedElsewhere
  <2>4. ASSUME NEW u \in tasks' PROVE u \in tasks \/ u.do # "covers-loaded"
    <3>1. u = [do |-> "expired"] => u.do # "covers-loaded"
      OBVIOUS
    <3> QED
      BY <2>2, <3>1
  <2> QED
    BY <1>2, <2>1, <2>2, <2>4, ElsewhereRetags, CoversKept DEF Retagged
<1> QED
  BY <1>1, <1>2, CoversUses, CoversMessages, CoversBackground DEF Next

(***************************************************************************)
(* Previews.                                                               *)
(***************************************************************************)
PreviewKinds == {"count", "counted", "release", "render", "preview"}

\* PreviewInv, of the state after a step.
LEMMA PreviewNext ==
    ASSUME ~panicked' /\ apart' => /\ CountsOnce(tasks')
                                   /\ page' # None /\ page'.picker # None => PickerTrue(page'.picker, tasks')
    PROVE  PreviewInv'
  BY DEF PreviewInv, CountsOnce, PickerTrue, Pick

\* A picker that shows the same stays true while no rendering or counting begins or ends.
LEMMA PickerKept ==
    ASSUME NEW p, NEW q, NEW ts, NEW us, PickerTrue(p, ts),
           \A t \in ts : t.do \in PreviewKinds => t \in us,
           \A t \in us : t \in ts \/ t.do \notin PreviewKinds,
           Pick(q) = Pick(p), q.preview = p.preview, q.counted = p.counted
    PROVE  PickerTrue(q, us)
<1>1. q.page = p.page /\ q.content = p.content
  BY DEF Pick
<1>2. (\A t \in ts : t.do \notin Counting) <=> (\A t \in us : t.do \notin Counting)
  BY DEF Counting, PreviewKinds
<1>3. (\E t \in ts : t.do \in Counting \cup {"release"}) => (\E t \in us : t.do \in Counting \cup {"release"})
  BY DEF Counting, PreviewKinds
<1>4. \A t \in us : t.do \in Rendering => t \in ts
  BY DEF Rendering, PreviewKinds
<1>5. \A t \in ts : t.do \in Rendering => t \in us
  BY DEF Rendering, PreviewKinds
<1> QED
  BY <1>1, <1>2, <1>3, <1>4, <1>5 DEF PickerTrue

\* Nothing changes for the previews when the picker shows what it showed, or is
\* closed, and no count or rendering begins or ends.
LEMMA PreviewKept ==
    ASSUME PreviewInv, ~panicked, apart' => apart,
           \A t \in tasks : t.do \in PreviewKinds => t \in tasks',
           \A t \in tasks' : t \in tasks \/ t.do \notin PreviewKinds,
           page' # None => \/ page'.picker = None
                           \/ /\ page # None /\ page.picker # None
                              /\ Pick(page'.picker) = Pick(page.picker)
                              /\ page'.picker.preview = page.picker.preview
                              /\ page'.picker.counted = page.picker.counted
    PROVE  PreviewInv'
<1> SUFFICES ASSUME apart'
             PROVE  CountsOnce(tasks') /\ (page' # None /\ page'.picker # None => PickerTrue(page'.picker, tasks'))
  BY PreviewNext
<1>1. CountsOnce(tasks) /\ (page # None /\ page.picker # None => PickerTrue(page.picker, tasks))
  BY DEF PreviewInv
<1>2. CountsOnce(tasks')
  BY <1>1 DEF CountsOnce, Counting, PreviewKinds
<1> QED
  BY <1>1, <1>2, PickerKept

\* The page of a view that is the page of the picker.
LEMMA SamePage == ASSUME NEW p \in Pickers PROVE [Pick(p) EXCEPT !.page = p.page] = Pick(p)
  BY DEF Pick

\* When the picker has its count what it shows is rendered, and when it does not
\* have it, it will be.
LEMMA LoadTrue ==
    ASSUME NEW p \in Pickers, NEW ts, CountsOnce(ts), LoadPreview(p, p.page, ts),
           p.counted = (\A t \in ts : t.do \notin Counting), ~p.counted => p.page = 0,
           \A t \in ts : t.do \in Rendering => t.view.content = p.content
    PROVE  CountsOnce(tasks') /\ PickerTrue(p, tasks')
<1>1. CASE ~p.counted
  BY <1>1 DEF LoadPreview, PickerTrue
<1>2. CASE p.counted
  <2> DEFINE r == [do |-> "render", view |-> Pick(p)]
  <2>1. tasks' = ts \cup {r}
    BY <1>2, SamePage, PickersAre DEF LoadPreview
  <2>2. r.do = "render" /\ r.view = Pick(p) /\ Pick(p).content = p.content
    BY DEF Pick
  <2> HIDE DEF r
  <2>3. CountsOnce(tasks')
    BY <2>1, <2>2 DEF CountsOnce, Counting
  <2>4. \A t \in tasks' : t.do \notin Counting
    BY <1>2, <2>1, <2>2 DEF Counting
  <2>5. \A t \in tasks' : t.do \in Rendering => t.view.content = p.content
    BY <2>1, <2>2
  <2>6. \E t \in tasks' : t.do \in Rendering /\ t.view = Pick(p)
    BY <2>1, <2>2 DEF Rendering
  <2>7. p.counted = (\A t \in tasks' : t.do \notin Counting)
    BY <1>2, <2>4 DEF Pickers
  <2> QED
    BY <1>2, <2>3, <2>5, <2>6, <2>7 DEF PickerTrue
<1> QED
  BY <1>1, <1>2

\* A click in the picker has rendered what it then shows, or a slider is yet to be
\* released.
LEMMA PreviewUses == ASSUME TypeInv, PreviewInv, Uses PROVE PreviewInv'
<1>0. (apart' => apart) /\ ~panicked
  BY Histories DEF Next
<1>1. CASE Changes
  <2>1. PICK r : tasks' = tasks \cup {[do |-> "request", what |-> r]}
    BY <1>1, ChangesDo
  <2>2. [do |-> "request", what |-> r].do \notin PreviewKinds
    BY DEF PreviewKinds
  <2> QED
    BY <1>0, <1>1, <2>1, <2>2, ChangesDo, PreviewKept
<1>2. CASE Forms
  BY <1>0, <1>2, FormsDo, PreviewKept
<1>3. CASE Close
  BY <1>0, <1>3, PreviewKept DEF Close
<1>4. CASE Open
  <2>1. [do |-> "covers", of |-> DOMAIN row.contents].do \notin PreviewKinds
    BY DEF PreviewKinds
  <2>2. page'.picker = None
    BY <1>4 DEF Open, NewPage
  <2> QED
    BY <1>0, <1>4, <2>1, <2>2, PreviewKept DEF Open
<1>5. CASE SaveThumbnail
  <2>1. page # None /\ page.picker # None /\ page \in PageType /\ page.picker \in Pickers
        /\ page' = [page EXCEPT !.picker = [page.picker EXCEPT !.saving = TRUE]]
    BY <1>5, PageIs DEF SaveThumbnail, TypeInv
  <2>2. page'.picker = [page.picker EXCEPT !.saving = TRUE]
    BY <2>1 DEF PageType
  <2>3. Pick(page'.picker) = Pick(page.picker) /\ page'.picker.preview = page.picker.preview
        /\ page'.picker.counted = page.picker.counted
    BY <2>1, <2>2 DEF Pickers, Pick
  <2> DEFINE r == [do |-> "request", what |-> [is |-> "thumbnail", view |-> Pick(page.picker)]]
  <2>4. r.do \notin PreviewKinds
    BY DEF PreviewKinds
  <2>5. tasks' = tasks \cup {r}
    BY <1>5 DEF SaveThumbnail, Request
  <2> HIDE DEF r
  <2> QED
    BY <1>0, <2>1, <2>3, <2>4, <2>5, PreviewKept
<1>6. CASE \E c \in Contents : OpenThumbnailPicker(c)
  <2>1. PICK c \in Contents : OpenThumbnailPicker(c)
    BY <1>6
  <2> DEFINE p == [content |-> c, page |-> 0, trim |-> FALSE, counted |-> FALSE, preview |-> None, saving |-> FALSE]
  <2>2. page \in PageType /\ page' = [page EXCEPT !.picker = p]
    BY <2>1 DEF OpenThumbnailPicker, Click, TypeInv
  <2>3. page'.picker = p
    BY <2>2 DEF PageType
  <2>4. apart' => tasks = {}
    BY <2>1, Zenon DEF OpenThumbnailPicker, Click, Quiet
  <2>5. apart' => tasks' = {[do |-> "count"]}
    BY <2>1, <2>4 DEF OpenThumbnailPicker
  <2>6. CountsOnce({[do |-> "count"]}) /\ PickerTrue(p, {[do |-> "count"]})
    BY DEF CountsOnce, PickerTrue, Counting, Rendering
  <2> QED
    BY <2>3, <2>5, <2>6, PreviewNext
<1>7. CASE Picking
  <2>0. SUFFICES ASSUME apart' PROVE PreviewInv'
    BY DEF PreviewInv
  <2>1. PickerClick /\ page \in PageType /\ page # None /\ page.picker # None /\ page.picker \in Pickers
    BY <1>7, PickingDo, PageIs DEF PickerClick
  <2>2. CountsOnce(tasks) /\ PickerTrue(page.picker, tasks)
    BY <1>0, <2>0, <2>1 DEF PreviewInv
  <2>3. CASE CancelThumbnailPicker
    <3>1. page'.picker = None /\ tasks' = tasks
      BY <2>1, <2>3 DEF CancelThumbnailPicker, PageType
    <3> QED
      BY <1>0, <3>1, PreviewKept
  <2>4. CASE (\E n \in Pages : ThumbnailPageSelected(n)) \/ ThumbnailTrimToggled
    <3> DEFINE p == page'.picker
    <3>1. p \in Pickers /\ p.content = page.picker.content /\ p.counted = page.picker.counted
          /\ (~page.picker.counted => p.page = page.picker.page)
      <4>1. \/ page' = [page EXCEPT !.picker = [page.picker EXCEPT !.trim = ~@]]
            \/ /\ page.picker.counted
               /\ \E n \in Pages : page' = [page EXCEPT !.picker = [page.picker EXCEPT !.page = n]]
        BY <2>4 DEF ThumbnailPageSelected, ThumbnailTrimToggled
      <4>2. CASE page' = [page EXCEPT !.picker = [page.picker EXCEPT !.trim = ~@]]
        <5>1. p = [page.picker EXCEPT !.trim = ~@]
          BY <2>1, <4>2 DEF PageType
        <5> QED
          BY <2>1, <5>1 DEF Pickers
      <4>3. ASSUME NEW n \in Pages, page.picker.counted, page' = [page EXCEPT !.picker = [page.picker EXCEPT !.page = n]]
            PROVE  /\ p \in Pickers /\ p.content = page.picker.content /\ p.counted = page.picker.counted
                   /\ (~page.picker.counted => p.page = page.picker.page)
        <5>1. p = [page.picker EXCEPT !.page = n]
          BY <2>1, <4>3 DEF PageType
        <5> HIDE DEF p
        <5>2. p \in Pickers
          BY <2>1, <4>3, <5>1 DEF Pickers
        <5>3. p.content = page.picker.content /\ p.counted = page.picker.counted
          BY <2>1, <5>1 DEF Pickers
        <5> QED
          BY <4>3, <5>2, <5>3
      <4> QED
        BY <4>1, <4>2, <4>3
    <3>2. LoadPreview(p, p.page, tasks)
      <4>1. CASE ThumbnailTrimToggled
        BY <4>1 DEF ThumbnailTrimToggled
      <4>2. ASSUME NEW n \in Pages, ThumbnailPageSelected(n) PROVE LoadPreview(p, p.page, tasks)
        <5>1. page' = [page EXCEPT !.picker = [page.picker EXCEPT !.page = n]] /\ LoadPreview(p, n, tasks)
          BY <4>2 DEF ThumbnailPageSelected
        <5>2. p = [page.picker EXCEPT !.page = n]
          BY <2>1, <5>1 DEF PageType
        <5>3. p.page = n
          BY <2>1, <5>2 DEF Pickers
        <5> QED
          BY <5>1, <5>3
      <4> QED
        BY <2>4, <4>1, <4>2
    <3> HIDE DEF p
    <3>3. /\ p.counted = (\A t \in tasks : t.do \notin Counting)
          /\ ~p.counted => p.page = 0
          /\ \A t \in tasks : t.do \in Rendering => t.view.content = p.content
      BY <2>2, <3>1 DEF PickerTrue
    <3>4. CountsOnce(tasks') /\ PickerTrue(p, tasks')
      BY <2>2, <3>1, <3>2, <3>3, LoadTrue
    <3> QED
      BY <3>4, PreviewNext DEF p
  <2>5. CASE \E n \in Pages : ThumbnailPageScrubbed(n)
    <3>1. PICK n \in Pages : ThumbnailPageScrubbed(n)
      BY <2>5
    <3>2. page' = [page EXCEPT !.picker = [page.picker EXCEPT !.page = n]] /\ page.picker.counted
          /\ tasks' = tasks \cup {[do |-> "release"]}
      BY <3>1 DEF ThumbnailPageScrubbed
    <3>3. page'.picker = [page.picker EXCEPT !.page = n]
      BY <2>1, <3>2 DEF PageType
    <3>4. page'.picker.counted = page.picker.counted /\ page'.picker.content = page.picker.content
      BY <2>1, <3>3 DEF Pickers
    <3>5. ASSUME NEW u \in tasks', u \notin tasks PROVE u.do = "release"
      <4>1. u = [do |-> "release"]
        BY <3>2, <3>5
      <4> QED
        BY <4>1
    <3>6. \E u \in tasks' : u.do = "release"
      <4>1. [do |-> "release"] \in tasks' /\ [do |-> "release"].do = "release"
        BY <3>2
      <4> QED
        BY <4>1
    <3>7. tasks \subseteq tasks'
      BY <3>2
    <3>8. CountsOnce(tasks')
      BY <2>2, <3>5 DEF CountsOnce, Counting
    <3>9. PickerTrue(page'.picker, tasks')
      <4>1. (\A u \in tasks : u.do \notin Counting) <=> (\A u \in tasks' : u.do \notin Counting)
        BY <3>5, <3>7 DEF Counting
      <4>2. \A u \in tasks' : u.do \in Rendering => u \in tasks
        BY <3>5 DEF Rendering
      <4> QED
        BY <2>2, <3>2, <3>4, <3>6, <4>1, <4>2 DEF PickerTrue
    <3> QED
      BY <3>8, <3>9, PreviewNext
  <2> QED
    BY <1>7, <2>3, <2>4, <2>5 DEF Picking
<1> QED
  BY <1>1, <1>2, <1>3, <1>4, <1>5, <1>6, <1>7, UsesAre

\* A count that has come and a slider that is released have rendered what the
\* picker shows; a preview that comes is taken when it is what the picker shows, and
\* when it is not, it was not the one to wait for.
LEMMA PreviewMessages ==
    ASSUME TypeInv, ThumbnailInv, PreviewInv, NEW t \in tasks, Message(t)
    PROVE  PreviewInv'
<1>0. (apart' => apart) /\ ~panicked /\ CountsOnce({})
  BY Histories DEF Next, CountsOnce
<1> SUFFICES ASSUME apart', ~Panic(t) PROVE PreviewInv'
  BY DEF PreviewInv, Panic
<1>a. CountsOnce(tasks) /\ (page # None /\ page.picker # None => PickerTrue(page.picker, tasks))
  BY <1>0 DEF PreviewInv
<1>b. CountsOnce(tasks \ {t})
  BY <1>a DEF CountsOnce
<1>c. page # None => page \in PageType /\ (page.picker # None => page.picker \in Pickers)
  BY PageIs DEF TypeInv
<1>1. CASE \/ Refresh(t) \/ RefreshDocument(t) \/ DocumentRefreshed(t) \/ FormatRemoved(t) \/ RequestAnswered(t)
           \/ LoadArchive(t) \/ Loaded(t) \/ RowRefreshed(t) \/ ThumbnailFailed(t) \/ CoversLoaded(t)
  <2>1. t.do \notin PreviewKinds /\ tasks \ {t} \subseteq tasks'
    BY <1>1
       DEF PreviewKinds, Refresh, RefreshDocument, DocumentRefreshed, FormatRemoved,
           LoadArchive, Loaded, RowRefreshed, RequestAnswered, ThumbnailFailed, CoversLoaded
  <2>2. \A u \in tasks' : u \in tasks \/ u.do \notin PreviewKinds
    <3>1. \A u \in tasks' : u \in tasks \/ u.do \in {"refresh", "read", "load", "fetch", "row", "row-of-format"}
      BY <1>1
         DEF Refresh, RefreshDocument, DocumentRefreshed, FormatRemoved, RequestAnswered,
             LoadArchive, Loaded, RowRefreshed, ThumbnailFailed, CoversLoaded, RefreshMessage
    <3> QED
      BY <3>1 DEF PreviewKinds
  <2>3. page' # None => page # None /\ page'.picker = page.picker
    BY <1>1, <1>c
       DEF Refresh, RefreshDocument, DocumentRefreshed, Refreshed, FormatRemoved, LoadArchive,
           Loaded, RowRefreshed, RequestAnswered, ThumbnailFailed, CoversLoaded, Delivered,
           PageType
  <2> QED
    BY <1>0, <2>1, <2>2, <2>3, PreviewKept
<1>2. CASE ThumbnailSaved(t)
  <2>1. page # None /\ t.do = "answer" /\ IsThumbnail(t) /\ tasks' = tasks \ {t}
    BY <1>2 DEF ThumbnailSaved, Delivered, IsThumbnail
  <2>2. /\ page.picker # None /\ page.picker.preview = t.what.view /\ t.ok /\ t.what.view = Pick(page.picker)
    BY <1>0, <2>1 DEF ThumbnailInv
  <2>3. page' = ShowThumbnail(page.picker)
    BY <1>2, <1>c, <2>1, <2>2, PickersAre DEF ThumbnailSaved
  <2>4. page'.picker = None
    BY <1>c, <2>1, <2>2, <2>3, PickersAre, ShownIs DEF TypeInv
  <2>5. t.do \notin PreviewKinds
    BY <2>1 DEF PreviewKinds
  <2> QED
    BY <1>0, <2>1, <2>4, <2>5, PreviewKept
<1>3. CASE ThumbnailPageCountLoaded(t)
  <2>1. page # None /\ t.do = "counted" /\ LoadPreview(page'.picker, 0, tasks \ {t})
        /\ page' = IF page.picker = None THEN page ELSE [page EXCEPT !.picker = [page.picker EXCEPT !.counted = TRUE]]
    BY <1>3, <1>c DEF ThumbnailPageCountLoaded, Delivered
  <2>2. CASE page.picker = None
    <3>1. page'.picker = None
      BY <2>1, <2>2
    <3>2. tasks' = tasks \ {t}
      BY <2>1, <3>1 DEF LoadPreview
    <3> QED
      BY <1>b, <3>1, <3>2, PreviewNext
  <2>3. CASE page.picker # None
    <3> DEFINE p == [page.picker EXCEPT !.counted = TRUE]
    <3>1. page'.picker = p
      BY <1>c, <2>1, <2>3 DEF PageType
    <3>2. p \in Pickers /\ p.page = page.picker.page /\ p.counted = TRUE /\ p.content = page.picker.content
      BY <1>c, <2>1, <2>3 DEF Pickers
    <3> HIDE DEF p
    <3>3. PickerTrue(page.picker, tasks)
      BY <1>a, <2>1, <2>3
    <3>4. \A u \in tasks \ {t} : u.do \notin Counting
      BY <1>a, <2>1 DEF CountsOnce, Counting
    <3>5. ~(\A u \in tasks : u.do \notin Counting)
      BY <2>1 DEF Counting
    <3>6. page.picker.counted = FALSE /\ page.picker.page = 0
      BY <3>3, <3>5 DEF PickerTrue
    <3>7. \A u \in tasks \ {t} : u.do \in Rendering => u.view.content = p.content
      BY <3>2, <3>3 DEF PickerTrue
    <3>8. LoadPreview(p, p.page, tasks \ {t})
      BY <2>1, <3>1, <3>2, <3>6
    <3>9. p.counted = (\A u \in tasks \ {t} : u.do \notin Counting)
      BY <3>2, <3>4
    <3>10. CountsOnce(tasks') /\ PickerTrue(p, tasks')
      BY <1>b, <3>2, <3>7, <3>8, <3>9, LoadTrue
    <3> QED
      BY <3>1, <3>10, PreviewNext
  <2> QED
    BY <2>2, <2>3
<1>4. CASE ThumbnailReloadPreview(t)
  <2>1. t.do = "release" /\ page' = page
        /\ IF page = None THEN tasks' = tasks \ {t} ELSE LoadPreview(page.picker, page.picker.page, tasks \ {t})
    BY <1>4 DEF ThumbnailReloadPreview
  <2>2. CASE page = None
    BY <1>b, <2>1, <2>2, PreviewNext
  <2>3. CASE page # None /\ page.picker = None
    <3>1. tasks' = tasks \ {t}
      BY <2>1, <2>3 DEF LoadPreview
    <3> QED
      BY <1>b, <2>1, <2>3, <3>1, PreviewNext
  <2>4. CASE page # None /\ page.picker # None
    <3> DEFINE p == page.picker
    <3>1. p \in Pickers /\ PickerTrue(p, tasks) /\ LoadPreview(p, p.page, tasks \ {t})
      BY <1>a, <1>c, <2>1, <2>4
    <3> HIDE DEF p
    <3>2. (\A u \in tasks : u.do \notin Counting) <=> (\A u \in tasks \ {t} : u.do \notin Counting)
      BY <2>1 DEF Counting
    <3>3. /\ p.counted = (\A u \in tasks \ {t} : u.do \notin Counting)
          /\ ~p.counted => p.page = 0
          /\ \A u \in tasks \ {t} : u.do \in Rendering => u.view.content = p.content
      BY <3>1, <3>2 DEF PickerTrue
    <3>4. CountsOnce(tasks') /\ PickerTrue(p, tasks')
      BY <1>b, <3>1, <3>3, LoadTrue
    <3> QED
      BY <2>1, <3>4, PreviewNext DEF p
  <2> QED
    BY <2>2, <2>3, <2>4
<1>5. CASE ThumbnailBigPreviewLoaded(t)
  <2>1. page # None /\ t.do = "preview" /\ tasks' = tasks \ {t} /\ t.view \in View
        /\ page' = IF Wanted(page.picker, t.view) THEN [page EXCEPT !.picker = [page.picker EXCEPT !.preview = t.view]] ELSE page
    BY <1>5, <1>c DEF ThumbnailBigPreviewLoaded, Delivered, TypeInv, TaskType
  <2>2. CASE page.picker = None
    BY <1>b, <2>1, <2>2, PreviewNext DEF Wanted
  <2>3. CASE page.picker # None
    <3> DEFINE p == page.picker
    <3>1. p \in Pickers /\ PickerTrue(p, tasks)
      BY <1>a, <1>c, <2>1, <2>3
    <3>2. p # None
      BY <2>3
    <3> HIDE DEF p
    <3>3. t.view.content = p.content
      BY <2>1, <3>1 DEF PickerTrue, Rendering
    <3>4. Wanted(p, t.view) <=> t.view = Pick(p)
      BY <2>1, <3>1, <3>2, <3>3 DEF Wanted, Pick, View, Pickers
    <3>5. (\A u \in tasks : u.do \notin Counting) <=> (\A u \in tasks' : u.do \notin Counting)
      BY <2>1 DEF Counting
    <3>6. (\E u \in tasks : u.do \in Counting \cup {"release"}) => (\E u \in tasks' : u.do \in Counting \cup {"release"})
      BY <2>1 DEF Counting
    <3>7. CASE Wanted(p, t.view)
      <4> DEFINE q == [p EXCEPT !.preview = t.view]
      <4>1. page'.picker = q
        BY <1>c, <2>1, <3>7 DEF PageType, p
      <4>2. q.counted = p.counted /\ q.page = p.page /\ q.content = p.content /\ q.preview = t.view /\ Pick(q) = Pick(p)
        BY <3>1 DEF Pickers, Pick
      <4> HIDE DEF q
      <4>3. PickerTrue(q, tasks')
        BY <2>1, <3>1, <3>4, <3>5, <3>7, <4>2 DEF PickerTrue
      <4> QED
        BY <1>b, <2>1, <4>1, <4>3, PreviewNext
    <3>8. CASE ~Wanted(p, t.view)
      <4>1. (\E u \in tasks : u.do \in Rendering /\ u.view = Pick(p)) => (\E u \in tasks' : u.do \in Rendering /\ u.view = Pick(p))
        BY <2>1, <3>4, <3>8
      <4>2. PickerTrue(p, tasks')
        BY <2>1, <3>1, <3>5, <3>6, <4>1 DEF PickerTrue
      <4> QED
        BY <1>b, <2>1, <3>8, <4>2, PreviewNext DEF p
    <3> QED
      BY <3>7, <3>8
  <2> QED
    BY <2>2, <2>3
<1> QED
  BY <1>1, <1>2, <1>3, <1>4, <1>5 DEF Message

\* A count becomes known and a rendering a preview.
LEMMA PreviewBackground ==
    ASSUME TypeInv, PreviewInv, NEW t \in tasks, Background(t)
    PROVE  PreviewInv'
<1>0. (apart' => apart) /\ ~panicked
  BY Histories DEF Next
<1> SUFFICES ASSUME apart' PROVE PreviewInv'
  BY DEF PreviewInv
<1>a. CountsOnce(tasks) /\ (page # None /\ page.picker # None => PickerTrue(page.picker, tasks))
  BY <1>0 DEF PreviewInv
<1>1. CASE \/ ReadCovers(t) \/ GetSingleDocument(t) \/ Fetch(t)
           \/ TagContents(t) \/ UpdateStatuses(t) \/ AllContentsDone(t) \/ UpdateDocumentMetadata(t) \/ RemoveContent(t) \/ DeleteSource(t) \/ SetPageThumbnail(t)
  <2>1. t.do \notin PreviewKinds /\ tasks \ {t} \subseteq tasks' /\ page' = page
    BY <1>1
       DEF PreviewKinds, ReadCovers, GetSingleDocument, Fetch, TagContents, UpdateStatuses,
           EachContent, AllContentsDone, UpdateDocumentMetadata, RemoveContent, DeleteSource,
           SetPageThumbnail, Answered, Work
  <2>2. \A u \in tasks' : u \in tasks \/ u.do \notin PreviewKinds
    <3> SUFFICES ASSUME NEW u \in tasks', u \notin tasks PROVE u.do \in {"covers-loaded", "refreshed", "loaded", "expired", "request", "answer"}
      BY DEF PreviewKinds
    <3>1. CASE ReadCovers(t)
      <4>1. PICK f : u = [do |-> "covers-loaded", covers |-> f]
        BY <3>1 DEF ReadCovers
      <4> QED
        BY <4>1
    <3>2. CASE GetSingleDocument(t) \/ Fetch(t)
      BY <3>2, GetTasks
    <3>3. CASE TagContents(t) \/ UpdateStatuses(t)
      BY <3>3, EachTasks
    <3>4. CASE AllContentsDone(t) \/ UpdateDocumentMetadata(t) \/ RemoveContent(t) \/ DeleteSource(t)
      BY <3>4, RequestsDo, AnswerTasks
    <3>5. CASE SetPageThumbnail(t)
      <4>1. \E ok : Answered(t, ok)
        BY <3>5 DEF SetPageThumbnail
      <4> QED
        BY <4>1, AnswerTasks
    <3> QED
      BY <1>1, <3>1, <3>2, <3>3, <3>4, <3>5
  <2> QED
    BY <1>0, <2>1, <2>2, PreviewKept
<1>2. CASE CountPages(t)
  <2>1. t.do = "count" /\ page' = page /\ ~Fail
    BY <1>2, ReadTasks, Worked DEF CountPages, Work
  <2> DEFINE r == [do |-> "counted"]
  <2>2. tasks' = (tasks \ {t}) \cup {r} /\ r.do = "counted"
    BY <1>2, <2>1 DEF CountPages
  <2> HIDE DEF r
  <2>3. CountsOnce(tasks')
    BY <1>a, <2>1, <2>2 DEF CountsOnce, Counting
  <2>4. ASSUME page # None, page.picker # None PROVE PickerTrue(page.picker, tasks')
    <3>1. PickerTrue(page.picker, tasks)
      BY <1>a, <2>4
    <3>2. (\A u \in tasks : u.do \notin Counting) <=> (\A u \in tasks' : u.do \notin Counting)
      BY <2>1, <2>2 DEF Counting
    <3>3. \A u \in tasks' : u.do \in Rendering => u \in tasks
      BY <2>2 DEF Rendering
    <3>4. \E u \in tasks' : u.do \in Counting \cup {"release"}
      BY <2>2 DEF Counting
    <3> QED
      BY <3>1, <3>2, <3>3, <3>4 DEF PickerTrue
  <2> QED
    BY <2>1, <2>3, <2>4, PreviewNext
<1>3. CASE RenderPreview(t)
  <2>1. t.do = "render" /\ page' = page /\ ~Fail
    BY <1>3, ReadTasks, Worked DEF RenderPreview, Work
  <2> DEFINE r == [do |-> "preview", view |-> t.view]
  <2>2. tasks' = (tasks \ {t}) \cup {r} /\ r.do = "preview" /\ r.view = t.view
    BY <1>3, <2>1 DEF RenderPreview
  <2> HIDE DEF r
  <2>3. CountsOnce(tasks')
    BY <1>a, <2>1, <2>2 DEF CountsOnce, Counting
  <2>4. ASSUME page # None, page.picker # None PROVE PickerTrue(page.picker, tasks')
    <3>1. PickerTrue(page.picker, tasks)
      BY <1>a, <2>4
    <3>2. (\A u \in tasks : u.do \notin Counting) <=> (\A u \in tasks' : u.do \notin Counting)
      BY <2>1, <2>2 DEF Counting
    <3>3. \A u \in tasks' : u.do \in Rendering => u.view.content = page.picker.content
      BY <2>1, <2>2, <3>1 DEF Rendering, PickerTrue
    <3>4. (\E u \in tasks : u.do \in Counting \cup {"release"}) => (\E u \in tasks' : u.do \in Counting \cup {"release"})
      BY <2>1, <2>2 DEF Counting
    <3>5. (\E u \in tasks : u.do \in Rendering /\ u.view = Pick(page.picker))
             => (\E u \in tasks' : u.do \in Rendering /\ u.view = Pick(page.picker))
      BY <2>1, <2>2 DEF Rendering
    <3> QED
      BY <3>1, <3>2, <3>3, <3>4, <3>5 DEF PickerTrue
  <2> QED
    BY <2>1, <2>3, <2>4, PreviewNext
<1> QED
  BY <1>1, <1>2, <1>3 DEF Background

\* Every step keeps PreviewInv.
LEMMA PreviewStep == ASSUME TypeInv, ThumbnailInv, PreviewInv, [Next]_vars PROVE PreviewInv'
<1>1. CASE ChangedElsewhere
  <2>1. apart' => apart
    BY <1>1, Histories DEF Next
  <2>2. [do |-> "expired"].do \notin PreviewKinds
    BY DEF PreviewKinds
  <2> QED
    BY <1>1, <2>1, <2>2, PreviewKept DEF ChangedElsewhere, CanAct
<1>2. CASE UNCHANGED vars
  <2>1. page' = page /\ tasks' = tasks /\ panicked' = panicked /\ apart' = apart
    BY <1>2 DEF vars, order
  <2> QED
    BY <2>1 DEF PreviewInv, CountsOnce, PickerTrue, Pick
<1> QED
  BY <1>1, <1>2, PreviewUses, PreviewMessages, PreviewBackground DEF Next

(***************************************************************************)
(* The chosen cover.                                                       *)
(***************************************************************************)
\* The parts of ChosenInv.
Asked == \A t \in tasks : t.do = "request" => CoverOf(t)
Kept == ~Pending({"request"}) => library.meta.cover = chosen
Answering ==
    \A t \in tasks : t.do = "refreshed" =>
        /\ t.doc # None /\ DOMAIN t.doc.contents = DOMAIN library.contents
        /\ Harmless(t.doc.meta.cover)
Same ==
    page # None /\ ~Pending(Refreshing \cup {"request"}) =>
        DOMAIN page.doc.contents = DOMAIN library.contents
Leads(cover, ts, was, covered) ==
    \/ cover = was \/ cover \notin covered \cup {None}
    \/ \E t \in ts : t.do = "request" /\ t.what.is = "format" /\ cover = t.what.content
Known ==
    page # None /\ (\A t \in tasks : ~IsThumbnail(t)) =>
        /\ Leads(page.doc.meta.cover, tasks, chosen, DOMAIN images)
        /\ Leads(page.draft.cover, tasks, chosen, DOMAIN images)

\* They are its parts.
LEMMA ChosenIs ==
    ChosenInv <=> (~panicked /\ apart /\ Exists => Asked /\ Kept /\ Answering /\ Same /\ Known)
  BY DEF ChosenInv, Asked, Kept, Answering, Same, Known, Leads, Harmless

\* What ChosenInv says before a step, and what it takes after it.
LEMMA ChosenWas ==
    ASSUME ChosenInv, ~panicked, apart, Exists
    PROVE  Asked /\ Kept /\ Answering /\ Same /\ Known
  BY ChosenIs

\* ChosenInv, of the state after a step.
LEMMA ChosenNext ==
    ASSUME ~panicked' /\ apart' /\ Exists' => (Asked /\ Kept /\ Answering /\ Same /\ Known)'
    PROVE  ChosenInv'
  BY DEF ChosenInv, Asked, Kept, Answering, Same, Known, Leads, Harmless

\* A step that changes neither the cover nor the choice of it, makes no request
\* and tells the page of no other cover.
LEMMA ChosenKept ==
    ASSUME ChosenInv, ~panicked, apart' => apart,
           DOMAIN library'.contents = DOMAIN library.contents, library'.meta = library.meta,
           images' = images, chosen' = chosen,
           \A u \in tasks' : u \in tasks \/ u.do \notin {"request", "refreshed"},
           \A u \in tasks : u.do = "request" \/ IsThumbnail(u) => u \in tasks',
           \/ \E u \in tasks' : u.do \in Refreshing
           \/ /\ \A u \in tasks : u.do \in Refreshing => u \in tasks'
              /\ page' # None => DOMAIN page'.doc.contents = DOMAIN page.doc.contents,
           page' # None => /\ page # None /\ page'.doc.meta.cover = page.doc.meta.cover
                           /\ page'.draft.cover \in {page.draft.cover, page.doc.meta.cover}
    PROVE  ChosenInv'
<1> SUFFICES ASSUME apart', Exists' PROVE (Asked /\ Kept /\ Answering /\ Same /\ Known)'
  BY ChosenNext
<1>0. Asked /\ Kept /\ Answering /\ Same /\ Known
  BY ChosenWas DEF Exists
<1>1. Asked'
  <2> SUFFICES ASSUME NEW t \in tasks', t.do = "request" PROVE CoverOf(t)'
    BY DEF Asked
  <2>1. CoverOf(t)
    BY <1>0 DEF Asked
  <2> QED
    BY <2>1 DEF CoverOf, Harmless
<1>2. Kept'
  BY <1>0 DEF Kept, Pending
<1>3. Answering'
  BY <1>0 DEF Answering, Harmless
<1>4. Same'
  BY <1>0 DEF Same, Pending, Harmless
<1>5. Known'
  <2> SUFFICES ASSUME page' # None, \A t \in tasks' : ~IsThumbnail(t)
               PROVE  /\ Leads(page'.doc.meta.cover, tasks', chosen', DOMAIN images')
                      /\ Leads(page'.draft.cover, tasks', chosen', DOMAIN images')
    BY DEF Known, IsThumbnail
  <2>1. /\ Leads(page.doc.meta.cover, tasks, chosen, DOMAIN images)
        /\ Leads(page.draft.cover, tasks, chosen, DOMAIN images)
    BY <1>0 DEF Known
  <2>2. ASSUME NEW cover, Leads(cover, tasks, chosen, DOMAIN images)
        PROVE  Leads(cover, tasks', chosen', DOMAIN images')
    BY <2>2 DEF Leads
  <2> QED
    BY <2>1, <2>2
<1> QED
  BY <1>1, <1>2, <1>3, <1>4, <1>5

\* A request that is through left the chosen cover; a removed format is not to be
\* selected any more.
LEMMA ChosenDone ==
    ASSUME OneInv, ChosenInv, ~panicked, apart' => apart, NEW t \in tasks, t.do = "request",
           NEW ok, Answered(t, ok), page' = page, chosen' = chosen,
           DOMAIN library'.contents \subseteq DOMAIN library.contents, DOMAIN images' \subseteq DOMAIN images,
           apart' /\ Exists /\ CoverOf(t) => library'.meta.cover = chosen,
           t.what.is = "status" => library' = library,
           t.what.is = "format" /\ apart' => t.what.content \notin DOMAIN images' \cup {None}
    PROVE  ChosenInv'
<1> SUFFICES ASSUME apart', Exists' PROVE (Asked /\ Kept /\ Answering /\ Same /\ Known)'
  BY ChosenNext
<1>0. Exists /\ Asked /\ Kept /\ Answering /\ Same /\ Known
  BY ChosenWas DEF Exists
<1>1. /\ \A u \in tasks' : \/ u \in tasks \ {t} \/ u.do = "expired"
                           \/ u = [do |-> "answer", what |-> t.what, ok |-> ok] /\ u.do = "answer"
      /\ [do |-> "expired"] \in tasks' /\ tasks \ {t} \subseteq tasks'
  BY AnswerTasks DEF Answered
<1>2. /\ \A u \in tasks : u.do = "request" => u = t
      /\ t.what.is # "status" => \A u \in tasks : u.do # "refreshed"
  BY DEF OneInv, Pending, Renewing, Refreshing
<1>3. \A u \in tasks' : u.do # "request"
  BY <1>1, <1>2
<1>4. library'.meta.cover = chosen
  BY <1>0 DEF Asked
<1>5. Asked' /\ Kept'
  BY <1>3, <1>4 DEF Asked, Kept
<1>6. ASSUME NEW cover, Harmless(cover) PROVE Harmless(cover)'
  BY <1>6 DEF Harmless
<1>7. Answering'
  <2> SUFFICES ASSUME NEW u \in tasks', u.do = "refreshed"
               PROVE  /\ u.doc # None /\ DOMAIN u.doc.contents = DOMAIN library'.contents
                      /\ Harmless(u.doc.meta.cover)'
    BY DEF Answering
  <2>1. u \in tasks /\ library' = library
    BY <1>1, <1>2
  <2> QED
    BY <1>0, <1>6, <2>1 DEF Answering
<1>8. Same'
  <2>1. [do |-> "expired"].do \in Refreshing
    BY DEF Refreshing
  <2> QED
    BY <1>1, <2>1 DEF Same, Pending
<1>9. Known'
  <2> SUFFICES ASSUME page' # None, \A u \in tasks' : ~IsThumbnail(u)
               PROVE  /\ Leads(page'.doc.meta.cover, tasks', chosen', DOMAIN images')
                      /\ Leads(page'.draft.cover, tasks', chosen', DOMAIN images')
    BY DEF Known, IsThumbnail
  <2> DEFINE r == [do |-> "answer", what |-> t.what, ok |-> ok]
  <2>1. r \in tasks' /\ r.do = "answer" /\ r.what = t.what
    BY DEF Answered
  <2> HIDE DEF r
  <2>2. ~IsThumbnail(t)
    BY <2>1 DEF IsThumbnail
  <2>3. /\ Leads(page.doc.meta.cover, tasks, chosen, DOMAIN images)
        /\ Leads(page.draft.cover, tasks, chosen, DOMAIN images)
    BY <1>0, <1>1, <2>2 DEF Known
  <2>4. ASSUME NEW cover, Leads(cover, tasks, chosen, DOMAIN images)
        PROVE  Leads(cover, tasks', chosen', DOMAIN images')
    <3>1. CASE cover = chosen \/ cover \notin DOMAIN images \cup {None}
      BY <3>1 DEF Leads
    <3>2. CASE t.what.is = "format" /\ cover = t.what.content
      BY <3>2 DEF Leads
    <3> QED
      BY <1>2, <2>4, <3>1, <3>2 DEF Leads
  <2> QED
    BY <2>3, <2>4
<1> QED
  BY <1>5, <1>7, <1>8, <1>9

\* A cover is chosen, or the chosen one removed, when nothing is under way, and then
\* there is a request for it.
LEMMA ChosenUses == ASSUME TypeInv, ChosenInv, Uses PROVE ChosenInv'
<1>0. (apart' => apart) /\ ~panicked
  BY Histories DEF Next
<1> SUFFICES ASSUME apart', Exists' PROVE ChosenInv'
  BY DEF ChosenInv
<1>a. library' = library /\ images' = images /\ Exists
  BY Clicked, UsesAre, ChangesDo, PickingDo, FormsDo
     DEF Open, Close, SaveThumbnail, OpenThumbnailPicker, Exists
<1>b. Asked /\ Kept /\ Answering /\ Same /\ Known
  BY <1>0, <1>a, ChosenWas
<1>1. CASE Picking
  <2>1. page \in PageType /\ page # None
    BY <1>1, PickingDo
  <2>2. PICK p \in Pickers \cup {None} : page' = [page EXCEPT !.picker = p]
    BY <1>1, PickingDo
  <2>3. page'.doc = page.doc /\ page'.draft = page.draft /\ chosen' = chosen
    BY <1>1, <2>1, <2>2, PickingDo, Clicked DEF PageType
  <2>4. \A u \in tasks' : u \in tasks \/ u.do \notin {"request", "refreshed"}
    BY <1>1, PickingDo
  <2>5. tasks \subseteq tasks'
    BY <1>1, PickingDo
  <2> QED
    BY <1>0, <1>a, <2>1, <2>3, <2>4, <2>5, ChosenKept
<1>2. CASE Forms
  BY <1>0, <1>2, FormsDo, ChosenKept
<1>3. CASE Close
  BY <1>0, <1>3, ChosenKept DEF Close
<1>4. CASE \E c \in Contents : OpenThumbnailPicker(c)
  <2>1. PICK c \in Contents : OpenThumbnailPicker(c)
    BY <1>4
  <2>2. page # None /\ page \in PageType /\ chosen' = chosen /\ tasks' = tasks \cup {[do |-> "count"]}
        /\ page'.doc = page.doc /\ page'.draft = page.draft
    BY <2>1 DEF OpenThumbnailPicker, Click, TypeInv, PageType
  <2>3. [do |-> "count"].do \notin {"request", "refreshed"}
    OBVIOUS
  <2> QED
    BY <1>0, <1>a, <2>2, <2>3, ChosenKept
<1>5. CASE Open
  <2>1. tasks = {} /\ chosen' = chosen /\ tasks' = {[do |-> "covers", of |-> DOMAIN row.contents]}
    BY <1>5, Zenon DEF Open, Quiet
  <2>2. page'.doc = row /\ page'.draft = row.meta
    BY <1>5 DEF Open, NewPage
  <2>3. Harmless(row.meta.cover) /\ DOMAIN row.contents = DOMAIN library.contents
    <3>1. row = library
      BY <1>5, Zenon DEF Open
    <3> QED
      BY <1>b, <2>1, <3>1 DEF Kept, Pending, Harmless
  <2>4. \A u \in tasks' : u.do = "covers"
    BY <2>1
  <2>5. library.meta.cover = chosen
    BY <1>b, <2>1 DEF Kept, Pending
  <2>6. Asked' /\ Kept' /\ Answering' /\ Same'
    BY <1>a, <2>1, <2>2, <2>3, <2>4, <2>5 DEF Asked, Kept, Answering, Same, Harmless
  <2>7. Known'
    BY <1>a, <2>1, <2>2, <2>3 DEF Known, Leads, Harmless
  <2> QED
    BY <2>6, <2>7, ChosenNext
<1>6. CASE SaveThumbnail
  <2> DEFINE r == [do |-> "request", what |-> [is |-> "thumbnail", view |-> Pick(page.picker)]]
  <2>1. tasks = {} /\ chosen' = page.picker.content
    BY <1>6, Zenon DEF SaveThumbnail, Quiet
  <2>2. tasks' = {r}
    BY <1>6, <2>1 DEF SaveThumbnail, Request
  <2>3. r.do = "request" /\ r.what.is = "thumbnail" /\ r.what.view.content = page.picker.content
    BY DEF Pick
  <2> HIDE DEF r
  <2>4. Asked' /\ Kept' /\ Answering' /\ Same' /\ Known'
    BY <2>1, <2>2, <2>3 DEF Asked, CoverOf, Kept, Answering, Same, Known, Pending, IsThumbnail
  <2> QED
    BY <2>4, ChosenNext
<1>7. CASE Changes
  <2>1. Change /\ page # None /\ page \in PageType
    BY <1>7, ChangesDo
  <2>2. tasks = {}
    BY <2>1, Zenon DEF Change, Quiet
  <2>3. /\ library.meta.cover = chosen /\ DOMAIN page.doc.contents = DOMAIN library.contents
        /\ \A cover \in {page.doc.meta.cover, page.draft.cover} : cover = chosen \/ cover \notin DOMAIN images \cup {None}
    BY <1>b, <2>1, <2>2 DEF Kept, Same, Known, Leads, Pending
  <2>4. ASSUME NEW q, tasks' = {[do |-> "request", what |-> q]}, CoverOf([do |-> "request", what |-> q])',
               page' # None =>
                   \A cover \in {page'.doc.meta.cover, page'.draft.cover} :
                      cover = chosen' \/ cover \notin DOMAIN images' \cup {None} \/ (q.is = "format" /\ cover = q.content)
        PROVE  ChosenInv'
    <3> DEFINE r == [do |-> "request", what |-> q]
    <3>1. tasks' = {r} /\ r.do = "request" /\ r.what = q
      BY <2>4
    <3>2. CoverOf(r)'
      BY <2>4
    <3> HIDE DEF r
    <3>3. Asked' /\ Kept' /\ Answering' /\ Same'
      BY <3>1, <3>2 DEF Asked, Kept, Answering, Same, Pending
    <3>4. Known'
      BY <2>4, <3>1 DEF Known, Leads
    <3> QED
      BY <3>3, <3>4, ChosenNext
  <2>5. CASE (\E tag \in Tags : AddTag(tag) \/ RemoveTag(tag)) \/ \E read \in BOOLEAN : UpdateReadingStatus(read)
    <3>1. PICK q : q.is \in {"tag", "status"} /\ tasks' = tasks \cup {[do |-> "request", what |-> q]}
      <4>1. ASSUME NEW tag, NEW add, NEW left, Request([is |-> "tag", tag |-> tag, add |-> add, left |-> left])
            PROVE  \E q : q.is \in {"tag", "status"} /\ tasks' = tasks \cup {[do |-> "request", what |-> q]}
        <5> DEFINE q == [is |-> "tag", tag |-> tag, add |-> add, left |-> left]
        <5>1. q.is \in {"tag", "status"} /\ tasks' = tasks \cup {[do |-> "request", what |-> q]}
          BY <4>1 DEF Request
        <5> HIDE DEF q
        <5> QED
          BY <5>1
      <4>2. ASSUME NEW read, NEW left, Request([is |-> "status", read |-> read, left |-> left])
            PROVE  \E q : q.is \in {"tag", "status"} /\ tasks' = tasks \cup {[do |-> "request", what |-> q]}
        <5> DEFINE q == [is |-> "status", read |-> read, left |-> left]
        <5>1. q.is \in {"tag", "status"} /\ tasks' = tasks \cup {[do |-> "request", what |-> q]}
          BY <4>2 DEF Request
        <5> HIDE DEF q
        <5> QED
          BY <5>1
      <4> QED
        BY <2>5, <4>1, <4>2 DEF AddTag, RemoveTag, UpdateReadingStatus
    <3>2. chosen' = chosen /\ page'.doc = page.doc /\ page'.draft = page.draft
      BY <2>1, <2>5 DEF AddTag, RemoveTag, UpdateReadingStatus, PageType
    <3>3. CoverOf([do |-> "request", what |-> q])'
      BY <1>a, <2>3, <3>1, <3>2 DEF CoverOf
    <3> QED
      BY <1>a, <2>2, <2>3, <2>4, <3>1, <3>2, <3>3
  <2>6. CASE SaveDocumentMeta
    <3>1. PICK q : tasks' = {[do |-> "request", what |-> q]} /\ q.is = "meta" /\ q.meta = page.draft
      <4> DEFINE q == [is |-> "meta", meta |-> page.draft]
      <4>1. tasks' = {[do |-> "request", what |-> q]} /\ q.is = "meta" /\ q.meta = page.draft
        BY <2>2, <2>6 DEF SaveDocumentMeta, Request
      <4> HIDE DEF q
      <4> QED
        BY <4>1
    <3>2. chosen' = chosen /\ page'.doc = page.doc /\ page'.draft = page.draft
      BY <2>1, <2>6 DEF SaveDocumentMeta, PageType
    <3>3. CoverOf([do |-> "request", what |-> q])'
      BY <1>a, <2>3, <3>1, <3>2 DEF CoverOf, Harmless
    <3> QED
      BY <1>a, <2>3, <2>4, <3>1, <3>2, <3>3
  <2>7. CASE \E c \in Contents : SelectCover(c)
    <3>1. PICK c \in Contents : SelectCover(c)
      BY <2>7
    <3>2. PICK q : tasks' = {[do |-> "request", what |-> q]} /\ q.is = "cover" /\ q.meta = page'.draft /\ chosen' = c
      <4> DEFINE q == [is |-> "cover", meta |-> page'.draft]
      <4>1. tasks' = {[do |-> "request", what |-> q]} /\ q.is = "cover" /\ q.meta = page'.draft /\ chosen' = c
        BY <2>2, <3>1 DEF SelectCover, Request
      <4> HIDE DEF q
      <4> QED
        BY <4>1
    <3>3. page' = [page EXCEPT !.doc = [page.doc EXCEPT !.meta.cover = c], !.draft = [page.draft EXCEPT !.cover = c]]
      BY <3>1 DEF SelectCover
    <3>4. page'.doc = [page.doc EXCEPT !.meta.cover = c] /\ page'.draft = [page.draft EXCEPT !.cover = c]
      BY <2>1, <3>3 DEF PageType
    <3>5. page.doc \in Documents /\ page.draft \in Meta /\ page.doc.meta \in Meta
      BY <2>1, PageIs, DocumentIs
    <3>6. page'.doc.meta.cover = c /\ page'.draft.cover = c
      <4>1. [page.doc EXCEPT !.meta.cover = c].meta = [page.doc.meta EXCEPT !.cover = c]
        BY <3>5, DocIs
      <4> QED
        BY <3>4, <3>5, <4>1 DEF Meta
    <3>7. c \in DOMAIN images
      BY <2>3, <3>1 DEF SelectCover, TypeInv
    <3>8. CoverOf([do |-> "request", what |-> q])'
      BY <1>a, <3>2, <3>6, <3>7 DEF CoverOf
    <3> QED
      BY <2>4, <3>2, <3>6, <3>8
  <2>8. CASE ConfirmRemoval
    <3>1. PICK q : q \in Removals /\ tasks' = {[do |-> "request", what |-> q]}
          /\ page'.doc = page.doc /\ page'.draft = page.draft
          /\ chosen' = IF q = [is |-> "format", content |-> chosen] THEN None ELSE chosen
      BY <2>1, <2>2, <2>8, PageIs DEF ConfirmRemoval, Request, PageType
    <3>2. q.is \in {"format", "copy"} /\ q.content \in Contents /\ q = [is |-> q.is, content |-> q.content] /\ q.content # None
      BY <3>1, NoneAssumption DEF Removals
    <3>3. CASE q.is = "format" /\ q.content = chosen
      <4>1. chosen' = None
        BY <3>1, <3>2, <3>3
      <4>2. CoverOf([do |-> "request", what |-> q])'
        BY <1>a, <2>3, <3>3, <4>1 DEF CoverOf
      <4> QED
        BY <1>a, <2>3, <2>4, <3>1, <3>3, <4>1, <4>2
    <3>4. CASE ~(q.is = "format" /\ q.content = chosen)
      <4>1. chosen' = chosen
        <5>1. [is |-> "format", content |-> chosen].is = "format" /\ [is |-> "format", content |-> chosen].content = chosen
          OBVIOUS
        <5> QED
          BY <3>1, <3>4, <5>1
      <4>2. CoverOf([do |-> "request", what |-> q])'
        BY <1>a, <2>3, <3>2, <3>4, <4>1 DEF CoverOf
      <4> QED
        BY <1>a, <2>3, <2>4, <3>1, <4>1, <4>2
    <3> QED
      BY <3>3, <3>4
  <2> QED
    BY <1>7, <2>5, <2>6, <2>7, <2>8 DEF Changes
<1> QED
  BY <1>1, <1>2, <1>3, <1>4, <1>5, <1>6, <1>7, UsesAre

\* Messages bring the page and the list documents with the chosen cover, or with
\* one that is refused.
LEMMA ChosenMessages ==
    ASSUME TypeInv, ThumbnailInv, OneInv, ChosenInv, NEW t \in tasks, Message(t) PROVE ChosenInv'
<1>0. (apart' => apart) /\ ~panicked
  BY Histories DEF Next
<1> SUFFICES ASSUME apart', Exists', ~Panic(t) PROVE ChosenInv'
  BY DEF ChosenInv, Panic
<1>a. library' = library /\ images' = images /\ chosen' = chosen
  BY Handled, ShowingDo
     DEF Message, Showing, Refresh, RefreshDocument, DocumentRefreshed, FormatRemoved,
         LoadArchive, Loaded, RowRefreshed, ThumbnailSaved, Delivered
<1>b. Exists /\ Asked /\ Kept /\ Answering /\ Same /\ Known
  BY <1>0, <1>a, ChosenWas DEF Exists
<1>c. page # None => page \in PageType
  BY DEF TypeInv
<1>d. \A u \in tasks' : u \in tasks \/ u.do \notin {"request", "refreshed"}
  BY MessageTasks
<1>1. CASE Showing(t)
  <2>1. t.do \notin Refreshing \cup {"request"} /\ ~IsThumbnail(t)
    BY <1>1, ShowingDo
       DEF Refreshing, IsThumbnail, Showing, CoversLoaded, ThumbnailPageCountLoaded,
           ThumbnailReloadPreview, ThumbnailBigPreviewLoaded, ThumbnailFailed, RequestAnswered
  <2>2. tasks \ {t} \subseteq tasks'
    BY <1>1, ShowingDo
  <2> QED
    BY <1>0, <1>1, <1>a, <1>d, <2>1, <2>2, ShowingDo, ChosenKept
<1>2. CASE \/ RefreshDocument(t) \/ (FormatRemoved(t) /\ t.ok) \/ (Refresh(t) /\ page # None)
           \/ (RowRefreshed(t) /\ t.do # "row")
  <2>1. t.do # "request" /\ ~IsThumbnail(t) /\ tasks \ {t} \subseteq tasks'
    BY <1>2 DEF RefreshDocument, FormatRemoved, Refresh, RowRefreshed, IsThumbnail, Delivered
  <2>2. \E u \in tasks' : u.do \in Refreshing
    <3>1. \/ [do |-> "refresh"] \in tasks' \/ [do |-> "read"] \in tasks'
          \/ [do |-> "row-of-format", doc |-> page.doc] \in tasks'
      BY <1>2 DEF RefreshDocument, FormatRemoved, Refresh, RowRefreshed, RefreshMessage
    <3>2. [do |-> "refresh"].do \in Refreshing /\ [do |-> "read"].do \in Refreshing
          /\ [do |-> "row-of-format", doc |-> page.doc].do \in Refreshing
      BY DEF Refreshing
    <3> QED
      BY <3>1, <3>2
  <2>3. page' # None => page' = page /\ page # None
    BY <1>2 DEF RefreshDocument, FormatRemoved, Refresh, RowRefreshed, Delivered
  <2> QED
    BY <1>0, <1>a, <1>d, <2>1, <2>2, <2>3, ChosenKept
<1>3. CASE FormatRemoved(t) /\ ~t.ok
  <2>1. tasks' = tasks \ {t} /\ t.do = "answer" /\ ~IsThumbnail(t) /\ page' = page
    BY <1>3 DEF FormatRemoved, IsThumbnail
  <2> QED
    BY <1>0, <1>a, <1>d, <2>1, ChosenKept DEF Refreshing
<1>4. CASE Refresh(t) /\ page = None
  <2>1. tasks' = (tasks \ {t}) \cup {[do |-> "load"]} /\ t.do = "expired" /\ page' = None
    BY <1>4 DEF Refresh
  <2>2. \A u \in tasks' : u \in tasks \/ u.do = "load"
    BY <2>1
  <2>3. Asked' /\ Answering' /\ Known'
    BY <1>a, <1>b, <2>1, <2>2 DEF Asked, CoverOf, Answering, Known, Harmless
  <2>4. Kept' /\ Same'
    BY <1>a, <1>b, <2>1 DEF Kept, Same, Pending, Harmless
  <2> QED
    BY <2>3, <2>4, ChosenNext
<1>5. CASE DocumentRefreshed(t)
  <2>1. t.do = "refreshed" /\ page # None /\ page \in PageType
    BY <1>5, <1>c DEF DocumentRefreshed, Delivered
  <2>2. t.doc # None /\ DOMAIN t.doc.contents = DOMAIN library.contents /\ Harmless(t.doc.meta.cover)
    BY <1>b, <2>1 DEF Answering
  <2>5. tasks \ {t} \subseteq tasks' /\ \A u \in tasks' : u \in tasks \/ u.do = "row"
    BY <1>5 DEF DocumentRefreshed
  <2>3. page' = [page EXCEPT !.doc = t.doc, !.tags = AllTags(t.doc)]
    BY <1>5, <2>2 DEF DocumentRefreshed, Refreshed
  <2>4. page'.doc = t.doc /\ page'.draft = page.draft
    BY <2>1, <2>3 DEF PageType
  <2>6. Asked' /\ Answering'
    BY <1>a, <1>b, <2>5 DEF Asked, CoverOf, Answering, Harmless
  <2>7. Kept'
    BY <1>a, <1>b, <2>1, <2>5 DEF Kept, Pending
  <2>8. Same'
    BY <1>a, <2>2, <2>3, <2>4 DEF Same, Harmless
  <2>9. Known'
    <3> SUFFICES ASSUME \A u \in tasks' : ~IsThumbnail(u)
                 PROVE  /\ Leads(page'.doc.meta.cover, tasks', chosen', DOMAIN images')
                        /\ Leads(page'.draft.cover, tasks', chosen', DOMAIN images')
      BY DEF Known, IsThumbnail
    <3>1. \A u \in tasks : ~IsThumbnail(u)
      BY <2>1, <2>5 DEF IsThumbnail
    <3>2. Leads(page.draft.cover, tasks, chosen, DOMAIN images)
      BY <1>b, <2>1, <3>1 DEF Known
    <3>3. \A u \in tasks : u.do = "request" => u \in tasks'
      BY <2>1, <2>5
    <3> QED
      BY <1>a, <2>2, <2>4, <3>2, <3>3 DEF Leads, Harmless
  <2> QED
    BY <2>6, <2>7, <2>8, <2>9, ChosenNext
<1>6. CASE ThumbnailSaved(t)
  <2>1. t.do = "answer" /\ IsThumbnail(t) /\ page # None /\ page \in PageType /\ tasks' = tasks \ {t}
    BY <1>6, <1>c DEF ThumbnailSaved, Delivered, IsThumbnail
  <2>2. /\ page.picker # None /\ page.picker.preview = t.what.view /\ t.ok /\ t.what.view = Pick(page.picker)
        /\ library.meta.cover = t.what.view.content
        /\ \A u \in tasks : u.do \notin Renewing => u = t
    BY <1>0, <2>1 DEF ThumbnailInv
  <2>3. page.picker \in Pickers /\ page.covers \in Covers /\ page.doc \in Documents /\ page.draft \in Meta
    BY <2>1, <2>2, PageIs DEF TypeInv
  <2>4. page' = ShowThumbnail(page.picker) /\ page.picker.preview # None
    BY <1>6, <2>2, <2>3, PickersAre DEF ThumbnailSaved
  <2>5. \A u \in tasks : u.do # "request"
    BY <2>1, <2>2 DEF Renewing, Refreshing, Loading
  <2>6. library.meta.cover = chosen /\ page.picker.content = chosen
    BY <1>b, <2>2, <2>5 DEF Kept, Pending, Pick
  <2>7. page'.doc = [page.doc EXCEPT !.meta.cover = chosen] /\ page'.draft = [page.draft EXCEPT !.cover = chosen]
    BY <2>1, <2>3, <2>4, <2>6, ShownIs
  <2>8. page'.doc.meta.cover = chosen /\ page'.draft.cover = chosen /\ page'.doc.contents = page.doc.contents
    <3>1. page.doc.meta \in Meta /\ chosen \in Contents \cup {None}
      BY <2>3, DocumentIs DEF TypeInv
    <3>2. page'.doc.contents = page.doc.contents /\ page'.doc.meta = [page.doc.meta EXCEPT !.cover = chosen]
      BY <2>3, <2>7, <3>1, DocIs
    <3> QED
      BY <2>3, <2>7, <3>1, <3>2 DEF Meta
  <2>9. \A u \in tasks' : u \in tasks
    BY <2>1
  <2>10. Asked' /\ Answering' /\ Kept'
    BY <1>a, <1>b, <2>5, <2>6, <2>9 DEF Asked, Answering, Kept, Harmless
  <2>11. Same'
    BY <1>a, <1>b, <2>1, <2>8 DEF Same, Pending, Harmless, Refreshing
  <2>12. Known'
    BY <1>a, <2>8 DEF Known, Leads
  <2> QED
    BY <2>10, <2>11, <2>12, ChosenNext
<1>7. CASE LoadArchive(t) \/ Loaded(t) \/ (RowRefreshed(t) /\ t.do = "row")
  <2>1. page' = page /\ t.do \notin Refreshing \cup {"request"} /\ ~IsThumbnail(t) /\ tasks \ {t} \subseteq tasks'
    BY <1>7 DEF LoadArchive, Loaded, RowRefreshed, Refreshing, IsThumbnail
  <2> QED
    BY <1>0, <1>a, <1>d, <2>1, ChosenKept
<1> QED
  BY <1>1, <1>2, <1>3, <1>4, <1>5, <1>6, <1>7 DEF Message, Showing

\* A request leaves the chosen cover, and what is read after it has that.
LEMMA ChosenBackground ==
    ASSUME TypeInv, OneInv, ChosenInv, NEW t \in tasks, Background(t)
    PROVE  ChosenInv'
<1>0. (apart' => apart) /\ ~panicked
  BY Histories DEF Next
<1> SUFFICES ASSUME apart', Exists' PROVE ChosenInv'
  BY DEF ChosenInv
<1>a. page' = page /\ chosen' = chosen
  BY DEF Background, ReadCovers, GetSingleDocument, Fetch, TagContents, UpdateStatuses,
         AllContentsDone, UpdateDocumentMetadata, RemoveContent, DeleteSource, CountPages,
         RenderPreview, SetPageThumbnail, Work
<1>1. CASE ReadCovers(t) \/ CountPages(t) \/ RenderPreview(t)
  <2>1. /\ \A u \in tasks' : u \in tasks \/ u.do \notin {"request", "refreshed"}
        /\ t.do \notin Refreshing \cup {"request"} /\ ~IsThumbnail(t)
        /\ library' = library /\ images' = images
    BY <1>1, ReadTasks DEF Refreshing, IsThumbnail
  <2>2. tasks \ {t} \subseteq tasks'
    BY <1>1 DEF ReadCovers, CountPages, RenderPreview
  <2> QED
    BY <1>0, <1>a, <2>1, <2>2, ChosenKept
<1>2. CASE GetSingleDocument(t)
  <2>1. library' = library /\ images' = images /\ t.do = "read"
    BY <1>2 DEF GetSingleDocument
  <2>2. Exists /\ Asked /\ Kept /\ Answering /\ Same /\ Known
    BY <1>0, <2>1, ChosenWas DEF Exists
  <2> DEFINE r == [do |-> "refreshed", doc |-> library]
  <2>3. tasks' = (tasks \ {t}) \cup {r} /\ r.do = "refreshed" /\ r.doc = library
    BY <1>2, <2>2, ReadWhole
  <2> HIDE DEF r
  <2>4. \A u \in tasks : u.do = "request" => u.what.is = "status"
    BY <1>0, <2>1 DEF OneInv, Pending, Renewing, Refreshing
  <2>5. library.meta.cover = chosen
    BY <2>2, <2>4 DEF Asked, Kept, CoverOf, Pending
  <2>6. library # None
    BY DocumentAssumption DEF TypeInv
  <2>7. Asked'
    BY <1>a, <2>1, <2>2, <2>3 DEF Asked, CoverOf, Harmless
  <2>8. Kept'
    BY <1>a, <2>1, <2>5 DEF Kept
  <2>9. Answering'
    BY <1>a, <2>1, <2>2, <2>3, <2>5, <2>6 DEF Answering, Harmless
  <2>10. Same'
    BY <2>3 DEF Same, Pending, Refreshing
  <2>11. Known'
    <3>1. (\A u \in tasks' : ~IsThumbnail(u)) => (\A u \in tasks : ~IsThumbnail(u))
      BY <2>1, <2>3 DEF IsThumbnail
    <3>2. \A u \in tasks : u.do = "request" => u \in tasks'
      BY <2>1, <2>3
    <3> QED
      BY <1>a, <2>1, <2>2, <3>1, <3>2 DEF Known, Leads, IsThumbnail
  <2> QED
    BY <2>7, <2>8, <2>9, <2>10, <2>11, ChosenNext
<1>3. CASE TagContents(t) \/ UpdateStatuses(t)
  <2>1. Retagged /\ images' = images /\ t.do = "request" /\ t.what.is \in {"tag", "status"}
    BY <1>3, EachRetags
  <2>2. PICK v : /\ v.do = "request" /\ v.what.is = t.what.is
                 /\ \A u \in tasks' : u \in tasks \ {t} \/ u = v \/ (u.do = "expired" /\ t.what.is = "status")
                 /\ v \in tasks' /\ tasks \ {t} \subseteq tasks'
    BY <1>3, EachTasks
  <2>3. Exists /\ Asked /\ Kept /\ Answering /\ Same /\ Known
    BY <1>0, <2>1, ChosenWas DEF Exists, Retagged
  <2>4. library.meta.cover = chosen
    BY <2>1, <2>3 DEF Asked, CoverOf
  <2>5. Asked'
    <3> SUFFICES ASSUME NEW u \in tasks', u.do = "request" PROVE CoverOf(u)'
      BY DEF Asked
    <3>1. CASE u = v
      BY <1>a, <2>1, <2>2, <2>4, <3>1 DEF CoverOf, Retagged
    <3>2. CASE u \in tasks
      BY <1>a, <2>1, <2>3, <3>2 DEF Asked, CoverOf, Retagged, Harmless
    <3> QED
      BY <2>2, <3>1, <3>2
  <2>6. Kept' /\ Same'
    BY <2>2 DEF Kept, Same, Pending
  <2>7. Answering'
    BY <1>a, <2>1, <2>2, <2>3 DEF Answering, Harmless, Retagged
  <2>8. Known'
    <3>1. (\A u \in tasks' : ~IsThumbnail(u)) => (\A u \in tasks : ~IsThumbnail(u))
      BY <2>1, <2>2 DEF IsThumbnail
    <3>2. \A u \in tasks : u.do = "request" /\ u.what.is = "format" => u \in tasks'
      BY <2>1, <2>2
    <3> QED
      BY <1>a, <2>1, <2>3, <3>1, <3>2 DEF Known, Leads, IsThumbnail
  <2> QED
    BY <2>5, <2>6, <2>7, <2>8, ChosenNext
<1>4. CASE AllContentsDone(t)
  <2>1. t.do = "request" /\ t.what.is \in {"tag", "status"} /\ library' = library /\ images' = images /\ \E ok : Answered(t, ok)
    BY <1>4 DEF AllContentsDone
  <2> QED
    BY <1>0, <1>a, <2>1, ChosenDone DEF CoverOf
<1>5. CASE UpdateDocumentMetadata(t)
  <2>1. t.do = "request" /\ t.what.is \in {"meta", "cover"} /\ images' = images /\ \E ok : Answered(t, ok)
        /\ Work(t) /\ (Works \/ Fail)
    BY <1>5 DEF UpdateDocumentMetadata
  <2>2. ~Fail /\ library \in Documents
    BY <2>1, Worked DEF TypeInv
  <2>3. library' = IF DOMAIN images # {} /\ t.what.meta.cover \in DOMAIN images \cup {None}
                   THEN [library EXCEPT !.meta = t.what.meta] ELSE library
    BY <1>5, <2>2 DEF UpdateDocumentMetadata
  <2>4. [library EXCEPT !.meta = t.what.meta].meta = t.what.meta
        /\ [library EXCEPT !.meta = t.what.meta].contents = library.contents
    BY <2>2, DocumentIs
  <2>5. library'.contents = library.contents
    BY <2>3, <2>4
  <2>6. CoverOf(t) => library'.meta.cover = chosen
    BY <2>1, <2>3, <2>4 DEF CoverOf, Harmless
  <2> QED
    BY <1>0, <1>a, <2>1, <2>5, <2>6, ChosenDone
<1>6. CASE RemoveContent(t)
  <2>1. t.do = "request" /\ t.what.is = "format" /\ (\E ok : Answered(t, ok)) /\ Work(t) /\ (Works \/ Fail)
        /\ t.what.content \in Contents
    <3>1. t \in [do : {"request"}, what : Requests]
      BY <1>6 DEF RemoveContent, TypeInv, TaskType
    <3> QED
      BY <1>6, <3>1, RequestsAre DEF RemoveContent
  <2>2. ~Fail /\ library \in Documents /\ library.meta \in Meta
    BY <2>1, Worked, DocumentIs DEF TypeInv
  <2> DEFINE c == t.what.content
  <2>3. library' = [meta |-> [library.meta EXCEPT !.cover = IF @ = c THEN None ELSE @],
                    contents |-> Without(library.contents, c)]
        /\ images' = Without(images, c)
    BY <1>6, <2>2 DEF RemoveContent
  <2>4. library'.meta.cover = IF library.meta.cover = c THEN None ELSE library.meta.cover
    BY <2>2, <2>3 DEF Meta
  <2>5. DOMAIN library'.contents = DOMAIN library.contents \ {c} /\ DOMAIN images' = DOMAIN images \ {c}
    BY <2>3, WithoutIs
  <2>6. CoverOf(t) => library'.meta.cover = chosen
    BY <2>1, <2>4 DEF CoverOf
  <2>7. c # None
    BY <2>1, NoneAssumption
  <2> QED
    BY <1>0, <1>a, <2>1, <2>5, <2>6, <2>7, ChosenDone
<1>7. CASE DeleteSource(t)
  <2>1. t.do = "request" /\ t.what.is = "copy" /\ (\E ok : Answered(t, ok)) /\ images' = images
    BY <1>7 DEF DeleteSource
  <2>2. library' = library \/ library' = [library EXCEPT !.contents = Without(@, t.what.content)]
    BY <1>7 DEF DeleteSource
  <2>3. library'.meta = library.meta
    BY <2>2, DocumentIs DEF TypeInv
  <2>4. DOMAIN library'.contents \subseteq DOMAIN library.contents
    BY <1>7, RequestsDo
  <2> QED
    BY <1>0, <1>a, <2>1, <2>3, <2>4, ChosenDone DEF CoverOf
<1>8. CASE SetPageThumbnail(t)
  <2> DEFINE c == t.what.view.content
  <2>1. t.do = "request" /\ t.what.is = "thumbnail" /\ (\E ok : Answered(t, ok)) /\ Work(t) /\ (Works \/ Fail)
    BY <1>8 DEF SetPageThumbnail
  <2>2. ~Fail /\ library \in Documents /\ c \in Contents
    <3>1. t \in [do : {"request"}, what : Requests]
      BY <2>1 DEF TypeInv, TaskType
    <3>2. t.what.view \in View
      BY <2>1, <3>1 DEF Requests, Removals
    <3> QED
      BY <2>1, <3>2, Worked DEF TypeInv, View
  <2>3. library' = [library EXCEPT !.meta.cover = c] /\ images' = [images EXCEPT ![c] = t.what.view]
    BY <1>8, <2>2 DEF SetPageThumbnail
  <2>4. library'.meta.cover = c /\ library'.contents = library.contents
    <3>1. library'.contents = library.contents /\ library'.meta = [title |-> library.meta.title, cover |-> c]
      BY <2>2, <2>3, LibraryIs
    <3> QED
      BY <3>1
  <2>5. DOMAIN images' = DOMAIN images
    BY <2>3
  <2>6. CoverOf(t) => library'.meta.cover = chosen
    BY <2>1, <2>4 DEF CoverOf
  <2> QED
    BY <1>0, <1>a, <2>1, <2>4, <2>5, <2>6, ChosenDone
<1>9. CASE Fetch(t)
  <2>1. t.do = "fetch" /\ library' = library /\ images' = images /\ tasks \ {t} \subseteq tasks'
        /\ \A u \in tasks' : u \in tasks \/ u.do = "loaded"
    BY <1>9 DEF Fetch
  <2> QED
    BY <1>0, <1>a, <2>1, ChosenKept DEF Refreshing, IsThumbnail
<1> QED
  BY <1>1, <1>2, <1>3, <1>4, <1>5, <1>6, <1>7, <1>8, <1>9 DEF Background

\* Every step keeps ChosenInv.
LEMMA ChosenStep ==
    ASSUME TypeInv, ThumbnailInv, OneInv, ChosenInv, [Next]_vars
    PROVE  ChosenInv'
<1>1. CASE ChangedElsewhere
  <2>1. apart' => apart
    BY <1>1, Histories DEF Next
  <2>2. Retagged
    BY <1>1, ElsewhereRetags
  <2>3. images' = images /\ page' = page /\ chosen' = chosen /\ ~panicked
        /\ tasks' = tasks \cup {[do |-> "expired"]}
    BY <1>1 DEF ChangedElsewhere, CanAct
  <2>4. [do |-> "expired"].do = "expired"
    OBVIOUS
  <2> QED
    BY <2>1, <2>2, <2>3, <2>4, ChosenKept DEF Retagged
<1>2. CASE UNCHANGED vars
  <2>1. library' = library /\ images' = images /\ page' = page /\ tasks' = tasks /\ panicked' = panicked
        /\ apart' = apart /\ chosen' = chosen
    BY <1>2 DEF vars, order
  <2>2. CASE ~panicked
    BY <2>1, <2>2, ChosenKept
  <2>3. CASE panicked
    BY <2>1, <2>3 DEF ChosenInv
  <2> QED
    BY <2>2, <2>3
<1> QED
  BY <1>1, <1>2, ChosenUses, ChosenMessages, ChosenBackground DEF Next

(***************************************************************************)
(* The theorems.                                                           *)
(***************************************************************************)
\* The strengthened invariant holds in the beginning,
LEMMA InvInit == ASSUME Init PROVE IInv
<1>1. TypeInv
  BY TypeInit
<1>2. tasks = {} /\ page = None /\ row = library /\ cache = library /\ chosen = library.meta.cover
  BY DEF Init
<1>3. ThumbnailInv /\ RefreshInv /\ OneInv /\ CoversInv /\ PreviewInv
  BY <1>2 DEF ThumbnailInv, RefreshInv, OneInv, CoversInv, PreviewInv, CountsOnce, Pending
<1>4. ChosenInv
  BY <1>2 DEF ChosenInv, Pending, Harmless
<1>5. ListInv
  <2>1. row # None
    BY <1>1, <1>2 DEF TypeInv
  <2> QED
    BY <1>2, <2>1 DEF ListInv, Whole, Exists, Agrees
<1> QED
  BY <1>1, <1>3, <1>4, <1>5 DEF IInv

\* is kept by every step,
LEMMA InvStep == ASSUME IInv, [Next]_vars PROVE IInv'
  BY TypeStep, ThumbnailStep, RefreshStep, ListStep, OneStep, CoversStep, PreviewStep, ChosenStep DEF IInv

\* and so holds always.
LEMMA InvHolds == Spec => []IInv
<1>1. Init => IInv
  BY InvInit
<1>2. IInv /\ [Next]_vars => IInv'
  BY InvStep
<1> QED
  BY <1>1, <1>2, PTL DEF Spec

\* Every variable has the values of its type, in every reachable state.
THEOREM TypeCorrect == Spec => []TypeOK
<1>1. ASSUME IInv PROVE TypeOK
  <2>1. TypeInv
    BY <1>1 DEF IInv
  <2>2. page # None => /\ page.doc \in Documents /\ page.draft \in Meta /\ page.tags \subseteq Tags
                       /\ page.picker # None => page.picker \in Pickers
    BY <2>1, PageIs DEF TypeInv
  <2> QED
    BY <2>1, <2>2 DEF TypeInv, TypeOK
<1>2. IInv => TypeOK
  BY <1>1
<1> QED
  BY <1>2, InvHolds, PTL

\* The page, its tag editor and the list show the document as the source has it when
\* everything is answered, after any clicks, requests that fail and changes elsewhere,
\* unless an older answer came last or a source left something out.
THEOREM PageIsTrue == Spec => []PageTrue
<1>1. IInv => PageTrue
  BY DEF IInv, RefreshInv, ListInv, PageTrue, Quiet, Pending
<1> QED
  BY <1>1, InvHolds, PTL

\* The picker has a preview of what it shows when no rendering is under way, however
\* its clicks and the answers to them are interleaved.
THEOREM PreviewIsTrue == Spec => []PreviewTrue
<1>1. IInv => PreviewTrue
  BY DEF IInv, PreviewInv, PickerTrue, PreviewTrue, Pending, Counting, Rendering
<1> QED
  BY <1>1, InvHolds, PTL

\* The covers on the page are those of the source when everything is answered.
THEOREM CoversAreTrue == Spec => []CoversTrue
<1>1. IInv => CoversTrue
  BY DEF IInv, CoversInv, CoversTrue, Quiet
<1> QED
  BY <1>1, InvHolds, PTL

\* The document has the cover that was chosen last when everything is answered, also
\* after a form was saved that had been open meanwhile, and after removals.
THEOREM ChosenIsKept == Spec => []ChosenCoverKept
<1>1. IInv => ChosenCoverKept
  BY DEF IInv, ChosenInv, ChosenCoverKept, Quiet, Pending
<1> QED
  BY <1>1, InvHolds, PTL
=============================================================================
