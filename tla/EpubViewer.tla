------------------------------ MODULE EpubViewer ------------------------------
(***************************************************************************)
(* The EPUB viewer (cosmic/src/page/epub_viewer/mod.rs): one document,     *)
(* opened at the stored position, read in pages or by scrolling, closed,   *)
(* its position stored.                                                    *)
(*                                                                         *)
(* The viewer is one record; a handler of update() is an operator from the *)
(* viewer before to the viewer after.  The chapters and the stored         *)
(* position arrive as messages, in either order.  The size of the content  *)
(* is known when it has been drawn once.                                   *)
(*                                                                         *)
(*     message --> maybe_repaginate --> handler [--> maybe_repaginate]     *)
(*                                                                         *)
(* The navigation sidebar, the raw text, fonts by name and highlights are  *)
(* left out: they do not move the reader.  Saving the position is one step *)
(* here; ReadingProgress is about what becomes of it.                      *)
(***************************************************************************)
EXTENDS EpubPagination

CONSTANTS Book,       \* the chapters of the archive, each a sequence of blocks
          Spine,      \* how many of them are in the reading order
          Hits,       \* for each chapter, the blocks that a search finds
          Layouts,    \* pages the window and the preferences can lead to
          None,
          MaxOpens, MaxActs

Chapters == 1..Len(Book)
BlocksOf(c) == 1..Len(Book[c])
Nodes == {0} \cup UNION {{Book[c][b].node : b \in BlocksOf(c)} : c \in Chapters}
Offsets == 0..Max({Top(Book[c], 1, Len(Book[c]) + 1) : c \in Chapters})
Positions == [chapter : Chapters, node : Nodes]
Modes == {"scroll", "paginated"}

ASSUME BookAssumption ==
    /\ Book \in Seq(Seq(Block))
    /\ Spine \in 1..Len(Book)
    /\ Len(Book) <= Spine + 1
    /\ \A c \in Chapters : Book[c] # << >> /\ Hits[c] \in Seq(BlocksOf(c))
    /\ Layouts \subseteq Layout

\* The blocks of an element follow each other: its anchor and itself.
ASSUME ElementAssumption ==
    \A c \in Chapters : \A i, k \in BlocksOf(c) :
        Book[c][i].node = Book[c][k].node /\ Book[c][i].node # 0 =>
            \A j \in i..k : Book[c][j].node = Book[c][i].node

ASSUME BoundAssumption ==
    /\ MaxOpens \in Nat /\ MaxActs \in Nat
    /\ None \notin Nat /\ None \notin Layouts /\ None \notin Positions

VARIABLES viewer,    \* the viewer, or None
          awaited,   \* the messages that are still to come: "epub", "progress"
          stored,    \* the position in the database
          mode,      \* the reading mode in the preferences
          opens, acts,
          origin,    \* history: the position this viewer was opened at
          touched,   \* history: the user did something in this viewer
          target,    \* history: the block somebody asked to see
          crashed    \* history: the viewer as it was when it panicked

history == <<origin, touched, target>>
bounds == <<opens, acts>>
vars == <<viewer, awaited, stored, mode, bounds, history, crashed>>

Fresh ==
    [mode |-> mode, loaded |-> 0, active |-> 1, initial |-> None, path |-> 0,
     pending |-> 0, page |-> 0, y |-> 0, layout |-> None,
     cache |-> [c \in Chapters |-> None], search |-> None]

Init ==
    /\ viewer = None
    /\ awaited = {}
    /\ stored \in Positions \cup {None}
    /\ mode \in Modes
    /\ opens = 0 /\ acts = 0
    /\ origin = None
    /\ touched = FALSE
    /\ target = None
    /\ crashed = None

(***************************************************************************)
(* The pages of the active chapter.                                        *)
(***************************************************************************)
PageTable == [c \in Chapters |-> [l \in Layouts |-> Paginate(Book[c], l)]]

Cached(v, c) == v.cache[c] # None
Pages(v) == PageTable[v.active][v.cache[v.active]]
Blocks(v) == Book[v.active]

\* A deferred block is looked up in the pages.
LookedUp(v) ==
    IF v.pending = 0 THEN v
    ELSE [v EXCEPT !.pending = 0, !.page = PageWith(Pages(v), v.pending)]

\* maybe_repaginate: the pages are computed anew when there are none or they
\* are for another size; the page index is kept as far as it exists.
Repaginated(v) ==
    LET c == v.active
        last == Len(PageTable[c][v.layout]) - 1
    IN  IF v.mode = "scroll" \/ v.layout = None \/ c > v.loaded THEN v
        ELSE LookedUp([v EXCEPT !.cache[c] = v.layout,
                                !.page = IF v.cache[c] = v.layout THEN @ ELSE Min({@, last})])

TotalPages(v) == IF Cached(v, v.active) THEN Len(Pages(v)) ELSE 0
PageStep(v) == IF v.layout = None THEN 1 ELSE v.layout.step

\* Where the last pages begin that are shown together.
LastSpread(v) == ((Max({1, TotalPages(v)}) - 1) \div PageStep(v)) * PageStep(v)

\* scroll_y_to_page, with the heights at the width of the page.
ScrollToPage(v) ==
    LET s == Blocks(v)
        w == v.cache[v.active].wrap
    IN  IF Top(s, w, Len(s)) + Height(s[Len(s)], w) > v.y
        THEN PageWith(Pages(v), BlockAt(s, w, v.y)) ELSE 0

\* page_to_scroll_y, with the heights at the width of the page.
PageToScroll(v) ==
    IF Cached(v, v.active) /\ v.page < Len(Pages(v))
    THEN Top(Blocks(v), v.cache[v.active].wrap, Pages(v)[v.page + 1].start)
    ELSE 0

\* Mutant: the block the page ends with.
FirstBlockLate(v) ==
    IF v.mode = "scroll" THEN BlockAt(Blocks(v), 1, v.y)
    ELSE IF Cached(v, v.active) /\ v.page < Len(Pages(v))
         THEN Min({Pages(v)[v.page + 1].end, Len(Blocks(v))}) ELSE 1

\* current_progress and serialize_progress: the first block of the page, or
\* of what is scrolled to.
FirstBlock(v) ==
    IF v.mode = "scroll" THEN BlockAt(Blocks(v), 1, v.y)
    ELSE IF Cached(v, v.active) /\ v.page < Len(Pages(v))
         THEN Pages(v)[v.page + 1].start ELSE 1

CurrentProgress(v) ==
    IF v.loaded = 0 THEN None
    ELSE [chapter |-> v.active, node |-> Blocks(v)[FirstBlock(v)].node]

(***************************************************************************)
(* What is on the screen (view_content_paginated): the pages there are,    *)
(* or, before the first update after the first drawing, pages computed for *)
(* the occasion, and already the page of a deferred block.                 *)
(***************************************************************************)
Drawn(v) == v.mode = "paginated" /\ v.layout # None /\ v.loaded > 0
ShownLayout(v) == IF Cached(v, v.active) THEN v.cache[v.active] ELSE v.layout
ShownTable(v) == PageTable[v.active][ShownLayout(v)]
FirstShown(v) ==
    1 + (IF v.pending # 0 THEN PageWith(ShownTable(v), v.pending)
         ELSE Min({v.page, Len(ShownTable(v)) - 1}))
LastShown(v) == Min({FirstShown(v) + v.layout.step - 1, Len(ShownTable(v))})
ShownPages(v) == {ShownTable(v)[k] : k \in FirstShown(v)..LastShown(v)}
Shows(v, b) == \E p \in ShownPages(v) : Holds(p, b)

(***************************************************************************)
(* Handlers.                                                               *)
(***************************************************************************)
AtStart(v, c) == [v EXCEPT !.active = c, !.page = 0, !.y = 0]

\* Mutant: a path that came before the chapters is not resolved.
EpubLoadedUnresolved(v) ==
    LET c == IF v.initial = None THEN 1 ELSE Min({v.initial, Spine})
    IN  [v EXCEPT !.loaded = Spine, !.active = c]

\* EpubLoaded: the chapter and the block of a position that came before.
EpubLoadedIn(v) ==
    LET c == IF v.initial = None THEN 1 ELSE Min({v.initial, Spine})
        w == [v EXCEPT !.loaded = Spine, !.active = c,
                       !.pending = IF @ = 0 /\ v.path # 0 THEN Resolve(Book[c], v.path) ELSE @,
                       !.path = IF v.pending = 0 THEN 0 ELSE @]
    IN  IF w.mode = "scroll" /\ w.pending # 0
        THEN [w EXCEPT !.y = Top(Book[c], 1, w.pending), !.pending = 0] ELSE w

\* ReadingProgressLoaded: at once when the chapter is there.
ProgressLoadedIn(v, pos) ==
    LET w == [v EXCEPT !.initial = IF pos = None THEN None ELSE pos.chapter]
    IN  IF pos # None /\ pos.chapter <= v.loaded
        THEN LET b == Resolve(Book[pos.chapter], pos.node)
             IN  [w EXCEPT !.active = pos.chapter, !.pending = b,
                           !.y = IF v.mode = "scroll" THEN Top(Book[pos.chapter], 1, b) ELSE @]
        ELSE [w EXCEPT !.path = IF pos = None THEN 0 ELSE pos.node]

\* SelectChapter
ChapterSelected(v, c) == [AtStart(v, c) EXCEPT !.search = None]

\* Mutant: without pages the fragment is not remembered.
NavEntryForgotten(v, c, b) ==
    LET w == ChapterSelected(v, c)
    IN  IF v.mode = "scroll" THEN [w EXCEPT !.y = Top(Book[c], 1, b)]
        ELSE IF Cached(w, c) THEN [w EXCEPT !.page = PageWith(Pages(w), b)]
        ELSE w

\* SelectNavEntry with a fragment: block b of chapter c.
NavEntrySelected(v, c, b) ==
    LET w == ChapterSelected(v, c)
    IN  IF v.mode = "scroll" THEN [w EXCEPT !.y = Top(Book[c], 1, b)]
        ELSE IF Cached(w, c) THEN [w EXCEPT !.page = PageWith(Pages(w), b)]
        ELSE [w EXCEPT !.pending = b]

\* FollowLink: to block b of this chapter.  In scroll mode the widget is told
\* to scroll and the offset is left to its answer (Scrolled).
FragmentFollowed(v, b) ==
    IF v.mode = "paginated" /\ Cached(v, v.active)
    THEN [v EXCEPT !.page = PageWith(Pages(v), b)] ELSE v

\* FollowLink: to another chapter, which is loaded when it is not in the
\* reading order.
LinkFollowed(v, c) == [AtStart(v, c) EXCEPT !.loaded = Max({@, c})]

\* The arrow keys in scroll mode; d is the chapter before or after.
ArrowPressed(v, d) == [v EXCEPT !.active = d, !.y = 0]

\* SetViewMode: to pages by what is scrolled to, and back.
ViewModeSet(v, m) ==
    LET w == [v EXCEPT !.mode = m]
        r == Repaginated(w)
    IN  IF m = "scroll" THEN [w EXCEPT !.y = PageToScroll(w)]
        ELSE IF Cached(r, r.active) THEN [r EXCEPT !.page = ScrollToPage(r)]
        ELSE IF r.y > 0 /\ r.loaded > 0
        THEN [r EXCEPT !.pending = BlockAt(Blocks(r), 1, r.y)]
        ELSE r

\* NextPage
NextPageOf(v) ==
    LET r == Repaginated(v)
    IN  IF r.page + PageStep(r) < TotalPages(r)
        THEN [r EXCEPT !.page = @ + PageStep(r)]
        ELSE IF r.active + 1 <= r.loaded
        THEN Repaginated([r EXCEPT !.active = @ + 1, !.page = 0])
        ELSE r

\* Mutant: the pages of the chapter before are not computed first.
PreviousPageUncounted(v) ==
    LET r == Repaginated(v)
        q == [r EXCEPT !.active = @ - 1]
    IN  IF r.page >= PageStep(r) THEN [r EXCEPT !.page = @ - PageStep(r)]
        ELSE IF r.page > 0 THEN [r EXCEPT !.page = 0]
        ELSE IF r.active > 1
        THEN [q EXCEPT !.page = LastSpread(q)]
        ELSE r

\* PreviousPage: to the last spread of the chapter before.
PreviousPageOf(v) ==
    LET r == Repaginated(v)
        q == Repaginated([r EXCEPT !.active = @ - 1])
    IN  IF r.page >= PageStep(r) THEN [r EXCEPT !.page = @ - PageStep(r)]
        ELSE IF r.page > 0 THEN [r EXCEPT !.page = 0]
        ELSE IF r.active > 1
        THEN [q EXCEPT !.page = LastSpread(q)]
        ELSE r

\* SetDualPage, SetPageMargin, SetFontFamily, SetBaseFontSize
LayoutSet(v, l) ==
    Repaginated([v EXCEPT !.layout = l, !.cache = [c \in Chapters |-> None]])

\* navigate_to_search_match: in scroll mode the blocks before the match are
\* sliced off the active chapter, which panics when it has fewer.
MatchFails(v, m) == v.mode = "scroll" /\ m - 1 > Len(Blocks(v))

MatchVisited(v) ==
    LET m == Hits[v.search.chapter][v.search.at]
    IN  IF v.mode = "scroll"
        THEN [v EXCEPT !.y = Top(Blocks(v), 1, m)]
        ELSE IF ~Cached(v, v.active) THEN [v EXCEPT !.pending = m]
        ELSE IF \E k \in 1..Len(Pages(v)) : Holds(Pages(v)[k], m)
        THEN [v EXCEPT !.page = PageWith(Pages(v), m)] ELSE v

\* SetSearchQuery with a query that is found in the chapter, or not.
Searched(v, found) ==
    IF found THEN MatchVisited([v EXCEPT !.search = [chapter |-> v.active, at |-> 1]])
    ELSE [v EXCEPT !.search = None]

\* SearchNext (d = 1) and SearchPrevious (d = -1).
SearchMoved(v, d) ==
    LET n == Len(Hits[v.search.chapter])
    IN  [v EXCEPT !.search.at = ((@ - 1 + d + n) % n) + 1]

(***************************************************************************)
(* Steps.                                                                  *)
(***************************************************************************)
Open ==
    /\ viewer = None /\ crashed = None
    /\ opens < MaxOpens
    /\ opens' = opens + 1
    /\ viewer' = Fresh
    /\ awaited' = {"epub", "progress"}
    /\ origin' = None /\ touched' = FALSE /\ target' = None
    /\ UNCHANGED <<stored, mode, acts, crashed>>

\* Somebody asked to see block b of chapter c; sure: no page of another size
\* and no other deferred block is in the way.
Aim(c, b, sure) == target' = [chapter |-> c, block |-> b, sure |-> sure]

\* Update with a message that is not the user's.
Arrived(w, m) ==
    /\ m \in awaited
    /\ awaited' = awaited \ {m}
    /\ viewer' = w
    /\ UNCHANGED <<stored, mode, bounds, touched, crashed>>

\* The position is shown when both have come.
AimAtOrigin(w) ==
    IF w.loaded > 0 /\ origin' # None /\ origin'.chapter <= Spine
    THEN Aim(origin'.chapter, Resolve(Book[origin'.chapter], origin'.node), w.mode = "paginated")
    ELSE target' = None

EpubLoaded ==
    /\ viewer # None
    /\ LET w == EpubLoadedIn(Repaginated(viewer))
       IN  /\ Arrived(w, "epub")
           /\ UNCHANGED origin
           /\ IF "progress" \in awaited THEN target' = None ELSE AimAtOrigin(w)

LoadFailed ==
    /\ viewer # None
    /\ Arrived(Repaginated(viewer), "epub")
    /\ UNCHANGED <<origin, target>>

ReadingProgressLoaded ==
    /\ viewer # None
    /\ LET w == ProgressLoadedIn(Repaginated(viewer), stored)
       IN  /\ Arrived(w, "progress")
           /\ origin' = stored
           /\ IF stored = None THEN UNCHANGED target ELSE AimAtOrigin(w)

\* view() in a window of a certain size.  A smaller or larger one than before
\* shows the pages there are until the next update.
Draw(l) ==
    /\ viewer # None
    /\ viewer.mode = "paginated" /\ viewer.loaded > 0
    /\ viewer.layout # l
    /\ viewer' = [viewer EXCEPT !.layout = l]
    /\ IF viewer.layout = None THEN UNCHANGED <<acts, touched, target>>
       ELSE /\ acts < MaxActs
            /\ acts' = acts + 1
            /\ touched' = TRUE
            /\ target' = None
    /\ UNCHANGED <<awaited, stored, mode, opens, origin, crashed>>

\* A message that changes none of this (fonts found, a highlight that ends, a
\* key without a meaning): its update repaginates.
Noop ==
    /\ viewer # None
    /\ viewer' = Repaginated(viewer)
    /\ UNCHANGED <<awaited, stored, mode, bounds, history, crashed>>

\* Update with a message of the user.
Acting ==
    /\ viewer # None
    /\ acts < MaxActs
    /\ acts' = acts + 1
    /\ touched' = TRUE
    /\ UNCHANGED <<awaited, stored, opens, origin>>

Become(w) == viewer' = w /\ UNCHANGED <<mode, crashed>>

SelectChapter(c) ==
    /\ Acting
    /\ c <= viewer.loaded
    /\ LET r == Repaginated(viewer)
       IN  Become(ChapterSelected(r, c)) /\ Aim(c, 1, r.pending = 0)

\* The anchors of a chapter.
Anchors(c) == {b \in BlocksOf(c) : Book[c][b].lines = 0}

SelectNavEntry(c, b) ==
    /\ Acting
    /\ c <= viewer.loaded
    /\ LET r == Repaginated(viewer)
       IN  /\ Become(NavEntrySelected(r, c, b))
           /\ Aim(c, b, viewer.mode = "paginated" /\ r.cache[c] \in {None, r.layout})

\* Links are clicked where something is drawn.
FollowFragment(b) ==
    /\ Acting
    /\ viewer.loaded > 0
    /\ viewer.mode = "paginated" => viewer.layout # None
    /\ b \in Anchors(viewer.active)
    /\ Become(FragmentFollowed(Repaginated(viewer), b))
    /\ Aim(viewer.active, b, viewer.mode = "paginated")

FollowLink(c) ==
    /\ Acting
    /\ viewer.loaded > 0
    /\ LET r == Repaginated(viewer)
       IN  Become(LinkFollowed(r, c)) /\ Aim(c, 1, r.pending = 0)

PressArrow(d) ==
    /\ Acting
    /\ viewer.mode = "scroll"
    /\ viewer.active + d \in 1..viewer.loaded
    /\ Become(ArrowPressed(viewer, viewer.active + d))
    /\ target' = None

Scrolled(y) ==
    /\ Acting
    /\ viewer.mode = "scroll" /\ viewer.loaded > 0
    /\ Become([viewer EXCEPT !.y = y])
    /\ target' = None

NextPage ==
    /\ Acting
    /\ viewer.mode = "paginated"
    /\ Become(NextPageOf(viewer))
    /\ target' = None

PreviousPage ==
    /\ Acting
    /\ viewer.mode = "paginated"
    /\ Become(PreviousPageOf(viewer))
    /\ target' = None

SetViewMode(m) ==
    /\ Acting
    /\ viewer.mode # m
    /\ viewer' = ViewModeSet(Repaginated(viewer), m)
    /\ mode' = m
    /\ target' = None
    /\ UNCHANGED crashed

SetLayout(l) ==
    /\ Acting
    /\ viewer.layout \notin {None, l}
    /\ Become(LayoutSet(Repaginated(viewer), l))
    /\ target' = None

SetSearchQuery(found) ==
    /\ Acting
    /\ viewer.loaded > 0
    /\ found => Hits[viewer.active] # << >>
    /\ LET w == Searched(Repaginated(viewer), found)
       IN  /\ Become(w)
           /\ IF found THEN Aim(w.active, Hits[w.active][1], w.mode = "paginated")
              ELSE UNCHANGED target

SearchMove(d) ==
    /\ Acting
    /\ viewer.search # None
    /\ LET r == SearchMoved(Repaginated(viewer), d)
           m == Hits[r.search.chapter][r.search.at]
       IN  \/ /\ ~MatchFails(r, m)
              /\ Become(MatchVisited(r))
              /\ IF r.search.chapter = r.active
                 THEN Aim(r.active, m, r.mode = "paginated") ELSE target' = None
           \/ /\ MatchFails(r, m)
              /\ viewer' = None /\ crashed' = viewer
              /\ target' = None
              /\ UNCHANGED mode

CloseSearch ==
    /\ Acting
    /\ viewer.search # None
    /\ Become([Repaginated(viewer) EXCEPT !.search = None])
    /\ UNCHANGED target

\* The position is stored and the viewer is gone.
CloseAt(v) ==
    /\ stored' = IF CurrentProgress(v) = None THEN stored ELSE CurrentProgress(v)
    /\ viewer' = None
    /\ awaited' = {}
    /\ UNCHANGED <<mode, bounds, history, crashed>>

\* RequestClose is a message to update().
RequestClose == viewer # None /\ CloseAt(Repaginated(viewer))

\* The button in the header, the closing of the page from outside and the
\* end of the application take the position as it is.
CloseAsIs == viewer # None /\ CloseAt(viewer)

Navigate ==
    \/ \E c \in Chapters :
          \/ SelectChapter(c) \/ FollowLink(c)
          \/ \E b \in Anchors(c) : SelectNavEntry(c, b)
    \/ \E c \in Chapters : \E b \in Anchors(c) : FollowFragment(b)
    \/ \E d \in {-1, 1} : PressArrow(d)
    \/ \E y \in Offsets : Scrolled(y)
    \/ NextPage \/ PreviousPage

Search ==
    \/ \E found \in BOOLEAN : SetSearchQuery(found)
    \/ \E d \in {-1, 1} : SearchMove(d)
    \/ CloseSearch

Next ==
    \/ Open \/ EpubLoaded \/ LoadFailed \/ ReadingProgressLoaded \/ Noop
    \/ \E l \in Layouts : Draw(l) \/ SetLayout(l)
    \/ \E m \in Modes : SetViewMode(m)
    \/ Navigate \/ Search \/ RequestClose \/ CloseAsIs

Spec == Init /\ [][Next]_vars

(***************************************************************************)
(* Properties.                                                             *)
(***************************************************************************)

TypeOK ==
    /\ viewer # None =>
          /\ viewer.mode \in Modes
          /\ viewer.loaded \in 0..Len(Book)      \* chapters.len()
          /\ viewer.active \in Chapters
          /\ viewer.loaded > 0 => viewer.active <= viewer.loaded
          /\ viewer.initial \in Chapters \cup {None}
          /\ viewer.path \in Nodes               \* pending_node_path
          /\ viewer.pending \in Nat              \* pending_block_index
          /\ viewer.page \in Nat
          /\ viewer.y \in Nat
          /\ viewer.layout \in Layouts \cup {None}
          /\ viewer.cache \in [Chapters -> Layouts \cup {None}]
          /\ viewer.search # None => /\ viewer.search.chapter \in Chapters
                                     /\ viewer.search.at \in 1..Len(Hits[viewer.search.chapter])
          \* A page index is one of the active chapter's pages, unless a
          \* deferred block is about to replace it.
          /\ viewer.mode = "paginated" /\ Cached(viewer, viewer.active) /\ viewer.pending = 0
                => viewer.page < Len(Pages(viewer))
    /\ awaited \subseteq {"epub", "progress"}
    /\ stored \in Positions \cup {None}
    /\ mode \in Modes
    /\ opens \in 0..MaxOpens /\ acts \in 0..MaxActs
    /\ origin \in Positions \cup {None}
    /\ touched \in BOOLEAN

\* The pages a chapter is shown by are the chapter: no line is lost between
\* two pages, none is on two of them, and only a block that cannot be split
\* is longer than its page.
PagesReadAsWhole ==
    viewer # None =>
        \A c \in Chapters : Cached(viewer, c) =>
            ReadsAsWhole(Book[c], viewer.cache[c], PageTable[c][viewer.cache[c]])

\* What somebody asked to see (a bookmark, an anchor, a link, a match of the
\* search) stays on the screen through everything that is not a step of the
\* reader: the first drawing, late messages, repeated pagination.
TargetShown ==
    viewer # None /\ target # None /\ target.sure /\ Drawn(viewer) =>
        viewer.active = target.chapter /\ Shows(viewer, target.block)

\* Whichever of the chapters and the stored position comes first, the viewer
\* ends up at that position.  (A position in a chapter outside the reading
\* order is left out: that chapter is not there.)
Restored ==
    /\ viewer # None /\ ~touched /\ awaited = {} /\ viewer.loaded > 0
    /\ origin # None /\ origin.chapter <= Spine
    =>
            LET b == Resolve(Book[origin.chapter], origin.node)
            IN  /\ viewer.active = origin.chapter
                /\ Drawn(viewer) => Shows(viewer, b)
                /\ viewer.mode = "scroll" => viewer.y = Top(Book[origin.chapter], 1, b)

\* The viewer has a page to take the position from.
Settled(v) ==
    \/ v.mode = "scroll"
    \/ Cached(v, v.active) /\ v.pending = 0

\* To open a document and to close it again, having read nothing, keeps its
\* place: from the old one to the new one there is nothing to read but the
\* element that is stored, and nobody is taken back further than to the top of
\* the page.  (Not when it is closed from outside before the first update with
\* a drawn page, and not for a page that begins with a block without a path.)
ClosedInPlace ==
    /\ \/ RequestClose /\ Settled(Repaginated(viewer))
       \/ CloseAsIs /\ Settled(viewer)
    /\ ~touched /\ awaited = {} /\ viewer.loaded > 0
    /\ origin # None /\ origin.chapter <= Spine
    => /\ stored'.chapter = origin.chapter
       /\ stored'.node # 0 =>
             LET blocks == Blocks(viewer)
                 b == Resolve(blocks, origin.node)
                 s == Resolve(blocks, stored'.node)
             IN  /\ \A i \in b..s : blocks[i].lines > 0 => blocks[i].node = stored'.node
                 /\ s < b => /\ viewer.mode = "paginated"
                             /\ \E p \in ShownPages(viewer) : Holds(p, s) /\ Holds(p, b)

ClosingKeepsPlace == [][ClosedInPlace]_vars

Begin(v) == LET p == ShownTable(v)[FirstShown(v)] IN <<p.start, p.from>>
End(v) == After(ShownTable(v)[LastShown(v)])
ChapterEnd(v) == <<Len(Blocks(v)) + 1, 0>>

\* Turning a page forwards goes on exactly where the pages before ended, and
\* backwards it shows what was right before, also across chapters of which
\* one has not been paginated yet, one page or two at a time.  (Not after the
\* window was resized: the page is kept by its number.)
TurnedInOrder ==
    /\ viewer # None /\ viewer' # None /\ Drawn(viewer)
    /\ viewer.pending = 0 /\ viewer.cache[viewer.active] = viewer.layout
    => /\ NextPage =>
             \/ viewer'.active = viewer.active /\ Begin(viewer') = End(viewer)
             \/ /\ End(viewer) = ChapterEnd(viewer)
                /\ \/ viewer'.active = viewer.active + 1 /\ Begin(viewer') = <<1, 0>>
                   \/ viewer.active = viewer.loaded /\ viewer' = viewer
       /\ PreviousPage =>
             \/ /\ viewer'.active = viewer.active
                /\ viewer'.page < viewer.page
                /\ \E p \in ShownPages(viewer') : After(p) = Begin(viewer)
             \/ /\ Begin(viewer) = <<1, 0>>
                /\ \/ viewer'.active = viewer.active - 1 /\ End(viewer') = ChapterEnd(viewer')
                   \/ viewer.active = 1 /\ viewer' = viewer

TurningSkipsNothing == [][TurnedInOrder]_vars
=============================================================================
