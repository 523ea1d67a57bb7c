----------------------------- MODULE MuPdfViewer -----------------------------
(***************************************************************************)
(* The MuPDF viewer (cosmic/src/page/mu_pdf_viewer.rs): one document,      *)
(* opened at the page it was left at, turned page by page or spread by     *)
(* spread, closed, its page stored.                                        *)
(*                                                                         *)
(*     thread:  Page 0 .. Page n-1, Done, DisplayList 0 .. DisplayList n-1 *)
(*     update:  DisplayListReady --> render --> SvgReady or RasterReady    *)
(*                                                                         *)
(* A thread reads the document and sends its parts in order; pictures are  *)
(* rendered on demand and come in any order.  Nothing stops a thread or a  *)
(* rendering when the viewer closes: their messages find no viewer, or the *)
(* next one of the same document.  Thumbnails and the zoom are left out:   *)
(* they do not move the reader.                                            *)
(***************************************************************************)
EXTENDS Naturals, Sequences, FiniteSetsExt

CONSTANTS Sizes,       \* font sizes
          PageCount,   \* pages of the document, for each of them
          Reflowable,  \* whether they matter
          None,
          MaxOpens, MaxActs

\* Assumed where the document is given (Viewers).
DocumentAssumption ==
    /\ PageCount \in [Sizes -> Nat \ {0}]
    /\ Reflowable \in BOOLEAN
    /\ ~Reflowable => \A a, b \in Sizes : PageCount[a] = PageCount[b]

Places == 0..(Max({PageCount[s] : s \in Sizes}) - 1)

VARIABLES pdf,      \* the viewer, or None
          place,    \* the page in the database
          size,     \* epub_font_size in the preferences
          reads,    \* readings of the place under way, each for an opening
          streams,  \* what the threads have still to say
          renders,  \* pictures being rendered
          opens, acts,
          origin,   \* history: the page this viewer was opened at
          touched,  \* history: the user did something in this viewer
          mixed,    \* history: it was opened while messages for another were under way
          resized,  \* history: the window changed after pictures were last asked for
          hasty     \* history: the colours were changed while pictures were rendered

history == <<origin, touched, mixed, resized, hasty>>
bounds == <<opens, acts>>
vars == <<pdf, place, size, reads, streams, renders, bounds, history>>

DualPageMode == {"Auto", "Off", "On"}

Fresh ==
    [pages |-> << >>, active |-> 0, initial |-> None, theme |-> FALSE, dual |-> "Auto",
     wide |-> FALSE, drawn |-> FALSE, reflowable |-> FALSE, size |-> size, gen |-> 0,
     failed |-> FALSE]

Init ==
    /\ pdf = None
    /\ place \in Places \cup {None}
    /\ size \in Sizes
    /\ reads = {} /\ streams = {} /\ renders = {}
    /\ opens = 0 /\ acts = 0
    /\ origin = None
    /\ touched = FALSE /\ mixed = FALSE /\ resized = FALSE /\ hasty = FALSE

(***************************************************************************)
(* What is on the screen.  Positions count from 0, as in the code.         *)
(***************************************************************************)
Length(v) == Len(v.pages)
At(v, i) == v.pages[i + 1]

\* should_dual_page; nothing has been drawn in a width of 0.
ShouldDualPage(v) == v.dual = "On" \/ (v.dual = "Auto" /\ v.wide)
StepOf(v) == IF ShouldDualPage(v) THEN 2 ELSE 1

\* visible_page_indices
Spread(v) == (v.active \div 2) * 2
VisiblePageIndices(v) ==
    {i \in (IF ShouldDualPage(v) THEN {Spread(v), Spread(v) + 1} ELSE {v.active}) : i < Length(v)}

\* view_pdf_page prefers the raster.
Picture(page) ==
    IF "raster" \in page.pictures THEN "raster"
    ELSE IF "svg" \in page.pictures THEN "svg" ELSE None

\* current_progress
CurrentProgress(v) == IF v.pages = << >> THEN None ELSE v.active

(***************************************************************************)
(* Requests for pictures.                                                  *)
(***************************************************************************)
\* update_active_page: what is visible, and in the colours of the theme, which
\* take longer, the next two pages.
Prefetched(v) ==
    IF v.theme THEN {i \in {v.active + 1, v.active + 2} : i < Length(v)} ELSE {}

Missing(v) ==
    {i \in VisiblePageIndices(v) \cup Prefetched(v) : At(v, i).list /\ At(v, i).pictures = {}}

UpdateActivePage(v) ==
    /\ renders' = renders \cup {[gen |-> v.gen, index |-> At(v, i).index,
                                 kind |-> IF v.theme THEN "raster" ELSE "svg"] : i \in Missing(v)}
    /\ resized' = FALSE

NoRequest == UNCHANGED <<renders, resized>>

\* page_index_by_pdf_index: the first one.
Positions(v, index) == {i \in 0..(Length(v) - 1) : At(v, i).index = index}

(***************************************************************************)
(* Opening and closing (page/mod.rs).                                      *)
(***************************************************************************)
\* start_discovery
Stream(v, n) == [opening |-> n, gen |-> v.gen, count |-> PageCount[v.size], at |-> 0]

Open ==
    /\ pdf = None
    /\ opens < MaxOpens
    /\ opens' = opens + 1
    /\ pdf' = Fresh
    /\ streams' = streams \cup {Stream(Fresh, opens')}
    /\ reads' = reads \cup {opens'}
    /\ mixed' = (reads # {} \/ streams # {} \/ renders # {})
    /\ origin' = None /\ touched' = FALSE /\ resized' = FALSE /\ hasty' = FALSE
    /\ UNCHANGED <<place, size, renders, acts>>

\* The button in the header, the closing of the page and of the application.
Close ==
    /\ pdf # None
    /\ pdf' = None
    /\ place' = IF CurrentProgress(pdf) = None THEN place ELSE CurrentProgress(pdf)
    /\ UNCHANGED <<size, reads, streams, renders, bounds, history>>

(***************************************************************************)
(* Messages of the tasks.                                                  *)
(***************************************************************************)
Lost == UNCHANGED <<pdf, renders, resized>>

\* Mutant: a page that comes after the document is not gone to.
ProgressOnlyNoted(page) ==
    /\ pdf' = [pdf EXCEPT !.initial = page]
    /\ NoRequest

\* ReadingProgressLoaded: at once when the page is there.
ProgressLoaded(page) ==
    IF page # None /\ page < Length(pdf)
    THEN /\ pdf' = [pdf EXCEPT !.initial = page, !.active = page]
         /\ UpdateActivePage(pdf')
    ELSE /\ pdf' = [pdf EXCEPT !.initial = page]
         /\ NoRequest

ReadingProgressLoaded(n) ==
    /\ reads' = reads \ {n}
    /\ IF pdf = None THEN Lost /\ UNCHANGED origin
       ELSE /\ ProgressLoaded(place)
            /\ origin' = IF n = opens THEN place ELSE origin
    /\ UNCHANGED <<place, size, streams, bounds, touched, mixed, hasty>>

PageDiscovered(index) ==
    LET v == [pdf EXCEPT !.pages = Append(@, [index |-> index, list |-> FALSE, pictures |-> {}])]
    IN  /\ pdf' = [v EXCEPT !.active = IF v.initial = Length(v) - 1 THEN v.initial ELSE @]
        /\ NoRequest

\* PagesDiscoveryComplete: the last clamp.
DiscoveryComplete ==
    LET v == [pdf EXCEPT !.reflowable = Reflowable]
    IN  IF v.pages = << >> THEN pdf' = v /\ NoRequest
        ELSE /\ pdf' = [v EXCEPT !.active = IF v.initial = None THEN @
                                            ELSE Min({v.initial, Length(v) - 1})]
             /\ UpdateActivePage(pdf')

\* Mutant: only the page turned to is asked for.
DisplayListOfActive(index) ==
    IF Positions(pdf, index) = {} THEN Lost
    ELSE LET i == Min(Positions(pdf, index))
         IN  /\ pdf' = [pdf EXCEPT !.pages[i + 1].list = TRUE]
             /\ IF i = pdf.active THEN UpdateActivePage(pdf') ELSE NoRequest

DisplayListReady(index) ==
    IF Positions(pdf, index) = {} THEN Lost
    ELSE LET i == Min(Positions(pdf, index))
             near == pdf.theme /\ i <= pdf.active + 2 /\ pdf.active <= i + 2
         IN  /\ pdf' = [pdf EXCEPT !.pages[i + 1].list = TRUE]
             /\ IF near \/ i \in VisiblePageIndices(pdf) THEN UpdateActivePage(pdf')
                ELSE NoRequest

\* The next message of a thread, for a viewer with the layout it is about.
Discovered(s) ==
    IF s.at < s.count THEN PageDiscovered(s.at)
    ELSE IF s.at = s.count THEN DiscoveryComplete
    ELSE DisplayListReady(s.at - s.count - 1)

Receive(s) ==
    /\ streams' = (streams \ {s}) \cup (IF s.at = 2 * s.count THEN {} ELSE {[s EXCEPT !.at = @ + 1]})
    /\ IF pdf # None /\ pdf.gen = s.gen THEN Discovered(s) ELSE Lost
    /\ UNCHANGED <<place, size, reads, bounds, origin, touched, mixed, hasty>>

\* The document cannot be opened; the message does not say for which layout.
LoadFailed(s) ==
    /\ s.at = 0
    /\ streams' = streams \ {s}
    /\ pdf' = IF pdf = None THEN None ELSE [pdf EXCEPT !.failed = TRUE]
    /\ UNCHANGED <<place, size, reads, renders, bounds, history>>

\* SvgReady, RasterReady
PictureReady(r) ==
    /\ renders' = renders \ {r}
    /\ pdf' = IF pdf = None \/ pdf.gen # r.gen \/ Positions(pdf, r.index) = {} THEN pdf
              ELSE [pdf EXCEPT !.pages[Min(Positions(pdf, r.index)) + 1].pictures = @ \cup {r.kind}]
    /\ UNCHANGED <<place, size, reads, streams, bounds, history>>

\* view_content
Draw(w) ==
    /\ pdf # None
    /\ pdf.pages # << >> /\ ~pdf.failed
    /\ ~pdf.drawn \/ pdf.wide # w
    /\ pdf' = [pdf EXCEPT !.wide = w, !.drawn = TRUE]
    /\ resized' = (resized \/ (ShouldDualPage(pdf') # ShouldDualPage(pdf)
                               /\ \E i \in DOMAIN pdf.pages : pdf.pages[i].list))
    /\ IF pdf.drawn THEN acts < MaxActs /\ acts' = acts + 1 ELSE UNCHANGED acts
    /\ UNCHANGED <<place, size, reads, streams, renders, opens, origin, touched, mixed, hasty>>

(***************************************************************************)
(* Messages of the user.                                                   *)
(***************************************************************************)
Acting ==
    /\ pdf # None
    /\ acts < MaxActs
    /\ acts' = acts + 1
    /\ touched' = TRUE
    /\ UNCHANGED <<place, reads, opens, origin, mixed>>

GoTo(page) ==
    /\ pdf' = [pdf EXCEPT !.active = page]
    /\ UpdateActivePage(pdf')
    /\ UNCHANGED <<size, streams, hasty>>

SelectPage(i) ==
    /\ Acting
    /\ i < Length(pdf)
    /\ GoTo(i)

\* PreviousPage and the keys: saturating_sub.
PreviousPage ==
    /\ Acting
    /\ GoTo(IF pdf.active < StepOf(pdf) THEN 0 ELSE pdf.active - StepOf(pdf))

\* Mutant: one page at a time.
NextOfByOne(v) == IF v.active + 1 < Length(v) THEN v.active + 1 ELSE v.active

NextOf(v) == IF v.active + StepOf(v) < Length(v) THEN v.active + StepOf(v) ELSE v.active

NextPage ==
    /\ Acting
    /\ GoTo(NextOf(pdf))

\* ThemeColors: all pictures are dropped.
ThemeColors ==
    /\ Acting
    /\ pdf' = [pdf EXCEPT !.theme = ~@,
                          !.pages = [i \in DOMAIN @ |-> [@[i] EXCEPT !.pictures = {}]]]
    /\ UpdateActivePage(pdf')
    /\ hasty' = (renders # {})
    /\ UNCHANGED <<size, streams>>

DualPage(mode) ==
    /\ Acting
    /\ pdf.dual # mode
    /\ pdf' = [pdf EXCEPT !.dual = mode]
    /\ UpdateActivePage(pdf')
    /\ UNCHANGED <<size, streams, hasty>>

\* EpubFontSize, and repaginate.
EpubFontSize(s) ==
    /\ Acting
    /\ pdf.reflowable
    /\ pdf.size # s
    /\ size' = s
    /\ pdf' = [pdf EXCEPT !.size = s, !.gen = @ + 1, !.pages = << >>, !.active = 0]
    /\ streams' = streams \cup {Stream(pdf', opens)}
    /\ NoRequest
    /\ UNCHANGED hasty

User ==
    \/ \E i \in Places : SelectPage(i)
    \/ PreviousPage \/ NextPage
    \/ ThemeColors
    \/ \E m \in DualPageMode : DualPage(m)
    \/ \E s \in Sizes : EpubFontSize(s)

Next ==
    \/ Open \/ Close
    \/ \E n \in reads : ReadingProgressLoaded(n)
    \/ \E s \in streams : Receive(s) \/ LoadFailed(s)
    \/ \E r \in renders : PictureReady(r)
    \/ \E w \in BOOLEAN : Draw(w)
    \/ User

Spec == Init /\ [][Next]_vars

(***************************************************************************)
(* Properties.                                                             *)
(***************************************************************************)
Complete == pdf # None /\ ~pdf.failed /\ ~mixed /\ reads = {} /\ streams = {}

\* When nothing is under way any more, every page on the screen has a picture,
\* in the colours that were chosen, whatever the reader did while pages,
\* lists and pictures arrived (update_active_page).
PicturesShown ==
    Complete /\ renders = {} /\ ~resized /\ ~hasty =>
        \A i \in VisiblePageIndices(pdf) :
            Picture(At(pdf, i)) = IF pdf.theme THEN "raster" ELSE "svg"

\* Whichever of the pages and the stored place comes first, the viewer ends up
\* at that page, if the document still has it.
Restored ==
    Complete /\ ~touched =>
        IF origin = None THEN pdf.active = 0
        ELSE origin < Length(pdf) => pdf.active = origin

\* To open a document and close it again keeps its page, also when it is
\* closed before its first page has come.
ClosedInPlace ==
    Close /\ ~touched /\ (Complete \/ pdf.pages = << >>) /\ origin # None
    => place' = origin \/ (Complete /\ origin >= Length(pdf))

ClosingKeepsPlace == [][ClosedInPlace]_vars

Shown(v) == VisiblePageIndices(v)

\* Turning forwards shows what comes right after, and backwards what was right
\* before, one page or two at a time, and nothing more only at an end of the
\* document.  (Not from the right page of a spread with a single page after it:
\* two pages further there is none, and it stays.)
Stuck(v) == ShouldDualPage(v) /\ v.active # Spread(v) /\ v.active + 2 = Length(v)
TurnedInOrder ==
    pdf # None /\ pdf' # None /\ pdf.pages # << >> /\ ~Stuck(pdf)
    => /\ NextPage => \/ Min(Shown(pdf')) = Max(Shown(pdf)) + 1
                      \/ Shown(pdf') = Shown(pdf) /\ Max(Shown(pdf)) = Length(pdf) - 1
       /\ PreviousPage => \/ Max(Shown(pdf')) + 1 = Min(Shown(pdf))
                          \/ Shown(pdf') = Shown(pdf) /\ Min(Shown(pdf)) = 0

TurningSkipsNothing == [][TurnedInOrder]_vars
=============================================================================
