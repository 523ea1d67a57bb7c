------------------------------- MODULE Viewers -------------------------------
(***************************************************************************)
(* A document the desktop opens in one of its two viewers (page/mod.rs,    *)
(* open_epub_viewer and open_mupdf_viewer).  They have nothing in common   *)
(* but what a reader expects of both; each keeps a place of its own in the *)
(* position that is stored, which is what ReadingProgress is about.  A     *)
(* behaviour has openings in one of them.                                  *)
(***************************************************************************)
EXTENDS EpubViewer

CONSTANTS Sizes, PageCount, Reflowable, MaxPdfOpens, MaxPdfActs

VARIABLES chosen,  \* the viewer the document is opened in
          pdf, place, size, reads, streams, renders, mixed, resized, hasty

Pdf == INSTANCE MuPdfViewer WITH MaxOpens <- MaxPdfOpens, MaxActs <- MaxPdfActs

ASSUME PdfAssumption == Pdf!DocumentAssumption

epubState == <<viewer, awaited, stored, mode, target, crashed>>
pdfState == <<pdf, place, size, reads, streams, renders, mixed, resized, hasty>>

ViewersInit ==
    /\ Init
    /\ Pdf!Init
    /\ \/ chosen = "epub" /\ place = None /\ size = CHOOSE s \in Sizes : TRUE
       \/ chosen = "mupdf" /\ stored = None /\ mode = "paginated"

ViewersNext ==
    /\ UNCHANGED chosen
    /\ \/ chosen = "epub" /\ Next /\ UNCHANGED pdfState
       \/ chosen = "mupdf" /\ Pdf!Next /\ UNCHANGED epubState

ViewersSpec == ViewersInit /\ [][ViewersNext]_<<vars, pdfState, chosen>>

\* What the reader should see is on the screen: a block that was asked for, and
\* a picture in the right colours on every page.
OnScreen == TargetShown /\ Pdf!PicturesShown

\* Whatever the loading tasks bring first, the reader is where they left.
PlaceRestored == Restored /\ Pdf!Restored

\* To open a document and to close it again, having read nothing, keeps its place.
ClosingKeepsPlaces == ClosingKeepsPlace /\ Pdf!ClosingKeepsPlace

\* Turning skips nothing, in chapters of pages and in spreads of MuPDF pages.
TurningInOrder == TurningSkipsNothing /\ Pdf!TurningSkipsNothing
=============================================================================
