--------------------------- MODULE MCDocumentDetails ---------------------------
(* A document with two formats and one tag, two titles to choose from and    *)
(* thumbnails of two pages.                                                  *)
EXTENDS DocumentDetails, TLC

CONSTANTS f, g, a, b

TwoFormats == {f, g}
TwoTitles == {a, b}
Alike == Permutations(TwoFormats) \cup Permutations(TwoTitles)

\* The properties are about behaviours that are apart or calm, and what is not
\* any more is never again.  Of those that are only calm, with things going on
\* beside each other, changes that overlap while the page is open.
Told == apart \/ (calm /\ changes = steps /\ page # None)

\* What comes first, in any order of its own: the loads of the list, once
\* something else than changes was done, and, once the behaviour is only calm,
\* what is about pictures, as no property then speaks of them, and the two
\* messages that only start reading or loading.
Loads == {"expired", "load", "fetch", "loaded", "row", "row-of-format"}
Pictures == {"covers", "covers-loaded", "count", "counted", "render", "preview", "failed"}
Starting == {"expired", "refresh"}
First == (IF changes < steps THEN Loads ELSE {}) \cup (IF apart THEN {} ELSE Pictures \cup Starting)
Prompt == Pending(First) => \E t \in tasks : t.do \in First /\ t \notin tasks'
=============================================================================
