---------------------------- MODULE EpubPagination ----------------------------
(***************************************************************************)
(* How the EPUB viewer cuts a chapter into pages                           *)
(* (paginate_blocks, cosmic/src/page/epub_viewer/mod.rs).                  *)
(*                                                                         *)
(* A chapter is a sequence of blocks [lines, splits, node]: its height in  *)
(* lines, whether it is text that may go on on the next page, and the DOM  *)
(* node it comes from: that of an element for the anchor before it too, 0  *)
(* when the parser keeps no path (a ruler, an image, an anchor inside a    *)
(* paragraph).  A layout [height, wrap, step] is the height of a           *)
(* page in lines, how many lines a line of the scrolled text takes at the  *)
(* width of the page, and how many pages are side by side.  A page is a    *)
(* PageRange: the blocks start..end-1, the first one from the line `from`, *)
(* the last one up to the line `to` when that is not 0.                    *)
(***************************************************************************)
EXTENDS Integers, Sequences, FiniteSetsExt, SequencesExt

CONSTANT Gap   \* the space between two blocks, in lines

ASSUME GapAssumption == Gap \in Nat

Block == [lines : Nat, splits : BOOLEAN, node : Nat]
Layout == [height : Nat \ {0}, wrap : Nat \ {0}, step : {1, 2}]

\* estimated_block_height_for_width
Height(b, wrap) == b.lines * wrap

\* y_for_block_index: where block i of a chapter begins.
Top(blocks, wrap, i) ==
    LET top[j \in 1..(Len(blocks) + 1)] ==
            IF j = 1 THEN 0 ELSE top[j - 1] + Height(blocks[j - 1], wrap) + Gap
    IN  top[i]

\* What the blocks i..e-1 take on a page that begins at line `from` of i.
Taken(blocks, wrap, i, from, e) ==
    IF e = i THEN 0
    ELSE Top(blocks, wrap, e) - Top(blocks, wrap, i) - Gap - from

\* The first block that is not whole on the page that begins at i, from.
Overflowing(blocks, l, i, from) ==
    Max({e \in i..(Len(blocks) + 1) : Taken(blocks, l.wrap, i, from, e) <= l.height})

\* What is left for block e on the page that begins at i, from.
Room(blocks, l, i, from, e) ==
    l.height - Taken(blocks, l.wrap, i, from, e) - (IF e = i THEN 0 ELSE Gap)

\* Mutant: the block that does not fit is put on the page all the same.
PageOverfills(blocks, i, from, e, room) ==
    LET cut == e <= Len(blocks) /\ blocks[e].splits /\ room >= 1
    IN  [start |-> i, from |-> from,
         end |-> IF e <= Len(blocks) THEN e + 1 ELSE e,
         to  |-> IF cut THEN room + (IF e = i THEN from ELSE 0) ELSE 0]

\* All blocks before e, and as much of e as there is room for
\* (try_split_block); a block that neither fits alone nor can be split
\* overflows a page of its own.
PageUpTo(blocks, i, from, e, room) ==
    LET cut == e <= Len(blocks) /\ blocks[e].splits /\ room >= 1
    IN  [start |-> i, from |-> from,
         end |-> IF e <= Len(blocks) /\ (cut \/ e = i) THEN e + 1 ELSE e,
         to  |-> IF cut THEN room + (IF e = i THEN from ELSE 0) ELSE 0]

\* The page that begins at line `from` of block i.
Page(blocks, l, i, from) ==
    LET upTo(e) == PageUpTo(blocks, i, from, e, Room(blocks, l, i, from, e))
    IN  upTo(Overflowing(blocks, l, i, from))

\* Where the page after p begins.
After(p) == IF p.to > 0 THEN <<p.end - 1, p.to>> ELSE <<p.end, 0>>

\* paginate_blocks
Paginate(blocks, l) ==
    LET pages[at \in (1..(Len(blocks) + 1)) \X Nat] ==
            LET p == Page(blocks, l, at[1], at[2])
            IN  IF at[1] > Len(blocks) THEN << >> ELSE Cons(p, pages[After(p)])
    IN  IF blocks = << >>
        THEN <<[start |-> 1, from |-> 0, end |-> 1, to |-> 0]>>
        ELSE pages[<<1, 0>>]

Holds(p, b) == p.start <= b /\ b < p.end

\* The index, counted from 0, of the first page with block b, or 0.
PageWith(pages, b) ==
    LET n == SelectInSeq(pages, LAMBDA p : Holds(p, b)) IN IF n = 0 THEN 0 ELSE n - 1

\* block_index_for_path: the last block of the node, or the first block.
Resolve(blocks, node) ==
    LET found == {i \in 1..Len(blocks) : node # 0 /\ blocks[i].node = node}
    IN  IF found = {} THEN 1 ELSE Max(found)

\* approximate_block_at_scroll_y: the first block that ends below y.
BlockAt(blocks, wrap, y) ==
    LET below == {i \in 1..Len(blocks) :
                    Top(blocks, wrap, i) + Height(blocks[i], wrap) > y}
    IN  IF below # {} THEN Min(below) ELSE Max({1, Len(blocks)})

(***************************************************************************)
(* What pages are for: read one after the other they are the chapter.      *)
(***************************************************************************)

\* The lines of page p: pairs of a block and a line of it; a block without
\* lines (an anchor) counts as one.
Lines(b, wrap) == Max({1, Height(b, wrap)})

LinesOf(blocks, l, p) ==
    UNION {{<<b, k>> : k \in (IF b = p.start THEN p.from ELSE 0)
                             ..((IF b = p.end - 1 /\ p.to > 0 THEN p.to
                                 ELSE Lines(blocks[b], l.wrap)) - 1)} :
              b \in p.start..(p.end - 1)}

AllLines(blocks, l) ==
    UNION {{<<b, k>> : k \in 0..(Lines(blocks[b], l.wrap) - 1)} : b \in 1..Len(blocks)}

\* Every line is on one page, no page of a chapter with blocks is empty, and
\* a page is only too long when it is a single block that cannot be split.
ReadsAsWhole(blocks, l, pages) ==
    LET N == Len(pages) IN
    /\ UNION {LinesOf(blocks, l, pages[k]) : k \in 1..N} = AllLines(blocks, l)
    /\ \A j, k \in 1..N : j < k =>
          LinesOf(blocks, l, pages[j]) \cap LinesOf(blocks, l, pages[k]) = {}
    /\ blocks # << >> => \A k \in 1..N : LinesOf(blocks, l, pages[k]) # {}
    /\ \A k \in 1..N :
          \/ Cardinality({x \in LinesOf(blocks, l, pages[k]) : blocks[x[1]].lines > 0})
                + Gap * (pages[k].end - pages[k].start - 1) <= l.height
          \/ pages[k].end = pages[k].start + 1 /\ ~blocks[pages[k].start].splits
=============================================================================
