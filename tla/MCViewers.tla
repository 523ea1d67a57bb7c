------------------------------ MODULE MCViewers ------------------------------
(* A small book for the viewers: a chapter whose first paragraph is longer    *)
(* than a page, one with a picture that is, and a note that is not in the    *)
(* reading order.                                                            *)
EXTENDS Viewers

Text(n, node) == [lines |-> n, splits |-> TRUE, node |-> node]
Picture(n, node) == [lines |-> n, splits |-> FALSE, node |-> node]
Ruler == Picture(1, 0)
Anchor(node) == Picture(0, node)

SmallBook == << <<Anchor(1), Text(5, 1), Ruler, Text(3, 2)>>,
                <<Picture(4, 1), Anchor(2), Text(2, 3)>>,
                <<Text(1, 1)>> >>
SmallHits == << <<2, 4>>, <<3>>, << >> >>

Pages3 == [height |-> 3, wrap |-> 1, step |-> 1]
Pairs3 == [height |-> 3, wrap |-> 1, step |-> 2]
Narrow == [height |-> 4, wrap |-> 2, step |-> 1]
AllLayouts == {Pages3, Pairs3, Narrow}

\* What MuPDF makes of it in two font sizes.
ThreeOrFour == [s \in {12, 18} |-> IF s = 12 THEN 3 ELSE 4]
=============================================================================
