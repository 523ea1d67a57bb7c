-------------------------- MODULE MCReadingProgress --------------------------
(* Two viewers of one document; the sources are interchangeable.            *)
EXTENDS ReadingProgress, TLC

Symmetry == Permutations(Sources)
=============================================================================
