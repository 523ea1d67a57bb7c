------------------------------ MODULE MCLibrary ------------------------------
(* Small instances of Library: two files with one stem, and one with       *)
(* another.                                                                 *)
EXTENDS Library, TLC
CONSTANTS p1, p2, p3, g1, g2

Places == p1 :> g1 @@ p2 :> g1 @@ p3 :> g2
Symmetry == Permutations({p1, p2}) \cup Permutations(Described)
=============================================================================
