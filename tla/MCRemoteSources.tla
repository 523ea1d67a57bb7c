--------------------------- MODULE MCRemoteSources ---------------------------
(* Two or three servers, one user on each. *)
EXTENDS RemoteSources, TLC

Symmetry == Permutations(Urls)
=============================================================================
