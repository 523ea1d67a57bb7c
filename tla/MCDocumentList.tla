---------------------------- MODULE MCDocumentList ----------------------------
(* Two documents, one of them tagged, and a query that finds one of them.    *)
EXTENDS DocumentList

CONSTANT Tag

OneTag == {Tag}
FirstLibraries == {[g \in Docs |-> IF g = 1 THEN OneTag ELSE {}]}
=============================================================================
