--------------------------- MODULE MCAuthentication ---------------------------
(* Two requests of one client at a time, an upload among them. *)
EXTENDS Authentication
=============================================================================
