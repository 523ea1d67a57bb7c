--------------------------- MODULE MCSettingsChain ---------------------------
(* Small instances of SettingsChain: the cfgs give every kind of task its   *)
(* members; liveness is checked, so no symmetry is used.                    *)
EXTENDS SettingsChain, TLC
=============================================================================
