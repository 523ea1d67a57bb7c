----------------------------- MODULE MCAuditLog -----------------------------
(* Two processes and two operations of any two handlers.                    *)
EXTENDS AuditLog, TLC

Symmetry == Permutations(Procs) \cup Permutations(Ops)
=============================================================================
