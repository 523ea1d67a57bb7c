----------------------------- MODULE FreshCache -----------------------------
(***************************************************************************)
(* What a cache of the provider crate promises its callers, with nothing   *)
(* of the mechanism: no lock, no stored value, no fetch.                   *)
(*                                                                         *)
(* A read returns, at one instant, some version of the source that is no   *)
(* older than the floor.  The floor rises to the version of the source     *)
(* whenever the cache is expired, and to the version returned whenever a   *)
(* call returns, so reads are monotone across all callers and a read that  *)
(* starts after an expiry sees at least what that expiry announced.        *)
(***************************************************************************)
EXTENDS Naturals

CONSTANTS Callers,     \* the tasks that call provide()
          MaxVersion   \* bound on the number of versions

VARIABLES version,     \* of what the provider reads, now
          floor,       \* the oldest version a read may still return
          out          \* the last version each caller was given, 0 for none

vars == <<version, floor, out>>

Init ==
    /\ version = 1
    /\ floor = 1
    /\ out = [c \in Callers |-> 0]

Change ==
    /\ version < MaxVersion
    /\ version' = version + 1
    /\ UNCHANGED <<floor, out>>

Expire ==
    /\ floor' = version
    /\ UNCHANGED <<version, out>>

Read(c) ==
    /\ \E v \in floor..version :
          /\ floor' = v
          /\ out' = [out EXCEPT ![c] = v]
    /\ UNCHANGED version

Next ==
    \/ Change
    \/ Expire
    \/ \E c \in Callers : Read(c)

Spec == Init /\ [][Next]_vars
=============================================================================
