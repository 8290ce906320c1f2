----------------------------- MODULE MCEventChat -----------------------------
(* Small instances of EventChat for TLC. *)
EXTENDS EventChat

CONSTANTS me, eva, d1
=============================================================================
