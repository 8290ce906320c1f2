--------------------------- MODULE MCEventScreens ---------------------------
(* The screens of an event on a small instance. *)
EXTENDS EventScreens
=============================================================================
