--------------------------- MODULE MCAuthSession ---------------------------
(* Small instances of AuthSession for TLC. *)
EXTENDS AuthSession, TLC

CONSTANTS ann, bob, r1
=============================================================================
