------------------------- MODULE MCNotificationBell -------------------------
(* Small instances of NotificationBell for TLC. *)
EXTENDS NotificationBell

CONSTANTS n1, n2
=============================================================================
