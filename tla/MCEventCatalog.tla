--------------------------- MODULE MCEventCatalog ---------------------------
(* Small instances of EventCatalog for TLC. *)
EXTENDS EventCatalog, TLC

CONSTANTS org, bob, e1, e2, m1, s1, a1, r1, r2

Symmetry == Permutations(Requests) \cup Permutations(Events)

\* One organizer's events, to which a slot fits or does not.
NewOnes == [status : {"OPEN"}, organizer : {org}, start : {1, 2}, end : {2}, address : {a1}]

\* Edits of the front's form, which sends every field, and updates of one of them.
MovesAndStatuses ==
    [start : {1, 2}, end : {1, 2}, address : {a1}, status : EventStatus]
        \cup [start : {2}] \cup [end : {1}] \cup [status : {"CANCELLED"}]
=============================================================================
