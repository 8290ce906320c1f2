-------------------------- MODULE MCParticipation --------------------------
(* Small instances of Participation for TLC. *)
EXTENDS Participation, TLC

CONSTANTS org, ann, bob, s1, s2, r1, r2, r3, r4

\* Every slot is the organizer's own; she may also ask for a place herself.
OneOrganizer == [s \in Slots |-> org]

\* Requests are interchangeable, and so are the two volunteers.
Symmetry == Permutations(Requests) \cup Permutations(Users \ {org})
=============================================================================
