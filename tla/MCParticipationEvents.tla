----------------------- MODULE MCParticipationEvents -----------------------
(* Small instances of ParticipationEvents for TLC. *)
EXTENDS ParticipationEvents

CONSTANTS org, ann, s1, r1, r2, r3

OneOrganizer == [s \in Slots |-> org]

Symmetry == Permutations(Requests)
=============================================================================
