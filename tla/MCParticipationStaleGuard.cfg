\* Two overlapping transitions of one row.
SPECIFICATION Spec
CONSTANTS
    org = org
    ann = ann
    bob = bob
    s1 = s1
    s2 = s2
    r1 = r1
    r2 = r2
    r3 = r3
    r4 = r4
    Users = {org, ann}
    Slots = {s1}
    Requests = {r1, r2}
    OrganizerOf <- OneOrganizer
    PoolSize = 2
    MaxPlaces = 2
SYMMETRY Symmetry
PROPERTY TransitionFromAllowedStatus
CHECK_DEADLOCK FALSE
