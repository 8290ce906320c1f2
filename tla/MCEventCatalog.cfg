\* Two events, a mission and a slot, created, edited and deleted two calls at a time.
SPECIFICATION Spec
CONSTANTS
    org = org
    bob = bob
    e1 = e1
    e2 = e2
    m1 = m1
    s1 = s1
    a1 = a1
    r1 = r1
    r2 = r2
    Requests = {r1, r2}
    Users = {org, bob}
    Events = {e1, e2}
    Missions = {m1}
    Slots = {s1}
    Addresses = {a1}
    Dates = {1, 2}
    NewEvents <- NewOnes
    EventPatches <- MovesAndStatuses
SYMMETRY Symmetry
INVARIANTS
    CTypeOK
    NoOrphans
PROPERTIES
    OnlyOrganizerWrites
    FreshSlotInsideEvent
CHECK_DEADLOCK FALSE
