\* Sends and deliveries that fail or repeat, over one connection: transactions do not
\* overlap, so the guards are exact; their events still do.
SPECIFICATION FairESpec
CONSTANTS
    org = org
    ann = ann
    s1 = s1
    r1 = r1
    r2 = r2
    r3 = r3
    Users = {org, ann}
    Slots = {s1}
    Requests = {r1, r2}
    OrganizerOf <- OneOrganizer
    PoolSize = 1
    MaxPlaces = 1
INVARIANTS
    ETypeOK
    EveryCommitAccounted
    OtherPartyNotified
    NotifiedInTopicOrder
PROPERTIES
    CommitsAreNotified
    LifecycleSpec
CHECK_DEADLOCK FALSE
