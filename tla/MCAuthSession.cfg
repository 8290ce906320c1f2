\* Two users of one tab, one request, everything overlapping.
SPECIFICATION FairSpec
CONSTANTS
    ann = ann
    bob = bob
    r1 = r1
    Nobody = Nobody
    Users = {ann, bob}
    Requests = {r1}
    MaxCalls = 2
    UpstreamFails = TRUE
INVARIANTS
    AuthTypeOK
    TokenMatchesCookie
PROPERTIES
    EveryRequestSettles
CHECK_DEADLOCK FALSE
