\* Every service up: what becomes of a request refused for its expired token.
SPECIFICATION Spec
CONSTANTS
    ann = ann
    bob = bob
    r1 = r1
    Nobody = Nobody
    Users = {ann}
    Requests = {r1}
    MaxCalls = 3
    UpstreamFails = FALSE
PROPERTIES
    RefusedIsReplayed
CHECK_DEADLOCK FALSE
