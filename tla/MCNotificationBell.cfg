\* One notification; of streams cut or refused, requests failed, tokens expired and tabs
\* hidden, any two; and room for the second stream they may leave behind (a new token's stream
\* waits for room in the one case that needs a third: the latest aborted while it waits for
\* the count, an older one open).
SPECIFICATION FairSpec
CONSTANTS
    n1 = n1
    n2 = n2
    Ids = {n1}
    MaxConns = 2
    MaxFaults = 2
    Undefined = Undefined
    Idle = Idle
    Asked = Asked
INVARIANTS
    BellTypeOK
    ListeningMissesNothing
    OpenListShowsMarks
PROPERTIES
    StreamComesBack
CHECK_DEADLOCK FALSE
