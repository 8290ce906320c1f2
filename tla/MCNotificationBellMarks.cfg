\* Nothing goes wrong, one stream: what becomes of the list after a mutation.
SPECIFICATION Spec
CONSTANTS
    n1 = n1
    n2 = n2
    Ids = {n1, n2}
    MaxConns = 1
    MaxFaults = 0
    Undefined = Undefined
    Idle = Idle
    Asked = Asked
INVARIANT MutationsRefreshBoth
CHECK_DEADLOCK FALSE
