SPECIFICATION Spec
CONSTANTS
    MaxOid = 2
    Live = {"doc"}
    Protected = {"doc"}
    NULL = NULL
    NoRec = NoRec
    NotBuilt = NotBuilt
    r1 = r1
    r2 = r2
    Requests <- MCRequests
    Principals <- MCPrincipals
    Rows <- MCRows
    Stores <- MCStores
    Asked <- MCAsked
    MaxTid = 1
    MaxSnaps = 2
    MaxPools = 2
    MaxRequests = 2
    Env <- Shutdowns
INVARIANTS
    OpenWhileUsed
    ReadsAcknowledged
    Isolated
SYMMETRY Slots
CHECK_DEADLOCK FALSE
