SPECIFICATION Spec
CONSTANTS
    MaxOid = 2
    Actors <- MCActors
    UidOf <- MCUidOf
    Claims <- MCClaims
    GroupIds <- MCGroupIds
    Floors <- MCFloors
    Uids <- MCUids
    Grants <- MCGrants
    NoRec = NoRec
    NoIndex = NoIndex
    NoCommit = NoCommit
    NoScope = NoScope
    MaxTid = 2
    MaxEdits = 2
    Facades <- Both
    Env <- Faults
INVARIANTS
    Fenced
    AuthorityConserved
PROPERTIES
    Curated
