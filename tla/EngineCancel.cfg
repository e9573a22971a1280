CONSTANTS
    i1 = i1
    k1 = k1
    Insts = {i1}
    Keys = {k1}
    NullKey = NullKey
    None = None
    NoLive = NoLive
    MaxOid = 2
    MaxTid = 3
    Env <- LiveEnv
SPECIFICATION FairSpec
INVARIANTS
    AckedDurable
PROPERTIES
    CommitSettles
