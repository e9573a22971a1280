CONSTANTS
    i1 = i1
    i2 = i2
    k1 = k1
    Insts = {i1, i2}
    Keys = {k1}
    NullKey = NullKey
    None = None
    NoLive = NoLive
    MaxOid = 2
    MaxTid = 3
    Env <- TaskCancelEnv
SPECIFICATION Spec
SYMMETRY Symmetry
CHECK_DEADLOCK FALSE
INVARIANTS
    UniqueDurable
