CONSTANTS
    i1 = i1
    i2 = i2
    k1 = k1
    k2 = k2
    Insts = {i1, i2}
    Keys = {k1, k2}
    NullKey = NullKey
    None = None
    NoLive = NoLive
    MaxOid = 2
    MaxTid = 2
    Env <- DiscardEnv
SPECIFICATION Spec
SYMMETRY Symmetry
INVARIANTS
    UniqueDurable
    DeleteWins
    IndexExact
    ConsumerInSync
