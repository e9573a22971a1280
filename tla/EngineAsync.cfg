CONSTANTS
    i1 = i1
    i2 = i2
    k1 = k1
    k2 = k2
    Insts = {i1, i2}
    Keys = {k1, k2}
    NullKey = NullKey
    None = None
    NoLive = NoLive
    MaxOid = 2
    MaxTid = 2
    Env <- QuietEnv
SPECIFICATION Spec
SYMMETRY Symmetry
INVARIANTS
    CleanAgrees
    WritesBuffered
    OneLiveInstance
PROPERTIES
    ImplementsAtomicStore
