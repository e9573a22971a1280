CONSTANTS
    f1 = f1
    f2 = f2
    k1 = k1
    k2 = k2
    e1 = e1
    e2 = e2
    None = None
    Same = Same
    Followers = {f1, f2}
    Keys = {k1, k2}
    Edits = {e1, e2}
    MaxTid = 4
    MaxEdits = 2
    MaxSends = 2
SPECIFICATION Spec
SYMMETRY Symmetry
CHECK_DEADLOCK FALSE
INVARIANTS
    Serializable
    AppliedOnce
    ReplicaExact
