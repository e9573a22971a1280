CONSTANTS
    j1 = j1
    j2 = j2
    t1 = t1
    t2 = t2
    NoTask = NoTask
    Jobs = {j1, j2}
    Tasks = {t1, t2}
    PerTask = 1
    Authors = {t1}
SPECIFICATION FairSpec
CHECK_DEADLOCK FALSE
INVARIANTS
    NothingLost
    TidsGapless
    ScopeWhole
PROPERTIES
    QueuedSettles
