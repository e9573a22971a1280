CONSTANTS
    p1 = p1
    p2 = p2
    Procs = {p1, p2}
    NoProc = NoProc
    MaxCommits = 2
    Env <- PauseCrashEnv
SPECIFICATION FairSpec
INVARIANTS
    OneHolder
    TidsSequential
    OneSurvives
PROPERTIES
    SplitBrainEnds
    AcquireSettles
