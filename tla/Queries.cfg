CONSTANTS
    MaxOid = 3
    MaxTid = 1
    MaxBatch = 2
    Rows <- MCRows
    EqFields = {"owner", "groups", "floor", "note", "rank"}
    SortedFields = {"floor", "rank"}
    ListFields = {"groups"}
    UniqueFields = {"qid"}
    StringFields = {"qid", "note"}
    Added = "rank"
    Defaults = {2}
    Conditions <- MCConditions
    Nesting <- MCNesting
    Questions <- MCQuestions
    Principals <- MCPrincipals
    Keys <- MCKeys
    NULL = NULL
    NoRec = NoRec
    NoIndex = NoIndex
    NoCommit = NoCommit
    Env <- LiveEnv
SPECIFICATION Spec
INVARIANTS
    IndexServes
    ReverseServes
    QueryExact
    LookupExact
CHECK_DEADLOCK FALSE
