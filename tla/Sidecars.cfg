SPECIFICATION Spec
CONSTANTS
    Types = {"Note", "Tag"}
    Oids = {1, 2, 3}
    TypeOf <- MCTypeOf
    Batches <- MCBatches
    Only = {"Note", "Tag"}
    FullText = {"Note"}
    Protected = {"Note"}
    Denied = {1}
    Deleted = Deleted
    Absent = Absent
    NoFile = NoFile
    Torn = Torn
    Closed = Closed
    MaxSegments = 2
    MaxSegNo = 7
    MaxExact = 2
    FlushEvery = 2
    ChunkRows = 2
    Widening = 1
    MaxTid = 3
    MaxFaults = 1
    Env = {"crash", "fail", "feed"}
INVARIANTS MirrorExact RecoverExact AttachedCurrent TextExact SearchExact
