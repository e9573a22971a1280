CONSTANTS
    FlushEvery = 2
    MaxSegmentCells = 4
    MaxTid = 4
    MaxSegs = 2
    MaxFileCells = 6
    NoFile = NoFile
    Env <- CrashFailEnv
SPECIFICATION Spec
CHECK_DEADLOCK FALSE
INVARIANTS
    WatermarkHonest
    ReplayComplete
PROPERTIES
    RecordKept
