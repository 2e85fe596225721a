SPECIFICATION SharedSpec
CONSTANTS
    Key = {1}
    Value = {v1, v2}
    Tombstone = Tombstone
    Absent = Absent
    None = None
    L0Threshold = 2
    LevelSizeMultiplier = 2
    TargetLevelSize = 1
    FlushThreshold = 2
    TargetFileSize = 1
    ErrorPoints = {}
    RemoveMayFail = FALSE
    MaxId = 2
    MaxLog = 2
    MaxCrashes = 0
INVARIANTS
    Durable
