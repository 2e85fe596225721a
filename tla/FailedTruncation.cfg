SPECIFICATION Spec
CONSTANTS
    Key <- TwoKeys
    Value = {v1}
    Tombstone = Tombstone
    Absent = Absent
    None = None
    L0Threshold = 2
    LevelSizeMultiplier = 2
    TargetLevelSize = 1
    FlushThreshold = 1
    TargetFileSize = 1
    ErrorPoints <- TruncationError
    RemoveMayFail = FALSE
    MaxId = 3
    MaxLog = 2
    MaxCrashes = 0
INVARIANTS
    Durable
