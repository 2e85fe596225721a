SPECIFICATION Spec
CONSTANTS
    Key <- TwoKeys
    Value = {v1}
    Tombstone = Tombstone
    Absent = Absent
    None = None
    L0Threshold = 2
    LevelSizeMultiplier = 2
    TargetLevelSize = 1
    FlushThreshold = 1
    TargetFileSize = 2
    ErrorPoints <- HarmlessErrors
    RemoveMayFail = FALSE
    MaxId = 2
    MaxLog = 2
    MaxCrashes = 1
INVARIANTS
    Durable
    ReadsAllowed
