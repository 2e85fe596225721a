SPECIFICATION FairSpec
CONSTANTS
    Key <- TwoKeys
    Value = {v1}
    Tombstone = Tombstone
    Absent = Absent
    None = None
    L0Threshold = 1
    LevelSizeMultiplier = 2
    TargetLevelSize = 1
    FlushThreshold = 1
    TargetFileSize = 1
    ErrorPoints <- NoErrors
    RemoveMayFail = TRUE
    MaxId = 2
    MaxLog = 2
    MaxCrashes = 1
PROPERTIES
    Terminates
