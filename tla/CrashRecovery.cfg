SPECIFICATION Spec
CONSTANTS
    Key <- TwoKeys
    Value = {v1}
    Tombstone = Tombstone
    Absent = Absent
    None = None
    L0Threshold = 1
    LevelSizeMultiplier = 2
    TargetLevelSize = 1
    FlushThreshold = 2
    TargetFileSize = 1
    ErrorPoints <- NoErrors
    RemoveMayFail = FALSE
    MaxId = 5
    MaxLog = 2
    MaxCrashes = 2
INVARIANTS
    TypeOK
    Durable
    HandleMirrorsDirectory
    IdsAreFresh
    LevelsCoherent
PROPERTIES
    ImplementsDurableStore
