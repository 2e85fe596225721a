SPECIFICATION ObservedSpec
CONSTANTS
    Key <- ThreeKeys
    Value = {v1}
    Tombstone = Tombstone
    Absent = Absent
    None = None
    L0Threshold = 2
    LevelSizeMultiplier = 2
    TargetLevelSize = 1
    FlushThreshold = 1
    TargetFileSize = 2
    ErrorPoints <- AllPoints
    RemoveMayFail = FALSE
    MaxId = 5
    MaxLog = 2
    MaxCrashes = 1
    Faults <- AllFaults
    KeepUsing <- BeforeAnyRename
    MaxHits = 3
INVARIANTS
    Durable
    ReadsAllowed
    StatsExplainLevels
    ReopeningRecovers
    DisjointUnlessTripped
