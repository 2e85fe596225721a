SPECIFICATION Spec
CONSTANTS
    Lengths = {4, 6, 8}
    Capacity = 7
    FailingWrites = {"buffered"}
    DamagedParts = {"length", "body"}
    MaxRecords = 3
    MaxCrashes = 1
    MaxDamage = 1
INVARIANTS
    TypeOK
    AckedSurvive
    RefusedOnlyIfDamaged
    RecordsInOrder
    TearsAreMended
    StrictReaderNoticesTears
PROPERTIES
    LogGrowsOrEmpties
