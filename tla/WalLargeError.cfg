SPECIFICATION Spec
CONSTANTS
    Lengths = {4, 6}
    Capacity = 5
    FailingWrites = {"direct"}
    DamagedParts = {}
    MaxRecords = 3
    MaxCrashes = 0
    MaxDamage = 0
INVARIANTS
    AckedSurvive
