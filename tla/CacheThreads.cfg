SPECIFICATION Spec
CONSTANTS
    Thread = {t1, t2}
    Key = {1, 2}
    Ttl = {0, 1, 2}
    Modulus = 7
    NoEntry = NoEntry
    MaxClock = 4
    MaxSets = 2
SYMMETRY ThreadSymmetry
INVARIANTS
    TypeOK
    NoExpiredHit
    NotExpiredEarly
    ClearLeavesOnlyNewer
