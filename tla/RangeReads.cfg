SPECIFICATION Spec
CONSTANTS
    Key <- Keys
    Value <- Values
    Tombstone = Tombstone
    Absent = Absent
    None = None
    Garbage = Garbage
    KeyBytes <- Lengths
    ValueBytes <- ValueLengths
    BlockSize = 22
    Width = 78
    Hash1 <- Crc
    Hash2 <- CrcReversed
    Epoch <- Epochs
    BoundKeys = {2}
    MaxFlushes = 2
    MaxWrites = 3
INVARIANTS
    TypeOK
    ReadsBack
    GetsLastWrite
    ScanIsComplete
    CompactionReadsAll
PROPERTIES
    ImplementsCursor
