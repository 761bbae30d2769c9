SPECIFICATION FairSpec
CONSTANTS
    Targets = {a, b}
    MaxFixes = 3
    MaxPoints = 2
    BatchSize = 2
    Slots = {w1}
INVARIANTS
    TypeOK
    StoredOnce
PROPERTIES
    LossHasACause
    BufferDrains
