\* No item, one batch, batches that fit and that do not, and a size of 0.
SPECIFICATION Spec
CONSTANTS
    Counts = {0, 3, 4}
    Sizes = {0, 2, 5}
    Window = 2
    MaxDeadlines = 2
    MaxCrashes = 1
INVARIANTS
    TypeOK
    RecordedIsWhole
    AckedIsExact
    RecordedIsHeld
PROPERTIES
    Recovers
