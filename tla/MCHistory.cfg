SPECIFICATION Spec
CONSTANTS
    Tasks = {w1, w2}
    WebTasks = {w1, w2}
    Keyless = {2}
    PageSize = 2
    MaxEvents = 3
SYMMETRY Symmetry
INVARIANTS
    DeletedStaysDeleted
    NothingLeftOut
    OwnText
    LatestAfterBackfill
