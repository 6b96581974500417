SPECIFICATION TransferSpec
CONSTANTS
    Last = 3
    ExportBatch = 2
    ImportBatch = 2
    MaxNames = 1
    MaxSteps = 3
INVARIANTS
    OneMoment
    NothingMissing
CHECK_DEADLOCK FALSE
