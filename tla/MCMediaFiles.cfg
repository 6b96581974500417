SPECIFICATION Spec
CONSTANTS
    Messages = {m1, m2}
    MaxFills = 2
    MaxRepairs = 1
    MaxFaults = 1
SYMMETRY Symmetry
INVARIANTS
    TypeOK
    RowsHaveFiles
    FilesHaveRows
CHECK_DEADLOCK FALSE
