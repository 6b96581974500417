SPECIFICATION Spec
CONSTANTS
    Messages = {m1, m2}
    Own = {}
    Backup = TRUE
    MaxEvents = 3
    MaxCrashes = 0
INVARIANTS
    EveryMessageSaved
