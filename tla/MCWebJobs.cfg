SPECIFICATION FairSpec
CONSTANTS
    Requests = {r1, r2}
    Uploads = {u1, u2}
    Window = 1
    MaxEvents = 3
    MaxCommands = 2
    MaxEnds = 1
INVARIANTS
    BusyIsAtWork
    NothingSkipped
PROPERTIES
    BackfillAgain
    CommandKept
CHECK_DEADLOCK FALSE
