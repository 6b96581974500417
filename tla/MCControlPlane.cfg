SPECIFICATION FairSpec
CONSTANTS
    SyncTask = syncTask
    RecheckTask = recheckTask
    Sessions = {s1, s2}
    None = None
INVARIANTS
    SingleSession
    StatusIsTrue
    CrashUndoesOneCommand
PROPERTIES
    EveryCommandReturns
