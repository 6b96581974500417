SPECIFICATION Spec
CONSTANTS
    SyncTask = syncTask
    RecheckTask = recheckTask
    Sessions = {s1, s2}
    None = None
INVARIANTS
    LogoutDisconnects
