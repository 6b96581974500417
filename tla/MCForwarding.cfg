SPECIFICATION FairSpec
CONSTANTS
    Messages = {m1, m2, o}
    Own = {o}
    Backup = FALSE
    MaxEvents = 3
    MaxCrashes = 1
INVARIANTS
    AtMostOnce
    HeldBackForGood
    CopiesFollowStore
    RedactedEverywhere
PROPERTIES
    LogoutForgets
    KeepsPromise
    CatchesUp
