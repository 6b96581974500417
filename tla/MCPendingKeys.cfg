SPECIFICATION Spec
CONSTANTS
    Sessions = {1, 2}
    Events <- TwoAndOne
    MaxSessions = 1
    MaxPerSession = 1
    MaxFailed = 2
    Recovery = TRUE
    MaxFaults = 1
    MaxEnds = 1
INVARIANTS
    TypeOK
    Kept
    IdsAgree
    DispatchedOnce
    KeyBringsDispatch
