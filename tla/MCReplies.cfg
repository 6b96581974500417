SPECIFICATION FairSpec
CONSTANTS
    Rooms = {1}
    Name <- MCName
    Window = 1
    MaxPosts = 2
    MaxLogouts = 1
    MaxFaults = 1
    MaxEnds = 2
INVARIANTS
    PostedOnce
    PostedInOrder
PROPERTIES
    EveryReplyHandled
