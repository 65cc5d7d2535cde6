SPECIFICATION FairSpec
CONSTANTS
    DisconnectCap = 2
    SendCap = 1
    InboxCap = 1
    MaxReplies = 1
    MaxMessages = 2
    MaxBroadcasts = 1
    MayFail = TRUE
    MayStall = TRUE
    MayShutDown = TRUE
INVARIANT TypeOK
INVARIANT ReturnedIsClean
INVARIANT DisconnectIsFinal
PROPERTY ConnectionEnds
PROPERTY ShutDownEnds
CHECK_DEADLOCK FALSE
