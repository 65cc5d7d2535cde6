SPECIFICATION FairSpec
CONSTANTS
    DisconnectCap = 8
    SendCap = 2
    InboxCap = 1
    MaxReplies = 0
    MaxMessages = 9
    MaxBroadcasts = 0
    MayFail = TRUE
    MayStall = FALSE
    MayShutDown = FALSE
PROPERTY FailureDisconnects
CHECK_DEADLOCK FALSE
