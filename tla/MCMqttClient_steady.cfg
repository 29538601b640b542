CONSTANTS
    KeepAlive = 0
    SendTimeout = 1
    BackoffLimit = 4
    Kinds = {"q1", "q2", "sub"}
    MaxMessages = 2
    MaxIncoming = 1
    MaxLosses = 2
    MaxRequests = 1
    Allowed = {}
SPECIFICATION FairSpec
PROPERTY Delivered
CHECK_DEADLOCK FALSE
