CONSTANTS
    KeepAlive = 1
    SendTimeout = 1
    BackoffLimit = 2
    Kinds = {"q1"}
    MaxMessages = 2
    MaxIncoming = 1
    MaxLosses = 1
    MaxRequests = 1
    Allowed = {"offline", "flap", "fragment", "long", "settings"}
SPECIFICATION Spec
INVARIANTS InOrder NeverStranded SocketAgrees
CHECK_DEADLOCK FALSE
