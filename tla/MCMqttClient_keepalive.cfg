CONSTANTS
    KeepAlive = 2
    SendTimeout = 1
    BackoffLimit = 2
    Kinds = {"q0", "q1", "q2"}
    MaxMessages = 2
    MaxIncoming = 1
    MaxLosses = 1
    MaxRequests = 1
    Allowed = {"long", "settings"}
SPECIFICATION Spec
INVARIANTS Retained StopAndWait ConnectFirst SendingIsPending
CHECK_DEADLOCK FALSE
