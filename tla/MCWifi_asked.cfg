CONSTANTS
    Ssids = {"home", "work"}
    CHUNK = 2
    MaxAps = 1
    CHANGE_TO_STA = FALSE
    InfoPages = TRUE
    MaxRequests = 3
    MaxEvents = 2
SPECIFICATION Spec
PROPERTY AskedNetwork
CHECK_DEADLOCK FALSE
