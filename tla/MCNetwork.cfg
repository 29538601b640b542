CONSTANTS
    MAX_REST = 2
    CHUNK = 2
    Lengths = {1, 3}
    Prompt = FALSE
    MaxSetups = 3
    MaxRequests = 2
    SendLengths = {3}
    MaxSends = 2
    MaxPeers = 1
    Fetches = {1}
    BUFFER_SIZE_MAX = 2
    Segments = 3
    MaxFailures = 2
    Ssids = {"home", "work"}
    ScanChunk = 2
    MaxAps = 3
    CHANGE_TO_STA = TRUE
    InfoPages = TRUE
    MaxPages = 4
    MaxEvents = 2
    MaxMessages = 1
    MaxSettings = 1
    MaxTroubles = 1
SPECIFICATION NetSpec
INVARIANTS RightAnswer LossBounded
PROPERTIES SentWhole WholeOrFailed CalledOnce Rescue ListInOrder ScanEnds QueueDrains
CHECK_DEADLOCK FALSE
