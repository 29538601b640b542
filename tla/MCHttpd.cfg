CONSTANTS
    s1 = s1
    s2 = s2
    s3 = s3
    Socks = {s1, s2, s3}
    NoSock = NoSock
    MAX_CONN = 2
    MAX_POST = 1
    CHUNK = 2
    SEC_SIZE = 2
    FileLen <- MCFileLen
    Requests <- MCRequests
SPECIFICATION FairSpec
INVARIANTS Owned RightAnswers
PROPERTIES UploadIntact Served
