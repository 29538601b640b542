CONSTANTS
    r1 = r1
    r2 = r2
    NoData = NoData
    PgmSz = 4
    AddrMod = 8
    Requests <- const_Requests
    Images <- const_Images
    MaxAddress = 15
    ATTEMPTS = 2
    AckLimit = 2
    MaxSyncs = 2
    Overlap = {}
SPECIFICATION FairSpec
INVARIANTS AckAccount SessionDriven
PROPERTIES SuccessIsWhole SyncSettles
CHECK_DEADLOCK FALSE
