CONSTANTS
    NoData = NoData
    PgmSz = 4
    AddrMod = 8
    Images <- const_Images
    MaxAddress = 15
    RespSize = 15
    MaxSyncs = 2
    MaxPages = 1
    ReadFrom = {8}
    Faults = {"late"}
SPECIFICATION FairSpec
PROPERTIES FlashInPlace SuccessIsWhole SyncSettles
CHECK_DEADLOCK FALSE
