CONSTANTS
    r1 = r1
    r2 = r2
    NoData = NoData
    PgmSz = 4
    AddrMod = 8
    Requests <- const_One
    Images <- const_Whole
    MaxAddress = 15
    ATTEMPTS = 2
    AckLimit = 2
    MaxSyncs = 2
    Overlap = {"sync"}
SPECIFICATION Spec
PROPERTY SuccessIsWhole
CHECK_DEADLOCK FALSE
