CONSTANTS
    SLIP_MAX = 5
    Printable = {"t"}
    MAX_CALLBACKS = 2
    Names = {"a", "b"}
    LineMax = 1
    Troubles = 2
    Values <- MCValues
SPECIFICATION FairSpec
INVARIANT CallbackTable
PROPERTIES IntactExecuted Resyncs
CHECK_DEADLOCK TRUE
