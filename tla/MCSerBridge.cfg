CONSTANTS
    c1 = c1
    c2 = c2
    c3 = c3
    Conns <- MCConns
    Bytes <- MCBytes
    NoConn = NoConn
    MAX_CONN = 2
    MAX_TXBUFFER = 2
    MaxPacket = 3
    ByteIds = 2
    FifoSize = 2
    BufSize = 2
    QueueLen = 2
    OthersMax = 1
    FlashingMax = 2
    Loads <- MCLoads
SPECIFICATION FairSpec
INVARIANTS NeverDeaf SendDiscipline NoSilentLoss Unwrapped
PROPERTY Unstuck
