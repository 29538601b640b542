CONSTANTS
    c0 = c0
    c1 = c1
    c2 = c2
    zero = zero
    Configs <- const_Configs
    Default = c0
    Zero = zero
    DefaultSeq = 33
    MaxSeq = 36
    EraseFailKeeps = FALSE
    ResaveAfterAck = TRUE
    ReadErrors <- const_NoReadErrors
SPECIFICATION Spec
INVARIANTS Durable NeverLost BackupCoversRead
PROPERTY RegisterSpec
