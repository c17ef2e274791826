SPECIFICATION FairSpec
CONSTANTS
    SendSize = 3
    MaxBytes = 11
    TxBuf = 5
    MaxTotal = 12
    StopAllowed = TRUE
INVARIANTS
    BytesConserved
    NoLostWakeup
    ClosesWhenDone
PROPERTIES
    FileDelivered
    ImplementsStream
CHECK_DEADLOCK FALSE
