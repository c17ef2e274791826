SPECIFICATION Spec
CONSTANTS
    PktSize = 1
    MaxBytes = 3
    TicksPerBit = 2
    UIntSize = 65536
    Datagram = TRUE
    OnTimes = {0, 5, 16, 32}
    OffTimes = {2, 7}
    StartTimes = {0, 1}
    StopTimes = {0, 22, 40}
    Horizon = 64
CHECK_DEADLOCK FALSE
INVARIANT DatagramsNumbered
