SPECIFICATION Spec
CONSTANTS
    PktSize = 2
    MaxBytes = 3
    TicksPerBit = 2
    UIntSize = 65536
    Datagram = FALSE
    OnTimes = {0, 5, 32, 64}
    OffTimes = {2, 7}
    StartTimes = {0, 1}
    StopTimes = {0, 41, 75}
    Horizon = 100
INVARIANTS
    TypeOK
    EventsFollowState
    DueWhenGenerated
    RateAccounting
    StopsAtLimit
CHECK_DEADLOCK FALSE
