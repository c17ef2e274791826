SPECIFICATION Spec
CONSTANTS
    TicksPerMs = 2
    ByteTime = 1
    SliceWidthMS = 3
    SliceTaperMS = 1
    NSlices = 3
    ActiveMap = {0, 1}
    Sizes = {1, 3}
    MaxPackets = 4
    MaxTime = 20
    StopAllowed = TRUE
INVARIANTS
    EventPending
    SentInSlice
    NoMissedSlice
    PacedInBurst
CHECK_DEADLOCK FALSE
