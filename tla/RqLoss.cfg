SPECIFICATION Spec
CONSTANTS
    K = 2
    N = 3
    T = 2
    NSlots = 2
    IntMod = 1000
    MaxInFlight = 2
    Reorder = FALSE
    LossBudget = 3
    DupBudget = 1
    StopAllowed = FALSE
    MaxSupply = 4
    MaxConns = 1
    MaxBlocks = 2
    TxBuf = 2
INVARIANTS
    TypeOK
PROPERTIES
    ImplementsStreams
CHECK_DEADLOCK FALSE
