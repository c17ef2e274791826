SPECIFICATION Spec
CONSTANTS
    K = 2
    N = 3
    T = 1
    NSlots = 2
    IntMod = 1000
    MaxInFlight = 2
    Reorder = TRUE
    LossBudget = 3
    DupBudget = 0
    StopAllowed = FALSE
    MaxSupply = 2
    MaxConns = 1
    MaxBlocks = 2
    TxBuf = 2
INVARIANTS
    NoOverDelivery
CHECK_DEADLOCK FALSE
