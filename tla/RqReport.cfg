SPECIFICATION ReportSpec
CONSTANTS
    K = 2
    N = 3
    T = 1
    NSlots = 2
    IntMod = 1000
    MaxInFlight = 2
    Reorder = TRUE
    LossBudget = 3
    DupBudget = 0
    StopAllowed = TRUE
    MaxSupply = 2
    MaxConns = 1
    MaxBlocks = 2
    TxBuf = 2
INVARIANTS
    KnownWhenDecodable
    ReportExact
    ReportComplete
CHECK_DEADLOCK FALSE
