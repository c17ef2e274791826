SPECIFICATION EncSpec
CONSTANTS
    K = 3
    N = 4
    T = 2
    NSlots = 3
    IntMod = 1000
    MaxInFlight = 1
    Reorder = FALSE
    LossBudget = 4
    DupBudget = 0
    StopAllowed = TRUE
    MaxSupply = 4
    MaxConns = 2
    MaxBlocks = 2
INVARIANTS
    EncTypeOK
    CountsMatchEsi
    RoundRobin
CHECK_DEADLOCK FALSE
