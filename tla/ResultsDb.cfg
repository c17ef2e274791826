SPECIFICATION Spec
CONSTANTS
    Window = 2
    Seqnos = {0, 1, 2, 3, 5}
    Gaps = {0, 1, 3, 4}
    Second = 3
    Traffic <- MCTraffic
INVARIANTS
    LostIffLate
    LogTrue
    SummaryAccounts
    OnlyFinishedSummarised
    SecondsCounted
CHECK_DEADLOCK FALSE
