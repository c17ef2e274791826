SPECIFICATION FairSpec
CONSTANTS
    Buildable <- Built
    EnumGen <- Enumerate
    MaxRuns = 4
    CaptureCount = 2
    Jobs = 2
    IntValues = {"1", "2"}
    RealValues = {"5.5", "nan"}
    NotNumbers = {"nan"}
    Phrases = {"tcp udp"}
    Campaigns <- MCCampaigns
INVARIANTS
    StagedAsDescribed
    SimulatedAsStaged
    DoneIsWhole
    ParamsTabulated
PROPERTIES
    RunsFinish
CHECK_DEADLOCK FALSE
