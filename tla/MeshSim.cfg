SPECIFICATION FairSpec
CONSTANTS
    MeshSize = 3
    StaSize = 2
    Offset = 10
    SlotCount = 2
    MaxAttributes = 2
    Keys = {"Start", "Rate"}
    Hosts <- MCHosts
    Known <- MCKnown
    Settings <- MCSettings
INVARIANTS
    ConfigAsWritten
    ExclusiveHeard
    NothingShared
    OnlyUsableRuns
PROPERTIES
    SoundRuns
    PacketArrives
CHECK_DEADLOCK FALSE
