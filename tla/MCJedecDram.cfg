SPECIFICATION FairSpec
CONSTANTS
    Configs <- MCConfigs
    FAW_LIMIT = 2
    MaxHits = 2
    ROW_HIT_LIMIT = 2
    WRITE_LOW = 1
INVARIANTS
    NeverAborts
    QueuedOnce
    DataBusFree
    FourActivates
    RefreshInTime
PROPERTIES
    ImplementsDram
    WriteAfterRead
    ReadsReported
    Accepts
