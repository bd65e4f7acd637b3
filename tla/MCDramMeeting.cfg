SPECIFICATION FairSpec
CONSTANTS
    Configs <- MeetingConfigs
    FAW_LIMIT = 2
    MaxHits = 2
    ROW_HIT_LIMIT = 2
    WRITE_LOW = 1
PROPERTIES
    EveryReadReported
