SPECIFICATION FairSpec
CONSTANTS
    SEED_USERS = 5
    SEED_POSTS = 7
    DELETE_BASE = 10
    PAGE_SIZE = 4
    BULK_SIZE = 2
    Chunk = 3
    SeqStart = 16
    U32 = 64
    Configs <- SmallConfigs
    RunnableSuites <- EachKind
    SqliteForeignKeys = TRUE
    MaxRuns = 2
    MaxOutages = 2
    Ids <- SmallIds
PROPERTIES
    KeepsContract
    GetsDone
    RecoversAfterOutage
CHECK_DEADLOCK FALSE
