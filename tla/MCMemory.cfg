SPECIFICATION FairSpec
CONSTANTS
    SEED_USERS = 5
    SEED_POSTS = 7
    DELETE_BASE = 10
    PAGE_SIZE = 4
    BULK_SIZE = 2
    Chunk = 3
    SeqStart = 16
    U32 = 64
    Configs <- SmallConfigs
    SqliteForeignKeys = TRUE
    Ids <- SmallIds
    MaxRuns = 2
    MaxOutages = 2
INVARIANTS
    TypeOK
    FileKeepsSeed
PROPERTIES
    KeepsContract
    GetsDone
CHECK_DEADLOCK FALSE
