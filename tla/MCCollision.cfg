SPECIFICATION Spec
CONSTANTS
    SEED_USERS = 4
    SEED_POSTS = 7
    DELETE_BASE = 5
    PAGE_SIZE = 3
    BULK_SIZE = 2
    Chunk = 3
    SeqStart = 10
    U32 = 64
    Configs <- LongConfigs
    RunnableSuites <- OnServer
    SqliteForeignKeys = TRUE
    MaxRuns = 1
    MaxOutages = 1
INVARIANT
    DefaultInsertsDoNotCollide
CHECK_DEADLOCK FALSE
