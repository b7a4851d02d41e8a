SPECIFICATION Spec
CONSTANTS
    SEED_USERS = 5
    SEED_POSTS = 7
    DELETE_BASE = 10
    PAGE_SIZE = 4
    BULK_SIZE = 2
    Chunk = 3
    SeqStart = 16
    U32 = 64
    Configs <- SmallConfigs
    RunnableSuites <- AllSuites
    SqliteForeignKeys = TRUE
    MaxRuns = 2
    MaxOutages = 2
INVARIANTS
    TypeOK
    OnlyOutsideFailures
    SeededIdentically
    BulkAllOrNothing
    FinalContents
PROPERTY
    OnlyVictimsVanish
CHECK_DEADLOCK FALSE
