SPECIFICATION FairSpec
CONSTANTS
    Configs <- EnvConfigs
    DELETE_BASE = 100000
    SeqStart = 200000
    MaxRuns = 2
    MaxOutages = 2
    MaxChanges = 3
INVARIANTS
    TypeOK
    ReportIsComplete
    SqliteOnlyIfNotFound
PROPERTIES
    EarlierReportKept
    RunsToReport
CHECK_DEADLOCK FALSE
