SPECIFICATION Spec
CONSTANTS
    Configs <- EnvConfigs
    DELETE_BASE = 100000
    SeqStart = 200000
    MaxRuns = 2
    MaxOutages = 2
    MaxChanges = 3
INVARIANT
    SqliteOnlyIfUnreachable
CHECK_DEADLOCK FALSE
