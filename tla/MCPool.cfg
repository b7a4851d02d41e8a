SPECIFICATION Spec
CONSTANTS
    FileSuites <- PragmaOnPool
    Commits = 3
    MaxReplaced = 2
    MaxRuns = 1
INVARIANT
    RunsWalNormal
CHECK_DEADLOCK FALSE
