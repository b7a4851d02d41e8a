SPECIFICATION Spec
CONSTANTS
    FileSuites <- OptionsOrDirect
    Commits = 3
    MaxReplaced = 2
    MaxRuns = 1
INVARIANTS
    TypeOK
    ReaderSeesSeed
    RunsWalNormal
CHECK_DEADLOCK FALSE
