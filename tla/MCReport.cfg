SPECIFICATION Spec
CONSTANTS
    Lineups <- SmallLineups
    Rows <- SmallRows
INVARIANTS
    TypeOK
    EveryoneListed
    BetterIsAhead
    PanicsOnlyWithoutSamples
CHECK_DEADLOCK FALSE
