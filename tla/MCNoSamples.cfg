SPECIFICATION Spec
CONSTANTS
    Lineups <- SmallLineups
    Rows <- SmallRows
INVARIANT
    NeverPanics
CHECK_DEADLOCK FALSE
