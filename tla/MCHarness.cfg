SPECIFICATION Spec
CONSTANTS
    U32 = 16
    DefaultConfig <- SmallDefault
    QuickConfig <- SmallQuick
    ItersValues <- SmallIters
    QuickValues <- SmallQuickValues
    Durations <- SmallDurations
INVARIANTS
    TypeOK
    VictimsMatchCalls
    MedianIsMiddle
    TailBeginsAtP95
CHECK_DEADLOCK FALSE
