CONSTANTS
    Traces = {t1, t2}
    HourWidth = 1
    DayWidth = 2
    RollupWindow = 1
    FullInterval = 2
    TxLimit = 1
    LastTick = 4
SPECIFICATION RollupSpec
PROPERTIES OnlyRecentBucketsChange
