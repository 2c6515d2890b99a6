SPECIFICATION Spec
CONSTANTS
    Timeframes = {"1d", "1h"}
    MaxTime = 4
    Workers = {w1}
    MaxRuns = 3
    MaxFailed = 1
    Kinds = {"incremental"}
    Ranges <- OneRange
    Window = 1
    Lookback = 4
    Offered <- EveryBar
    FirstTime = 1
    Faults = {}
    SharedResume = FALSE
INVARIANTS
    Contiguous
