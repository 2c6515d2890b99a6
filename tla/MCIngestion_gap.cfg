SPECIFICATION Spec
CONSTANTS
    Timeframes = {"1d"}
    MaxTime = 6
    Workers = {w1}
    MaxRuns = 2
    MaxFailed = 1
    Kinds <- BothKinds
    Ranges <- OneRange
    Window = 1
    Lookback = 1
    Offered <- EveryBar
    FirstTime = 6
    Faults = {"provider"}
    SharedResume = FALSE
PROPERTIES
    FullBackfill
