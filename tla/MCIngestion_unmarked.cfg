SPECIFICATION Spec
CONSTANTS
    Timeframes = {"1d"}
    MaxTime = 3
    Workers = {w1}
    MaxRuns = 1
    MaxFailed = 1
    Kinds = {"backfill"}
    Ranges <- OneRange
    Window = 2
    Lookback = 1
    Offered <- EveryBar
    FirstTime = 3
    Faults = {"database"}
    SharedResume = FALSE
PROPERTIES
    OutcomeRecorded
