SPECIFICATION FairSpec
CONSTANTS
    Timeframes = {"1d", "1h"}
    MaxTime = 6
    Workers = {w1}
    MaxRuns = 2
    MaxFailed = 1
    Kinds <- BothKinds
    Ranges <- OneRange
    Window = 1
    Lookback = 1
    Offered <- EveryBar
    FirstTime = 5
    Faults = {"provider", "pipeline"}
    SharedResume = FALSE
INVARIANTS
    CoverageExact
    OnlyHolesSkipped
PROPERTIES
    RunsEnd
