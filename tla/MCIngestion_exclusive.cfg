SPECIFICATION Spec
CONSTANTS
    Timeframes = {"1d"}
    MaxTime = 4
    Workers = {w1, w2}
    MaxRuns = 2
    MaxFailed = 1
    Kinds = {"backfill"}
    Ranges <- OneRange
    Window = 1
    Lookback = 1
    Offered <- EveryBar
    FirstTime = 3
    Faults <- AllFaults
    SharedResume = FALSE
SYMMETRY WorkerSymmetry
INVARIANTS
    InsertedExact
    OutcomeConsistent
PROPERTIES
    SucceededFinal
    FullBackfill
