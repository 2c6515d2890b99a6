SPECIFICATION Spec
CONSTANTS
    Timeframes = {"1d"}
    MaxTime = 3
    Workers = {w1, w2}
    MaxRuns = 2
    MaxFailed = 1
    Kinds <- BothKinds
    Ranges <- OneRange
    Window = 1
    Lookback = 1
    Offered <- EveryBar
    FirstTime = 2
    Faults = {"crash"}
    SharedResume = TRUE
SYMMETRY WorkerSymmetry
INVARIANTS
    TypeOK
    RawRowsStored
    CoverageStored
    InsertedNeverOverstated
PROPERTY
    ImplementsArchive
