SPECIFICATION FairSpec
CONSTANTS
    Symbols = {1, 2}
    FirstSymbols = {1}
    Batches = {job, request}
    Bulk = {request}
    MaxTime = 3
    Threshold = 1
    Lookback = 3
    Offered <- EveryBar
    MaxFaults = 1
INVARIANTS
    SucceededCurrent
    CoverageHonest
    FailuresContained
    SummaryDelivered
PROPERTIES
    EventuallyCurrent
