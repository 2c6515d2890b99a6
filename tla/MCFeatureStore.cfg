SPECIFICATION FairSpec
CONSTANTS
    Processes = {1, 2}
    Symbols = {1, 2}
    MaxTime = 3
    Cells = {0, 1, 2}
    None = none
    FirstBars <- FewBars
    Registry <- SmallRegistry
    File <- Files
    Requests <- FewRequests
    Changes <- FewChanges
    MaxCalls = 2
    MaxStarts = 3
    MaxChanges = 1
    MaxRows = 5
INVARIANTS
    SeededServes
    ValuesUsable
    LookbackExact
    NoLookAhead
    BadPricesReset
PROPERTIES
    AnswerTrue
    RecomputeRefreshes
    RequestsEnd
