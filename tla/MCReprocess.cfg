SPECIFICATION FairSpec
CONSTANTS
    Callers = {c1, c2}
    Ingesters = {i1}
    Keys = {1, 2}
    MaxCalls = 2
    MaxStamp = 5
    Payloads <- FetchedBars
    FirstRaw <- TwoRows
INVARIANTS
    TypeOK
    CoverageStored
    PayloadsReachable
    RunTellsTruth
PROPERTIES
    ImplementsHistory
    CallsEnd
