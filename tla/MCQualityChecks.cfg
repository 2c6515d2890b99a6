SPECIFICATION Spec
CONSTANTS
    DayLength = 6
    Step = 2
    Instants <- SomeInstants
    Closes = {10, 13}
    Requests <- SomeRequests
    MaxEntries = 3
    Threshold = 25
INVARIANTS
    NormalizedOnce
    DaysAccounted
    SlotsAccounted
    JumpsChronological
