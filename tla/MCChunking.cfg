SPECIFICATION Spec
CONSTANTS
    Timeframes = {"1d"}
    MaxTime = 1
    Instants <- SomeInstants
    Windows <- SomeWindows
INVARIANTS
    LoopInvariant
    CoversRange
