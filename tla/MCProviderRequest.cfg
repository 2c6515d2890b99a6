SPECIFICATION Spec
CONSTANTS
    LastTime = 6
    Published <- EverySecond
    Second = 2
    Limits <- SomeLimits
    PageSize = 1
    MaxPages = 3
    MaxAttempts = 3
    BaseDelay = 10
    MaxDelay = 15
    RetryAfters <- SomeRetryAfters
INVARIANTS
    SleepBounded
    OutageTolerated
PROPERTIES
    ImplementsAnswer
