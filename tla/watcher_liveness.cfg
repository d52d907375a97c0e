SPECIFICATION FairSpec
CONSTANTS
    u1 = u1
    u2 = u2
    early = early
    late = late
    Uids <- TwoUids
    Bindings <- Early
    EarlyBindings <- Early
    MaxVersion = 1
    MaxCloses = 2
    ApiMayFail = TRUE
PROPERTIES
    EventuallyTold
    StopReturnsUnlessRewatching
CHECK_DEADLOCK FALSE
