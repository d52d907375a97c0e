SPECIFICATION FairSpec
CONSTANTS
    u1 = u1
    u2 = u2
    early = early
    late = late
    Uids <- OneUid
    Bindings <- Early
    EarlyBindings <- Early
    MaxVersion = 1
    MaxCloses = 1
    ApiMayFail = FALSE
PROPERTIES
    StopReturns
CHECK_DEADLOCK FALSE
