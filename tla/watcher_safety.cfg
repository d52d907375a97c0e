SPECIFICATION Spec
CONSTANTS
    u1 = u1
    u2 = u2
    early = early
    late = late
    Uids <- OneUid
    Bindings <- Both
    EarlyBindings <- Early
    MaxVersion = 3
    MaxCloses = 2
    ApiMayFail = TRUE
INVARIANTS
    TypeOK
    SyncInv
    MirrorsLive
    ExactUntilRestart
    EarlyToldLive
    LateToldLive
PROPERTIES
    ImplementsMirror
CHECK_DEADLOCK FALSE
