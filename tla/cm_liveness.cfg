SPECIFICATION FairSpec
CONSTANTS
    c1 = c1
    c2 = c2
    s1 = s1
    s2 = s2
    v1 = v1
    v2 = v2
    None = None
    Cms = {c1}
    Sources = {s1, s2}
    Kinds <- BothKinds
    Kind <- SameKind
    Vals = {v1}
    MaxChanges = 3
    MaxDeletes = 0
    MaxRev = 8
    ApiMayFail = TRUE
INVARIANTS
    TypeOK
PROPERTIES
    KindsTakeTurns
    EventuallyPrepared
    UpsertsEnd
CHECK_DEADLOCK FALSE
