SPECIFICATION Spec
CONSTANTS
    c1 = c1
    c2 = c2
    s1 = s1
    s2 = s2
    v1 = v1
    v2 = v2
    None = None
    Cms = {c1}
    Sources = {s1, s2}
    Kinds <- BothKinds
    Kind <- OwnKinds
    Vals = {v1, v2}
    MaxChanges = 3
    MaxDeletes = 1
    MaxRev = 7
    ApiMayFail = FALSE
INVARIANTS
    CacheIsSafeToSend
    CacheCatchesUp
PROPERTIES
    RulesFollowSources
    IdStays
CHECK_DEADLOCK FALSE
