SPECIFICATION Spec
CONSTANTS
    w1 = w1
    w2 = w2
    t1 = t1
    t2 = t2
    d1 = d1
    d2 = d2
    NoJob = NoJob
    Watchers = {w1, w2}
    Tunnels = {t1}
    TunnelOf <- SameTunnel
    Datas = {d1, d2}
    MaxEvents = 2
    MayFail = TRUE
    IdMayMiss = TRUE
    MaySignal = TRUE
INVARIANTS
    TypeOK
    NoStrays
    InterruptStopsAll
    LeftoversExplained
PROPERTIES
    KeepsServing
    DiesOfASecondStop
SYMMETRY DataSymmetry
CHECK_DEADLOCK FALSE
