SPECIFICATION Spec
CONSTANTS
    w1 = w1
    w2 = w2
    t1 = t1
    t2 = t2
    d1 = d1
    d2 = d2
    NoJob = NoJob
    Watchers = {w1}
    Tunnels = {t1}
    TunnelOf <- SameTunnel
    Datas = {d1, d2}
    MaxEvents = 3
    MayFail = FALSE
    IdMayMiss = TRUE
    MaySignal = FALSE
INVARIANTS
    RefusedIsRunning
CHECK_DEADLOCK FALSE
