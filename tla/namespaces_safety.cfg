SPECIFICATION FairSpec
CONSTANTS
    n1 = n1
    n2 = n2
    Ns <- OneNs
    MaxChanges = 3
    MaxTerms = 1
    ApiMayFail = TRUE
INVARIANTS
    TypeOK
    OneWatcher
    ServedAtRest
    GoneIsUnwatched
    StoppedIsQuiet
    PanicHasCause
PROPERTIES
    EventsHandled
    StopEnds
CHECK_DEADLOCK FALSE
