SPECIFICATION Spec
CONSTANTS
    MaxChanges = 4
    MaxTunnels = 3
    MaxCrashes = 1
    ApiMayFail = TRUE
INVARIANTS
    TypeOK
    IdHasSecret
    PreparedAtRest
    DeletedLeavesNothing
CHECK_DEADLOCK FALSE
