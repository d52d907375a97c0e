SPECIFICATION Spec
CONSTANTS
    n1 = n1
    n2 = n2
    Ns <- OneNs
    MaxChanges = 2
    MaxTerms = 1
    ApiMayFail = FALSE
INVARIANTS
    FollowerIsInactive
CHECK_DEADLOCK FALSE
