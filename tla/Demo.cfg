\* Two calls of the seeders and one of the dashboard.
CONSTANTS
    b1 = b1  b2 = b2  b3 = b3
    BankRows    = {b1, b2, b3}
    Utr        <- MCUtr
    LastSix    <- MCLastSix
    Seeds       = {"s1", "s2"}
    Limit       = 2
    Numbers     = {1}
    PendingRows = 1
SPECIFICATION Spec
INVARIANTS
    TypeOK
    DashboardIsExplained
    
\* In the end nothing is left to do.
CHECK_DEADLOCK FALSE
