\* Five days, one of 25 hours and one of 23; a restart and a trigger.
CONSTANTS
    HOUR         = 2
    LastDay      = 4
    Midnight     <- MCMidnight
    TwoOClock    <- MCTwoOClock
    Oversleep    = 2
    Merchants    = {"m1"}
    ConsentFrom  <- MCConsentFrom
    ConsentUntil <- MCConsentUntil
    MaxTriggers  = 1
    MaxCrashes   = 1
SPECIFICATION Spec
INVARIANTS
    TypeOK
    NoDayIsSkipped
    TwiceOnlyAtALongDay
    WindowIsTheDay
\* The calendar ends.
CHECK_DEADLOCK FALSE
