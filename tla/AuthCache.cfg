\* Two calls; a token lives shorter than a login and a request may take, or as
\* long as is assumed of one whose life is not stated.
CONSTANTS
    Callers      = {c1, c2}
    Free         = Free
    Lives        = {2, 6}
    DefaultLife  = 6
    Grace        = 2
    LoginTimeout = 2
    Reach        = 2
    MaxClock     = 8
SPECIFICATION FairSpec
INVARIANTS
    TypeOK
    RejectedOnlyIfShortLived
    LoginIsNeeded
PROPERTIES
    CallsEnd
