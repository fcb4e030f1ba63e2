\* Two consents of one merchant.  The choice of a consent does not depend on the
\* columns of aa_data_sessions.
CONSTANTS
    k1 = k1  k2 = k2
    s1 = s1  s2 = s2
    t1 = t1  t2 = t2
    m1 = m1
    Consents          = {k1, k2}
    Sessions          = {s1}
    Txns              = {t1}
    ConsentMerchant   <- MCConsentMerchant
    SessionMerchant   <- MCSessionMerchant
    Origin            <- MCOrigin
    Contents          <- MCContents
    PartialContents   <- MCPartialContents
    HasMerchantColumn = TRUE
    Faults            = {}
    MaxDeliveries     = 1
SPECIFICATION Spec
PROPERTIES
    ChosenIsActive
\* A bounded set of consents and sessions: in the end nothing is left to do.
CHECK_DEADLOCK FALSE
