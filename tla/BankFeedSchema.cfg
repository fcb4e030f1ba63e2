\* aa_data_sessions as the migration makes it.
CONSTANTS
    k1 = k1  k2 = k2
    s1 = s1  s2 = s2
    t1 = t1  t2 = t2
    m1 = m1
    Consents          = {k1}
    Sessions          = {s1}
    Txns              = {t1}
    ConsentMerchant   <- MCConsentMerchant
    SessionMerchant   <- MCSessionMerchant
    Origin            <- MCOrigin
    Contents          <- MCContents
    PartialContents   <- MCPartialContents
    HasMerchantColumn = FALSE
    Faults            = {}
    MaxDeliveries     = 1
SPECIFICATION FairSpec
PROPERTIES
    PipelineIsReconciled
\* A bounded set of consents and sessions: in the end nothing is left to do.
CHECK_DEADLOCK FALSE
