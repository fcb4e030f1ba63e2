\* A consent and two sessions, every fault.  aa_data_sessions has the column the Go
\* code needs and migrations/001 lacks, so that the engine is called as well as not:
\* BankFeedSchema.cfg has the table of the migration.
CONSTANTS
    k1 = k1  k2 = k2
    s1 = s1  s2 = s2
    t1 = t1  t2 = t2
    m1 = m1
    Consents          = {k1}
    Sessions          = {s1, s2}
    Txns              = {t1}
    ConsentMerchant   <- MCConsentMerchant
    SessionMerchant   <- MCSessionMerchant
    Origin            <- MCOrigin
    Contents          <- MCContents
    PartialContents   <- MCPartialContents
    HasMerchantColumn = TRUE
    Faults            = {"crash", "lost answer", "failed call"}
    MaxDeliveries     = 1
SPECIFICATION Spec
INVARIANTS
    TypeOK
    TablesFollowSetu
    OneRowPerDelivery
PROPERTIES
    RefinesStatement
\* A bounded set of consents and sessions: in the end nothing is left to do.
CHECK_DEADLOCK FALSE
