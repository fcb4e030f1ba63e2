\* A consent and a session of POST /data/fetch that is announced as PARTIAL, as
\* COMPLETED or as both, and two calls of POST /reconcile.  aa_data_sessions is as
\* migrations/001 makes it: what goroutines store waits for POST /reconcile.
CONSTANTS
    k1 = k1
    s1 = s1
    t1 = t1
    v1 = v1  v2 = v2
    m1 = m1
    q1 = q1  q2 = q2
    Consents          = {k1}
    Sessions          = {s1}
    Txns              = {t1}
    ConsentMerchant   <- MCConsentMerchant
    SessionMerchant   <- MCSessionMerchant
    Origin            <- MCOrigin
    Contents          <- MCContents
    PartialContents   <- MCPartialContents
    HasMerchantColumn = FALSE
    Faults            = {}
    MaxDeliveries     = 1
    VendorRows        = {v1, v2}
    Batches           <- MCBatches
    Merchant          = {m1}
    VendorOwner       <- MCVendorOwner
    VendorKey         <- MCVendorKey
    TxnKey            <- MCTxnKey
    Requests          = {q1, q2}
    RequestMerchant   <- MCRequestMerchant
    MaxGoroutines     = 2
SPECIFICATION SystemSpec
INVARIANTS
    FailureHasAWinner
    PaidByTheBank
    SpentPerDelivery
PROPERTIES
    CallsSettle
    AnnouncedIsStored
    ApprovedBecomesActive
\* A bounded set of consents and sessions: in the end nothing is left to do.
CHECK_DEADLOCK FALSE
