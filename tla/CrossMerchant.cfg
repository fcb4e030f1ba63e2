\* Two merchants whose bank rows are all under one of them.
CONSTANTS
    v1 = v1  v2 = v2  v3 = v3
    b1 = b1  b2 = b2  b3 = b3
    r1 = r1  r2 = r2  r3 = r3
    m1 = m1  m2 = m2
    VendorRows  = {v1, v2, v3}
    BankRows    = {b1, b2, b3}
    Runs        = {r1, r3}
    Merchant    = {m1, m2}
    Owner       <- MCOwner
    RunMerchant <- MCRunMerchant
    Utr         <- OneUtr
    Amount      <- TwoAmounts
SPECIFICATION Spec
INVARIANTS
    SettledWithinMerchant
