\* Two Razorpay calls and a PhonePe call under one integration.
CONSTANTS
    s1 = s1  s2 = s2
    i1 = i1  i2 = i2  i3 = i3  i4 = i4
    c1 = c1  c2 = c2  c3 = c3
    Settlements = {s1, s2}
    Items       = {i1, i2, i3, i4}
    Lines       <- MCLines
    Kind        <- MCKind
    Calls       = {c1, c2, c3}
    Provider    <- MCProvider
    MaxNow      = 1
SPECIFICATION FairSpec
INVARIANTS
    TypeOK
    SuccessIsStored
    KeysHeldOnce
    SomeoneInserts
PROPERTIES
    CallsEnd
