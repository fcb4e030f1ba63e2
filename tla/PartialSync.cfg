\* One Razorpay call whose requests may fail.
CONSTANTS
    s1 = s1  s2 = s2
    i1 = i1  i2 = i2  i3 = i3  i4 = i4
    c1 = c1  c2 = c2  c3 = c3
    Settlements = {s1, s2}
    Items       = {i1, i2, i3, i4}
    Lines       <- MCLines
    Kind        <- MCKind
    Calls       = {c1}
    Provider    <- MCProvider
    MaxNow      = 0
SPECIFICATION Spec
INVARIANTS
    SuccessIsComplete
