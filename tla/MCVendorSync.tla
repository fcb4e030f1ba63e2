---------------------------- MODULE MCVendorSync ----------------------------
(* The values the .cfg files give to VendorSync. *)
EXTENDS VendorSync, TLC

CONSTANTS s1, s2, i1, i2, i3, i4, c1, c2, c3

\* Two settlements; i1 and i3 are payments, i2 a fee and i4 a refund.
MCLines == (s1 :> <<i1, i2>>) @@ (s2 :> <<i3, i4>>)
MCKind  == (i1 :> "payment") @@ (i2 :> "fee") @@ (i3 :> "payment") @@ (i4 :> "refund")

MCProvider == [c \in Calls |-> IF c = c3 THEN "PhonePe" ELSE "Razorpay"]
=============================================================================
