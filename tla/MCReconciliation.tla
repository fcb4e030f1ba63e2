-------------------------- MODULE MCReconciliation --------------------------
(* The values the .cfg files give to Reconciliation. *)
EXTENDS Reconciliation, TLC

CONSTANTS v1, v2, v3, b1, b2, b3, r1, r2, r3, m1, m2

AllRows == {v1, v2, v3, b1, b2, b3}

\* One settlement, hence one UTR, of two payments: b1 settles v1 or v3; b2 and
\* b3, which settle v2, are one transaction of the bank stored twice.
OneUtr     == [x \in AllRows |-> "U1"]
TwoAmounts == [x \in AllRows |-> IF x \in {v1, v3, b1} THEN 250 ELSE 500]

OneOwner      == [x \in VendorRows \cup BankRows |-> m1]
TwoMerchants  == [x \in AllRows |-> IF x = v3 THEN m2 ELSE m1]
MCOwner       == [x \in VendorRows \cup BankRows |-> TwoMerchants[x]]
AllRuns       == (r1 :> m1) @@ (r2 :> m1) @@ (r3 :> m2)
MCRunMerchant == [r \in Runs |-> AllRuns[r]]
=============================================================================
