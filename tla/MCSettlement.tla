---------------------------- MODULE MCSettlement ----------------------------
(* The values the .cfg file gives to Settlement. *)
EXTENDS Settlement

CONSTANTS k1, s1, t1, v1, v2, m1, q1, q2

MCOrigin          == [s \in Sessions |-> "fetch"]
MCConsentMerchant == [c \in Consents |-> m1]
MCSessionMerchant == [s \in Sessions |-> m1]
MCRequestMerchant == [q \in Requests |-> m1]

\* Setu has t1 by the time a session is PARTIAL, so that it is stored again when the
\* session is COMPLETED.
MCContents        == [s \in Sessions |-> Txns]
MCPartialContents == [s \in Sessions |-> Txns]

\* One settlement of two payments of the key of t1: t1 pays for both if it is stored
\* twice, and for one of them if it is not.
MCBatches     == {VendorRows}
MCVendorOwner == [v \in VendorRows |-> m1]
MCVendorKey   == [v \in VendorRows |-> [utr |-> "U1", amount |-> 250]]
MCTxnKey      == [t \in Txns |-> [utr |-> "U1", amount |-> 250]]
=============================================================================
