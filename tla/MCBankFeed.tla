----------------------------- MODULE MCBankFeed -----------------------------
(* The values the .cfg files give to BankFeed. *)
EXTENDS BankFeed, TLC

CONSTANTS k1, k2, s1, s2, t1, t2, m1

\* s1 is the pipeline's session of a day, s2 the whole range of the consent.
MCOrigin          == [s \in Sessions |-> IF s = s1 THEN "pipeline" ELSE "fetch"]
MCConsentMerchant == [c \in Consents |-> m1]
MCSessionMerchant == [s \in Sessions |-> m1]
MCContents        == [s \in Sessions |-> Txns]
MCPartialContents == [s \in Sessions |-> IF s = s1 THEN {t1} ELSE {}]
=============================================================================
