------------------------------ MODULE Registry ------------------------------
(***************************************************************************)
(* What the onboarding of merchants promises, whatever requests overlap,   *)
(* fail and are repeated: a merchant is entered once, under a phone number *)
(* and a PAN no other merchant has and for good; a GSTIN belongs to one    *)
(* merchant at a time; and a number is marked as verified only if the      *)
(* verification service has said so of that number.                        *)
(***************************************************************************)
CONSTANTS
    Ids,      \* the ids merchants may get
    PhoneOf,  \* phone number and PAN of the merchant with an id
    PanOf,
    Gstins

VARIABLES
    confirmed,  \* the numbers the service has said are good
    declined,   \* those of which it has said something else
    enrolled,   \* the merchants
    panOk,      \* whose PAN is marked as verified
    gstin,      \* the GSTIN of a merchant
    gstOk       \* whose GSTIN is marked as verified

vars == <<confirmed, declined, enrolled, panOk, gstin, gstOk>>

Init ==
    /\ confirmed = {}
    /\ declined  = {}
    /\ enrolled  = {}
    /\ panOk     = {}
    /\ gstin     = [m \in Ids |-> "none"]
    /\ gstOk     = {}

Attest(number) ==
    /\ \/ confirmed' = confirmed \cup {number} /\ UNCHANGED declined
       \/ declined' = declined \cup {number} /\ UNCHANGED confirmed
    /\ UNCHANGED <<enrolled, panOk, gstin, gstOk>>

Enrol(m) ==
    /\ m \notin enrolled
    /\ \A n \in enrolled : PhoneOf[n] # PhoneOf[m] /\ PanOf[n] # PanOf[m]
    /\ enrolled' = enrolled \cup {m}
    /\ \/ PanOf[m] \in confirmed /\ panOk' = panOk \cup {m}
       \/ PanOf[m] \in declined /\ UNCHANGED panOk
    /\ UNCHANGED <<confirmed, declined, gstin, gstOk>>

SetGst(m, g) ==
    /\ m \in enrolled
    /\ \A n \in enrolled \ {m} : gstin[n] # g
    /\ gstin' = [gstin EXCEPT ![m] = g]
    /\ \/ g \in confirmed /\ gstOk' = gstOk \cup {m}
       \/ g \in declined /\ gstOk' = gstOk \ {m}
    /\ UNCHANGED <<confirmed, declined, enrolled, panOk>>

Next ==
    \/ \E n \in {PanOf[m] : m \in Ids} \cup Gstins : Attest(n)
    \/ \E m \in Ids : Enrol(m)
    \/ \E m \in Ids, g \in Gstins : SetGst(m, g)

Spec == Init /\ [][Next]_vars
=============================================================================
