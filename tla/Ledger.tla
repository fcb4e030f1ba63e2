------------------------------- MODULE Ledger -------------------------------
(***************************************************************************)
(* What the reconciliation engine promises, without its transactions,      *)
(* locks, stale lists and failures.  Vendor rows wait to be settled, bank  *)
(* rows are free to settle one of them, and a settlement is a link between *)
(* one of each: made once, for rows whose UTR and amount agree, and never  *)
(* undone.  README.md:35 calls it "an immutable link between the vendor    *)
(* record and the bank record".  Reconciliation implements this module.    *)
(***************************************************************************)
CONSTANTS
    VendorRows,   \* every row vendor_transactions may hold
    BankRows,     \* every row bank_transactions may hold
    Utr,          \* Utr[x]: the utr_number of row x
    Amount        \* Amount[x]: the amount of row x

VARIABLES
    unsettled,    \* vendor rows waiting for their money
    free,         \* bank rows that settle nothing yet
    settled       \* the links <<vendor row, bank row>>

vars == <<unsettled, free, settled>>

SameKey(v, b) == Utr[v] = Utr[b] /\ Amount[v] = Amount[b]

OneToOne(M) ==
    \A p, q \in M : p[1] = q[1] \/ p[2] = q[2] => p = q

Init == unsettled = {} /\ free = {} /\ settled = {}

\* New vendor rows: none of them was ever waiting or settled.
Expect(S) ==
    /\ \A v \in S : v \notin unsettled /\ \A p \in settled : p[1] # v
    /\ unsettled' = unsettled \cup S
    /\ UNCHANGED <<free, settled>>

\* A new bank row.
Receive(b) ==
    /\ b \notin free
    /\ \A p \in settled : p[2] # b
    /\ free' = free \cup {b}
    /\ UNCHANGED <<unsettled, settled>>

\* All the links of one run of the engine appear together.
Settle(M) ==
    /\ OneToOne(M)
    /\ \A p \in M : SameKey(p[1], p[2])
    /\ settled' = settled \cup M
    /\ unsettled' = {v \in unsettled : \A p \in M : p[1] # v}
    /\ free' = {b \in free : \A p \in M : p[2] # b}

Next ==
    \/ \E S \in SUBSET VendorRows : Expect(S)
    \/ \E b \in BankRows : Receive(b)
    \/ \E M \in SUBSET (unsettled \X free) : Settle(M)

Spec == Init /\ [][Next]_vars
=============================================================================
