-------------------------------- MODULE Demo --------------------------------
(***************************************************************************)
(* The demonstration: the seeders (internal/demo/seeder.go), which make    *)
(* vendor rows for bank rows that are still free, and the dashboard        *)
(* (internal/demo/dashboard.go), which reads the table of vendor rows      *)
(* twice, while the engine settles what it can.                            *)
(*                                                                         *)
(* A seeder reads the bank rows first and writes its rows later, one by    *)
(* one, each a transaction.  The dashboard adds up the rows by status and  *)
(* then lists those that are UNMATCHED, and has two snapshots of a table   *)
(* that changes in between.  The engine settles any set of pairs at once:  *)
(* that this is what a run of it amounts to is the theorem Refinement of   *)
(* ReconciliationProofs.                                                   *)
(***************************************************************************)
EXTENDS Naturals, FiniteSets

CONSTANTS
    BankRows,    \* CREDIT rows of the merchant's accounts
    Utr,         \* utr_number, and amount, of a row; one stored twice has it twice
    LastSix,     \* its last six characters, "short" if there are not so many
    Seeds,       \* calls of the seeders
    Limit,       \* LIMIT 10
    Numbers,     \* what rand.Intn may give for a pending row
    PendingRows  \* how many of these a seeder makes, 3

Utrs == {Utr[b] : b \in BankRows}
NoUtr == "pending"  \* stands for any PENDING_UTR_%d

ASSUME DemoAssumption ==
    /\ NoUtr \notin Utrs
    /\ Limit \in Nat /\ PendingRows \in Nat
    /\ IsFiniteSet(BankRows) /\ IsFiniteSet(Numbers)

Prefixes == {"pay", "pp"}
Ids == (Prefixes \X {"demo"} \X {LastSix[u] : u \in Utrs})
         \cup (Prefixes \X {"pending"} \X Numbers)

VARIABLES
    bank,     \* the stored bank rows
    utrOf,    \* the vendor rows under the integration, and the utr_number of each
    settled,  \* the links of vendor rows and bank rows
    step,     \* where a seeder is
    left,     \* the rest of its vendorTxns: id and utr_number
    dash,     \* where the dashboard is
    totals,   \* the rows it has counted as settled and as pending
    listed,   \* pendingTxns
    cut       \* history: the list ended at an error

tableVars == <<bank, utrOf, settled>>
seedVars  == <<step, left>>
dashVars  == <<dash, totals, listed, cut>>
vars      == <<bank, utrOf, settled, step, left, dash, totals, listed, cut>>

Stored    == DOMAIN utrOf
Matched   == {p[1] : p \in settled}
Unmatched == Stored \ Matched
Free      == bank \ {p[2] : p \in settled}

-----------------------------------------------------------------------------
Init ==
    /\ bank    = {}
    /\ utrOf   = <<>>
    /\ settled = {}
    /\ step    = [s \in Seeds |-> "idle"]
    /\ left    = [s \in Seeds |-> {}]
    /\ dash    = "idle"
    /\ totals  = [settled |-> {}, pending |-> {}]
    /\ listed  = {}
    /\ cut     = FALSE

\* aa_session.go:110.
IngestBank(b) ==
    /\ b \notin bank
    /\ bank' = bank \cup {b}
    /\ UNCHANGED <<utrOf, settled, seedVars, dashVars>>

\* Pairs a run of the engine may link.
OneToOne(S) == \A p, q \in S : p[1] = q[1] \/ p[2] = q[2] => p = q
Linkable    == {p \in Unmatched \X Free : utrOf[p[1]] = Utr[p[2]]}

Reconcile ==
    /\ \E S \in SUBSET Linkable :
          S # {} /\ OneToOne(S) /\ settled' = settled \cup S
    /\ UNCHANGED <<bank, utrOf, seedVars, dashVars>>

(* The seeders. *)

\* Mutant of DemoId: the id is made of the call, like those of the PhonePe mock.
DemoIdOfCall(s, prefix, u) == <<prefix, "demo", s>>

\* seeder.go:49, 129.
DemoId(s, prefix, u) == <<prefix, "demo", LastSix[u]>>

\* seeder.go:21-74: some of the free rows, the whole list or what came before an
\* error, and the pending rows.  Nothing is done if one has no UTR of six
\* characters, as the slice at line 49 panics, or, for Razorpay, if there is none.
Pick(s, prefix) ==
    /\ step[s] = "idle"
    /\ \/ \E S \in SUBSET Free, N \in SUBSET Numbers :
            /\ prefix = "pay" => S # {}
            /\ Cardinality(S) <= Limit
            /\ N # {} /\ Cardinality(N) <= PendingRows
            /\ \A b \in S : LastSix[Utr[b]] # "short"
            /\ left' = [left EXCEPT ![s] =
                           {<<DemoId(s, prefix, Utr[b]), Utr[b]>> : b \in S}
                             \cup {<<<<prefix, "pending", n>>, NoUtr>> : n \in N}]
            /\ step' = [step EXCEPT ![s] = "insert"]
       \/ /\ step' = [step EXCEPT ![s] = "error"]
          /\ UNCHANGED left
    /\ UNCHANGED <<tableVars, dashVars>>

\* seeder.go:17, called by POST /demo/seed, and seeder.go:97, called by no route.
SeedMockRazorpayData(s) == Pick(s, "pay")
SeedMockPhonePeData(s)  == Pick(s, "pp")

\* seeder.go:78-90: the next row is stored, unless its id is taken; a statement
\* that fails is passed over.
InsertMock(s) ==
    /\ step[s] = "insert"
    /\ \E x \in left[s] :
        /\ left' = [left EXCEPT ![s] = @ \ {x}]
        /\ \/ /\ x[1] \notin Stored
              /\ utrOf' = [i \in Stored \cup {x[1]} |-> IF i = x[1] THEN x[2] ELSE utrOf[i]]
           \/ UNCHANGED utrOf
    /\ UNCHANGED <<bank, settled, step, dashVars>>

\* seeder.go:92.
SeedDone(s) ==
    /\ step[s] = "insert"
    /\ left[s] = {}
    /\ step' = [step EXCEPT ![s] = "ok"]
    /\ UNCHANGED <<tableVars, left, dashVars>>

(* The dashboard. *)

\* dashboard.go:32-40.
Aggregate ==
    /\ dash = "idle"
    /\ dash'   = "totals"
    /\ totals' = [settled |-> Matched, pending |-> Unmatched]
    /\ UNCHANGED <<tableVars, seedVars, listed, cut>>

\* dashboard.go:47-82.  rows.Next ends at an error as at the end, and no one asks
\* which it was.
ListPending ==
    /\ dash = "totals"
    /\ dash' = "done"
    /\ \/ listed' = Unmatched /\ UNCHANGED cut
       \/ listed' \in SUBSET Unmatched /\ cut' = TRUE
    /\ UNCHANGED <<tableVars, seedVars, totals>>

\* Mutant of GetReconciliationDashboard: the list is read first.
ListBeforeTotals ==
    \/ /\ dash = "idle"
       /\ dash'   = "listed"
       /\ listed' = Unmatched
       /\ UNCHANGED <<tableVars, seedVars, totals, cut>>
    \/ /\ dash = "listed"
       /\ dash'   = "done"
       /\ totals' = [settled |-> Matched, pending |-> Unmatched]
       /\ UNCHANGED <<tableVars, seedVars, listed, cut>>

\* dashboard.go:20.
GetReconciliationDashboard == Aggregate \/ ListPending

Next ==
    \/ \E b \in BankRows : IngestBank(b)
    \/ Reconcile
    \/ \E s \in Seeds : SeedMockRazorpayData(s) \/ SeedMockPhonePeData(s)
    \/ \E s \in Seeds : InsertMock(s) \/ SeedDone(s)
    \/ GetReconciliationDashboard

Spec == Init /\ [][Next]_vars

-----------------------------------------------------------------------------
\* Every variable has its type.
TypeOK ==
    /\ bank \subseteq BankRows
    /\ Stored \subseteq Ids
    /\ \A i \in Stored : utrOf[i] \in Utrs \cup {NoUtr}
    /\ settled \subseteq Stored \X bank
    /\ step \in [Seeds -> {"idle", "insert", "ok", "error"}]
    /\ left \in [Seeds -> SUBSET (Ids \X (Utrs \cup {NoUtr}))]
    /\ dash \in {"idle", "totals", "done"}
    /\ totals \in [settled : SUBSET Ids, pending : SUBSET Ids]
    /\ listed \subseteq Ids
    /\ cut \in BOOLEAN

\* What the dashboard shows can be explained by an engine that settles rows while
\* it reads, and by nothing else: no row is both counted as settled and listed as
\* pending, and one that is counted as pending and missing in the list has been
\* settled, unless the list ended at an error.
DashboardIsExplained ==
    dash = "done" =>
        /\ totals.settled \cap listed = {}
        /\ ~cut => totals.pending \ listed \subseteq Matched

\* A row that a seeder made for a bank row can still be settled, though the bank
\* row was read long before, the seeder has been called twice and the engine has
\* run in between: what may have taken its bank row is a row of the other seeder.
SeededCanSettle ==
    \A i \in Unmatched : utrOf[i] # NoUtr =>
        \/ \E b \in Free : Utr[b] = utrOf[i]
        \/ \E j \in Matched : utrOf[j] = utrOf[i] /\ j[1] # i[1]
=============================================================================
