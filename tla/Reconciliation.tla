--------------------------- MODULE Reconciliation ---------------------------
(***************************************************************************)
(* The matching engine (internal/reconciliation/engine.go) against the     *)
(* tables it shares with the vendor sync and the bank feed.                *)
(*                                                                         *)
(* A run is one call of RunDailyReconciliation: POST /reconcile and every  *)
(* completed AA session start one, so several may be under way, for one    *)
(* merchant or for several.  A run is one READ COMMITTED transaction.  It  *)
(* lists the unmatched vendor rows once, then for each of them looks for a *)
(* free bank row and links the two.  What stands between two runs is not   *)
(* code but the two UNIQUE columns of reconciled_matches: a second INSERT  *)
(* of a key waits for the transaction that holds it, fails if that one     *)
(* commits and goes on if it rolls back, and two that wait for each other  *)
(* are a deadlock of which PostgreSQL cancels one.  A failed statement     *)
(* aborts the transaction; the loop keeps calling it, and COMMIT fails.    *)
(***************************************************************************)
EXTENDS Integers, FiniteSets

CONSTANTS
    VendorRows,   \* the rows vendor_transactions may come to hold
    BankRows,     \* the rows bank_transactions may come to hold
    Runs,         \* the calls of RunDailyReconciliation
    Merchant,
    Owner,        \* the merchant whose integration or bank account a row is under
    RunMerchant,  \* the merchantID a run is called with
    Utr,          \* utr_number of a row
    Amount        \* amount of a row

ASSUME RowsAssumption ==
    /\ VendorRows \cap BankRows = {}
    /\ IsFiniteSet(VendorRows)
    /\ Owner \in [VendorRows \cup BankRows -> Merchant]
    /\ RunMerchant \in [Runs -> Merchant]

VARIABLES
    reconStatus,   \* vendor_transactions.recon_status, "ABSENT" before the row is stored
    bankTxns,      \* the stored rows of bank_transactions
    matches,       \* the committed rows of reconciled_matches
    pc,            \* where a run is
    todo,          \* the rest of unmatchedTxns
    cur,           \* vTxn and bankTxnID of the INSERT under way
    pending,       \* the links a run has made and not committed
    matchedCount,  \* its counter
    result,        \* how the call returned
    reported,      \* the count it returned
    view           \* history: the rows stored when the run listed its work

tables  == <<reconStatus, bankTxns, matches>>
runVars == <<pc, todo, cur, pending, matchedCount, result, reported, view>>
vars    == <<reconStatus, bankTxns, matches,
             pc, todo, cur, pending, matchedCount, result, reported, view>>

Link   == VendorRows \X BankRows
NoLink == <<>>

InTxn  == {"scan", "linkVendor", "linkBank", "aborted"}
PC     == {"idle", "done", "dead"} \cup InTxn
Status == {"ABSENT", "UNMATCHED", "MATCHED"}

-----------------------------------------------------------------------------
(* What the SQL of the engine reads. *)

SameKey(v, b) == Utr[v] = Utr[b] /\ Amount[v] = Amount[b]

VendorLinked(M) == {p[1] : p \in M}
BankLinked(M)   == {p[2] : p \in M}

\* engine.go:23: the unmatched rows of the merchant.  A row whose settlement
\* had no UTR is stored with "", not NULL, and is listed like the others.
Unmatched(m) == {v \in VendorRows : reconStatus[v] = "UNMATCHED" /\ Owner[v] = m}

\* Mutant of Candidates: the amount is not compared.
CandidatesByUtr(r, v) ==
    {b \in bankTxns : Utr[v] = Utr[b] /\ b \notin BankLinked(matches \cup pending[r])}

\* engine.go:56: the bank rows that could settle v, seen by run r, whose
\* statements see what is committed and what r itself has inserted.
Candidates(r, v) ==
    {b \in bankTxns : SameKey(v, b) /\ b \notin BankLinked(matches \cup pending[r])}

-----------------------------------------------------------------------------
(* The two unique indexes of reconciled_matches. *)

\* The keys a transaction has inserted and not yet committed or rolled back.
HoldsVendor(q) ==
    VendorLinked(pending[q]) \cup (IF pc[q] = "linkBank" THEN {cur[q][1]} ELSE {})
HoldsBank(q) == BankLinked(pending[q])

\* Mutant of WaitsFor: bank_transaction_id is not UNIQUE.
WaitsForVendorOnly(r, q) ==
    q # r /\ pc[r] = "linkVendor" /\ cur[r][1] \in HoldsVendor(q)

\* Run r cannot go on before the transaction of q ends.
WaitsFor(r, q) ==
    /\ q # r
    /\ \/ pc[r] = "linkVendor" /\ cur[r][1] \in HoldsVendor(q)
       \/ pc[r] = "linkBank"   /\ cur[r][2] \in HoldsBank(q)

Waits(r) == \E q \in Runs : WaitsFor(r, q)

\* Mutant of Deadlocked: nothing looks for cycles.
NeverDeadlocked(r) == WaitsFor(r, r)

\* r lies on a cycle of waits: it is in every set that holds those it waits
\* for and is closed under waiting.
Deadlocked(r) ==
    \A S \in SUBSET Runs :
        /\ \A q \in Runs : WaitsFor(r, q) => q \in S
        /\ \A p \in S, q \in Runs : WaitsFor(p, q) => q \in S
        => r \in S

-----------------------------------------------------------------------------
Init ==
    /\ reconStatus  = [v \in VendorRows |-> "ABSENT"]
    /\ bankTxns     = {}
    /\ matches      = {}
    /\ pc           = [r \in Runs |-> "idle"]
    /\ todo         = [r \in Runs |-> {}]
    /\ cur          = [r \in Runs |-> NoLink]
    /\ pending      = [r \in Runs |-> {}]
    /\ matchedCount = [r \in Runs |-> 0]
    /\ result       = [r \in Runs |-> "none"]
    /\ reported     = [r \in Runs |-> 0]
    /\ view         = [r \in Runs |-> [vendor |-> {}, bank |-> {}]]

(* The writers of the two tables. *)

\* sync.go:64: a batch of settlements is committed, all of it UNMATCHED.
SyncCommit(S) ==
    /\ S # {}
    /\ \A v \in S : reconStatus[v] = "ABSENT"
    /\ reconStatus' = [v \in VendorRows |-> IF v \in S THEN "UNMATCHED" ELSE reconStatus[v]]
    /\ UNCHANGED <<bankTxns, matches, runVars>>

\* aa_session.go:110: one transaction of the bank is stored by itself.
IngestBank(b) ==
    /\ b \notin bankTxns
    /\ bankTxns' = bankTxns \cup {b}
    /\ UNCHANGED <<reconStatus, matches, runVars>>

(* The steps of a run. *)

\* Lines 16-50: the transaction begins and lists its work.
QueryUnmatched(r) ==
    /\ pc[r] = "idle"
    /\ pc'   = [pc EXCEPT ![r] = "scan"]
    /\ todo' = [todo EXCEPT ![r] = Unmatched(RunMerchant[r])]
    /\ view' = [view EXCEPT ![r] = [vendor |-> Unmatched(RunMerchant[r]), bank |-> bankTxns]]
    /\ UNCHANGED <<tables, cur, pending, matchedCount, result, reported>>

\* Mutant of FindBankTxn: the loop ends at the first row without a match.
FindBankTxnOrBreak(r) ==
    /\ pc[r] = "scan"
    /\ \E v \in todo[r] :
        \/ /\ Candidates(r, v) = {}
           /\ todo' = [todo EXCEPT ![r] = {}]
           /\ UNCHANGED <<pc, cur>>
        \/ \E b \in Candidates(r, v) :
             /\ todo' = [todo EXCEPT ![r] = @ \ {v}]
             /\ cur'  = [cur EXCEPT ![r] = <<v, b>>]
             /\ pc'   = [pc EXCEPT ![r] = "linkVendor"]
    /\ UNCHANGED <<tables, pending, matchedCount, result, reported, view>>

\* Lines 53-66: the next row, in whatever order the list came, and any one of
\* its candidates (LIMIT 1 without ORDER BY); with none the row is passed over.
FindBankTxn(r) ==
    /\ pc[r] = "scan"
    /\ \E v \in todo[r] :
        /\ todo' = [todo EXCEPT ![r] = @ \ {v}]
        /\ \/ /\ Candidates(r, v) = {}
              /\ UNCHANGED <<pc, cur>>
           \/ \E b \in Candidates(r, v) :
                /\ cur' = [cur EXCEPT ![r] = <<v, b>>]
                /\ pc'  = [pc EXCEPT ![r] = "linkVendor"]
    /\ UNCHANGED <<tables, pending, matchedCount, result, reported, view>>

\* A statement of r failed: PostgreSQL drops what the transaction did and its
\* locks.  The counter is a Go variable and keeps its value.
Abort(r) ==
    /\ pc'      = [pc EXCEPT ![r] = "aborted"]
    /\ todo'    = [todo EXCEPT ![r] = {}]
    /\ cur'     = [cur EXCEPT ![r] = NoLink]
    /\ pending' = [pending EXCEPT ![r] = {}]
    /\ UNCHANGED <<tables, matchedCount, result, reported, view>>

\* Line 69, first unique index: vendor_transaction_id.
InsertVendorKey(r) ==
    /\ pc[r] = "linkVendor"
    /\ ~Waits(r)
    /\ \/ cur[r][1] \in VendorLinked(matches) /\ Abort(r)
       \/ /\ cur[r][1] \notin VendorLinked(matches)
          /\ pc' = [pc EXCEPT ![r] = "linkBank"]
          /\ UNCHANGED <<tables, todo, cur, pending, matchedCount, result, reported, view>>

\* Mutant of InsertBankKey: the keys taken by committed links are not checked.
InsertBankKeyUnchecked(r) ==
    /\ pc[r] = "linkBank"
    /\ pc'           = [pc EXCEPT ![r] = "scan"]
    /\ pending'      = [pending EXCEPT ![r] = @ \cup {cur[r]}]
    /\ matchedCount' = [matchedCount EXCEPT ![r] = @ + 1]
    /\ cur'          = [cur EXCEPT ![r] = NoLink]
    /\ UNCHANGED <<tables, todo, result, reported, view>>

\* Mutant of InsertBankKey: the UPDATE does not go through the transaction.
InsertBankKeyStatusOutside(r) ==
    /\ pc[r] = "linkBank"
    /\ ~Waits(r)
    /\ cur[r][2] \notin BankLinked(matches)
    /\ pc'           = [pc EXCEPT ![r] = "scan"]
    /\ reconStatus'  = [reconStatus EXCEPT ![cur[r][1]] = "MATCHED"]
    /\ pending'      = [pending EXCEPT ![r] = @ \cup {cur[r]}]
    /\ matchedCount' = [matchedCount EXCEPT ![r] = @ + 1]
    /\ cur'          = [cur EXCEPT ![r] = NoLink]
    /\ UNCHANGED <<bankTxns, matches, todo, result, reported, view>>

\* Mutant of InsertBankKey: the link is cleared before it is recorded.
InsertBankKeyCleared(r) ==
    /\ pc[r] = "linkBank"
    /\ pc'           = [pc EXCEPT ![r] = "scan"]
    /\ pending'      = [pending EXCEPT ![r] = @ \cup {NoLink}]
    /\ matchedCount' = [matchedCount EXCEPT ![r] = @ + 1]
    /\ cur'          = [cur EXCEPT ![r] = NoLink]
    /\ UNCHANGED <<tables, todo, result, reported, view>>

\* Line 69, second unique index: bank_transaction_id; then lines 79-89, the
\* UPDATE of a row nobody else can be updating, and the counter.
InsertBankKey(r) ==
    /\ pc[r] = "linkBank"
    /\ ~Waits(r)
    /\ \/ cur[r][2] \in BankLinked(matches) /\ Abort(r)
       \/ /\ cur[r][2] \notin BankLinked(matches)
          /\ pc'           = [pc EXCEPT ![r] = "scan"]
          /\ pending'      = [pending EXCEPT ![r] = @ \cup {cur[r]}]
          /\ matchedCount' = [matchedCount EXCEPT ![r] = @ + 1]
          /\ cur'          = [cur EXCEPT ![r] = NoLink]
          /\ UNCHANGED <<tables, todo, result, reported, view>>

\* Mutant of DeadlockVictim: every run of the cycle gives up.
DeadlockVictims(r) ==
    /\ Deadlocked(r)
    /\ pc'      = [q \in Runs |-> IF Deadlocked(q) THEN "aborted" ELSE pc[q]]
    /\ todo'    = [q \in Runs |-> IF Deadlocked(q) THEN {} ELSE todo[q]]
    /\ cur'     = [q \in Runs |-> IF Deadlocked(q) THEN NoLink ELSE cur[q]]
    /\ pending' = [q \in Runs |-> IF Deadlocked(q) THEN {} ELSE pending[q]]
    /\ UNCHANGED <<tables, matchedCount, result, reported, view>>

\* PostgreSQL cancels the INSERT of one run of a cycle.
DeadlockVictim(r) == Deadlocked(r) /\ Abort(r)

\* COMMIT takes effect: links and statuses appear together.
Publish(r) ==
    /\ pc[r] = "scan"
    /\ todo[r] = {}
    /\ matches'     = matches \cup pending[r]
    /\ reconStatus' = [v \in VendorRows |->
                          IF v \in VendorLinked(pending[r]) THEN "MATCHED" ELSE reconStatus[v]]
    /\ pending'     = [pending EXCEPT ![r] = {}]
    /\ pc'          = [pc EXCEPT ![r] = "done"]
    /\ UNCHANGED <<bankTxns, todo, cur, matchedCount, view>>

\* The call returns res and n.
Return(r, res, n) ==
    /\ result'   = [result EXCEPT ![r] = res]
    /\ reported' = [reported EXCEPT ![r] = n]

\* Lines 92-97.
Commit(r) == Publish(r) /\ Return(r, "ok", matchedCount[r])

\* The same, the answer to COMMIT lost with the connection: line 93.
CommitUnacknowledged(r) == Publish(r) /\ Return(r, "error", 0)

\* Mutant of RollBack: without the deferred Rollback the transaction stays open.
RollBackForgotten(r, label) ==
    /\ pc'      = [pc EXCEPT ![r] = label]
    /\ todo'    = [todo EXCEPT ![r] = {}]
    /\ cur'     = [cur EXCEPT ![r] = NoLink]
    /\ UNCHANGED <<tables, pending, matchedCount, view>>

\* Whatever the transaction of r held is rolled back.
RollBack(r, label) ==
    /\ pc'      = [pc EXCEPT ![r] = label]
    /\ todo'    = [todo EXCEPT ![r] = {}]
    /\ cur'     = [cur EXCEPT ![r] = NoLink]
    /\ pending' = [pending EXCEPT ![r] = {}]
    /\ UNCHANGED <<tables, matchedCount, view>>

\* Mutant of CommitFails: the error of COMMIT is not looked at.
CommitErrorIgnored(r) ==
    pc[r] = "aborted" /\ RollBack(r, "done") /\ Return(r, "ok", matchedCount[r])

\* Lines 92-94: COMMIT of an aborted transaction is a rollback, an error in pgx.
CommitFails(r) == pc[r] = "aborted" /\ RollBack(r, "done") /\ Return(r, "error", 0)

\* Lines 17, 31, 93: the connection is refused or lost before COMMIT.
Disconnect(r) ==
    /\ pc[r] \in {"idle"} \cup InTxn
    /\ RollBack(r, "done")
    /\ Return(r, "error", 0)

\* The process stops: no call returns, PostgreSQL rolls everything back.
Crash ==
    /\ \E r \in Runs : pc[r] \in InTxn
    /\ pc'      = [r \in Runs |-> IF pc[r] \in InTxn THEN "dead" ELSE pc[r]]
    /\ todo'    = [r \in Runs |-> {}]
    /\ cur'     = [r \in Runs |-> NoLink]
    /\ pending' = [r \in Runs |-> {}]
    /\ UNCHANGED <<tables, matchedCount, result, reported, view>>

\* Nothing is left to store and every call has ended.
Quiesced ==
    /\ \A v \in VendorRows : reconStatus[v] # "ABSENT"
    /\ bankTxns = BankRows
    /\ \A r \in Runs : pc[r] \in {"done", "dead"}
    /\ UNCHANGED vars

RunStep(r) ==
    \/ QueryUnmatched(r)
    \/ FindBankTxn(r)
    \/ InsertVendorKey(r)
    \/ InsertBankKey(r)
    \/ Commit(r)
    \/ CommitFails(r)

Next ==
    \/ \E S \in SUBSET VendorRows : SyncCommit(S)
    \/ \E b \in BankRows : IngestBank(b)
    \/ \E r \in Runs : RunStep(r)
    \/ \E r \in Runs : DeadlockVictim(r)
    \/ \E r \in Runs : CommitUnacknowledged(r)
    \/ \E r \in Runs : Disconnect(r)
    \/ Crash
    \/ Quiesced

Spec == Init /\ [][Next]_vars

\* A call that has begun keeps being executed, and PostgreSQL ends every cycle
\* of waits.  Nothing says that a row arrives, that a call is made or that a
\* connection breaks.
Fairness ==
    /\ \A r \in Runs : WF_vars(pc[r] # "idle" /\ RunStep(r))
    /\ WF_vars(\E r \in Runs : DeadlockVictim(r))

FairSpec == Spec /\ Fairness

-----------------------------------------------------------------------------
(* What is expected of it. *)

\* Every variable has its type.
TypeOK ==
    /\ reconStatus \in [VendorRows -> Status]
    /\ bankTxns \subseteq BankRows
    /\ matches \subseteq Link
    /\ pc \in [Runs -> PC]
    /\ todo \in [Runs -> SUBSET VendorRows]
    /\ cur \in [Runs -> Link \cup {NoLink}]
    /\ pending \in [Runs -> SUBSET Link]
    /\ matchedCount \in [Runs -> Nat]
    /\ result \in [Runs -> {"none", "ok", "error"}]
    /\ reported \in [Runs -> Nat]
    /\ view \in [Runs -> [vendor : SUBSET VendorRows, bank : SUBSET BankRows]]

L == INSTANCE Ledger WITH
        unsettled <- {v \in VendorRows : reconStatus[v] = "UNMATCHED"},
        free      <- bankTxns \ BankLinked(matches),
        settled   <- matches

\* A bank row pays for one vendor row and a vendor row is paid once, however
\* the runs that found them interleave, fail and are repeated.
LedgerOneToOne == L!OneToOne(matches)

\* recon_status, which the dashboard and the next run read, says MATCHED of
\* exactly the rows that have a link: no run leaves one without the other.
StatusMatchesLedger ==
    \A v \in VendorRows : reconStatus[v] = "MATCHED" <=> v \in VendorLinked(matches)

\* A link is between rows of one merchant.
SettledWithinMerchant == \A p \in matches : Owner[p[1]] = Owner[p[2]]

\* A run that returns without error has settled every row of its list for
\* which a bank row was there to be had: what is left over has no bank row of
\* its key, among those stored when the run began, that is not taken.
Exhaustive ==
    \A r \in Runs : result[r] = "ok" =>
        \A v \in view[r].vendor \ VendorLinked(matches) :
            {b \in view[r].bank : SameKey(v, b)} \subseteq BankLinked(matches)

\* The count a call returns is the number of links that call has added to the
\* table, and a call that returns an error returns 0; the one whose COMMIT was
\* not answered may have added some all the same.
ReportsWhatItDid ==
    [][\A r \in Runs : result'[r] # result[r] =>
          IF result'[r] = "ok"
            THEN /\ pc[r] # "aborted"
                 /\ reported'[r] = Cardinality(matches' \ matches)
            ELSE reported'[r] = 0]_vars

\* Every begun call ends, though runs wait for each other's keys: no cycle of
\* waits lasts, and a waiting run is released by whatever becomes of the other.
RunsEnd == \A r \in Runs : pc[r] \in InTxn ~> pc[r] \in {"done", "dead"}

\* As long as calls are under way, one of them waits for nobody or lies on a cycle
\* of waits, which PostgreSQL breaks: a key is held by an open transaction only.
SomeoneGoesOn ==
    (\E r \in Runs : pc[r] \in InTxn)
    => \E r \in Runs : pc[r] \in InTxn /\ (~Waits(r) \/ Deadlocked(r))

\* The links made and not committed, of all runs, could be committed in any
\* order: their keys are taken neither in the table nor by another run.
Claims ==
    \A r \in Runs :
        /\ pending[r] # {} => pc[r] \in {"scan", "linkVendor", "linkBank"}
        /\ L!OneToOne(pending[r])
        /\ \A p \in pending[r] : SameKey(p[1], p[2])
        /\ \A v \in HoldsVendor(r) : reconStatus[v] = "UNMATCHED"
        /\ \A b \in HoldsBank(r) : b \in bankTxns \ BankLinked(matches)
        /\ \A q \in Runs \ {r} :
              /\ HoldsVendor(r) \cap HoldsVendor(q) = {}
              /\ HoldsBank(r) \cap HoldsBank(q) = {}

\* The engine is an implementation of Ledger.
RefinesLedger == L!Spec
=============================================================================
