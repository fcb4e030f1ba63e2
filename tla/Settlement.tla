----------------------------- MODULE Settlement -----------------------------
(***************************************************************************)
(* The bank feed and the matching engine together: the goroutines of       *)
(* webhooks store the rows the engine settles payouts with, while the      *)
(* vendor sync commits its batches.  The engine is called by POST          *)
(* /reconcile (main.go:344), and by the goroutine of a webhook with a      *)
(* transaction of its own (setu_webhook.go:99), if its session has a       *)
(* merchant: with the tables of migrations/001 none has, and nothing but   *)
(* POST /reconcile starts the engine.                                      *)
(*                                                                         *)
(* The steps are those of BankFeed and of Reconciliation.  A call of the   *)
(* engine has the name of the goroutine or of the request that makes it.   *)
(* The rows of bank_transactions are the copies that `stored` counts: the  *)
(* n-th row of transaction t is <<t, n>>.  Nothing fails here but by the   *)
(* unique keys and the deadlock detector: a failing environment is the     *)
(* business of the two modules by themselves.                              *)
(***************************************************************************)
EXTENDS BankFeed

CONSTANTS
    VendorRows,      \* the rows vendor_transactions may come to hold
    Batches,         \* the batches the vendor sync may commit them in
    Merchant,
    VendorOwner,     \* the merchant whose integration a vendor row is under
    VendorKey,       \* utr_number and amount of a vendor row
    TxnKey,          \* and of a transaction of the bank
    Requests,        \* the calls of POST /reconcile
    RequestMerchant, \* the merchant_id a request names
    MaxGoroutines    \* bound: deliveries of sessions in all

ASSUME SettlementAssumption ==
    /\ Faults = {}
    /\ MaxGoroutines \in Nat
    /\ IsFiniteSet(VendorRows)
    /\ VendorRows \cap (Txns \X (1..MaxGoroutines)) = {}
    /\ Batches \subseteq SUBSET VendorRows
    /\ Merchant # {}
    /\ VendorOwner \in [VendorRows -> Merchant]
    /\ SessionMerchant \in [Sessions -> Merchant]
    /\ IsFiniteSet(Requests)
    /\ Requests \cap Job = {}
    /\ RequestMerchant \in [Requests -> Merchant]

VARIABLES reconStatus, matches, pc, todo, cur, pending, matchedCount, result, reported, view

tableVars  == <<reconStatus, matches>>
runVars    == <<pc, todo, cur, pending, matchedCount, result, reported, view>>
feedVars   == <<consentVars, sessionVars, webhooks, jobVars>>
systemVars == <<feedVars, tableVars, runVars>>

\* What may call the engine: the goroutine of a delivery, or a request.
Calls == Job \cup Requests

Copies(t) == {<<t, n>> : n \in 1..stored[t]}
BankRows  == Txns \X (1..MaxGoroutines)

\* What the engine knows of a row of either table and of a call.  The account of
\* a bank row is any (aa_session.go:89), and the engine does not look at it.
Rows        == VendorRows \cup BankRows
Owner       == [x \in Rows |-> IF x \in VendorRows THEN VendorOwner[x] ELSE CHOOSE m \in Merchant : TRUE]
Utr         == [x \in Rows |-> IF x \in VendorRows THEN VendorKey[x].utr ELSE TxnKey[x[1]].utr]
Amount      == [x \in Rows |-> IF x \in VendorRows THEN VendorKey[x].amount ELSE TxnKey[x[1]].amount]
RunMerchant == [j \in Calls |-> IF j \in Requests THEN RequestMerchant[j]
                                ELSE SessionMerchant[SessionOf(j)]]

Eng == INSTANCE Reconciliation WITH
          Runs     <- Calls,
          bankTxns <- UNION {Copies(t) : t \in Txns}

-----------------------------------------------------------------------------
SystemInit == Init /\ Eng!Init

\* The feed does something that is no concern of the engine's.
FeedStep ==
    /\ \/ \E c \in Consents : SaveConsent(c)
       \/ \E s \in Sessions : CreateDataSession(s) \/ RecordSession(s)
       \/ \E j \in Job : FetchSessionData(j)
    /\ UNCHANGED <<tableVars, runVars>>

\* aa_session.go:106-122: what the goroutine stores, the engine may find.
Store(j) == StoreTxn(j) /\ UNCHANGED <<tableVars, runVars>>

\* setu_webhook.go:92-99: the call of the engine begins, if the session has a
\* merchant.
CallEngine(j) ==
    /\ TriggerReconciliation(j)
    /\ IF MerchantColumn(SessionOf(j)) # None
         THEN Eng!QueryUnmatched(j)
         ELSE UNCHANGED <<tableVars, runVars>>

\* main.go:331-353: POST /reconcile calls the engine for the merchant it names.
Reconcile(q) == UNCHANGED feedVars /\ Eng!QueryUnmatched(q)

\* engine.go:53-97.
EngineStep(j) ==
    /\ pc[j] # "idle"
    /\ UNCHANGED feedVars
    /\ Eng!RunStep(j)

\* Mutant of EngineDeadlock: every run of the cycle is cancelled.
EngineDeadlocks(j) == UNCHANGED feedVars /\ Eng!DeadlockVictims(j)

\* deadlock_timeout: PostgreSQL ends a cycle of waits.
EngineDeadlock(j) == UNCHANGED feedVars /\ Eng!DeadlockVictim(j)

\* sync.go:64.
VendorBatch(S) == UNCHANGED feedVars /\ Eng!SyncCommit(S)

Goroutine(j) == Store(j) \/ CallEngine(j)

Webhook == Delivery /\ UNCHANGED <<tableVars, runVars>>

\* What nobody is obliged to do.  The merchant approves and does not take it
\* back: a session that is open is not affected by that.
Outside ==
    /\ \/ \E c \in Consents : InitiateConsent(c) \/ Approve(c)
       \/ \E s \in Sessions : ChooseConsent(s)
       \/ \E s \in Sessions, to \in {"PARTIAL", "COMPLETED", "FAILED"} : Collect(s, to)
    /\ Cardinality({j \in Job : job[j] # "idle" \/ webhooks'[j[1]] >= j[2]}) <= MaxGoroutines
    /\ UNCHANGED <<tableVars, runVars>>

Process ==
    \/ FeedStep
    \/ \E j \in Job : Goroutine(j)
    \/ \E j \in Calls : EngineStep(j) \/ EngineDeadlock(j)

SystemNext ==
    \/ Process
    \/ Webhook
    \/ Outside
    \/ \E q \in Requests : Reconcile(q)
    \/ \E S \in Batches : VendorBatch(S)

\* As in BankFeed and Reconciliation: what has begun goes on, cycles of waits are
\* broken and what is announced is delivered; nobody has to call POST /reconcile.
\* There are finitely many such steps, so none of them can be starved by the
\* others.
SystemFairness == WF_systemVars(Process \/ Webhook)

SystemSpec == SystemInit /\ [][SystemNext]_systemVars /\ SystemFairness

-----------------------------------------------------------------------------
\* Whatever calls of the engine are made, a time comes when each has ended, and
\* the payouts it listed are settled if goroutines had stored rows of their key
\* by then.  What can keep a payout from being so is that those rows all pay for
\* other payouts, or that the call failed because another one committed links:
\* then its work is undone and waits for the next call.
CallsSettle ==
    []<>(\A c \in Calls : pc[c] # "idle" =>
            \/ /\ result[c] = "ok"
               /\ \A v \in view[c].vendor, t \in Txns :
                     VendorKey[v] = TxnKey[t] /\ Copies(t) \cap view[c].bank # {} =>
                         \/ reconStatus[v] = "MATCHED"
                         \/ Copies(t) \cap view[c].bank \subseteq Eng!BankLinked(matches)
            \/ /\ result[c] = "error"
               /\ \E d \in Calls : result[d] = "ok" /\ reported[d] > 0)

\* Calls of the engine fail each other, by a unique key or by a deadlock, but the
\* work is never all undone: when none is under way and one has failed, another
\* has committed links.
FailureHasAWinner ==
    /\ \A j \in Calls : pc[j] \in {"idle", "done"}
    /\ \E j \in Calls : result[j] = "error"
    => \E j \in Calls : result[j] = "ok" /\ reported[j] > 0

\* Every payout that is settled is settled by money the bank has reported: by a
\* transaction of its UTR and amount that is in what Setu offers of a session.
PaidByTheBank ==
    \A p \in matches :
        /\ VendorKey[p[1]].utr = TxnKey[p[2][1]].utr
        /\ VendorKey[p[1]].amount = TxnKey[p[2][1]].amount
        /\ \E s \in Sessions : p[2][1] \in Offered(s)

\* One transaction of the bank may settle several payouts of its key, since it is
\* stored again by every delivery, but never more than the goroutines that found
\* it in their sessions.
SpentPerDelivery ==
    \A t \in Txns :
        Cardinality({p \in matches : p[2][1] = t})
            <= Cardinality({j \in Job : job[j] # "idle" /\ t \in Contents[SessionOf(j)]})
=============================================================================
