-------------------------- MODULE SettlementProofs --------------------------
(***************************************************************************)
(* Feed and engine together, for any consents, sessions, transactions,     *)
(* payouts and deliveries: the system is a feed and it is an engine, so    *)
(* what BankFeedProofs and ReconciliationProofs show of each holds of the  *)
(* system, and a call of the engine fails only for one that has committed  *)
(* links.  It holds whether aa_data_sessions has a merchant_id, so that    *)
(* goroutines call the engine, or not, so that POST /reconcile alone does. *)
(*                                                                         *)
(* The feed's steps are those of BankFeed as they stand.  To the engine a  *)
(* stored transaction is a row that was not there, of which there is room  *)
(* for as many as there are goroutines (RoomOk): that is what joins the    *)
(* feed's bound on rows to the engine's set of rows.                       *)
(***************************************************************************)
EXTENDS Settlement, BankFeedProofs

EngP == INSTANCE ReconciliationProofs WITH
          Runs     <- Calls,
          bankTxns <- UNION {Copies(t) : t \in Txns}

\* The deliveries of sessions that were made or are to come; each starts at most
\* one goroutine.
Started == {j \in Job : job[j] # "idle" \/ webhooks[j[1]] >= j[2]}

RoomOk == Cardinality(Started) <= MaxGoroutines

\* What the engine's theorems take for granted of its rows.
LEMMA RowsHold ==
  /\ VendorRows \cap BankRows = {}
  /\ EngP!IsFiniteSet(VendorRows)
  /\ Owner \in [VendorRows \cup BankRows -> Merchant]
  /\ RunMerchant \in [Calls -> Merchant]
  <1>1. /\ VendorRows \cap (Txns \X (1..MaxGoroutines)) = {}
        /\ IsFiniteSet(VendorRows)
        /\ Merchant # {}
        /\ VendorOwner \in [VendorRows -> Merchant]
        /\ SessionMerchant \in [Sessions -> Merchant]
    BY SettlementAssumption, Zenon
  <1>2. Owner \in [VendorRows \cup BankRows -> Merchant]
    BY <1>1 DEF Owner, Rows
  <1>3. EngP!IsFiniteSet(VendorRows)
    BY <1>1, Zenon DEF IsFiniteSet, EngP!IsFiniteSet
  <1>4. \A j \in Job : SessionOf(j) \in Sessions
    BY DEF Job, SessionMsg, SessionOf
  <1>5. RequestMerchant \in [Requests -> Merchant]
    BY SettlementAssumption, Zenon
  <1> QED
    BY <1>1, <1>2, <1>3, <1>4, <1>5 DEF BankRows, RunMerchant, Calls

-----------------------------------------------------------------------------
(* The system is a feed. *)

LEMMA InitFeed == SystemInit => Init
  BY DEF SystemInit

\* A step of the system is a step of the feed, or leaves the feed alone.
LEMMA StepFeed == [SystemNext]_systemVars => [Next]_vars
  <1> SUFFICES ASSUME [SystemNext]_systemVars
               PROVE  [Next]_vars
    OBVIOUS
  <1>2. CASE FeedStep
    BY <1>2 DEF FeedStep, Next, Server
  <1>3. ASSUME NEW j \in Job, Store(j)
        PROVE  Next
    BY <1>3 DEF Store, Next, Server
  <1>4. ASSUME NEW j \in Job, CallEngine(j)
        PROVE  Next
    BY <1>4 DEF CallEngine, Next, Server
  <1>5. CASE UNCHANGED feedVars
    BY <1>5 DEF feedVars, vars, consentVars, sessionVars, jobVars
  <1>6. CASE Webhook
    BY <1>6 DEF Webhook, Next
  <1>7. CASE Outside
    BY <1>7 DEF Outside, Next
  <1>8. CASE UNCHANGED systemVars
    BY <1>8, <1>5 DEF systemVars
  <1> QED
    BY <1>2, <1>3, <1>4, <1>5, <1>6, <1>7, <1>8
    DEF SystemNext, Process, Goroutine, EngineStep, EngineDeadlock, Reconcile, VendorBatch

\* The composed system behaves, to Setu and to the tables of the feed, like the
\* feed by itself: the engine and the vendor sync do not touch them.
THEOREM FeedRefinement == SystemSpec => Spec
  BY InitFeed, StepFeed, PTL DEF SystemSpec, Spec

-----------------------------------------------------------------------------
(* There is room for the rows that are stored. *)

\* Parts of the set of goroutines can be counted and compared.
LEMMA StartedCounts ==
  ASSUME NEW S \in SUBSET Job, NEW T \in SUBSET S
  PROVE  /\ IsFiniteSet(T) /\ Cardinality(T) \in Nat
         /\ Cardinality(T) <= Cardinality(S)
  <1>1. IsFiniteSet(S)
    BY JobsAreFinite, FS_Subset
  <1> QED
    BY <1>1, FS_Subset, FS_CardinalityType

LEMMA InitRoom == SystemInit => RoomOk
  <1> SUFFICES ASSUME SystemInit
               PROVE  RoomOk
    OBVIOUS
  <1>1. ASSUME NEW j \in Job
        PROVE  j \notin Started
    <2>1. j \in Job /\ j[1] \in Msg /\ j[2] \in Nat /\ j[2] > 0
      BY MaxIsPositive DEF Job, Msg
    <2>2. job[j] = "idle" /\ webhooks[j[1]] = 0
      BY <2>1 DEF SystemInit, Init
    <2> QED
      BY <2>1, <2>2 DEF Started
  <1>2. Started = {}
    BY <1>1 DEF Started
  <1>3. MaxGoroutines \in Nat
    BY SettlementAssumption, Zenon
  <1> QED
    BY <1>2, <1>3, FS_EmptySet DEF RoomOk

\* A step after which no goroutine is or will be that was not to be before.
LEMMA RoomKept ==
  ASSUME RoomOk, Started' \subseteq Started
  PROVE  RoomOk'
  <1>1. Started \in SUBSET Job /\ Started' \in SUBSET Started
    BY DEF Started
  <1>2. Cardinality(Started') <= Cardinality(Started) /\ Cardinality(Started) \in Nat
        /\ Cardinality(Started') \in Nat
    BY <1>1, StartedCounts
  <1>3. MaxGoroutines \in Nat
    BY SettlementAssumption, Zenon
  <1> QED
    BY <1>2, <1>3 DEF RoomOk

\* A delivery may start a goroutine, of which it was known that it would come.
LEMMA DeliveryRoom ==
  ASSUME IInv, RoomOk, Delivery
  PROVE  RoomOk'
  <1>1. webhooks \in [Msg -> 0..MaxDeliveries] /\ MaxDeliveries \in Nat
    BY MaxIsPositive DEF IInv, Types
  <1>2. \A m \in Msg : webhooks[m] \in Nat
    BY <1>1
  <1> SUFFICES ASSUME NEW j \in Job, j \in Started'
               PROVE  j \in Started
    BY RoomKept DEF Started
  <1>3. j \in Job /\ j[1] \in SessionMsg /\ j[2] \in Nat /\ j = <<j[1], j[2]>>
    BY MaxIsPositive DEF Job
  <1>4. PICK m \in Msg : HandleConsentUpdate(m) \/ HandleSessionUpdate(m)
    BY DEF Delivery
  <1>5. /\ webhooks[m] > 0
        /\ webhooks' = [webhooks EXCEPT ![m] = webhooks[m] - 1]
    BY <1>4 DEF HandleConsentUpdate, HandleSessionUpdate
  <1>6. webhooks'[j[1]] <= webhooks[j[1]] /\ webhooks'[j[1]] \in Int
    BY <1>1, <1>2, <1>3, <1>5 DEF Msg
  <1>7. CASE job' = job
    BY <1>2, <1>3, <1>6, <1>7 DEF Started, Msg
  <1>8. CASE job' = [job EXCEPT ![<<m, webhooks[m]>>] = "fetch"]
    <2>1. CASE j = <<m, webhooks[m]>>
      <3>1. j[1] = m /\ j[2] = webhooks[m]
        BY <2>1
      <3> QED
        BY <1>2, <3>1 DEF Started
    <2>2. CASE j # <<m, webhooks[m]>>
      <3>1. job'[j] = job[j]
        BY <1>3, <1>8, <2>2 DEF IInv, Types
      <3> QED
        BY <1>2, <1>3, <1>6, <3>1 DEF Started, Msg
    <2> QED
      BY <2>1, <2>2
  <1> QED
    BY <1>4, <1>7, <1>8 DEF HandleConsentUpdate, HandleSessionUpdate, jobVars

\* No step makes more goroutines than there is room for.
LEMMA StepRoom ==
  ASSUME IInv, RoomOk, [SystemNext]_systemVars
  PROVE  RoomOk'
  <1>1. ASSUME UNCHANGED webhooks, \A j \in Job : job'[j] # "idle" => job[j] # "idle"
        PROVE  RoomOk'
    BY <1>1, RoomKept DEF Started
  <1>2. CASE FeedStep
    <2>1. ASSUME NEW j \in Job, FetchSessionData(j)
          PROVE  RoomOk'
      BY <1>1, <2>1 DEF FetchSessionData, IInv, Types
    <2>2. ASSUME UNCHANGED <<webhooks, jobVars>>
          PROVE  RoomOk'
      BY <1>1, <2>2 DEF jobVars
    <2> QED
      BY <1>2, <2>1, <2>2 DEF FeedStep, SaveConsent, CreateDataSession, RecordSession
  <1>3. ASSUME NEW j \in Job, Store(j)
        PROVE  RoomOk'
    BY <1>1, <1>3 DEF Store, StoreTxn
  <1>4. ASSUME NEW j \in Job, CallEngine(j)
        PROVE  RoomOk'
    BY <1>1, <1>4 DEF CallEngine, TriggerReconciliation, IInv, Types
  <1>5. CASE UNCHANGED feedVars
    BY <1>1, <1>5 DEF feedVars, jobVars
  <1>6. CASE Webhook
    BY <1>6, DeliveryRoom DEF Webhook
  <1>7. CASE Outside
    <2>1. Cardinality({j \in Job : job[j] # "idle" \/ webhooks'[j[1]] >= j[2]}) <= MaxGoroutines
      BY <1>7 DEF Outside
    <2>2. job' = job
      BY <1>7 DEF Outside, InitiateConsent, Approve, Decide, ChooseConsent, Collect, jobVars
    <2>3. Started' = {j \in Job : job[j] # "idle" \/ webhooks'[j[1]] >= j[2]}
      BY <2>2 DEF Started
    <2> QED
      BY <2>1, <2>3 DEF RoomOk
  <1>8. CASE UNCHANGED systemVars
    BY <1>8, <1>5 DEF systemVars
  <1> QED
    BY <1>2, <1>3, <1>4, <1>5, <1>6, <1>7, <1>8
    DEF SystemNext, Process, Goroutine, EngineStep, EngineDeadlock, Reconcile, VendorBatch

\* So a transaction never has more rows than there may be goroutines.
LEMMA RowsWillFit ==
  ASSUME IInv', RoomOk', NEW t \in Txns
  PROVE  stored'[t] \in Nat /\ stored'[t] <= MaxGoroutines
  <1>1. Spent(t)' \subseteq Started'
    BY DEF Spent, Started, Calls, IInv, JobsOk
  <1>2. Started' \in SUBSET Job /\ Spent(t)' \in SUBSET Started'
    BY <1>1 DEF Started
  <1>3. /\ Cardinality(Spent(t)') <= Cardinality(Started')
        /\ Cardinality(Spent(t)') \in Nat /\ Cardinality(Started') \in Nat
    BY <1>2, StartedCounts
  <1>4. stored'[t] <= Cardinality(Spent(t)') /\ stored'[t] \in Nat
    BY DEF IInv, CountOk, Types
  <1>5. MaxGoroutines \in Nat
    BY SettlementAssumption, Zenon
  <1> QED
    BY <1>3, <1>4, <1>5 DEF RoomOk

-----------------------------------------------------------------------------
(* The system is an engine. *)

BankTxns == UNION {Copies(t) : t \in Txns}

\* The rows of a transaction are numbered from 1.
LEMMA BankTxnsAre ==
  /\ \A b : b \in BankTxns <=> \E t \in Txns : \E n \in 1..stored[t] : b = <<t, n>>
  /\ \A b : b \in BankTxns' <=> \E t \in Txns : \E n \in 1..stored'[t] : b = <<t, n>>
  BY DEF BankTxns, Copies

\* There is nothing in either table, and no call, in the beginning.
LEMMA InitEngine == SystemInit => Eng!Init
  <1> SUFFICES ASSUME SystemInit
               PROVE  Eng!Init
    OBVIOUS
  <1>1. \A t \in Txns : stored[t] = 0
    BY DEF SystemInit, Init
  <1> QED
    BY DEF SystemInit

\* What the feed stores is a row that was not there.
LEMMA StoreIngests ==
  ASSUME IInv, RoomOk, IInv', RoomOk', NEW j \in Job, Store(j)
  PROVE  \E b \in BankRows : Eng!IngestBank(b)
  <1>1. PICK t \in left[j] : stored' = [stored EXCEPT ![t] = stored[t] + 1]
    <2>1. "failed call" \notin Faults
      BY SettlementAssumption, Zenon
    <2> QED
      BY <2>1 DEF Store, StoreTxn
  <1>2. t \in Txns
    BY DEF IInv, Types
  <1>3. /\ stored \in [Txns -> Nat]
        /\ stored'[t] = stored[t] + 1
        /\ \A u \in Txns \ {t} : stored'[u] = stored[u]
    BY <1>1, <1>2 DEF IInv, Types
  <1>4. stored[t] \in Nat /\ stored[t] + 1 <= MaxGoroutines /\ MaxGoroutines \in Nat
    <2>1. stored'[t] <= MaxGoroutines
      BY <1>2, RowsWillFit
    <2>2. MaxGoroutines \in Nat
      BY SettlementAssumption, Zenon
    <2> QED
      BY <1>2, <1>3, <2>1, <2>2
  <1> DEFINE b == <<t, stored[t] + 1>>
  <1>5. b \in BankRows
    BY <1>2, <1>4 DEF BankRows
  <1>6. b \notin BankTxns
    BY <1>2, <1>4, BankTxnsAre
  <1>7. BankTxns' = BankTxns \cup {b}
    <2>1. \A u \in Txns : \A n : (n \in 1..stored'[u]) <=>
              (n \in 1..stored[u] \/ (u = t /\ n = stored[t] + 1))
      BY <1>2, <1>3, <1>4
    <2>2. \A x : x \in BankTxns' <=> x \in BankTxns \/ x = b
      BY <1>2, <2>1, BankTxnsAre
    <2> HIDE DEF b
    <2> QED
      BY <2>2
  <1>8. UNCHANGED <<tableVars, runVars>>
    BY DEF Store
  <1>9. PICK row \in BankRows : row = b
    BY <1>5
  <1>10. Eng!IngestBank(row)
    BY <1>6, <1>7, <1>8, <1>9
    DEF BankTxns, Eng!IngestBank, Eng!runVars, tableVars, runVars
  <1> QED
    BY <1>10

\* A step of the system is one the engine takes undisturbed, or leaves the engine
\* alone.
LEMMA StepEngine ==
  ASSUME IInv, RoomOk, IInv', RoomOk', [SystemNext]_systemVars
  PROVE  \/ \E S \in SUBSET VendorRows : Eng!SyncCommit(S)
         \/ \E b \in BankRows : Eng!IngestBank(b)
         \/ \E j \in Calls : Eng!RunStep(j)
         \/ \E j \in Calls : Eng!DeadlockVictim(j)
         \/ UNCHANGED Eng!vars
  <1>1. ASSUME UNCHANGED <<stored, tableVars, runVars>>
        PROVE  UNCHANGED Eng!vars
    BY <1>1 DEF Eng!vars, Copies, tableVars, runVars
  <1>2. CASE FeedStep
    BY <1>1, <1>2
    DEF FeedStep, SaveConsent, CreateDataSession, RecordSession, FetchSessionData, jobVars
  <1>3. ASSUME NEW j \in Job, CallEngine(j)
        PROVE  Eng!RunStep(j) \/ UNCHANGED Eng!vars
    BY <1>1, <1>3 DEF CallEngine, TriggerReconciliation, Eng!RunStep
  <1>4. CASE Webhook
    BY <1>1, <1>4 DEF Webhook, Delivery, HandleConsentUpdate, HandleSessionUpdate, jobVars
  <1>5. CASE Outside
    BY <1>1, <1>5
    DEF Outside, InitiateConsent, Approve, Decide, ChooseConsent, Collect, jobVars
  <1>6. ASSUME NEW S \in Batches, VendorBatch(S)
        PROVE  S \in SUBSET VendorRows /\ Eng!SyncCommit(S)
    <2>1. Batches \subseteq SUBSET VendorRows
      BY SettlementAssumption, Zenon
    <2> QED
      BY <1>6, <2>1 DEF VendorBatch
  <1>7. CASE UNCHANGED systemVars
    BY <1>1, <1>7 DEF systemVars, feedVars, jobVars
  <1>8. ASSUME NEW q \in Requests, Reconcile(q)
        PROVE  Eng!RunStep(q)
    BY <1>8 DEF Reconcile, Eng!RunStep
  <1>9. Job \subseteq Calls /\ Requests \subseteq Calls
    BY DEF Calls
  <1> QED
    BY <1>2, <1>3, <1>4, <1>5, <1>6, <1>7, <1>8, <1>9, StoreIngests
    DEF SystemNext, Process, Goroutine, EngineStep, EngineDeadlock

-----------------------------------------------------------------------------
(* The engine in the system is the one ReconciliationProofs is about. *)

LEMMA SameInit == Eng!Init <=> EngP!Init
  BY DEF Eng!Init, EngP!Init, Eng!NoLink, EngP!NoLink

LEMMA SameTables == ASSUME NEW S PROVE Eng!SyncCommit(S) <=> EngP!SyncCommit(S)
  BY DEF Eng!SyncCommit, EngP!SyncCommit, Eng!runVars, EngP!runVars

LEMMA SameIngest == ASSUME NEW b PROVE Eng!IngestBank(b) <=> EngP!IngestBank(b)
  BY DEF Eng!IngestBank, EngP!IngestBank, Eng!runVars, EngP!runVars

LEMMA SameVars == (UNCHANGED Eng!vars) <=> (UNCHANGED EngP!vars)
  BY DEF Eng!vars, EngP!vars

LEMMA SameAbort == ASSUME NEW j \in Calls PROVE Eng!Abort(j) <=> EngP!Abort(j)
  BY DEF Eng!Abort, EngP!Abort, Eng!NoLink, EngP!NoLink, Eng!tables, EngP!tables

LEMMA SameWaits ==
  ASSUME NEW p, NEW q
  PROVE  Eng!WaitsFor(p, q) <=> EngP!WaitsFor(p, q)
  BY DEF Eng!WaitsFor, EngP!WaitsFor, Eng!HoldsVendor, EngP!HoldsVendor,
         Eng!HoldsBank, EngP!HoldsBank, Eng!VendorLinked, EngP!VendorLinked,
         Eng!BankLinked, EngP!BankLinked

LEMMA SameVictim ==
  ASSUME NEW j \in Calls
  PROVE  Eng!DeadlockVictim(j) <=> EngP!DeadlockVictim(j)
  BY SameAbort, SameWaits
  DEF Eng!DeadlockVictim, EngP!DeadlockVictim, Eng!Deadlocked, EngP!Deadlocked

LEMMA SameStep ==
  ASSUME NEW j \in Calls
  PROVE  Eng!RunStep(j) <=> EngP!RunStep(j)
  <1>1. Eng!QueryUnmatched(j) <=> EngP!QueryUnmatched(j)
    BY DEF Eng!QueryUnmatched, EngP!QueryUnmatched, Eng!Unmatched, EngP!Unmatched,
           Eng!tables, EngP!tables
  <1>2. Eng!FindBankTxn(j) <=> EngP!FindBankTxn(j)
    BY DEF Eng!FindBankTxn, EngP!FindBankTxn, Eng!Candidates, EngP!Candidates,
           Eng!SameKey, EngP!SameKey, Eng!BankLinked, EngP!BankLinked, Eng!tables, EngP!tables
  <1>3. Eng!Waits(j) <=> EngP!Waits(j)
    BY SameWaits DEF Eng!Waits, EngP!Waits
  <1>4. Eng!InsertVendorKey(j) <=> EngP!InsertVendorKey(j)
    BY <1>3, SameAbort
    DEF Eng!InsertVendorKey, EngP!InsertVendorKey, Eng!VendorLinked, EngP!VendorLinked,
        Eng!tables, EngP!tables
  <1>5. Eng!InsertBankKey(j) <=> EngP!InsertBankKey(j)
    BY <1>3, SameAbort
    DEF Eng!InsertBankKey, EngP!InsertBankKey, Eng!BankLinked, EngP!BankLinked,
        Eng!NoLink, EngP!NoLink, Eng!tables, EngP!tables
  <1>6. Eng!Commit(j) <=> EngP!Commit(j)
    BY DEF Eng!Commit, EngP!Commit, Eng!Publish, EngP!Publish, Eng!Return, EngP!Return,
           Eng!VendorLinked, EngP!VendorLinked
  <1>7. Eng!CommitFails(j) <=> EngP!CommitFails(j)
    BY DEF Eng!CommitFails, EngP!CommitFails, Eng!RollBack, EngP!RollBack,
           Eng!Return, EngP!Return, Eng!NoLink, EngP!NoLink, Eng!tables, EngP!tables
  <1> QED
    BY <1>1, <1>2, <1>4, <1>5, <1>6, <1>7 DEF Eng!RunStep, EngP!RunStep

\* A step of the system is one the lemmas about the engine are about.
LEMMA StepUndisturbed ==
  ASSUME IInv, RoomOk, IInv', RoomOk', [SystemNext]_systemVars
  PROVE  EngP!Undisturbed \/ UNCHANGED EngP!vars
  BY StepEngine, SameTables, SameIngest, SameStep, SameVictim, SameVars DEF EngP!Undisturbed

LEMMA UndisturbedIsNext ==
  ASSUME EngP!Undisturbed \/ UNCHANGED EngP!vars
  PROVE  [EngP!Next]_(EngP!vars)
  BY DEF EngP!Undisturbed, EngP!Next

EngineInv == EngP!IInv /\ EngP!CountOk /\ EngP!WinnerInv /\ EngP!ExhaustInv

LEMMA InitEngineInv == SystemInit => EngineInv
  <1> SUFFICES ASSUME EngP!Init
               PROVE  EngineInv
    BY InitEngine, SameInit
  <1>1. EngP!IInv
    BY RowsHold, EngP!InitTypeInv, EngP!InitLedger DEF EngP!IInv
  <1>2. EngP!CountOk
    BY RowsHold, EngP!InitCount
  <1>3. EngP!WinnerInv
    BY RowsHold, EngP!InitWinner
  <1>4. EngP!ExhaustInv
    BY RowsHold, EngP!InitExhaust
  <1> QED
    BY <1>1, <1>2, <1>3, <1>4 DEF EngineInv

LEMMA StepEngineInv ==
  ASSUME EngineInv, EngP!Undisturbed \/ UNCHANGED EngP!vars
  PROVE  EngineInv'
  <1>1. [EngP!Next]_(EngP!vars)
    BY UndisturbedIsNext
  <1>2. EngP!IInv'
    BY <1>1, RowsHold, EngP!NextIInv DEF EngineInv
  <1>3. EngP!CountOk'
    BY <1>1, RowsHold, EngP!NextCount DEF EngineInv
  <1>4. EngP!WinnerInv'
    BY RowsHold, EngP!NextWinner DEF EngineInv
  <1>5. EngP!ExhaustInv'
    BY <1>1, RowsHold, EngP!NextExhaust DEF EngineInv
  <1> QED
    BY <1>2, <1>3, <1>4, <1>5 DEF EngineInv

\* What is true of the feed, of the engine and of the room between them.
SystemInv == IInv /\ RoomOk /\ EngineInv

LEMMA SystemInvariance == SystemSpec => []SystemInv
  <1>1. SystemInit => SystemInv
    BY InitFeed, InitIInv, InitRoom, InitEngineInv DEF SystemInv
  <1>2. ASSUME SystemInv, [SystemNext]_systemVars
        PROVE  SystemInv'
    <2>1. IInv'
      BY <1>2, StepFeed, Inductive DEF SystemInv
    <2>2. RoomOk'
      BY <1>2, StepRoom DEF SystemInv
    <2>3. EngP!Undisturbed \/ UNCHANGED EngP!vars
      BY <1>2, <2>1, <2>2, StepUndisturbed DEF SystemInv
    <2>4. EngineInv'
      BY <1>2, <2>3, StepEngineInv DEF SystemInv
    <2> QED
      BY <2>1, <2>2, <2>4 DEF SystemInv
  <1> QED
    BY <1>1, <1>2, PTL DEF SystemSpec

-----------------------------------------------------------------------------
(* The theorems. *)

\* Calls of the engine fail each other, by a unique key or by a deadlock, but when
\* none is under way and one has failed, another has committed links.
THEOREM WinnerExists == SystemSpec => []FailureHasAWinner
  <1>1. ASSUME SystemInv
        PROVE  FailureHasAWinner
    <2> SUFFICES ASSUME \A j \in Calls : pc[j] \in {"idle", "done"},
                        \E j \in Calls : result[j] = "error"
                 PROVE  \E j \in Calls : result[j] = "ok" /\ reported[j] > 0
      BY DEF FailureHasAWinner
    <2>1. EngP!Winner
      BY <1>1, RowsHold, EngP!WinnerAtRest DEF SystemInv, EngineInv
    <2> QED
      BY <2>1 DEF EngP!Winner
  <1> QED
    BY <1>1, SystemInvariance, PTL

\* The rows the goroutines store are rows that arrive, and their calls are calls
\* that begin when they may: the system is an execution of the engine.
THEOREM EngineRefinement == SystemSpec => Eng!Spec
  <1>1. ASSUME SystemInv, SystemInv', [SystemNext]_systemVars
        PROVE  [Eng!Next]_(Eng!vars)
    BY <1>1, StepEngine DEF SystemInv, Eng!Next
  <1> QED
    BY <1>1, InitEngine, SystemInvariance, PTL DEF SystemSpec, Eng!Spec

\* What the engine promises it keeps while goroutines store and deliveries repeat:
\* the ledger is one-to-one, recon_status agrees with it, a call that succeeds
\* leaves nothing it could have settled, and calls are never stuck.
THEOREM LedgerStaysSound ==
  SystemSpec => []/\ Eng!LedgerOneToOne
                  /\ Eng!StatusMatchesLedger
                  /\ Eng!Exhaustive
                  /\ Eng!SomeoneGoesOn
  <1>1. ASSUME SystemInv
        PROVE  Eng!LedgerOneToOne
    BY <1>1
    DEF SystemInv, EngineInv, EngP!IInv, EngP!Ledgers, EngP!LedgerOneToOne,
        EngP!L!OneToOne, Eng!LedgerOneToOne, Eng!L!OneToOne
  <1>2. ASSUME SystemInv
        PROVE  Eng!StatusMatchesLedger
    BY <1>2
    DEF SystemInv, EngineInv, EngP!IInv, EngP!Ledgers, EngP!StatusMatchesLedger,
        EngP!VendorLinked, Eng!StatusMatchesLedger, Eng!VendorLinked
  <1>3. ASSUME SystemInv
        PROVE  Eng!Exhaustive
    BY <1>3
    DEF SystemInv, EngineInv, EngP!ExhaustInv, EngP!Exhaustive, EngP!VendorLinked,
        EngP!BankLinked, EngP!SameKey, Eng!Exhaustive, Eng!VendorLinked, Eng!BankLinked,
        Eng!SameKey
  <1>4. ASSUME SystemInv
        PROVE  Eng!SomeoneGoesOn
    <2>1. IsFiniteSet(Calls)
      <3>1. IsFiniteSet(Requests)
        BY SettlementAssumption, Zenon
      <3> QED
        BY <3>1, JobsAreFinite, FS_Union DEF Calls
    <2>2. EngP!IsFiniteSet(Calls)
      BY <2>1, Zenon DEF IsFiniteSet, EngP!IsFiniteSet
    <2>3. EngP!SomeoneGoesOn
      BY <1>4, <2>2, RowsHold, EngP!OpenGoesOn DEF SystemInv, EngineInv
    <2>4. \A j \in Calls : Eng!Waits(j) <=> EngP!Waits(j)
      BY SameWaits DEF Eng!Waits, EngP!Waits
    <2>5. \A j \in Calls : Eng!Deadlocked(j) <=> EngP!Deadlocked(j)
      BY SameWaits DEF Eng!Deadlocked, EngP!Deadlocked
    <2> QED
      BY <2>3, <2>4, <2>5
      DEF Eng!SomeoneGoesOn, EngP!SomeoneGoesOn, Eng!InTxn, EngP!InTxn
  <1> QED
    BY <1>1, <1>2, <1>3, <1>4, SystemInvariance, PTL

\* From the webhook to the ledger, the system does what Ledger says: it settles
\* by whole calls, and only links of an unsettled payout and a free row of its key.
THEOREM LedgerRefinement == SystemSpec => Eng!RefinesLedger
  <1>1. Eng!Init => Eng!L!Init
    BY DEF Eng!Init, Eng!L!Init, Eng!BankLinked
  <1>2. ASSUME SystemInv, SystemInv', [SystemNext]_systemVars
        PROVE  [Eng!L!Next]_(Eng!L!vars)
    <2>1. [EngP!Next]_(EngP!vars)
      BY <1>2, StepUndisturbed, UndisturbedIsNext DEF SystemInv
    <2>2. [EngP!L!Next]_(EngP!L!vars)
      BY <1>2, <2>1, RowsHold, EngP!StepRefines DEF SystemInv, EngineInv
    <2>3. ASSUME NEW S PROVE EngP!L!Expect(S) <=> Eng!L!Expect(S)
      BY DEF EngP!L!Expect, Eng!L!Expect, EngP!BankLinked, Eng!BankLinked
    <2>4. ASSUME NEW b PROVE EngP!L!Receive(b) <=> Eng!L!Receive(b)
      BY DEF EngP!L!Receive, Eng!L!Receive, EngP!BankLinked, Eng!BankLinked
    <2>5. ASSUME NEW M PROVE EngP!L!Settle(M) <=> Eng!L!Settle(M)
      BY DEF EngP!L!Settle, Eng!L!Settle, EngP!BankLinked, Eng!BankLinked,
             EngP!L!OneToOne, Eng!L!OneToOne, EngP!L!SameKey, Eng!L!SameKey
    <2>6. EngP!L!Next <=> Eng!L!Next
      BY <2>3, <2>4, <2>5 DEF EngP!L!Next, Eng!L!Next, EngP!BankLinked, Eng!BankLinked
    <2>7. (UNCHANGED EngP!L!vars) <=> (UNCHANGED Eng!L!vars)
      BY DEF EngP!L!vars, Eng!L!vars, EngP!BankLinked, Eng!BankLinked
    <2> QED
      BY <2>2, <2>6, <2>7
  <1> QED
    BY <1>1, <1>2, InitEngine, SystemInvariance, PTL
    DEF SystemSpec, Eng!RefinesLedger, Eng!L!Spec

-----------------------------------------------------------------------------
(* What the two say together. *)

\* A link pays for a payout with a row of a transaction: a copy of it, of the
\* payout's key.
LEMMA LinkPays ==
  ASSUME SystemInv, NEW p \in matches
  PROVE  \E t \in Txns : \E n \in 1..stored[t] :
            /\ p \in VendorRows \X BankRows
            /\ p[2] = <<t, n>>
            /\ VendorKey[p[1]].utr = TxnKey[t].utr
            /\ VendorKey[p[1]].amount = TxnKey[t].amount
  <1>1. /\ p \in VendorRows \X BankRows
        /\ Utr[p[1]] = Utr[p[2]]
        /\ Amount[p[1]] = Amount[p[2]]
        /\ p[2] \in BankTxns
    BY DEF SystemInv, EngineInv, EngP!IInv, EngP!TypeInv, EngP!TypeOK, EngP!Link,
           EngP!Ledgers, EngP!LinksAgree, EngP!SameKey, BankTxns
  <1>2. PICK t \in Txns : \E n \in 1..stored[t] : p[2] = <<t, n>>
    BY <1>1, BankTxnsAre
  <1>3. p[1] \in VendorRows /\ p[2] \in BankRows /\ p[2] \notin VendorRows /\ p[2][1] = t
    BY <1>1, <1>2, RowsHold
  <1>4. /\ Utr[p[1]] = VendorKey[p[1]].utr /\ Utr[p[2]] = TxnKey[t].utr
        /\ Amount[p[1]] = VendorKey[p[1]].amount /\ Amount[p[2]] = TxnKey[t].amount
    BY <1>3 DEF Utr, Amount, Rows
  <1> QED
    BY <1>1, <1>2, <1>4

\* A payout is settled only by money the bank has reported, in a session that has
\* it: the engine's agreement of keys (engine.go:60) and the feed's rows, which
\* never run ahead of Setu (aa_session.go:110), give it together.
THEOREM PaymentIsReal == SystemSpec => []PaidByTheBank
  <1>1. ASSUME SystemInv
        PROVE  PaidByTheBank
    <2> SUFFICES ASSUME NEW p \in matches
                 PROVE  /\ VendorKey[p[1]].utr = TxnKey[p[2][1]].utr
                        /\ VendorKey[p[1]].amount = TxnKey[p[2][1]].amount
                        /\ \E s \in Sessions : p[2][1] \in Offered(s)
      BY DEF PaidByTheBank
    <2>1. PICK t \in Txns : \E n \in 1..stored[t] :
            /\ p[2] = <<t, n>>
            /\ VendorKey[p[1]].utr = TxnKey[t].utr
            /\ VendorKey[p[1]].amount = TxnKey[t].amount
      BY <1>1, LinkPays
    <2>2. p[2][1] = t
      BY <2>1
    <2>3. stored[t] > 0
      BY <1>1, <2>1 DEF SystemInv, IInv, Types
    <2>4. \E s \in Sessions : t \in Offered(s)
      BY <1>1, <2>3 DEF SystemInv, IInv, StoredOk
    <2> QED
      BY <2>1, <2>2, <2>4
  <1> QED
    BY <1>1, SystemInvariance, PTL

\* The links that spend a transaction spend different copies of it.
LEMMA CopiesAreSpentOnce ==
  ASSUME SystemInv, NEW t \in Txns
  PROVE  /\ Cardinality({p \in matches : p[2][1] = t}) \in Nat
         /\ Cardinality({p \in matches : p[2][1] = t}) <= stored[t]
  <1> DEFINE S == {p \in matches : p[2][1] = t}
             copy == [p \in S |-> p[2][2]]
  <1>1. stored[t] \in Nat
    BY DEF SystemInv, IInv, Types
  <1>2. ASSUME NEW p \in S
        PROVE  p \in VendorRows \X BankRows /\ p[2] = <<t, p[2][2]>> /\ p[2][2] \in 1..stored[t]
    BY LinkPays
  <1>3. \A p, q \in matches : p[2] = q[2] => p = q
    BY DEF SystemInv, EngineInv, EngP!IInv, EngP!Ledgers, EngP!LedgerOneToOne, EngP!L!OneToOne
  <1>4. copy \in [S -> 1..stored[t]]
    BY <1>2
  <1>5. ASSUME NEW p \in S, NEW q \in S, copy[p] = copy[q]
        PROVE  p = q
    <2>1. p[2][2] = q[2][2]
      BY <1>5
    <2>2. p[2] = q[2]
      BY <1>2, <2>1
    <2> QED
      BY <1>3, <2>2
  <1>6. copy \in Injection(S, 1..stored[t])
    BY <1>4, <1>5 DEF Injection, IsInjective
  <1> HIDE DEF copy, S
  <1>7. IsFiniteSet(1..stored[t]) /\ Cardinality(1..stored[t]) = stored[t]
    BY <1>1, FS_Interval
  <1>8. Cardinality(S) \in Nat /\ Cardinality(S) <= stored[t]
    <2>1. IsFiniteSet(S) /\ Cardinality(S) <= Cardinality(1..stored[t])
      BY <1>6, <1>7, FS_Injection, Zenon
    <2> QED
      BY <1>7, <2>1, FS_CardinalityType
  <1> QED
    BY <1>8 DEF S

\* However often a transaction is delivered and stored, it pays for no more
\* payouts than there are deliveries that found it: one copy for each
\* (aa_session.go:106), and one payout for each copy (the UNIQUE
\* bank_transaction_id).
THEOREM SpendingIsBounded == SystemSpec => []SpentPerDelivery
  <1>1. ASSUME SystemInv, OneRowPerDelivery
        PROVE  SpentPerDelivery
    <2> SUFFICES ASSUME NEW t \in Txns
                 PROVE  Cardinality({p \in matches : p[2][1] = t}) <=
                          Cardinality({j \in Job : job[j] # "idle" /\ t \in Contents[SessionOf(j)]})
      BY DEF SpentPerDelivery
    <2> DEFINE links == {p \in matches : p[2][1] = t}
               found == {j \in Job : job[j] # "idle" /\ t \in Contents[SessionOf(j)]}
    <2>1. Cardinality(links) <= stored[t]
      BY <1>1, CopiesAreSpentOnce
    <2>2. stored[t] <= Cardinality(found)
      BY <1>1 DEF OneRowPerDelivery
    <2>3. Cardinality(links) \in Nat /\ Cardinality(found) \in Nat /\ stored[t] \in Nat
      <3>1. Cardinality(links) \in Nat
        BY <1>1, CopiesAreSpentOnce
      <3>2. found \in SUBSET Job
        OBVIOUS
      <3> QED
        BY <1>1, <3>1, <3>2, StartedCounts DEF SystemInv, IInv, Types
    <2> HIDE DEF links, found
    <2>4. Cardinality(links) <= Cardinality(found)
      BY <2>1, <2>2, <2>3
    <2> QED
      BY <2>4 DEF links, found
  <1> QED
    BY <1>1, FeedRefinement, RowsBounded, SystemInvariance, PTL

\* What the feed promises by itself it promises with the engine running: its
\* tables are well typed and never ahead of Setu, duplicates have no other source
\* than deliveries, and it implements Statement.
THEOREM FeedStaysSound ==
  SystemSpec => /\ [](TypeOK /\ TablesFollowSetu /\ OneRowPerDelivery)
                /\ RefinesStatement
  BY FeedRefinement, TypeCorrect, TablesTrue, RowsBounded, Refinement, PTL
=============================================================================
