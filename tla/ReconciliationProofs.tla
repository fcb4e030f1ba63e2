------------------------ MODULE ReconciliationProofs ------------------------
(***************************************************************************)
(* Reconciliation keeps its ledger sound for any rows, merchants and runs, *)
(* and what its calls return is true.                                      *)
(*                                                                         *)
(* The ledger invariants are not inductive by themselves: that a COMMIT    *)
(* leaves the ledger one-to-one rests on what every open transaction holds *)
(* (Claims), and that on where each run is with its list and its INSERT    *)
(* (CursorOk).  IInv is the conjunction that is inductive.                 *)
(*                                                                         *)
(* What a call returns rests on it: the links not yet committed are new to *)
(* the table and to their own transaction, so the count is the number of   *)
(* links committed (CountOk), and a row once passed over stays hopeless    *)
(* (ScanOk).                                                               *)
(*                                                                         *)
(* Runs wait only for runs that hold a key, so among finitely many that    *)
(* are under way either one goes on or some wait in a cycle.               *)
(***************************************************************************)
EXTENDS Reconciliation, TLAPS, FiniteSetTheorems, NaturalsInduction

Linking(r) == pc[r] \in {"linkVendor", "linkBank"}

\* A run in the middle of an INSERT has a link to insert.
CursorType == \A r \in Runs : Linking(r) => cur[r] \in Link

TypeInv == TypeOK /\ CursorType

\* The row a run is linking and the rows still on its list are stored and are
\* none of those it has linked; the bank row it goes for is stored and agrees.
CursorOk ==
    \A r \in Runs :
        /\ \A v \in todo[r] : reconStatus[v] # "ABSENT"
        /\ todo[r] \cap VendorLinked(pending[r]) = {}
        /\ Linking(r) =>
              /\ SameKey(cur[r][1], cur[r][2])
              /\ cur[r][1] \notin todo[r] \cup VendorLinked(pending[r])
              /\ reconStatus[cur[r][1]] # "ABSENT"
              /\ cur[r][2] \in bankTxns \ BankLinked(pending[r])

\* Every committed link joins stored rows that agree on UTR and amount.
LinksAgree == \A p \in matches : SameKey(p[1], p[2]) /\ p[2] \in bankTxns

Ledgers == LinksAgree /\ LedgerOneToOne /\ StatusMatchesLedger

IInv == TypeInv /\ CursorOk /\ Claims /\ Ledgers

-----------------------------------------------------------------------------
(* Types. *)

\* Every variable starts in its type.
LEMMA InitTypeInv == Init => TypeInv
  BY DEF Init, TypeInv, TypeOK, CursorType, Linking, Status, PC, InTxn, Link

\* What ends a transaction's work keeps the types.
LEMMA AbortTypeInv ==
  ASSUME NEW r \in Runs, TypeInv, Abort(r)
  PROVE  TypeInv'
  BY DEF TypeInv, TypeOK, CursorType, Linking, Abort, tables, PC, InTxn

\* So does a transaction that is rolled back, its call returning an error.
LEMMA RollBackTypeInv ==
  ASSUME NEW r \in Runs, TypeInv, RollBack(r, "done"), Return(r, "error", 0)
  PROVE  TypeInv'
  BY DEF TypeInv, TypeOK, CursorType, Linking, RollBack, Return, tables, PC, InTxn

\* And a COMMIT, whatever the call then returns.
LEMMA PublishTypeInv ==
  ASSUME NEW r \in Runs, TypeInv, Publish(r),
         NEW res \in {"none", "ok", "error"}, NEW n \in Nat, Return(r, res, n)
  PROVE  TypeInv'
  <1>1. matches' \subseteq Link
    BY DEF TypeInv, TypeOK, Publish
  <1>2. reconStatus' \in [VendorRows -> Status]
    BY DEF TypeInv, TypeOK, Publish, Status
  <1>3. TypeOK'
    BY <1>1, <1>2 DEF TypeInv, TypeOK, Publish, Return, PC, InTxn
  <1>4. CursorType'
    BY DEF TypeInv, TypeOK, CursorType, Linking, Publish
  <1> QED
    BY <1>3, <1>4 DEF TypeInv

\* Every step keeps the types.
LEMMA NextTypeInv ==
  ASSUME TypeInv, [Next]_vars
  PROVE  TypeInv'
  <1>1. ASSUME NEW S \in SUBSET VendorRows, SyncCommit(S)
        PROVE  TypeInv'
    BY <1>1 DEF TypeInv, TypeOK, CursorType, Linking, SyncCommit, runVars, Status
  <1>2. ASSUME NEW b \in BankRows, IngestBank(b)
        PROVE  TypeInv'
    BY <1>2 DEF TypeInv, TypeOK, CursorType, Linking, IngestBank, runVars
  <1>3. ASSUME NEW r \in Runs, QueryUnmatched(r)
        PROVE  TypeInv'
    <2>1. Unmatched(RunMerchant[r]) \subseteq VendorRows
      BY DEF Unmatched
    <2> QED
      BY <1>3, <2>1
      DEF TypeInv, TypeOK, CursorType, Linking, QueryUnmatched, tables, PC, InTxn
  <1>4. ASSUME NEW r \in Runs, FindBankTxn(r)
        PROVE  TypeInv'
    <2>1. UNCHANGED <<tables, pending, matchedCount, result, reported, view>>
      BY <1>4 DEF FindBankTxn
    <2>2. PICK v \in todo[r] :
            /\ todo' = [todo EXCEPT ![r] = todo[r] \ {v}]
            /\ \/ UNCHANGED <<pc, cur>>
               \/ \E b \in Candidates(r, v) :
                     /\ cur' = [cur EXCEPT ![r] = <<v, b>>]
                     /\ pc'  = [pc EXCEPT ![r] = "linkVendor"]
      BY <1>4 DEF FindBankTxn
    <2>3. v \in VendorRows
      BY DEF TypeInv, TypeOK
    <2>4. CASE UNCHANGED <<pc, cur>>
      BY <2>1, <2>2, <2>4 DEF TypeInv, TypeOK, CursorType, Linking, tables
    <2>5. ASSUME NEW b \in Candidates(r, v),
                 cur' = [cur EXCEPT ![r] = <<v, b>>],
                 pc'  = [pc EXCEPT ![r] = "linkVendor"]
          PROVE  TypeInv'
      <3>1. b \in BankRows
        BY DEF Candidates, TypeInv, TypeOK
      <3> QED
        BY <2>1, <2>2, <2>3, <2>5, <3>1
        DEF TypeInv, TypeOK, CursorType, Linking, tables, PC, InTxn, Link
    <2> QED
      BY <2>2, <2>4, <2>5
  <1>5. ASSUME NEW r \in Runs, InsertVendorKey(r)
        PROVE  TypeInv'
    <2>1. CASE ~Abort(r)
      BY <1>5, <2>1
      DEF TypeInv, TypeOK, CursorType, Linking, InsertVendorKey, tables, PC, InTxn
    <2> QED
      BY <2>1, AbortTypeInv
  <1>6. ASSUME NEW r \in Runs, InsertBankKey(r)
        PROVE  TypeInv'
    <2>1. CASE ~Abort(r)
      <3>1. cur[r] \in Link
        BY <1>6 DEF TypeInv, CursorType, Linking, InsertBankKey
      <3>2. /\ pc'           = [pc EXCEPT ![r] = "scan"]
            /\ pending'      = [pending EXCEPT ![r] = pending[r] \cup {cur[r]}]
            /\ matchedCount' = [matchedCount EXCEPT ![r] = matchedCount[r] + 1]
            /\ cur'          = [cur EXCEPT ![r] = NoLink]
            /\ UNCHANGED <<tables, todo, result, reported, view>>
        BY <1>6, <2>1 DEF InsertBankKey
      <3> QED
        BY <3>1, <3>2 DEF TypeInv, TypeOK, CursorType, Linking, tables, PC, InTxn
    <2> QED
      BY <2>1, AbortTypeInv
  <1>7. ASSUME NEW r \in Runs, Commit(r)
        PROVE  TypeInv'
    <2>1. matchedCount[r] \in Nat
      BY DEF TypeInv, TypeOK
    <2> QED
      BY <1>7, <2>1, PublishTypeInv DEF Commit
  <1>8. ASSUME NEW r \in Runs, CommitUnacknowledged(r)
        PROVE  TypeInv'
    BY <1>8, PublishTypeInv DEF CommitUnacknowledged
  <1>9. ASSUME NEW r \in Runs, CommitFails(r) \/ Disconnect(r)
        PROVE  TypeInv'
    BY <1>9, RollBackTypeInv DEF CommitFails, Disconnect
  <1>10. ASSUME NEW r \in Runs, DeadlockVictim(r)
         PROVE  TypeInv'
    BY <1>10, AbortTypeInv DEF DeadlockVictim
  <1>11. CASE Crash
    BY <1>11 DEF TypeInv, TypeOK, CursorType, Linking, Crash, tables, PC, InTxn
  <1>12. CASE UNCHANGED vars
    BY <1>12 DEF TypeInv, TypeOK, CursorType, Linking, vars
  <1> QED
    BY <1>1, <1>2, <1>3, <1>4, <1>5, <1>6, <1>7, <1>8, <1>9, <1>10, <1>11, <1>12
    DEF Next, RunStep, Quiesced

\* Every reachable state of Reconciliation is well typed.
THEOREM TypeCorrect == Spec => []TypeOK
  <1>1. TypeInv /\ [Next]_vars => TypeInv'
    BY NextTypeInv
  <1>2. TypeInv => TypeOK
    BY DEF TypeInv
  <1> QED
    BY InitTypeInv, <1>1, <1>2, PTL DEF Spec

-----------------------------------------------------------------------------
(* The ledger. *)

\* Nothing is stored and no run has listed or linked anything yet.
LEMMA InitLedger == Init => CursorOk /\ Claims /\ Ledgers
  BY DEF Init, CursorOk, Claims, Ledgers, LinksAgree, LedgerOneToOne, L!OneToOne,
         StatusMatchesLedger, VendorLinked, BankLinked, HoldsVendor, HoldsBank, Linking

\* A step that leaves the tables alone, and every run either alone or without
\* list, INSERT and claims, keeps the ledger sound: every way a run ends
\* without committing is such a step.
LEMMA ReleaseLedger ==
  ASSUME IInv, UNCHANGED tables,
         \A q \in Runs :
            \/ /\ pc'[q] = pc[q]
               /\ todo'[q] = todo[q]
               /\ cur'[q] = cur[q]
               /\ pending'[q] = pending[q]
            \/ /\ pc'[q] \notin {"linkVendor", "linkBank"}
               /\ todo'[q] = {}
               /\ pending'[q] = {}
  PROVE  CursorOk' /\ Claims' /\ Ledgers'
  <1>1. Ledgers'
    BY DEF IInv, Ledgers, LinksAgree, LedgerOneToOne, L!OneToOne, StatusMatchesLedger,
           VendorLinked, tables
  <1>2. CursorOk'
    BY DEF IInv, CursorOk, Linking, VendorLinked, BankLinked, SameKey, tables
  <1>3. \A q \in Runs :
            /\ HoldsVendor(q)' \subseteq HoldsVendor(q)
            /\ HoldsBank(q)' \subseteq HoldsBank(q)
    BY DEF HoldsVendor, HoldsBank, VendorLinked, BankLinked
  <1>4. Claims'
    BY <1>3 DEF IInv, Claims, L!OneToOne, SameKey, BankLinked, tables
  <1> QED
    BY <1>1, <1>2, <1>4

\* Rows that arrive are new: nobody lists, links or holds them.
LEMMA SyncLedger ==
  ASSUME IInv, NEW S \in SUBSET VendorRows, SyncCommit(S)
  PROVE  CursorOk' /\ Claims' /\ Ledgers'
  <1>1. \A v \in VendorRows :
            /\ reconStatus[v] # "ABSENT" => reconStatus'[v] = reconStatus[v]
            /\ reconStatus'[v] = "MATCHED" <=> reconStatus[v] = "MATCHED"
    BY DEF SyncCommit
  <1>2. UNCHANGED <<bankTxns, matches, pc, todo, cur, pending>>
    BY DEF SyncCommit, runVars
  <1>3. \A q \in Runs : HoldsVendor(q) \subseteq VendorRows /\ todo[q] \subseteq VendorRows
    BY DEF IInv, TypeInv, TypeOK, CursorType, Linking, HoldsVendor, VendorLinked, Link
  <1>4. Ledgers'
    BY <1>1, <1>2 DEF IInv, Ledgers, LinksAgree, LedgerOneToOne, L!OneToOne,
                      StatusMatchesLedger, VendorLinked
  <1>5. CursorOk'
    BY <1>1, <1>2, <1>3 DEF IInv, TypeInv, TypeOK, CursorType, CursorOk, Linking,
                      VendorLinked, BankLinked, SameKey, Link
  <1>6. \A q \in Runs : HoldsVendor(q)' = HoldsVendor(q) /\ HoldsBank(q)' = HoldsBank(q)
    BY <1>2 DEF HoldsVendor, HoldsBank, VendorLinked, BankLinked
  <1>7. Claims'
    BY <1>1, <1>2, <1>3, <1>6 DEF IInv, Claims, L!OneToOne, SameKey, BankLinked
  <1> QED
    BY <1>4, <1>5, <1>7

\* A bank row that arrives is new: nobody has linked it or goes for it.
LEMMA IngestLedger ==
  ASSUME IInv, NEW b \in BankRows, IngestBank(b)
  PROVE  CursorOk' /\ Claims' /\ Ledgers'
  <1>1. bankTxns' = bankTxns \cup {b}
    BY DEF IngestBank
  <1>2. UNCHANGED <<reconStatus, matches, pc, todo, cur, pending>>
    BY DEF IngestBank, runVars
  <1>3. Ledgers'
    BY <1>1, <1>2 DEF IInv, Ledgers, LinksAgree, LedgerOneToOne, L!OneToOne,
                      StatusMatchesLedger, VendorLinked
  <1>4. CursorOk'
    BY <1>1, <1>2 DEF IInv, CursorOk, Linking, VendorLinked, BankLinked, SameKey
  <1>5. \A q \in Runs : HoldsVendor(q)' = HoldsVendor(q) /\ HoldsBank(q)' = HoldsBank(q)
    BY <1>2 DEF HoldsVendor, HoldsBank, VendorLinked, BankLinked
  <1>6. Claims'
    BY <1>1, <1>2, <1>5 DEF IInv, Claims, L!OneToOne, SameKey, BankLinked
  <1> QED
    BY <1>3, <1>4, <1>6

\* A run begins with nothing linked and a list of stored rows.
LEMMA QueryLedger ==
  ASSUME IInv, NEW r \in Runs, QueryUnmatched(r)
  PROVE  CursorOk' /\ Claims' /\ Ledgers'
  <1>1. UNCHANGED <<reconStatus, bankTxns, matches, cur, pending>>
    BY DEF QueryUnmatched, tables
  <1>2. /\ pc[r] = "idle"
        /\ pc'   = [pc EXCEPT ![r] = "scan"]
        /\ todo' = [todo EXCEPT ![r] = Unmatched(RunMerchant[r])]
    BY DEF QueryUnmatched
  <1>3. pending[r] = {}
    BY <1>2 DEF IInv, Claims
  <1>4. Ledgers'
    BY <1>1 DEF IInv, Ledgers, LinksAgree, LedgerOneToOne, L!OneToOne,
                StatusMatchesLedger, VendorLinked
  <1>5. CursorOk'
    BY <1>1, <1>2, <1>3
    DEF IInv, TypeInv, TypeOK, CursorOk, Linking, VendorLinked, BankLinked, SameKey, Unmatched
  <1>6. \A q \in Runs : HoldsVendor(q)' = HoldsVendor(q) /\ HoldsBank(q)' = HoldsBank(q)
    BY <1>1, <1>2 DEF IInv, TypeInv, TypeOK, HoldsVendor, HoldsBank, VendorLinked, BankLinked
  <1>7. Claims'
    BY <1>1, <1>2, <1>3, <1>6
    DEF IInv, TypeInv, TypeOK, Claims, L!OneToOne, SameKey, BankLinked
  <1> QED
    BY <1>4, <1>5, <1>7

\* A row leaves the list, and the bank row found for it is free of the links
\* of its own transaction.
LEMMA FindLedger ==
  ASSUME IInv, NEW r \in Runs, FindBankTxn(r)
  PROVE  CursorOk' /\ Claims' /\ Ledgers'
  <1>1. UNCHANGED <<reconStatus, bankTxns, matches, pending>>
    BY DEF FindBankTxn, tables
  <1>2. pc[r] = "scan"
    BY DEF FindBankTxn
  <1>3. PICK v \in todo[r] :
          /\ todo' = [todo EXCEPT ![r] = todo[r] \ {v}]
          /\ \/ UNCHANGED <<pc, cur>>
             \/ \E b \in Candidates(r, v) :
                   /\ cur' = [cur EXCEPT ![r] = <<v, b>>]
                   /\ pc'  = [pc EXCEPT ![r] = "linkVendor"]
    BY DEF FindBankTxn
  <1>4. /\ \A q \in Runs \ {r} : pc'[q] = pc[q] /\ cur'[q] = cur[q] /\ todo'[q] = todo[q]
        /\ todo'[r] = todo[r] \ {v}
        /\ pc'[r] \in {"scan", "linkVendor"}
    BY <1>2, <1>3 DEF IInv, TypeInv, TypeOK
  <1>5. pc'[r] = "linkVendor" =>
          /\ cur'[r][1] = v
          /\ cur'[r][2] \in bankTxns \ BankLinked(pending[r])
          /\ SameKey(v, cur'[r][2])
    <2>1. ASSUME NEW b \in Candidates(r, v), cur' = [cur EXCEPT ![r] = <<v, b>>]
          PROVE  /\ cur'[r] = <<v, b>>
                 /\ b \in bankTxns \ BankLinked(pending[r])
                 /\ SameKey(v, b)
      BY <2>1 DEF Candidates, BankLinked, IInv, TypeInv, TypeOK
    <2> QED
      BY <1>2, <1>3, <2>1
  <1>6. Ledgers'
    BY <1>1 DEF IInv, Ledgers, LinksAgree, LedgerOneToOne, L!OneToOne,
                StatusMatchesLedger, VendorLinked
  <1>7. CursorOk'
    BY <1>1, <1>2, <1>4, <1>5
    DEF IInv, CursorOk, Linking, VendorLinked, BankLinked, SameKey
  <1>8. \A q \in Runs : HoldsVendor(q)' = HoldsVendor(q) /\ HoldsBank(q)' = HoldsBank(q)
    BY <1>1, <1>2, <1>4 DEF HoldsVendor, HoldsBank, VendorLinked, BankLinked
  <1>9. Claims'
    BY <1>1, <1>2, <1>4, <1>8 DEF IInv, Claims, L!OneToOne, SameKey, BankLinked
  <1> QED
    BY <1>6, <1>7, <1>9

\* A run that gets past the first index holds a vendor key that is neither in
\* the table nor held by another run.
LEMMA InsertVendorLedger ==
  ASSUME IInv, NEW r \in Runs, InsertVendorKey(r), ~Abort(r)
  PROVE  CursorOk' /\ Claims' /\ Ledgers'
  <1>1. UNCHANGED <<reconStatus, bankTxns, matches, todo, cur, pending>>
    BY DEF InsertVendorKey, tables
  <1>2. /\ pc[r] = "linkVendor"
        /\ ~Waits(r)
        /\ cur[r][1] \notin VendorLinked(matches)
        /\ pc' = [pc EXCEPT ![r] = "linkBank"]
    BY DEF InsertVendorKey
  <1>3. cur[r] \in Link /\ cur[r][1] \in VendorRows
    BY <1>2 DEF IInv, TypeInv, CursorType, Linking, Link
  <1>4. Ledgers'
    BY <1>1 DEF IInv, Ledgers, LinksAgree, LedgerOneToOne, L!OneToOne,
                StatusMatchesLedger, VendorLinked
  <1>5. CursorOk'
    BY <1>1, <1>2
    DEF IInv, TypeInv, TypeOK, CursorOk, Linking, VendorLinked, BankLinked, SameKey
  <1>6. /\ HoldsVendor(r)' = HoldsVendor(r) \cup {cur[r][1]}
        /\ HoldsBank(r)' = HoldsBank(r)
        /\ \A q \in Runs \ {r} : HoldsVendor(q)' = HoldsVendor(q) /\ HoldsBank(q)' = HoldsBank(q)
    BY <1>1, <1>2 DEF IInv, TypeInv, TypeOK, HoldsVendor, HoldsBank, VendorLinked, BankLinked
  <1>7. \A q \in Runs \ {r} : cur[r][1] \notin HoldsVendor(q)
    BY <1>2 DEF Waits, WaitsFor
  <1>8. reconStatus[cur[r][1]] = "UNMATCHED"
    BY <1>2, <1>3
    DEF IInv, TypeInv, TypeOK, Status, CursorOk, Linking, Ledgers, StatusMatchesLedger
  <1>9. Claims'
    <2>1. pc'[r] = "linkBank" /\ \A q \in Runs \ {r} : pc'[q] = pc[q]
      BY <1>2 DEF IInv, TypeInv, TypeOK
    <2>2. \A q \in Runs :
            /\ pending'[q] # {} => pc'[q] \in {"scan", "linkVendor", "linkBank"}
            /\ L!OneToOne(pending'[q])
            /\ \A p \in pending'[q] : SameKey(p[1], p[2])
      BY <1>1, <2>1 DEF IInv, Claims
    <2>3. \A q \in Runs :
            /\ \A v \in HoldsVendor(q)' : reconStatus'[v] = "UNMATCHED"
            /\ \A b \in HoldsBank(q)' : b \in bankTxns' \ BankLinked(matches')
      BY <1>1, <1>6, <1>8 DEF IInv, Claims
    <2>4. \A q \in Runs : \A p \in Runs \ {q} :
            /\ HoldsVendor(q)' \cap HoldsVendor(p)' = {}
            /\ HoldsBank(q)' \cap HoldsBank(p)' = {}
      BY <1>6, <1>7 DEF IInv, Claims
    <2> QED
      BY <2>2, <2>3, <2>4 DEF Claims, L!OneToOne, SameKey, BankLinked
  <1> QED
    BY <1>4, <1>5, <1>9

\* A run that gets past the second index adds its link to its claims.
LEMMA InsertBankLedger ==
  ASSUME IInv, NEW r \in Runs, InsertBankKey(r), ~Abort(r)
  PROVE  CursorOk' /\ Claims' /\ Ledgers'
  <1>1. UNCHANGED <<reconStatus, bankTxns, matches, todo>>
    BY DEF InsertBankKey, tables
  <1>2. /\ pc[r] = "linkBank"
        /\ ~Waits(r)
        /\ cur[r][2] \notin BankLinked(matches)
        /\ pc'      = [pc EXCEPT ![r] = "scan"]
        /\ pending' = [pending EXCEPT ![r] = pending[r] \cup {cur[r]}]
        /\ cur'     = [cur EXCEPT ![r] = NoLink]
    BY DEF InsertBankKey
  <1>3. /\ pc'[r] = "scan"
        /\ pending'[r] = pending[r] \cup {cur[r]}
        /\ \A q \in Runs \ {r} : pc'[q] = pc[q] /\ cur'[q] = cur[q] /\ pending'[q] = pending[q]
    BY <1>2 DEF IInv, TypeInv, TypeOK
  <1>4. /\ SameKey(cur[r][1], cur[r][2])
        /\ cur[r][1] \notin todo[r] \cup VendorLinked(pending[r])
        /\ cur[r][2] \in bankTxns \ BankLinked(pending[r])
    BY <1>2 DEF IInv, CursorOk, Linking
  <1>5. Ledgers'
    BY <1>1 DEF IInv, Ledgers, LinksAgree, LedgerOneToOne, L!OneToOne,
                StatusMatchesLedger, VendorLinked
  <1>6. CursorOk'
    BY <1>1, <1>3, <1>4
    DEF IInv, CursorOk, Linking, VendorLinked, BankLinked, SameKey
  <1>7. /\ HoldsVendor(r)' = HoldsVendor(r)
        /\ HoldsBank(r)' = HoldsBank(r) \cup {cur[r][2]}
        /\ \A q \in Runs \ {r} : HoldsVendor(q)' = HoldsVendor(q) /\ HoldsBank(q)' = HoldsBank(q)
    BY <1>2, <1>3 DEF HoldsVendor, HoldsBank, VendorLinked, BankLinked
  <1>8. \A q \in Runs \ {r} : cur[r][2] \notin HoldsBank(q)
    BY <1>2 DEF Waits, WaitsFor
  <1>9. L!OneToOne(pending'[r])
    BY <1>3, <1>4 DEF IInv, Claims, L!OneToOne, VendorLinked, BankLinked
  <1>10. Claims'
    BY <1>1, <1>2, <1>3, <1>4, <1>7, <1>8, <1>9
    DEF IInv, Claims, L!OneToOne, SameKey, BankLinked
  <1> QED
    BY <1>5, <1>6, <1>10

\* A run that commits publishes claims that neither the table nor any other
\* run has a key of: this is where Claims is needed.
LEMMA PublishLedger ==
  ASSUME IInv, NEW r \in Runs, Publish(r)
  PROVE  CursorOk' /\ Claims' /\ Ledgers'
  <1>1. UNCHANGED <<bankTxns, todo, cur>>
    BY DEF Publish
  <1>2. /\ pc[r] = "scan"
        /\ matches' = matches \cup pending[r]
        /\ \A v \in VendorRows : reconStatus'[v] =
              IF v \in VendorLinked(pending[r]) THEN "MATCHED" ELSE reconStatus[v]
    BY DEF Publish
  <1>3. /\ pc'[r] = "done"
        /\ pending'[r] = {}
        /\ \A q \in Runs \ {r} : pc'[q] = pc[q] /\ pending'[q] = pending[q]
    BY DEF Publish, IInv, TypeInv, TypeOK
  <1>4. /\ \A p \in pending[r] : p[1] \in HoldsVendor(r) /\ p[2] \in HoldsBank(r)
        /\ pending[r] \subseteq Link
    BY DEF HoldsVendor, HoldsBank, VendorLinked, BankLinked, IInv, TypeInv, TypeOK
  <1>5. \A p \in pending[r], m \in matches : p[1] # m[1] /\ p[2] # m[2]
    <2> SUFFICES ASSUME NEW p \in pending[r], NEW m \in matches
                 PROVE  p[1] # m[1] /\ p[2] # m[2]
      OBVIOUS
    <2>1. p[2] \notin BankLinked(matches)
      BY <1>4 DEF IInv, Claims
    <2>2. reconStatus[p[1]] = "UNMATCHED" /\ p[1] \in VendorRows
      BY <1>4 DEF IInv, Claims, Link
    <2>3. p[1] \notin VendorLinked(matches)
      BY <2>2 DEF IInv, Ledgers, StatusMatchesLedger
    <2> QED
      BY <2>1, <2>3 DEF VendorLinked, BankLinked
  <1>6. Ledgers'
    <2>1. LinksAgree'
      BY <1>1, <1>2, <1>4 DEF IInv, Ledgers, LinksAgree, Claims, SameKey
    <2>2. LedgerOneToOne'
      BY <1>2, <1>5 DEF IInv, Ledgers, LedgerOneToOne, L!OneToOne, Claims
    <2>3. StatusMatchesLedger'
      BY <1>2 DEF IInv, Ledgers, StatusMatchesLedger, VendorLinked
    <2> QED
      BY <2>1, <2>2, <2>3 DEF Ledgers
  <1>7. CursorOk'
    <2>1. \A q \in Runs : Linking(q)' => Linking(q) /\ cur[q] \in Link /\ cur[q][1] \in VendorRows
      BY <1>3 DEF Linking, IInv, TypeInv, CursorType, Link
    <2>2. \A q \in Runs : pending'[q] \subseteq pending[q] /\ todo[q] \subseteq VendorRows
      BY <1>3 DEF IInv, TypeInv, TypeOK
    <2>3. \A v \in VendorRows : reconStatus[v] # "ABSENT" => reconStatus'[v] # "ABSENT"
      BY <1>2
    <2> QED
      BY <1>1, <2>1, <2>2, <2>3 DEF IInv, CursorOk, VendorLinked, BankLinked, SameKey
  <1>8. \A q \in Runs \ {r} : HoldsVendor(q)' = HoldsVendor(q) /\ HoldsBank(q)' = HoldsBank(q)
    BY <1>1, <1>3 DEF HoldsVendor, HoldsBank, VendorLinked, BankLinked
  <1>9. HoldsVendor(r)' = {} /\ HoldsBank(r)' = {}
    BY <1>3 DEF HoldsVendor, HoldsBank, VendorLinked, BankLinked
  <1>10. Claims'
    <2>1. \A q \in Runs \ {r} : \A v \in HoldsVendor(q) : reconStatus'[v] = "UNMATCHED"
      <3> SUFFICES ASSUME NEW q \in Runs \ {r}, NEW v \in HoldsVendor(q)
                   PROVE  reconStatus'[v] = "UNMATCHED"
        OBVIOUS
      <3>1. v \in VendorRows
        BY DEF IInv, TypeInv, TypeOK, CursorType, Linking, HoldsVendor, VendorLinked, Link
      <3>2. v \notin HoldsVendor(r) /\ reconStatus[v] = "UNMATCHED"
        BY DEF IInv, Claims
      <3>3. v \notin VendorLinked(pending[r])
        BY <1>4, <3>2 DEF VendorLinked
      <3> QED
        BY <1>2, <3>1, <3>2, <3>3
    <2>2. \A q \in Runs \ {r} : \A b \in HoldsBank(q) : b \in bankTxns \ BankLinked(matches')
      <3> SUFFICES ASSUME NEW q \in Runs \ {r}, NEW b \in HoldsBank(q)
                   PROVE  b \in bankTxns \ BankLinked(matches')
        OBVIOUS
      <3>1. b \in bankTxns \ BankLinked(matches) /\ b \notin HoldsBank(r)
        BY DEF IInv, Claims
      <3> QED
        BY <1>2, <1>4, <3>1 DEF BankLinked
    <2> QED
      BY <1>1, <1>3, <1>8, <1>9, <2>1, <2>2 DEF IInv, Claims, L!OneToOne, SameKey, BankLinked
  <1> QED
    BY <1>6, <1>7, <1>10

\* IInv is inductive.
LEMMA NextIInv ==
  ASSUME IInv, [Next]_vars
  PROVE  IInv'
  <1>1. TypeInv'
    BY NextTypeInv DEF IInv
  <1>2. SUFFICES CursorOk' /\ Claims' /\ Ledgers'
    BY <1>1 DEF IInv
  <1>3. ASSUME NEW r \in Runs, Abort(r)
        PROVE  CursorOk' /\ Claims' /\ Ledgers'
    BY <1>3, ReleaseLedger DEF Abort, tables, IInv, TypeInv, TypeOK
  <1>4. ASSUME NEW r \in Runs, RollBack(r, "done")
        PROVE  CursorOk' /\ Claims' /\ Ledgers'
    BY <1>4, ReleaseLedger DEF RollBack, tables, IInv, TypeInv, TypeOK
  <1>5. ASSUME NEW S \in SUBSET VendorRows, SyncCommit(S)
        PROVE  CursorOk' /\ Claims' /\ Ledgers'
    BY <1>5, SyncLedger
  <1>6. ASSUME NEW b \in BankRows, IngestBank(b)
        PROVE  CursorOk' /\ Claims' /\ Ledgers'
    BY <1>6, IngestLedger
  <1>7. ASSUME NEW r \in Runs, RunStep(r)
        PROVE  CursorOk' /\ Claims' /\ Ledgers'
    <2>1. CASE QueryUnmatched(r)
      BY <2>1, QueryLedger
    <2>2. CASE FindBankTxn(r)
      BY <2>2, FindLedger
    <2>3. CASE InsertVendorKey(r)
      BY <2>3, <1>3, InsertVendorLedger
    <2>4. CASE InsertBankKey(r)
      BY <2>4, <1>3, InsertBankLedger
    <2>5. CASE Commit(r)
      BY <2>5, PublishLedger DEF Commit
    <2>6. CASE CommitFails(r)
      BY <2>6, <1>4 DEF CommitFails
    <2> QED
      BY <1>7, <2>1, <2>2, <2>3, <2>4, <2>5, <2>6 DEF RunStep
  <1>8. ASSUME NEW r \in Runs, DeadlockVictim(r)
        PROVE  CursorOk' /\ Claims' /\ Ledgers'
    BY <1>8, <1>3 DEF DeadlockVictim
  <1>9. ASSUME NEW r \in Runs, CommitUnacknowledged(r)
        PROVE  CursorOk' /\ Claims' /\ Ledgers'
    BY <1>9, PublishLedger DEF CommitUnacknowledged
  <1>10. ASSUME NEW r \in Runs, Disconnect(r)
         PROVE  CursorOk' /\ Claims' /\ Ledgers'
    BY <1>10, <1>4 DEF Disconnect
  <1>11. CASE Crash
    <2>1. /\ UNCHANGED tables
          /\ \A q \in Runs : todo'[q] = {} /\ pending'[q] = {}
          /\ \A q \in Runs : pc'[q] = IF pc[q] \in InTxn THEN "dead" ELSE pc[q]
      BY <1>11 DEF Crash
    <2>2. \A q \in Runs : pc'[q] \notin {"linkVendor", "linkBank"}
      BY <2>1 DEF InTxn
    <2> QED
      BY <2>1, <2>2, ReleaseLedger
  <1>12. CASE UNCHANGED vars
    BY <1>12, ReleaseLedger DEF vars, tables
  <1> QED
    BY <1>5, <1>6, <1>7, <1>8, <1>9, <1>10, <1>11, <1>12 DEF Next, Quiesced

\* The strengthened invariant holds of the engine.
LEMMA Invariance == Spec => []IInv
  <1>1. Init => IInv
    BY InitTypeInv, InitLedger DEF IInv
  <1>2. IInv /\ [Next]_vars => IInv'
    BY NextIInv
  <1> QED
    BY <1>1, <1>2, PTL DEF Spec

\* A vendor row is settled by one bank row at most and a bank row settles one
\* vendor row at most, in every interleaving of any number of runs.
THEOREM LedgerSound == Spec => []LedgerOneToOne
  <1>1. IInv => LedgerOneToOne
    BY DEF IInv, Ledgers
  <1> QED
    BY Invariance, <1>1, PTL

\* A row is MATCHED exactly when it has a link.
THEOREM StatusSound == Spec => []StatusMatchesLedger
  <1>1. IInv => StatusMatchesLedger
    BY DEF IInv, Ledgers
  <1> QED
    BY Invariance, <1>1, PTL

\* What the open transactions hold could be committed in any order.
THEOREM ClaimsSound == Spec => []Claims
  <1>1. IInv => Claims
    BY DEF IInv
  <1> QED
    BY Invariance, <1>1, PTL

-----------------------------------------------------------------------------
(* Refinement of Ledger. *)

\* A COMMIT is a settlement of everything the run has linked, at once.
LEMMA PublishSettles ==
  ASSUME IInv, NEW r \in Runs, Publish(r)
  PROVE  L!Next
  <1> DEFINE unsettled == {v \in VendorRows : reconStatus[v] = "UNMATCHED"}
             free      == bankTxns \ BankLinked(matches)
  <1>1. pending[r] \subseteq Link
    BY DEF IInv, TypeInv, TypeOK
  <1>2. pending[r] \in SUBSET (unsettled \X free)
    <2> SUFFICES ASSUME NEW p \in pending[r]
                 PROVE  p \in unsettled \X free
      OBVIOUS
    <2>1. p[1] \in HoldsVendor(r) /\ p[2] \in HoldsBank(r)
      BY DEF HoldsVendor, HoldsBank, VendorLinked, BankLinked
    <2>2. p[1] \in unsettled /\ p[2] \in free
      BY <1>1, <2>1 DEF IInv, Claims, Link
    <2> QED
      BY <1>1, <2>2 DEF Link
  <1>3. /\ L!OneToOne(pending[r])
        /\ \A p \in pending[r] : L!SameKey(p[1], p[2])
    BY DEF IInv, Claims, SameKey, L!SameKey
  <1>4. /\ matches' = matches \cup pending[r]
        /\ bankTxns' = bankTxns
        /\ \A v \in VendorRows : reconStatus'[v] =
              IF v \in VendorLinked(pending[r]) THEN "MATCHED" ELSE reconStatus[v]
    BY DEF Publish
  <1>5. unsettled' = {v \in unsettled : \A p \in pending[r] : p[1] # v}
    BY <1>4 DEF VendorLinked
  <1>6. free' = {b \in free : \A p \in pending[r] : p[2] # b}
    BY <1>4 DEF BankLinked
  <1>7. PICK M : M = pending[r]
    OBVIOUS
  <1>8. L!Settle(M)
    BY <1>3, <1>4, <1>5, <1>6, <1>7 DEF L!Settle, L!OneToOne, L!SameKey
  <1> QED
    BY <1>2, <1>7, <1>8 DEF L!Next

\* Every step of the engine and of the writers of its tables is a step of
\* Ledger or changes nothing Ledger can see.
LEMMA StepRefines ==
  ASSUME IInv, [Next]_vars
  PROVE  [L!Next]_(L!vars)
  <1>1. CASE UNCHANGED tables
    BY <1>1 DEF tables, L!vars, BankLinked
  <1>2. ASSUME NEW S \in SUBSET VendorRows, SyncCommit(S)
        PROVE  L!Next
    <2>1. \A v \in S : reconStatus[v] = "ABSENT" /\ v \notin VendorLinked(matches)
      BY <1>2 DEF SyncCommit, IInv, Ledgers, StatusMatchesLedger
    <2>2. L!Expect(S)
      BY <1>2, <2>1 DEF SyncCommit, L!Expect, VendorLinked, BankLinked
    <2> QED
      BY <2>2 DEF L!Next
  <1>3. ASSUME NEW b \in BankRows, IngestBank(b)
        PROVE  L!Next
    <2>1. \A p \in matches : p[2] # b
      BY <1>3 DEF IngestBank, IInv, Ledgers, LinksAgree
    <2>2. L!Receive(b)
      BY <1>3, <2>1 DEF IngestBank, L!Receive, BankLinked
    <2> QED
      BY <2>2 DEF L!Next
  <1>4. ASSUME NEW r \in Runs, Commit(r) \/ CommitUnacknowledged(r)
        PROVE  L!Next
    BY <1>4, PublishSettles DEF Commit, CommitUnacknowledged
  <1>5. ASSUME NEW r \in Runs,
               \/ QueryUnmatched(r)
               \/ FindBankTxn(r)
               \/ InsertVendorKey(r)
               \/ InsertBankKey(r)
               \/ CommitFails(r)
               \/ DeadlockVictim(r)
               \/ Disconnect(r)
        PROVE  UNCHANGED tables
    BY <1>5 DEF QueryUnmatched, FindBankTxn, InsertVendorKey, InsertBankKey, CommitFails,
                DeadlockVictim, Disconnect, Abort, RollBack
  <1>6. CASE Crash \/ UNCHANGED vars
    BY <1>1, <1>6 DEF Crash, vars, tables
  <1>7. L!Next \/ UNCHANGED tables \/ Crash \/ UNCHANGED vars
    BY <1>2, <1>3, <1>4, <1>5 DEF Next, RunStep, Quiesced
  <1> QED
    BY <1>1, <1>6, <1>7

\* The engine implements Ledger: its ledger only grows, by whole runs, and
\* only by links between an unsettled and a free row of one UTR and amount.
THEOREM Refinement == Spec => RefinesLedger
  <1>1. Init => L!Init
    BY DEF Init, L!Init, BankLinked
  <1>2. IInv /\ [Next]_vars => [L!Next]_(L!vars)
    BY StepRefines
  <1> QED
    BY Invariance, <1>1, <1>2, PTL DEF Spec, RefinesLedger, L!Spec

-----------------------------------------------------------------------------
(* What a call returns: the count. *)

Working == {"scan", "linkVendor", "linkBank"}

\* matchedCount counts the links of a transaction that has not failed.
CountOk ==
    \A r \in Runs :
        /\ IsFiniteSet(pending[r])
        /\ pc[r] = "idle" => matchedCount[r] = 0
        /\ pc[r] \in Working => matchedCount[r] = Cardinality(pending[r])

\* Before any call the counters are 0.
LEMMA InitCount == Init => CountOk
  BY FS_EmptySet DEF Init, CountOk, Working

\* A step in which each run keeps its links and its counter and does not begin,
\* or has no links and does not work, keeps the count right.
LEMMA CountKept ==
  ASSUME CountOk,
         \A q \in Runs :
            \/ /\ pending'[q] = pending[q]
               /\ matchedCount'[q] = matchedCount[q]
               /\ pc'[q] = "idle" => pc[q] = "idle"
               /\ pc'[q] \in Working => pc[q] \in Working
            \/ /\ pending'[q] = {}
               /\ pc'[q] \notin Working \cup {"idle"}
  PROVE  CountOk'
  BY FS_EmptySet DEF CountOk, Working

\* A link that is added is new to its transaction and counts one.
LEMMA InsertBankCount ==
  ASSUME IInv, CountOk, NEW r \in Runs, InsertBankKey(r), ~Abort(r)
  PROVE  CountOk'
  <1>1. /\ pc[r] = "linkBank"
        /\ pc'           = [pc EXCEPT ![r] = "scan"]
        /\ pending'      = [pending EXCEPT ![r] = pending[r] \cup {cur[r]}]
        /\ matchedCount' = [matchedCount EXCEPT ![r] = matchedCount[r] + 1]
    BY DEF InsertBankKey
  <1>2. cur[r] \notin pending[r]
    BY <1>1 DEF IInv, CursorOk, Linking, VendorLinked
  <1>3. /\ IsFiniteSet(pending[r] \cup {cur[r]})
        /\ Cardinality(pending[r] \cup {cur[r]}) = Cardinality(pending[r]) + 1
    BY <1>2, FS_AddElement DEF CountOk
  <1>4. /\ pending'[r] = pending[r] \cup {cur[r]}
        /\ matchedCount'[r] = matchedCount[r] + 1
        /\ pc'[r] = "scan"
        /\ \A q \in Runs \ {r} : /\ pending'[q] = pending[q]
                                 /\ matchedCount'[q] = matchedCount[q]
                                 /\ pc'[q] = pc[q]
    BY <1>1 DEF IInv, TypeInv, TypeOK
  <1> QED
    BY <1>1, <1>3, <1>4 DEF CountOk, Working

\* Every step keeps the count right.
LEMMA NextCount ==
  ASSUME IInv, CountOk, [Next]_vars
  PROVE  CountOk'
  <1>1. /\ pc \in [Runs -> PC]
        /\ pending \in [Runs -> SUBSET Link]
        /\ matchedCount \in [Runs -> Nat]
    BY DEF IInv, TypeInv, TypeOK
  <1>2. ASSUME NEW r \in Runs, Abort(r)
        PROVE  CountOk'
    BY <1>1, <1>2, CountKept DEF Abort, Working
  <1>3. ASSUME NEW r \in Runs, RollBack(r, "done")
        PROVE  CountOk'
    BY <1>1, <1>3, CountKept DEF RollBack, Working
  <1>4. ASSUME NEW r \in Runs, Publish(r)
        PROVE  CountOk'
    BY <1>1, <1>4, CountKept DEF Publish, Working
  <1>5. ASSUME NEW S \in SUBSET VendorRows, SyncCommit(S)
        PROVE  CountOk'
    BY <1>5, CountKept DEF SyncCommit, runVars
  <1>6. ASSUME NEW b \in BankRows, IngestBank(b)
        PROVE  CountOk'
    BY <1>6, CountKept DEF IngestBank, runVars
  <1>7. ASSUME NEW r \in Runs, QueryUnmatched(r)
        PROVE  CountOk'
    <2>1. pending[r] = {}
      BY <1>7 DEF IInv, Claims, QueryUnmatched
    <2> QED
      BY <1>1, <1>7, <2>1, FS_EmptySet DEF QueryUnmatched, CountOk, Working
  <1>8. ASSUME NEW r \in Runs, FindBankTxn(r)
        PROVE  CountOk'
    <2>1. pc[r] = "scan" /\ UNCHANGED <<pending, matchedCount>>
      BY <1>8 DEF FindBankTxn
    <2>2. pc' = pc \/ pc' = [pc EXCEPT ![r] = "linkVendor"]
      BY <1>8 DEF FindBankTxn
    <2> QED
      BY <1>1, <2>1, <2>2, CountKept DEF Working
  <1>9. ASSUME NEW r \in Runs, InsertVendorKey(r)
        PROVE  CountOk'
    <2>1. CASE ~Abort(r)
      BY <1>1, <1>9, <2>1, CountKept DEF InsertVendorKey, Working
    <2> QED
      BY <1>2, <2>1
  <1>10. ASSUME NEW r \in Runs, InsertBankKey(r)
         PROVE  CountOk'
    BY <1>10, <1>2, InsertBankCount
  <1>11. CASE Crash
    <2>1. \A q \in Runs :
            /\ pending'[q] = {}
            /\ matchedCount'[q] = matchedCount[q]
            /\ pc'[q] = IF pc[q] \in InTxn THEN "dead" ELSE pc[q]
      BY <1>11 DEF Crash
    <2> QED
      BY <2>1, FS_EmptySet DEF CountOk, Working, InTxn
  <1>12. CASE UNCHANGED vars
    BY <1>12, CountKept DEF vars
  <1>13. ASSUME NEW r \in Runs, RunStep(r)
         PROVE  CountOk'
    BY <1>13, <1>3, <1>4, <1>7, <1>8, <1>9, <1>10 DEF RunStep, Commit, CommitFails
  <1> QED
    BY <1>2, <1>3, <1>4, <1>5, <1>6, <1>11, <1>12, <1>13
    DEF Next, Quiesced, DeadlockVictim, CommitUnacknowledged, Disconnect

\* The links of an open transaction are not in the table, so a COMMIT adds as
\* many rows as the transaction has links.
LEMMA CommitAdds ==
  ASSUME IInv, CountOk, NEW r \in Runs, Commit(r)
  PROVE  matchedCount[r] = Cardinality(matches' \ matches)
  <1>1. pc[r] = "scan" /\ matches' = matches \cup pending[r]
    BY DEF Commit, Publish
  <1>2. \A p \in pending[r] : p \notin matches
    BY DEF IInv, Claims, HoldsBank, BankLinked
  <1>3. matches' \ matches = pending[r]
    BY <1>1, <1>2
  <1> QED
    BY <1>1, <1>3 DEF CountOk, Working

\* A step that gives a call its result returns what the call did.
LEMMA StepReports ==
  ASSUME IInv, CountOk, [Next]_vars, NEW r \in Runs, result'[r] # result[r]
  PROVE  IF result'[r] = "ok"
           THEN /\ pc[r] # "aborted"
                /\ reported'[r] = Cardinality(matches' \ matches)
           ELSE reported'[r] = 0
  <1>1. result \in [Runs -> {"none", "ok", "error"}] /\ reported \in [Runs -> Nat]
    BY DEF IInv, TypeInv, TypeOK
  <1>2. ASSUME NEW q \in Runs, NEW res, NEW n, Return(q, res, n)
        PROVE  q = r /\ result'[r] = res /\ reported'[r] = n
    BY <1>1, <1>2 DEF Return
  <1>3. ASSUME NEW q \in Runs, Commit(q)
        PROVE  /\ result'[r] = "ok"
               /\ pc[r] # "aborted"
               /\ reported'[r] = Cardinality(matches' \ matches)
    <2>1. q = r /\ result'[r] = "ok" /\ reported'[r] = matchedCount[q]
      BY <1>2, <1>3 DEF Commit
    <2> QED
      BY <1>3, <2>1, CommitAdds DEF Commit, Publish
  <1>4. ASSUME NEW q \in Runs, CommitFails(q) \/ CommitUnacknowledged(q) \/ Disconnect(q)
        PROVE  result'[r] = "error" /\ reported'[r] = 0
    BY <1>2, <1>4 DEF CommitFails, CommitUnacknowledged, Disconnect
  <1>5. ASSUME result' = result
        PROVE  FALSE
    BY <1>5
  <1>6. ASSUME NEW q \in Runs, QueryUnmatched(q) \/ FindBankTxn(q) \/ InsertVendorKey(q)
                                \/ InsertBankKey(q) \/ DeadlockVictim(q)
        PROVE  FALSE
    BY <1>5, <1>6
    DEF QueryUnmatched, FindBankTxn, InsertVendorKey, InsertBankKey, DeadlockVictim, Abort
  <1>7. ASSUME NEW S \in SUBSET VendorRows, SyncCommit(S)
        PROVE  FALSE
    BY <1>5, <1>7 DEF SyncCommit, runVars
  <1>8. ASSUME NEW b \in BankRows, IngestBank(b)
        PROVE  FALSE
    BY <1>5, <1>8 DEF IngestBank, runVars
  <1>9. ~Crash /\ ~UNCHANGED vars
    BY <1>5 DEF Crash, vars
  <1> QED
    BY <1>3, <1>4, <1>6, <1>7, <1>8, <1>9 DEF Next, RunStep, Quiesced

\* The count a call returns is the number of links it added to the table, and 0
\* when it returns an error, for any rows and any number of runs.
THEOREM Reports == Spec => ReportsWhatItDid
  <1>1. CountOk /\ IInv /\ [Next]_vars => CountOk'
    BY NextCount
  <1>2. Spec => [](IInv /\ CountOk)
    BY <1>1, InitCount, Invariance, PTL DEF Spec
  <1>3. IInv /\ CountOk /\ [Next]_vars =>
          [\A r \in Runs : result'[r] # result[r] =>
              IF result'[r] = "ok"
                THEN /\ pc[r] # "aborted"
                     /\ reported'[r] = Cardinality(matches' \ matches)
                ELSE reported'[r] = 0]_vars
    BY StepReports
  <1> QED
    BY <1>2, <1>3, PTL DEF Spec, ReportsWhatItDid

-----------------------------------------------------------------------------
(* Nothing is left over. *)

\* Row v is out of the way of run r: it is linked, or the bank rows of its key
\* that were there when r began are.
Settled(r, v)  == v \in VendorLinked(matches \cup pending[r])
Hopeless(r, v) == {b \in view[r].bank : SameKey(v, b)} \subseteq BankLinked(matches \cup pending[r])

\* A row of the list is still to come, being linked, or out of the way.
Scanned(r) ==
    \A v \in view[r].vendor :
        \/ v \in todo[r]
        \/ Linking(r) /\ v = cur[r][1]
        \/ Settled(r, v)
        \/ Hopeless(r, v)

ScanOk ==
    /\ \A r \in Runs : pc[r] \in Working => Scanned(r)
    /\ \A r \in Runs : view[r].bank \subseteq bankTxns
    /\ \A r \in Runs : result[r] = "ok" => pc[r] = "done"

ExhaustInv == ScanOk /\ Exhaustive

\* Before any call there is no list.
LEMMA InitExhaust == Init => ExhaustInv
  BY DEF Init, ExhaustInv, ScanOk, Exhaustive, Working

\* The ledger and bank_transactions only grow.
LEMMA TablesGrow ==
  ASSUME [Next]_vars
  PROVE  matches \subseteq matches' /\ bankTxns \subseteq bankTxns'
  BY DEF Next, vars, tables, SyncCommit, IngestBank, RunStep, QueryUnmatched, FindBankTxn,
         InsertVendorKey, InsertBankKey, Commit, CommitFails, Publish, RollBack, Abort,
         DeadlockVictim, CommitUnacknowledged, Disconnect, Crash, Quiesced

\* A row that is out of the way stays so while the run keeps its list and adds
\* to its links.
LEMMA OutOfTheWay ==
  ASSUME matches \subseteq matches', NEW r \in Runs, NEW v,
         pending[r] \subseteq pending'[r], view'[r] = view[r]
  PROVE  /\ Settled(r, v) => Settled(r, v)'
         /\ Hopeless(r, v) => Hopeless(r, v)'
  BY DEF Settled, Hopeless, VendorLinked, BankLinked, SameKey

\* A step keeps the invariant if every run keeps its list, no run succeeds,
\* and those that go on working keep what they had scanned.
LEMMA ExhaustKept ==
  ASSUME ExhaustInv, [Next]_vars,
         \A q \in Runs :
            /\ view'[q] = view[q]
            /\ result'[q] = "ok" => result[q] = "ok"
            /\ pc[q] = "done" => pc'[q] = "done"
            /\ pc'[q] \in Working => Scanned(q)'
  PROVE  ExhaustInv'
  <1>1. matches \subseteq matches' /\ bankTxns \subseteq bankTxns'
    BY TablesGrow
  <1>2. ScanOk'
    BY <1>1 DEF ExhaustInv, ScanOk
  <1>3. Exhaustive'
    BY <1>1 DEF ExhaustInv, Exhaustive, VendorLinked, BankLinked, SameKey
  <1> QED
    BY <1>2, <1>3 DEF ExhaustInv

\* A run that does not move keeps what it has scanned.
LEMMA ScannedKept ==
  ASSUME ExhaustInv, [Next]_vars, NEW q \in Runs, pc[q] \in Working,
         pc'[q] = pc[q], todo'[q] = todo[q], cur'[q] = cur[q],
         pending'[q] = pending[q], view'[q] = view[q]
  PROVE  Scanned(q)'
  <1>1. matches \subseteq matches'
    BY TablesGrow
  <1>2. \A v : /\ Settled(q, v) => Settled(q, v)'
               /\ Hopeless(q, v) => Hopeless(q, v)'
    BY <1>1, OutOfTheWay
  <1> QED
    BY <1>2 DEF ExhaustInv, ScanOk, Scanned, Linking

\* So a step in which some runs stop working without success, and the others do
\* not move, keeps the invariant.
LEMMA ExhaustStopped ==
  ASSUME ExhaustInv, [Next]_vars, view' = view,
         \A q \in Runs :
            \/ /\ pc'[q] = pc[q]
               /\ todo'[q] = todo[q]
               /\ cur'[q] = cur[q]
               /\ pending'[q] = pending[q]
               /\ result'[q] = result[q]
            \/ /\ pc[q] # "done"
               /\ pc'[q] \notin Working
               /\ result'[q] # "ok" \/ result'[q] = result[q]
  PROVE  ExhaustInv'
  BY ExhaustKept, ScannedKept

\* A run begins with its whole list to come.
LEMMA QueryExhaust ==
  ASSUME IInv, ExhaustInv, NEW r \in Runs, QueryUnmatched(r)
  PROVE  ExhaustInv'
  <1>1. [Next]_vars
    BY DEF Next, RunStep
  <1>2. /\ pc[r] = "idle"
        /\ pc'[r] = "scan"
        /\ todo'[r] = Unmatched(RunMerchant[r])
        /\ view'[r] = [vendor |-> Unmatched(RunMerchant[r]), bank |-> bankTxns]
        /\ UNCHANGED <<tables, cur, pending, result>>
        /\ \A q \in Runs \ {r} :
              pc'[q] = pc[q] /\ todo'[q] = todo[q] /\ view'[q] = view[q]
    BY DEF QueryUnmatched, IInv, TypeInv, TypeOK
  <1>3. Scanned(r)'
    BY <1>2 DEF Scanned
  <1>4. \A q \in Runs \ {r} : pc'[q] \in Working => Scanned(q)'
    BY <1>1, <1>2, ScannedKept
  <1>5. ScanOk'
    BY <1>2, <1>3, <1>4 DEF ExhaustInv, ScanOk, tables
  <1>6. \A q \in Runs : result'[q] = "ok" => view'[q] = view[q]
    BY <1>2 DEF ExhaustInv, ScanOk
  <1>7. Exhaustive'
    BY <1>2, <1>6 DEF ExhaustInv, Exhaustive, tables, SameKey
  <1> QED
    BY <1>5, <1>7 DEF ExhaustInv

\* A row is passed over when no bank row of its key is free; one that is not is
\* the row being linked.
LEMMA FindExhaust ==
  ASSUME IInv, ExhaustInv, NEW r \in Runs, FindBankTxn(r)
  PROVE  ExhaustInv'
  <1>1. [Next]_vars
    BY DEF Next, RunStep
  <1>2. pc[r] = "scan" /\ UNCHANGED <<tables, pending, result, view>>
    BY DEF FindBankTxn
  <1>3. PICK v \in todo[r] :
          /\ todo' = [todo EXCEPT ![r] = todo[r] \ {v}]
          /\ \/ /\ Candidates(r, v) = {}
                /\ UNCHANGED <<pc, cur>>
             \/ \E b \in Candidates(r, v) :
                  /\ cur' = [cur EXCEPT ![r] = <<v, b>>]
                  /\ pc'  = [pc EXCEPT ![r] = "linkVendor"]
    BY DEF FindBankTxn
  <1>4. /\ todo'[r] = todo[r] \ {v}
        /\ \A q \in Runs \ {r} : pc'[q] = pc[q] /\ todo'[q] = todo[q] /\ cur'[q] = cur[q]
    BY <1>3 DEF IInv, TypeInv, TypeOK
  <1>5. \A w : /\ Settled(r, w) => Settled(r, w)'
               /\ Hopeless(r, w) => Hopeless(r, w)'
    BY <1>2, OutOfTheWay DEF tables
  <1>6. Scanned(r) /\ ~Linking(r)
    BY <1>2 DEF ExhaustInv, ScanOk, Working, Linking
  <1>7. CASE Candidates(r, v) = {} /\ UNCHANGED <<pc, cur>>
    <2>1. Hopeless(r, v)
      BY <1>7 DEF Candidates, Hopeless, ExhaustInv, ScanOk
    <2>2. Scanned(r)'
      BY <1>4, <1>5, <1>6, <2>1, <1>2 DEF Scanned
    <2> QED
      BY <1>1, <1>2, <1>4, <1>7, <2>2, ScannedKept, ExhaustKept
  <1>8. ASSUME NEW b \in Candidates(r, v),
               cur' = [cur EXCEPT ![r] = <<v, b>>],
               pc'  = [pc EXCEPT ![r] = "linkVendor"]
        PROVE  ExhaustInv'
    <2>1. cur'[r] = <<v, b>> /\ pc'[r] = "linkVendor"
      BY <1>8 DEF IInv, TypeInv, TypeOK
    <2>2. Scanned(r)'
      BY <1>4, <1>5, <1>6, <2>1, <1>2 DEF Scanned, Linking
    <2> QED
      BY <1>1, <1>2, <1>4, <2>1, <2>2, ScannedKept, ExhaustKept DEF Working
  <1> QED
    BY <1>3, <1>7, <1>8

\* The row being linked stays the same until its link is added.
LEMMA InsertExhaust ==
  ASSUME IInv, ExhaustInv, NEW r \in Runs, InsertVendorKey(r) \/ InsertBankKey(r), ~Abort(r)
  PROVE  ExhaustInv'
  <1>1. [Next]_vars
    BY DEF Next, RunStep
  <1>2. /\ UNCHANGED <<tables, todo, result, view>>
        /\ pc[r] \in {"linkVendor", "linkBank"}
    BY DEF InsertVendorKey, InsertBankKey
  <1>3. \A q \in Runs \ {r} : pc'[q] = pc[q] /\ cur'[q] = cur[q] /\ pending'[q] = pending[q]
    BY DEF InsertVendorKey, InsertBankKey, IInv, TypeInv, TypeOK
  <1>4. \/ pc'[r] = "linkBank" /\ cur'[r] = cur[r] /\ pending'[r] = pending[r]
        \/ pc'[r] = "scan" /\ pending'[r] = pending[r] \cup {cur[r]}
    BY DEF InsertVendorKey, InsertBankKey, IInv, TypeInv, TypeOK
  <1>5. \A w : /\ Settled(r, w) => Settled(r, w)'
               /\ Hopeless(r, w) => Hopeless(r, w)'
    BY <1>2, <1>4, OutOfTheWay DEF tables
  <1>6. Scanned(r)
    BY <1>2 DEF ExhaustInv, ScanOk, Working
  <1>7. Scanned(r)'
    <2>1. CASE pc'[r] = "linkBank" /\ cur'[r] = cur[r]
      BY <1>2, <1>5, <1>6, <2>1 DEF Scanned, Linking
    <2>2. CASE pc'[r] = "scan" /\ pending'[r] = pending[r] \cup {cur[r]}
      <3>1. \A w : w = cur[r][1] => Settled(r, w)'
        BY <2>2 DEF Settled, VendorLinked
      <3>2. todo'[r] = todo[r] /\ view'[r] = view[r]
        BY <1>2
      <3> QED
        BY <1>5, <1>6, <3>1, <3>2 DEF Scanned
    <2> QED
      BY <1>4, <2>1, <2>2
  <1> QED
    BY <1>1, <1>2, <1>3, <1>7, ScannedKept, ExhaustKept

\* A run that commits has scanned its list, and its links are in the table.
LEMMA PublishExhaust ==
  ASSUME IInv, ExhaustInv, [Next]_vars, NEW r \in Runs, Publish(r),
         \A q \in Runs \ {r} : result'[q] = result[q]
  PROVE  ExhaustInv'
  <1>1. /\ pc[r] = "scan" /\ todo[r] = {}
        /\ matches' = matches \cup pending[r]
        /\ UNCHANGED <<bankTxns, todo, cur, view>>
        /\ pc'[r] = "done"
        /\ \A q \in Runs \ {r} : pc'[q] = pc[q] /\ pending'[q] = pending[q]
    BY DEF Publish, IInv, TypeInv, TypeOK
  <1>2. \A q \in Runs \ {r} : pc'[q] \in Working => Scanned(q)'
    BY <1>1, ScannedKept
  <1>3. ScanOk'
    BY <1>1, <1>2 DEF ExhaustInv, ScanOk, Working
  <1>4. Scanned(r) /\ ~Linking(r)
    BY <1>1 DEF ExhaustInv, ScanOk, Working, Linking
  <1>5. \A v \in view[r].vendor :
           v \in VendorLinked(matches') \/ {b \in view[r].bank : SameKey(v, b)} \subseteq BankLinked(matches')
    BY <1>1, <1>4 DEF Scanned, Settled, Hopeless
  <1>6. \A q \in Runs \ {r} : result'[q] = "ok" =>
           \A v \in view[q].vendor \ VendorLinked(matches') :
              {b \in view[q].bank : SameKey(v, b)} \subseteq BankLinked(matches')
    BY <1>1 DEF ExhaustInv, Exhaustive, VendorLinked, BankLinked
  <1>7. Exhaustive'
    BY <1>1, <1>5, <1>6 DEF Exhaustive, SameKey, VendorLinked, BankLinked
  <1> QED
    BY <1>3, <1>7 DEF ExhaustInv

\* Every step keeps the invariant.
LEMMA NextExhaust ==
  ASSUME IInv, ExhaustInv, [Next]_vars
  PROVE  ExhaustInv'
  <1>1. /\ pc \in [Runs -> PC]
        /\ todo \in [Runs -> SUBSET VendorRows]
        /\ cur \in [Runs -> Link \cup {NoLink}]
        /\ pending \in [Runs -> SUBSET Link]
        /\ result \in [Runs -> {"none", "ok", "error"}]
    BY DEF IInv, TypeInv, TypeOK
  <1>2. ASSUME NEW r \in Runs, Abort(r), pc[r] # "done"
        PROVE  ExhaustInv'
    BY <1>1, <1>2, ExhaustStopped DEF Abort, Working
  <1>3. ASSUME NEW r \in Runs, RollBack(r, "done"), Return(r, "error", 0), pc[r] # "done"
        PROVE  ExhaustInv'
    BY <1>1, <1>3, ExhaustStopped DEF RollBack, Return, Working
  <1>4. ASSUME NEW r \in Runs, NEW res, NEW n, Publish(r), Return(r, res, n)
        PROVE  ExhaustInv'
    BY <1>1, <1>4, PublishExhaust DEF Return
  <1>5. ASSUME NEW S \in SUBSET VendorRows, SyncCommit(S)
        PROVE  ExhaustInv'
    BY <1>5, ExhaustStopped DEF SyncCommit, runVars
  <1>6. ASSUME NEW b \in BankRows, IngestBank(b)
        PROVE  ExhaustInv'
    BY <1>6, ExhaustStopped DEF IngestBank, runVars
  <1>7. ASSUME NEW r \in Runs, InsertVendorKey(r) \/ InsertBankKey(r)
        PROVE  ExhaustInv'
    BY <1>2, <1>7, InsertExhaust DEF InsertVendorKey, InsertBankKey
  <1>8. ASSUME NEW r \in Runs, RunStep(r)
        PROVE  ExhaustInv'
    BY <1>3, <1>4, <1>7, <1>8, QueryExhaust, FindExhaust DEF RunStep, Commit, CommitFails
  <1>9. ASSUME NEW r \in Runs, DeadlockVictim(r)
        PROVE  ExhaustInv'
    <2>1. pc[r] # "done"
      <3>1. CASE \E q \in Runs : WaitsFor(r, q)
        BY <3>1 DEF WaitsFor
      <3>2. CASE \A q \in Runs : ~WaitsFor(r, q)
        <4>1. Deadlocked(r)
          BY <1>9 DEF DeadlockVictim
        <4>2. {} \in SUBSET Runs
          OBVIOUS
        <4>3. r \in {}
          BY <3>2, <4>1, <4>2 DEF Deadlocked
        <4> QED
          BY <4>3
      <3> QED
        BY <3>1, <3>2
    <2> QED
      BY <1>2, <1>9, <2>1 DEF DeadlockVictim
  <1>10. ASSUME NEW r \in Runs, CommitUnacknowledged(r) \/ Disconnect(r)
         PROVE  ExhaustInv'
    BY <1>3, <1>4, <1>10 DEF CommitUnacknowledged, Disconnect, InTxn
  <1>11. CASE Crash
    <2>1. /\ \A q \in Runs : pc'[q] = IF pc[q] \in InTxn THEN "dead" ELSE pc[q]
          /\ UNCHANGED <<matches, bankTxns, result, view>>
      BY <1>11 DEF Crash, tables
    <2>2. \A q \in Runs : pc'[q] \notin Working
      BY <2>1 DEF Working, InTxn
    <2>3. \A q \in Runs : pc[q] = "done" => pc'[q] = "done"
      BY <2>1 DEF InTxn
    <2> QED
      BY <2>1, <2>2, <2>3, ExhaustKept
  <1>12. CASE UNCHANGED vars
    BY <1>12, ExhaustStopped DEF vars
  <1> QED
    BY <1>5, <1>6, <1>8, <1>9, <1>10, <1>11, <1>12 DEF Next, Quiesced

\* A call that returns without error has settled every row of its list for
\* which there was a bank row to be had, for any rows and any number of runs.
THEOREM LeavesNothing == Spec => []Exhaustive
  <1>1. IInv /\ ExhaustInv /\ [Next]_vars => ExhaustInv'
    BY NextExhaust
  <1>2. ExhaustInv => Exhaustive
    BY DEF ExhaustInv
  <1> QED
    BY <1>1, <1>2, InitExhaust, Invariance, PTL DEF Spec

-----------------------------------------------------------------------------
(* Whom a run can fail for, as long as no connection breaks and the process *)
(* lives: a run fails only for another that has committed links, or that    *)
(* holds keys and may yet.                                                  *)

Winner == \E r \in Runs : result[r] = "ok" /\ reported[r] > 0
Failed == \E r \in Runs : pc[r] = "aborted" \/ result[r] = "error"

\* The transaction of q has inserted a key and has not ended.
Holder(q) == pc[q] = "linkBank" \/ (pc[q] \in Working /\ pending[q] # {})

WinnerInv ==
    /\ \A r \in Runs : result[r] # "none" => pc[r] = "done"
    /\ matches # {} => Winner
    /\ Failed => Winner \/ \E q \in Runs : Holder(q)

\* The steps that are no fault of the environment.
Undisturbed ==
    \/ \E S \in SUBSET VendorRows : SyncCommit(S)
    \/ \E b \in BankRows : IngestBank(b)
    \/ \E r \in Runs : RunStep(r)
    \/ \E r \in Runs : DeadlockVictim(r)

\* Nothing is linked and nothing has failed in the beginning.
LEMMA InitWinner == Init => WinnerInv
  BY DEF Init, WinnerInv, Winner, Failed

\* What a run waits for is held by a run that may still commit it.
LEMMA WaitedForHolds ==
  ASSUME IInv, NEW r \in Runs, NEW q \in Runs, WaitsFor(r, q)
  PROVE  Holder(q)
  <1>1. HoldsVendor(q) # {} \/ HoldsBank(q) # {}
    BY DEF WaitsFor
  <1>2. pending[q] # {} \/ pc[q] = "linkBank"
    BY <1>1 DEF HoldsVendor, HoldsBank, VendorLinked, BankLinked
  <1> QED
    BY <1>2 DEF IInv, Claims, Holder, Working

\* A run on a cycle of waits waits for another one.
LEMMA VictimWaits ==
  ASSUME NEW r \in Runs, Deadlocked(r)
  PROVE  \E q \in Runs : WaitsFor(r, q)
  <1> SUFFICES ASSUME \A q \in Runs : ~WaitsFor(r, q)
               PROVE  FALSE
    OBVIOUS
  <1>1. {} \in SUBSET Runs
    OBVIOUS
  <1>2. (/\ \A q \in Runs : WaitsFor(r, q) => q \in {}
         /\ \A p \in {}, q \in Runs : WaitsFor(p, q) => q \in {})
        => r \in {}
    BY <1>1, Zenon DEF Deadlocked
  <1> QED
    BY <1>2

\* A run whose statement fails does so for a winner, or for a holder that is not
\* itself; nobody else is touched.
LEMMA AbortWinner ==
  ASSUME IInv, WinnerInv, NEW r \in Runs, Abort(r), pc[r] # "done",
         Winner \/ \E q \in Runs \ {r} : Holder(q)
  PROVE  WinnerInv'
  <1>1. /\ \A q \in Runs \ {r} : pc'[q] = pc[q] /\ pending'[q] = pending[q]
        /\ UNCHANGED <<matches, result, reported>>
    BY DEF Abort, IInv, TypeInv, TypeOK, tables
  <1>2. Winner' <=> Winner
    BY <1>1 DEF Winner
  <1>3. \A q \in Runs \ {r} : Holder(q) => Holder(q)'
    BY <1>1 DEF Holder
  <1>4. \A q \in Runs : result'[q] # "none" => pc'[q] = "done"
    BY <1>1 DEF WinnerInv
  <1> QED
    BY <1>1, <1>2, <1>3, <1>4 DEF WinnerInv

\* A step in which no call returns, nothing is committed, nobody fails and
\* whoever holds keys goes on holding them.
LEMMA WorkWinner ==
  ASSUME WinnerInv, UNCHANGED <<matches, result, reported>>,
         \A q \in Runs :
            /\ pc'[q] = "aborted" => pc[q] = "aborted"
            /\ pc[q] = "done" => pc'[q] = "done"
            /\ Holder(q) => Holder(q)'
  PROVE  WinnerInv'
  <1>1. Winner' <=> Winner
    BY DEF Winner
  <1>2. Failed' => Failed
    BY DEF Failed
  <1> QED
    BY <1>1, <1>2 DEF WinnerInv

\* A COMMIT of links makes a winner; a COMMIT of none changes nothing.
LEMMA CommitWinner ==
  ASSUME IInv, CountOk, WinnerInv, NEW r \in Runs, Commit(r)
  PROVE  WinnerInv'
  <1>1. /\ pc[r] = "scan"
        /\ matches' = matches \cup pending[r]
        /\ pc' = [pc EXCEPT ![r] = "done"]
        /\ pending' = [pending EXCEPT ![r] = {}]
        /\ result' = [result EXCEPT ![r] = "ok"]
        /\ reported' = [reported EXCEPT ![r] = matchedCount[r]]
    BY DEF Commit, Publish, Return
  <1>2. result[r] = "none"
    BY <1>1 DEF WinnerInv
  <1>3. matchedCount[r] = Cardinality(pending[r]) /\ IsFiniteSet(pending[r])
    BY <1>1 DEF CountOk, Working
  <1>4. /\ \A q \in Runs \ {r} : /\ pc'[q] = pc[q] /\ pending'[q] = pending[q]
                                /\ result'[q] = result[q] /\ reported'[q] = reported[q]
        /\ pc'[r] = "done" /\ result'[r] = "ok" /\ reported'[r] = matchedCount[r]
    BY <1>1 DEF IInv, TypeInv, TypeOK
  <1>5. \A q \in Runs : result'[q] # "none" => pc'[q] = "done"
    BY <1>4 DEF WinnerInv
  <1>6. Winner => Winner'
    BY <1>2, <1>4 DEF Winner
  <1>7. CASE pending[r] = {}
    <2>1. matches' = matches /\ ~Holder(r)
      BY <1>1, <1>7 DEF Holder
    <2>2. \A q \in Runs : Holder(q) => Holder(q)'
      BY <1>4, <2>1 DEF Holder
    <2>3. Failed' => Failed
      BY <1>4 DEF Failed
    <2> QED
      BY <1>5, <1>6, <2>1, <2>2, <2>3 DEF WinnerInv
  <1>8. CASE pending[r] # {}
    <2>1. Cardinality(pending[r]) # 0 /\ Cardinality(pending[r]) \in Nat
      BY <1>3, <1>8, FS_EmptySet, FS_CardinalityType
    <2>2. reported'[r] > 0
      BY <1>3, <1>4, <2>1
    <2>3. Winner'
      BY <1>4, <2>2 DEF Winner
    <2> QED
      BY <1>5, <2>3 DEF WinnerInv
  <1> QED
    BY <1>7, <1>8

\* Every undisturbed step keeps it so.
LEMMA NextWinner ==
  ASSUME IInv, CountOk, WinnerInv, Undisturbed \/ UNCHANGED vars
  PROVE  WinnerInv'
  <1>1. ASSUME NEW S \in SUBSET VendorRows, SyncCommit(S)
        PROVE  WinnerInv'
    BY <1>1, WorkWinner DEF SyncCommit, runVars, Holder
  <1>2. ASSUME NEW b \in BankRows, IngestBank(b)
        PROVE  WinnerInv'
    BY <1>2, WorkWinner DEF IngestBank, runVars, Holder
  <1>3. ASSUME NEW r \in Runs, QueryUnmatched(r)
        PROVE  WinnerInv'
    <2>1. /\ pc[r] = "idle" /\ pc' = [pc EXCEPT ![r] = "scan"]
          /\ UNCHANGED <<matches, pending, result, reported>>
      BY <1>3 DEF QueryUnmatched, tables
    <2>2. \A q \in Runs : /\ pc'[q] = "aborted" => pc[q] = "aborted"
                          /\ pc[q] = "done" => pc'[q] = "done"
                          /\ Holder(q) => Holder(q)'
      BY <2>1 DEF IInv, TypeInv, TypeOK, Holder, Working
    <2> QED
      BY <2>1, <2>2, WorkWinner
  <1>4. ASSUME NEW r \in Runs, FindBankTxn(r)
        PROVE  WinnerInv'
    <2>1. pc[r] = "scan" /\ UNCHANGED <<matches, pending, result, reported>>
      BY <1>4 DEF FindBankTxn, tables
    <2>2. pc' = pc \/ pc' = [pc EXCEPT ![r] = "linkVendor"]
      BY <1>4 DEF FindBankTxn
    <2>3. \A q \in Runs : /\ pc'[q] = "aborted" => pc[q] = "aborted"
                          /\ pc[q] = "done" => pc'[q] = "done"
                          /\ Holder(q) => Holder(q)'
      BY <2>1, <2>2 DEF IInv, TypeInv, TypeOK, Holder, Working
    <2> QED
      BY <2>1, <2>3, WorkWinner
  <1>5. ASSUME NEW r \in Runs, InsertVendorKey(r)
        PROVE  WinnerInv'
    <2>1. CASE cur[r][1] \in VendorLinked(matches) /\ Abort(r)
      <3>1. Winner
        BY <2>1 DEF WinnerInv, VendorLinked
      <3> QED
        BY <1>5, <2>1, <3>1, AbortWinner DEF InsertVendorKey
    <2>2. CASE /\ pc' = [pc EXCEPT ![r] = "linkBank"]
               /\ UNCHANGED <<tables, todo, cur, pending, matchedCount, result, reported, view>>
      <3>1. pc[r] = "linkVendor"
        BY <1>5 DEF InsertVendorKey
      <3>2. \A q \in Runs : /\ pc'[q] = "aborted" => pc[q] = "aborted"
                            /\ pc[q] = "done" => pc'[q] = "done"
                            /\ Holder(q) => Holder(q)'
        BY <2>2, <3>1 DEF IInv, TypeInv, TypeOK, Holder, Working
      <3> QED
        BY <2>2, <3>2, WorkWinner DEF tables
    <2> QED
      BY <1>5, <2>1, <2>2 DEF InsertVendorKey
  <1>6. ASSUME NEW r \in Runs, InsertBankKey(r)
        PROVE  WinnerInv'
    <2>1. CASE cur[r][2] \in BankLinked(matches) /\ Abort(r)
      <3>1. Winner
        BY <2>1 DEF WinnerInv, BankLinked
      <3> QED
        BY <1>6, <2>1, <3>1, AbortWinner DEF InsertBankKey
    <2>2. CASE /\ pc'      = [pc EXCEPT ![r] = "scan"]
               /\ pending' = [pending EXCEPT ![r] = @ \cup {cur[r]}]
               /\ UNCHANGED <<tables, todo, result, reported, view>>
      <3>1. pc[r] = "linkBank"
        BY <1>6 DEF InsertBankKey
      <3>2. \A q \in Runs : /\ pc'[q] = "aborted" => pc[q] = "aborted"
                            /\ pc[q] = "done" => pc'[q] = "done"
                            /\ Holder(q) => Holder(q)'
        BY <2>2, <3>1 DEF IInv, TypeInv, TypeOK, Holder, Working
      <3> QED
        BY <2>2, <3>2, WorkWinner DEF tables
    <2> QED
      BY <1>6, <2>1, <2>2 DEF InsertBankKey
  <1>7. ASSUME NEW r \in Runs, CommitFails(r)
        PROVE  WinnerInv'
    <2>1. /\ pc[r] = "aborted"
          /\ pc' = [pc EXCEPT ![r] = "done"]
          /\ pending' = [pending EXCEPT ![r] = {}]
          /\ result' = [result EXCEPT ![r] = "error"]
          /\ reported' = [reported EXCEPT ![r] = 0]
          /\ matches' = matches
      BY <1>7 DEF CommitFails, RollBack, Return, tables
    <2>2. result[r] = "none" /\ Failed /\ ~Holder(r)
      BY <2>1 DEF WinnerInv, Failed, Holder, Working
    <2>3. /\ \A q \in Runs \ {r} : /\ pc'[q] = pc[q] /\ pending'[q] = pending[q]
                                  /\ result'[q] = result[q] /\ reported'[q] = reported[q]
          /\ pc'[r] = "done"
      BY <2>1 DEF IInv, TypeInv, TypeOK
    <2>4. Winner => Winner'
      BY <2>2, <2>3 DEF Winner
    <2>5. \A q \in Runs : Holder(q) => Holder(q)'
      BY <2>2, <2>3 DEF Holder
    <2>6. \A q \in Runs : result'[q] # "none" => pc'[q] = "done"
      BY <2>3 DEF WinnerInv
    <2> QED
      BY <2>1, <2>2, <2>4, <2>5, <2>6 DEF WinnerInv
  <1>8. ASSUME NEW r \in Runs, DeadlockVictim(r)
        PROVE  WinnerInv'
    <2>1. PICK q \in Runs : WaitsFor(r, q)
      BY <1>8, VictimWaits DEF DeadlockVictim
    <2>2. q # r /\ pc[r] # "done" /\ Holder(q)
      BY <2>1, WaitedForHolds DEF WaitsFor
    <2> QED
      BY <1>8, <2>2, AbortWinner DEF DeadlockVictim
  <1>9. CASE UNCHANGED vars
    BY <1>9, WorkWinner DEF vars, Holder
  <1> QED
    BY <1>1, <1>2, <1>3, <1>4, <1>5, <1>6, <1>7, <1>8, <1>9, CommitWinner
    DEF Undisturbed, RunStep

\* When no run is under way, one that failed has a winner.
LEMMA WinnerAtRest ==
  ASSUME WinnerInv, \A r \in Runs : pc[r] \in {"idle", "done"},
         \E r \in Runs : result[r] = "error"
  PROVE  Winner
  BY DEF WinnerInv, Failed, Holder, Working
-----------------------------------------------------------------------------
(* Waits. *)

Open == {r \in Runs : pc[r] \in InTxn}

\* Who belongs to M waits for nobody outside it.
WaitClosed(M) == \A p \in M, q \in Runs : WaitsFor(p, q) => q \in M

\* Of the sets of a kind one has no more elements than any other.
LEMMA SmallestSet ==
  ASSUME NEW F, F # {}, \A S \in F : IsFiniteSet(S)
  PROVE  \E M \in F : \A S \in F : ~(Cardinality(S) < Cardinality(M))
  <1> DEFINE sizes == {Cardinality(S) : S \in F}
  <1>1. sizes \in SUBSET Nat /\ sizes # {}
    BY FS_CardinalityType
  <1>2. IsWellFoundedOn(OpToRel(<, Nat), Nat)
    BY NatLessThanWellFounded
  <1>3. PICK n \in sizes : \A k \in sizes : ~(<<k, n>> \in OpToRel(<, Nat))
    BY <1>1, <1>2, WFMin
  <1> QED
    BY <1>1, <1>3 DEF OpToRel

\* A run that waits, waits for one that is under way.
LEMMA WaitedForIsOpen ==
  ASSUME IInv, NEW r \in Runs, NEW q \in Runs, WaitsFor(r, q)
  PROVE  q \in Open
  <1>1. Holder(q)
    BY WaitedForHolds
  <1> QED
    BY <1>1 DEF Holder, Working, Open, InTxn

\* Those whom r waits for, whom they wait for, and so on.
Awaited(r) ==
    {q \in Runs : \A S \in SUBSET Runs :
        (\A p \in Runs : WaitsFor(r, p) => p \in S) /\ WaitClosed(S) => q \in S}

LEMMA AwaitedIsClosed ==
  ASSUME NEW r \in Runs
  PROVE  /\ WaitClosed(Awaited(r))
         /\ \A q \in Runs : WaitsFor(r, q) => q \in Awaited(r)
         /\ r \in Awaited(r) <=> Deadlocked(r)
  <1>1. WaitClosed(Awaited(r))
    BY DEF WaitClosed, Awaited
  <1>2. \A q \in Runs : WaitsFor(r, q) => q \in Awaited(r)
    BY DEF Awaited
  <1>3. r \in Awaited(r) <=> Deadlocked(r)
    BY DEF Awaited, Deadlocked, WaitClosed
  <1> QED
    BY <1>1, <1>2, <1>3

\* A smallest set of open runs that waits for nobody outside it is, if all of them
\* wait, what each of them waits for: they are a cycle.
LEMMA OpenGoesOn ==
  ASSUME IsFiniteSet(Runs), IInv
  PROVE  SomeoneGoesOn
  <1> SUFFICES ASSUME Open # {}, \A r \in Open : Waits(r)
               PROVE  \E r \in Open : Deadlocked(r)
    BY DEF SomeoneGoesOn, Open
  <1> DEFINE F == {S \in SUBSET Open : S # {} /\ WaitClosed(S)}
  <1>1. Open \in F
    BY WaitedForIsOpen DEF WaitClosed, Open
  <1>2. \A S \in F : IsFiniteSet(S)
    BY FS_Subset DEF Open
  <1>3. PICK M \in F : \A S \in F : ~(Cardinality(S) < Cardinality(M))
    BY <1>1, <1>2, SmallestSet
  <1>4. PICK r \in M : r \in Open
    BY <1>3
  <1>5. Awaited(r) \in SUBSET M
    <2>1. M \in SUBSET Runs /\ WaitClosed(M)
      BY <1>3 DEF Open
    <2>2. \A p \in Runs : WaitsFor(r, p) => p \in M
      BY <2>1, <1>4 DEF WaitClosed
    <2> QED
      BY <2>1, <2>2 DEF Awaited
  <1>6. Awaited(r) \in F
    <2>1. r \in Runs /\ Waits(r)
      BY <1>4 DEF Open
    <2>2. WaitClosed(Awaited(r)) /\ Awaited(r) # {}
      BY <2>1, AwaitedIsClosed DEF Waits
    <2> QED
      BY <1>3, <1>5, <2>2
  <1>7. Awaited(r) = M
    <2>1. IsFiniteSet(M) /\ Cardinality(M) \in Nat /\ Cardinality(Awaited(r)) \in Nat
      BY <1>2, <1>3, <1>6, FS_CardinalityType
    <2>2. Cardinality(Awaited(r)) = Cardinality(M)
      BY <1>3, <1>5, <1>6, <2>1, FS_Subset
    <2> QED
      BY <1>5, <2>1, <2>2, FS_Subset
  <1>8. Deadlocked(r)
    BY <1>4, <1>7, AwaitedIsClosed DEF Open
  <1> QED
    BY <1>4, <1>8

\* As long as calls are under way, one of them can go on or is to be cancelled by
\* the deadlock detector: no key outlives the transaction that holds it
\* (engine.go:20), so there is no other way to be stuck.
THEOREM NoneIsStuck ==
  ASSUME IsFiniteSet(Runs)
  PROVE  Spec => []SomeoneGoesOn
  BY OpenGoesOn, Invariance, PTL
=============================================================================
