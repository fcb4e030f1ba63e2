----------------------------- MODULE DemoProofs -----------------------------
(***************************************************************************)
(* Proofs about Demo, for any bank rows, UTRs and calls of the seeders.    *)
(*                                                                         *)
(* A bank row is never taken back, and the id of a row made for one says   *)
(* which UTR and which seeder it is of (MadeFor): that is remembered from  *)
(* the read of the bank rows to the INSERT, and for good after it.         *)
(***************************************************************************)
EXTENDS Demo, TLAPS

\* The id of a row that a seeder makes for a bank row, and a bank row with its
\* UTR, which is not taken back.
MadeFor(i, u) ==
    /\ i[2] = "demo" /\ i[3] = LastSix[u]
    /\ \E b \in bank : Utr[b] = u

RowsOk == \A i \in Stored : utrOf[i] # NoUtr => MadeFor(i, utrOf[i])
LeftOk == \A s \in Seeds : \A x \in left[s] : x[2] # NoUtr => MadeFor(x[1], x[2])

\* Links are of rows with one UTR.
LinksOk == \A p \in settled : utrOf[p[1]] = Utr[p[2]]

\* Between the reads of the dashboard rows are settled and never unsettled.
DashOk ==
    dash = "totals" =>
        /\ totals.settled \subseteq Matched
        /\ totals.pending \subseteq Stored

IInv == TypeOK /\ RowsOk /\ LeftOk /\ LinksOk /\ DashOk /\ DashboardIsExplained

-----------------------------------------------------------------------------
LEMMA InitIInv == Init => IInv
<1> SUFFICES ASSUME Init PROVE IInv
  OBVIOUS
<1>1. Stored = {}
  BY DEF Init, Stored
<1>2. TypeOK
  BY <1>1 DEF Init, TypeOK
<1>3. RowsOk /\ LeftOk /\ LinksOk /\ DashOk /\ DashboardIsExplained
  BY <1>1 DEF Init, RowsOk, LeftOk, LinksOk, DashOk, DashboardIsExplained
<1> QED
  BY <1>2, <1>3 DEF IInv

\* Rows of the bank and links are added to, and vendor rows keep their UTR.
LEMMA RowsKept ==
    ASSUME IInv, bank \subseteq bank', UNCHANGED utrOf
    PROVE  RowsOk'
BY DEF IInv, RowsOk, MadeFor, Stored

LEMMA LeftKept ==
    ASSUME IInv, bank \subseteq bank', UNCHANGED left
    PROVE  LeftOk'
BY DEF IInv, LeftOk, MadeFor

\* What the dashboard has read stays explained when rows are stored and settled.
LEMMA DashKept ==
    ASSUME IInv, settled \subseteq settled', Stored \subseteq Stored', UNCHANGED dashVars
    PROVE  DashOk' /\ DashboardIsExplained'
<1>1. Matched \subseteq Matched'
  BY DEF Matched
<1> QED
  BY <1>1 DEF IInv, DashOk, DashboardIsExplained, dashVars

LEMMA IngestIInv ==
    ASSUME IInv, NEW b \in BankRows, IngestBank(b)
    PROVE  IInv'
<1>1. bank' = bank \cup {b} /\ UNCHANGED <<utrOf, settled, step, left, dashVars>>
  BY DEF IngestBank, seedVars
<1>2. TypeOK'
  BY <1>1 DEF IInv, TypeOK, Stored, dashVars
<1>3. RowsOk' /\ LeftOk'
  BY <1>1, RowsKept, LeftKept
<1>4. LinksOk'
  BY <1>1 DEF IInv, LinksOk
<1>5. DashOk' /\ DashboardIsExplained'
  BY <1>1, DashKept DEF Stored
<1> QED
  BY <1>2, <1>3, <1>4, <1>5 DEF IInv

LEMMA ReconcileIInv ==
    ASSUME IInv, Reconcile
    PROVE  IInv'
<1>1. PICK S \in SUBSET Linkable : settled' = settled \cup S
  BY DEF Reconcile
<1>2. UNCHANGED <<bank, utrOf, step, left, dashVars>>
  BY DEF Reconcile, seedVars
<1>3. S \subseteq Stored \X bank
  BY DEF Linkable, Unmatched, Free
<1>4. TypeOK'
  <2>1. settled' \subseteq Stored' \X bank'
    BY <1>1, <1>2, <1>3 DEF IInv, TypeOK, Stored
  <2> QED
    BY <1>2, <2>1 DEF IInv, TypeOK, Stored, dashVars
<1>5. RowsOk' /\ LeftOk'
  BY <1>2, RowsKept, LeftKept
<1>6. LinksOk'
  BY <1>1, <1>2 DEF IInv, LinksOk, Linkable
<1>7. DashOk' /\ DashboardIsExplained'
  BY <1>1, <1>2, DashKept DEF Stored
<1> QED
  BY <1>4, <1>5, <1>6, <1>7 DEF IInv

\* Rows are made for bank rows that are there.
LEMMA PickIInv ==
    ASSUME IInv, NEW s \in Seeds, NEW prefix \in Prefixes, Pick(s, prefix)
    PROVE  IInv'
<1>1. UNCHANGED <<bank, utrOf, settled, dashVars>>
  BY DEF Pick, tableVars
<1>2. CASE UNCHANGED left /\ step' = [step EXCEPT ![s] = "error"]
  <2>1. TypeOK'
    BY <1>1, <1>2 DEF IInv, TypeOK, Stored, dashVars
  <2> QED
    BY <1>1, <1>2, <2>1, RowsKept, LeftKept, DashKept DEF IInv, LinksOk, Stored
<1>3. CASE \E S \in SUBSET Free, N \in SUBSET Numbers :
              /\ left' = [left EXCEPT ![s] =
                             {<<DemoId(s, prefix, Utr[b]), Utr[b]>> : b \in S}
                               \cup {<<<<prefix, "pending", n>>, NoUtr>> : n \in N}]
              /\ step' = [step EXCEPT ![s] = "insert"]
  <2>1. PICK S \in SUBSET Free, N \in SUBSET Numbers :
             left' = [left EXCEPT ![s] =
                         {<<DemoId(s, prefix, Utr[b]), Utr[b]>> : b \in S}
                           \cup {<<<<prefix, "pending", n>>, NoUtr>> : n \in N}]
    BY <1>3
  <2> DEFINE Made == {<<DemoId(s, prefix, Utr[b]), Utr[b]>> : b \in S}
             Others == {<<<<prefix, "pending", n>>, NoUtr>> : n \in N}
  <2>2. \A b \in S : b \in BankRows /\ b \in bank /\ Utr[b] \in Utrs
    BY DEF IInv, TypeOK, Free, Utrs
  <2>3. ASSUME NEW x \in Made
        PROVE  x \in Ids \X (Utrs \cup {NoUtr}) /\ MadeFor(x[1], x[2])
    <3>1. PICK b \in S : x = <<DemoId(s, prefix, Utr[b]), Utr[b]>>
      OBVIOUS
    <3>2. DemoId(s, prefix, Utr[b]) = <<prefix, "demo", LastSix[Utr[b]]>>
      BY DEF DemoId
    <3>3. DemoId(s, prefix, Utr[b]) \in Ids
      BY <2>2, <3>2 DEF Ids
    <3> QED
      BY <2>2, <3>1, <3>2, <3>3 DEF MadeFor
  <2>4. Others \subseteq Ids \X (Utrs \cup {NoUtr}) /\ \A x \in Others : x[2] = NoUtr
    BY DEF Ids
  <2>5. left' = [left EXCEPT ![s] = Made \cup Others]
    BY <2>1
  <2> HIDE DEF Made, Others
  <2>6. left' \in [Seeds -> SUBSET (Ids \X (Utrs \cup {NoUtr}))]
    BY <2>3, <2>4, <2>5 DEF IInv, TypeOK
  <2>7. step' \in [Seeds -> {"idle", "insert", "ok", "error"}]
    BY <1>3 DEF IInv, TypeOK
  <2>8. TypeOK'
    BY <1>1, <2>6, <2>7 DEF IInv, TypeOK, Stored, dashVars
  <2>9. LeftOk'
    <3> SUFFICES ASSUME NEW r \in Seeds, NEW x \in left'[r], x[2] # NoUtr
                 PROVE  MadeFor(x[1], x[2])
      BY <1>1 DEF LeftOk, MadeFor
    <3>1. r # s => x \in left[r]
      BY <2>5 DEF IInv, TypeOK
    <3>2. r = s => x \in Made \cup Others
      BY <2>5 DEF IInv, TypeOK
    <3> QED
      BY <2>3, <2>4, <3>1, <3>2 DEF IInv, LeftOk
  <2> QED
    BY <1>1, <2>8, <2>9, RowsKept, DashKept DEF IInv, LinksOk, Stored
<1> QED
  BY <1>2, <1>3 DEF Pick

\* A row that is stored is one that was made; ids that are taken are left alone.
LEMMA InsertIInv ==
    ASSUME IInv, NEW s \in Seeds, InsertMock(s)
    PROVE  IInv'
<1>1. PICK x \in left[s] :
         /\ left' = [left EXCEPT ![s] = @ \ {x}]
         /\ \/ /\ x[1] \notin Stored
               /\ utrOf' = [i \in Stored \cup {x[1]} |-> IF i = x[1] THEN x[2] ELSE utrOf[i]]
            \/ UNCHANGED utrOf
  BY DEF InsertMock
<1>2. UNCHANGED <<bank, settled, step, dashVars>>
  BY DEF InsertMock
<1>3. x[1] \in Ids /\ x[2] \in Utrs \cup {NoUtr} /\ (x[2] # NoUtr => MadeFor(x[1], x[2]))
  BY DEF IInv, TypeOK, LeftOk
<1>4. /\ Stored \subseteq Stored' /\ Stored' \subseteq Stored \cup {x[1]}
      /\ \A i \in Stored : utrOf'[i] = utrOf[i]
      /\ \A i \in Stored' \ Stored : i = x[1] /\ utrOf'[i] = x[2]
  <2>1. CASE UNCHANGED utrOf
    BY <2>1 DEF Stored
  <2>2. CASE /\ x[1] \notin Stored
             /\ utrOf' = [i \in Stored \cup {x[1]} |-> IF i = x[1] THEN x[2] ELSE utrOf[i]]
    <3>1. Stored' = Stored \cup {x[1]}
      BY <2>2 DEF Stored
    <3> QED
      BY <2>2, <3>1
  <2> QED
    BY <1>1, <2>1, <2>2
<1>5. TypeOK'
  <2>1. left' \in [Seeds -> SUBSET (Ids \X (Utrs \cup {NoUtr}))]
    BY <1>1 DEF IInv, TypeOK
  <2>2. Stored' \subseteq Ids /\ \A i \in Stored' : utrOf'[i] \in Utrs \cup {NoUtr}
    BY <1>3, <1>4 DEF IInv, TypeOK
  <2>3. settled' \subseteq Stored' \X bank'
    BY <1>2, <1>4 DEF IInv, TypeOK
  <2> QED
    BY <1>2, <2>1, <2>2, <2>3 DEF IInv, TypeOK, dashVars
<1>6. RowsOk'
  BY <1>2, <1>3, <1>4 DEF IInv, RowsOk, MadeFor
<1>7. LeftOk'
  <2>1. \A r \in Seeds : left'[r] \subseteq left[r]
    BY <1>1 DEF IInv, TypeOK
  <2> QED
    BY <1>2, <2>1 DEF IInv, LeftOk, MadeFor
<1>8. LinksOk'
  BY <1>2, <1>4 DEF IInv, TypeOK, LinksOk
<1>9. DashOk' /\ DashboardIsExplained'
  BY <1>2, <1>4, DashKept
<1> QED
  BY <1>5, <1>6, <1>7, <1>8, <1>9 DEF IInv

\* The dashboard's second read finds no row unmatched that the first found
\* settled, and every row of the first.
LEMMA DashboardIInv ==
    ASSUME IInv, GetReconciliationDashboard
    PROVE  IInv'
<1>1. UNCHANGED <<bank, utrOf, settled, step, left>>
  BY DEF GetReconciliationDashboard, Aggregate, ListPending, tableVars, seedVars
<1>2. Matched \subseteq Stored /\ Matched \subseteq Ids /\ Unmatched \subseteq Stored /\ Unmatched \subseteq Ids
  BY DEF IInv, TypeOK, Matched, Unmatched
<1>3. UNCHANGED <<Stored, Matched>>
  BY <1>1 DEF Stored, Matched
<1>4. RowsOk' /\ LeftOk' /\ LinksOk'
  BY <1>1, RowsKept, LeftKept DEF IInv, LinksOk
<1>5. CASE Aggregate
  <2>1. /\ dash' = "totals" /\ UNCHANGED <<listed, cut>>
        /\ totals' = [settled |-> Matched, pending |-> Unmatched]
    BY <1>5 DEF Aggregate
  <2>2. TypeOK'
    BY <1>1, <1>2, <2>1 DEF IInv, TypeOK, Stored
  <2>3. DashOk' /\ DashboardIsExplained'
    BY <1>2, <1>3, <2>1 DEF DashOk, DashboardIsExplained
  <2> QED
    BY <1>4, <2>2, <2>3 DEF IInv
<1>6. CASE ListPending
  <2>1. /\ dash = "totals" /\ dash' = "done" /\ UNCHANGED totals
        /\ listed' \subseteq Unmatched
        /\ cut' \in BOOLEAN
        /\ ~cut' => listed' = Unmatched
    BY <1>6 DEF ListPending, IInv, TypeOK
  <2>2. TypeOK'
    BY <1>1, <1>2, <2>1 DEF IInv, TypeOK, Stored
  <2>3. DashOk' /\ DashboardIsExplained'
    BY <1>3, <2>1 DEF IInv, DashOk, DashboardIsExplained, Unmatched
  <2> QED
    BY <1>4, <2>2, <2>3 DEF IInv
<1> QED
  BY <1>5, <1>6 DEF GetReconciliationDashboard

THEOREM Inductive == IInv /\ [Next]_vars => IInv'
<1> SUFFICES ASSUME IInv, [Next]_vars PROVE IInv'
  OBVIOUS
<1>1. ASSUME NEW b \in BankRows, IngestBank(b) PROVE IInv'
  BY <1>1, IngestIInv
<1>2. CASE Reconcile
  BY <1>2, ReconcileIInv
<1>3. ASSUME NEW s \in Seeds, SeedMockRazorpayData(s) \/ SeedMockPhonePeData(s) PROVE IInv'
  BY <1>3, PickIInv DEF SeedMockRazorpayData, SeedMockPhonePeData, Prefixes
<1>4. ASSUME NEW s \in Seeds, InsertMock(s) PROVE IInv'
  BY <1>4, InsertIInv
<1>5. ASSUME UNCHANGED <<bank, utrOf, settled, left, dashVars>>,
             step' \in [Seeds -> {"idle", "insert", "ok", "error"}]
      PROVE  IInv'
  <2>1. TypeOK'
    BY <1>5 DEF IInv, TypeOK, Stored, dashVars
  <2> QED
    BY <1>5, <2>1, RowsKept, LeftKept, DashKept DEF IInv, LinksOk, Stored
<1>6. ASSUME NEW s \in Seeds, SeedDone(s) PROVE IInv'
  BY <1>5, <1>6 DEF SeedDone, tableVars, IInv, TypeOK
<1>7. CASE GetReconciliationDashboard
  BY <1>7, DashboardIInv
<1>8. CASE UNCHANGED vars
  BY <1>5, <1>8 DEF vars, dashVars, IInv, TypeOK
<1> QED
  BY <1>1, <1>2, <1>3, <1>4, <1>6, <1>7, <1>8 DEF Next

THEOREM Invariance == Spec => []IInv
BY InitIInv, Inductive, PTL DEF Spec

\* Every variable of the seeders and the dashboard has its type.
THEOREM TypeCorrect == Spec => []TypeOK
<1>1. IInv => TypeOK
  BY DEF IInv
<1> QED
  BY <1>1, Invariance, PTL

\* What the dashboard shows (dashboard.go:32-82) is explained by an engine that
\* settles rows between its two reads, for any rows and runs of the engine.
THEOREM Explained == Spec => []DashboardIsExplained
<1>1. IInv => DashboardIsExplained
  BY DEF IInv
<1> QED
  BY <1>1, Invariance, PTL

\* A row made for a bank row (seeder.go:49, 129) can be settled, or a row of the
\* other seeder was settled instead: two rows that one seeder makes for one UTR
\* have one id, so that there is only one of them.
THEOREM CanSettle == Spec => []SeededCanSettle
<1>1. IInv => SeededCanSettle
  <2> SUFFICES ASSUME IInv, NEW i \in Unmatched, utrOf[i] # NoUtr,
                      ~ \E b \in Free : Utr[b] = utrOf[i]
               PROVE  \E j \in Matched : utrOf[j] = utrOf[i] /\ j[1] # i[1]
    BY DEF SeededCanSettle
  <2>1. i \in Stored /\ i \notin Matched /\ i \in Ids
    BY DEF Unmatched, IInv, TypeOK
  <2>2. PICK b \in bank : Utr[b] = utrOf[i]
    BY <2>1 DEF IInv, RowsOk, MadeFor
  <2>3. PICK p \in settled : p[2] = b
    BY <2>2 DEF Free
  <2>4. p[1] \in Matched /\ p[1] \in Stored /\ p[1] \in Ids /\ utrOf[p[1]] = utrOf[i]
    BY <2>2, <2>3 DEF IInv, TypeOK, LinksOk, Matched
  <2>5. /\ i[2] = "demo" /\ i[3] = LastSix[utrOf[i]]
        /\ p[1][2] = "demo" /\ p[1][3] = LastSix[utrOf[i]]
    BY <2>1, <2>4 DEF IInv, RowsOk, MadeFor
  <2>6. ASSUME NEW j \in Ids, NEW k \in Ids, j[1] = k[1], j[2] = k[2], j[3] = k[3]
        PROVE  j = k
    BY <2>6 DEF Ids
  <2>7. p[1][1] # i[1]
    BY <2>1, <2>4, <2>5, <2>6
  <2> QED
    BY <2>4, <2>7
<1> QED
  BY <1>1, Invariance, PTL
=============================================================================
