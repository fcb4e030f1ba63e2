-------------------------- MODULE OnboardingProofs --------------------------
(***************************************************************************)
(* Proofs about Onboarding, for any requests that satisfy                  *)
(* RequestAssumption, repeated and overlapping as often as one likes.      *)
(*                                                                         *)
(* A request knows of the tables only what it has written itself.  So the  *)
(* invariant says of each request where its answer came from (SaidOk) and  *)
(* that a row is written by a request that has ended (RowsOk); that rows   *)
(* do not clash is what the unique keys see to (KeysOk).                   *)
(***************************************************************************)
EXTENDS Onboarding, TLAPS

\* What a handler goes on with is an answer of Setu about its own number, or the
\* id of the penny drop Setu has started for it.
SaidOk ==
    /\ \A q \in PanReqs : step[q] \in {"save", "ok"} => <<Pan[q], said[q]>> \in attested
    /\ \A q \in GstReqs : step[q] \in {"save", "ok"} => <<Gstin[q], said[q]>> \in attested
    /\ \A q \in BankReqs : step[q] \in {"save", "ok"} => said[q] \in {q, ""} /\ q \in drops

\* Rows are written by requests that have ended, and one that was answered with
\* "ok" has written its row.
RowsOk ==
    /\ \A q \in PanReqs : q \in merchants => step[q] \in {"ok", "error"}
    /\ \A q \in PanReqs : step[q] = "ok" => q \in merchants /\ panStatus[q] = StatusOf(said[q])
    /\ \A q \in BankReqs : accounts[q] # "none" =>
          accounts[q] \in {q, ""} /\ q \in drops /\ step[q] \in {"ok", "error"}
    /\ \A q \in BankReqs : step[q] = "ok" => accounts[q] = said[q] /\ Target[q] \in merchants
    /\ \A q \in BankReqs : q \in drops => step[q] # "idle"

\* The unique keys.
KeysOk ==
    /\ \A p, q \in merchants : p # q => Phone[p] # Phone[q] /\ Pan[p] # Pan[q]
    /\ \A p, q \in BankReqs : p # q /\ accounts[p] # "none" => accounts[p] # accounts[q]

IInv == TypeOK /\ SaidOk /\ RowsOk /\ KeysOk

\* The initial state satisfies the invariant.
LEMMA InitIInv == Init => IInv
<1> SUFFICES ASSUME Init PROVE IInv
  OBVIOUS
<1>1. TypeOK
  BY DEF Init, TypeOK, KycStatus, NoGst
<1>2. SaidOk /\ RowsOk /\ KeysOk
  BY DEF Init, SaidOk, RowsOk, KeysOk, Reqs
<1> QED
  BY <1>1, <1>2 DEF IInv

\* The three kinds of requests are different ones.
LEMMA Kinds ==
    /\ \A q \in PanReqs : q \in Reqs /\ q \notin GstReqs /\ q \notin BankReqs
    /\ \A q \in GstReqs : q \in Reqs /\ q \notin PanReqs /\ q \notin BankReqs
    /\ \A q \in BankReqs : q \in Reqs /\ q \notin PanReqs /\ q \notin GstReqs /\ q \notin {"none", ""}
BY RequestAssumption DEF Reqs

\* What Setu says is kept with the request it was said to.
LEMMA VerifyIInv ==
    ASSUME IInv, NEW q \in PanReqs \cup GstReqs, NEW n, Verify(q, n),
           \/ q \in PanReqs /\ n = Pan[q]
           \/ q \in GstReqs /\ n = Gstin[q]
    PROVE  IInv'
<1>1. \A p \in Reqs \ {q} : step'[p] = step[p] /\ said'[p] = said[p]
  BY DEF IInv, TypeOK, Verify, Goes, Returns
<1>2. \/ \E s \in SetuStatus : /\ step'[q] = "save" /\ said'[q] = s
                               /\ attested' = attested \cup {<<n, s>>}
      \/ step'[q] = "error" /\ said'[q] = "none" /\ attested' = attested
  BY Kinds DEF IInv, TypeOK, Verify, Goes, Returns
<1>3. attested \subseteq attested' /\ UNCHANGED <<drops, merchants, panStatus, gstRow, accounts>>
  BY <1>2 DEF Verify, rowVars
<1>4. TypeOK'
  <2>1. step' \in [Reqs -> {"idle", "save", "ok", "error"}]
    BY DEF IInv, TypeOK, Verify, Goes, Returns
  <2>2. said' \in [Reqs -> SetuStatus \cup BankReqs \cup {"", "none"}]
    BY DEF IInv, TypeOK, Verify, Goes, Returns
  <2>3. n \in Numbers
    BY DEF Numbers
  <2>4. attested' \subseteq Numbers \X SetuStatus
    <3>1. attested \subseteq Numbers \X SetuStatus
      BY DEF IInv, TypeOK
    <3>2. \A s \in SetuStatus : <<n, s>> \in Numbers \X SetuStatus
      BY <2>3
    <3> QED
      BY <1>2, <3>1, <3>2
  <2> QED
    BY <1>3, <2>1, <2>2, <2>4 DEF IInv, TypeOK
<1>5. SaidOk'
  BY <1>1, <1>2, <1>3, Kinds DEF IInv, SaidOk
<1>6. RowsOk' /\ KeysOk'
  BY <1>1, <1>2, <1>3, Kinds DEF IInv, RowsOk, KeysOk, Verify, StatusOf
<1> QED
  BY <1>4, <1>5, <1>6 DEF IInv

\* A penny drop is started once for a request.
LEMMA InitiateIInv ==
    ASSUME IInv, NEW q \in BankReqs, InitiateRPD(q)
    PROVE  IInv'
<1>1. \A p \in Reqs \ {q} : step'[p] = step[p] /\ said'[p] = said[p]
  BY DEF IInv, TypeOK, InitiateRPD, Goes, Returns
<1>2. \/ step'[q] = "save" /\ said'[q] \in {q, ""} /\ drops' = drops \cup {q}
      \/ step'[q] = "error" /\ said'[q] = "none" /\ drops' \in {drops, drops \cup {q}}
  BY Kinds DEF IInv, TypeOK, InitiateRPD, Goes, Returns
<1>3. UNCHANGED <<attested, merchants, panStatus, gstRow, accounts>>
  BY DEF InitiateRPD, rowVars
<1>4. TypeOK'
  <2>1. step' \in [Reqs -> {"idle", "save", "ok", "error"}]
    BY DEF IInv, TypeOK, InitiateRPD, Goes, Returns
  <2>2. \E x \in BankReqs \cup {"", "none"} : said' = [said EXCEPT ![q] = x]
    BY Kinds DEF IInv, TypeOK, InitiateRPD, Goes, Returns
  <2>3. said' \in [Reqs -> SetuStatus \cup BankReqs \cup {"", "none"}]
    BY <2>2 DEF IInv, TypeOK
  <2> QED
    BY <1>2, <1>3, <2>1, <2>3 DEF IInv, TypeOK
<1>5. SaidOk'
  BY <1>1, <1>2, <1>3, Kinds DEF IInv, SaidOk
<1>6. step[q] = "idle" /\ step'[q] # "idle" /\ step'[q] # "ok" /\ accounts[q] = "none"
  BY <1>2 DEF IInv, RowsOk, InitiateRPD
<1>7. drops \subseteq drops' /\ drops' \subseteq drops \cup {q}
  BY <1>2
<1>8. ASSUME NEW p \in PanReqs
      PROVE  /\ p \in merchants' => step'[p] \in {"ok", "error"}
             /\ step'[p] = "ok" => p \in merchants' /\ panStatus'[p] = StatusOf(said'[p])
  BY <1>1, <1>3, Kinds DEF IInv, RowsOk
<1>9. ASSUME NEW p \in BankReqs
      PROVE  /\ accounts'[p] # "none" =>
                   accounts'[p] \in {p, ""} /\ p \in drops' /\ step'[p] \in {"ok", "error"}
             /\ step'[p] = "ok" => accounts'[p] = said'[p] /\ Target[p] \in merchants'
             /\ p \in drops' => step'[p] # "idle"
  BY <1>1, <1>3, <1>6, <1>7, Kinds DEF IInv, RowsOk
<1>10. RowsOk'
  BY <1>8, <1>9 DEF RowsOk, StatusOf
<1>11. KeysOk'
  BY <1>3 DEF IInv, KeysOk
<1> QED
  BY <1>4, <1>5, <1>10, <1>11 DEF IInv

\* However a statement ends, its handler ends, and keeps what it was told only if
\* it answers with "ok".
LEMMA AnsweredIs ==
    ASSUME IInv, NEW q \in Reqs, Answered(q)
    PROVE  /\ \A p \in Reqs \ {q} : step'[p] = step[p] /\ said'[p] = said[p]
           /\ \/ step'[q] = "ok" /\ said'[q] = said[q]
              \/ step'[q] = "error" /\ said'[q] = "none"
           /\ step' \in [Reqs -> {"idle", "save", "ok", "error"}]
           /\ said' \in [Reqs -> SetuStatus \cup BankReqs \cup {"", "none"}]
BY DEF IInv, TypeOK, Answered, Returns

\* A merchant is stored if no row has its phone number or PAN.
LEMMA InsertMerchantIInv ==
    ASSUME IInv, NEW q \in PanReqs, InsertMerchant(q)
    PROVE  IInv'
<1>1. q \in Reqs /\ Answered(q)
  BY Kinds DEF InsertMerchant
<1>2. /\ merchants' = merchants \cup {q}
      /\ panStatus' = [panStatus EXCEPT ![q] = StatusOf(said[q])]
      /\ UNCHANGED <<attested, drops, gstRow, accounts>>
      /\ step[q] = "save"
  BY DEF InsertMerchant, setuVars
<1>3. TypeOK'
  BY <1>1, <1>2, AnsweredIs DEF IInv, TypeOK, StatusOf, KycStatus
<1>4. SaidOk'
  BY <1>1, <1>2, AnsweredIs, Kinds DEF IInv, SaidOk
<1>5. RowsOk'
  <2>1. panStatus'[q] = StatusOf(said[q])
        /\ \A p \in PanReqs \ {q} : panStatus'[p] = panStatus[p]
    BY <1>2 DEF IInv, TypeOK
  <2>2. \A p \in Reqs \ {q} : step'[p] = step[p] /\ said'[p] = said[p]
    BY <1>1, AnsweredIs
  <2>3. (step'[q] = "ok" /\ said'[q] = said[q]) \/ step'[q] = "error"
    BY <1>1, AnsweredIs
  <2> QED
    BY <1>2, <2>1, <2>2, <2>3, Kinds DEF IInv, RowsOk
<1>6. KeysOk'
  BY <1>2 DEF IInv, KeysOk, InsertMerchant, IdentityIsFree
<1> QED
  BY <1>3, <1>4, <1>5, <1>6 DEF IInv

\* A GSTIN changes no key the invariant speaks of.
LEMMA UpdateGstIInv ==
    ASSUME IInv, NEW q \in GstReqs, UpdateGst(q)
    PROVE  IInv'
<1>1. q \in Reqs /\ Answered(q)
  BY Kinds DEF UpdateGst
<1>2. UNCHANGED <<attested, drops, merchants, panStatus, accounts>> /\ step[q] = "save"
  BY DEF UpdateGst, setuVars
<1>3. gstRow' \in [PanReqs -> [gstin : {"none"} \cup {Gstin[g] : g \in GstReqs}, status : KycStatus]]
  BY DEF IInv, TypeOK, UpdateGst, StatusOf, KycStatus
<1>4. TypeOK'
  BY <1>1, <1>2, <1>3, AnsweredIs DEF IInv, TypeOK
<1>5. SaidOk'
  BY <1>1, <1>2, AnsweredIs, Kinds DEF IInv, SaidOk
<1>6. \A p \in Reqs \ {q} : step'[p] = step[p] /\ said'[p] = said[p]
  BY <1>1, AnsweredIs
<1>7. RowsOk' /\ KeysOk'
  BY <1>2, <1>6, Kinds DEF IInv, RowsOk, KeysOk
<1> QED
  BY <1>4, <1>5, <1>7 DEF IInv

\* The row of a penny drop is stored if no row has its id.
LEMMA InsertAccountIInv ==
    ASSUME IInv, NEW q \in BankReqs, InsertAccount(q)
    PROVE  IInv'
<1>1. q \in Reqs /\ Answered(q)
  BY Kinds DEF InsertAccount
<1>2. /\ accounts' = [accounts EXCEPT ![q] = said[q]]
      /\ UNCHANGED <<attested, drops, merchants, panStatus, gstRow>>
      /\ step[q] = "save"
  BY DEF InsertAccount, setuVars
<1>3. said[q] \in {q, ""} /\ q \in drops
  BY <1>2 DEF IInv, SaidOk
<1>4. TypeOK'
  BY <1>1, <1>2, <1>3, AnsweredIs DEF IInv, TypeOK
<1>5. SaidOk'
  BY <1>1, <1>2, AnsweredIs, Kinds DEF IInv, SaidOk
<1>6. accounts'[q] = said[q] /\ \A p \in BankReqs \ {q} : accounts'[p] = accounts[p]
  BY <1>2 DEF IInv, TypeOK
<1>7. RowsOk'
  <2>1. \A p \in Reqs \ {q} : step'[p] = step[p] /\ said'[p] = said[p]
    BY <1>1, AnsweredIs
  <2>2. (step'[q] = "ok" /\ said'[q] = said[q]) \/ step'[q] = "error"
    BY <1>1, AnsweredIs
  <2>3. Target[q] \in merchants
    BY DEF InsertAccount
  <2>4. ASSUME NEW p \in PanReqs
        PROVE  /\ p \in merchants' => step'[p] \in {"ok", "error"}
               /\ step'[p] = "ok" => p \in merchants' /\ panStatus'[p] = StatusOf(said'[p])
    BY <1>2, <2>1, Kinds DEF IInv, RowsOk
  <2>5. ASSUME NEW p \in BankReqs
        PROVE  /\ accounts'[p] # "none" =>
                     accounts'[p] \in {p, ""} /\ p \in drops' /\ step'[p] \in {"ok", "error"}
               /\ step'[p] = "ok" => accounts'[p] = said'[p] /\ Target[p] \in merchants'
               /\ p \in drops' => step'[p] # "idle"
    <3>1. CASE p = q
      BY <3>1, <1>2, <1>3, <1>6, <2>2, <2>3
    <3>2. CASE p # q
      BY <3>2, <1>2, <1>6, <2>1, Kinds DEF IInv, RowsOk
    <3> QED
      BY <3>1, <3>2
  <2> QED
    BY <2>4, <2>5 DEF RowsOk, StatusOf
<1>8. KeysOk'
  BY <1>2, <1>6 DEF IInv, KeysOk, InsertAccount
<1> QED
  BY <1>4, <1>5, <1>7, <1>8 DEF IInv

\* A statement that fails, and a crash, end handlers that have written nothing.
LEMMA FailIInv ==
    ASSUME IInv, (\E q \in Reqs : StatementFails(q)) \/ Crash
    PROVE  IInv'
<1>1. UNCHANGED <<attested, drops, merchants, panStatus, gstRow, accounts>>
  BY DEF StatementFails, Crash, setuVars, rowVars
<1>2. \A p \in Reqs :
         \/ step'[p] = step[p] /\ said'[p] = said[p]
         \/ step[p] = "save" /\ step'[p] = "error"
  BY DEF IInv, TypeOK, StatementFails, Returns, Crash
<1>3. TypeOK'
  BY <1>1 DEF IInv, TypeOK, StatementFails, Returns, Crash
<1>4. SaidOk'
  BY <1>1, <1>2, Kinds DEF IInv, SaidOk
<1>5. RowsOk' /\ KeysOk'
  BY <1>1, <1>2, Kinds DEF IInv, RowsOk, KeysOk
<1> QED
  BY <1>3, <1>4, <1>5 DEF IInv

\* Every step preserves the invariant.
LEMMA NextIInv == IInv /\ [Next]_vars => IInv'
<1> SUFFICES ASSUME IInv, [Next]_vars
             PROVE  IInv'
  OBVIOUS
<1>1. ASSUME NEW q \in PanReqs, VerifyPAN(q) PROVE IInv'
  BY <1>1, VerifyIInv DEF VerifyPAN
<1>2. ASSUME NEW q \in PanReqs, InsertMerchant(q) PROVE IInv'
  BY <1>2, InsertMerchantIInv
<1>3. ASSUME NEW q \in GstReqs, VerifyGST(q) PROVE IInv'
  BY <1>3, VerifyIInv DEF VerifyGST
<1>4. ASSUME NEW q \in GstReqs, UpdateGst(q) PROVE IInv'
  BY <1>4, UpdateGstIInv
<1>5. ASSUME NEW q \in BankReqs, InitiateRPD(q) PROVE IInv'
  BY <1>5, InitiateIInv
<1>6. ASSUME NEW q \in BankReqs, InsertAccount(q) PROVE IInv'
  BY <1>6, InsertAccountIInv
<1>7. ASSUME (\E q \in Reqs : StatementFails(q)) \/ Crash PROVE IInv'
  BY <1>7, FailIInv
<1>8. CASE UNCHANGED vars
  BY <1>8 DEF vars, IInv, TypeOK, SaidOk, RowsOk, KeysOk
<1> QED
  BY <1>1, <1>2, <1>3, <1>4, <1>5, <1>6, <1>7, <1>8 DEF Next

\* The invariant holds in every reachable state.
LEMMA Invariance == Spec => []IInv
<1> QED
  BY InitIInv, NextIInv, PTL DEF Spec

-----------------------------------------------------------------------------
\* Every variable keeps its type, for any requests (TypeOK).
THEOREM TypeCorrect == Spec => []TypeOK
<1>1. IInv => TypeOK
  BY DEF IInv
<1> QED
  BY Invariance, <1>1, PTL

\* A client that was told "ok" has its row, and no other request has one for the
\* same phone number or PAN, for any requests (OkIsStored).
THEOREM AnswersAreTrue == Spec => []OkIsStored
<1>1. IInv => OkIsStored
  BY DEF IInv, OkIsStored, RowsOk, KeysOk
<1> QED
  BY Invariance, <1>1, PTL

\* Rows of bank accounts and penny drops at Setu answer to each other, for any
\* requests, ids of Setu that are missing included (DropsAreAccountedFor).
THEOREM DropsAccounted == Spec => []DropsAreAccountedFor
<1>1. IInv => DropsAreAccountedFor
  <2> SUFFICES ASSUME IInv, NEW q \in BankReqs
               PROVE  /\ accounts[q] # "none" =>
                            q \in drops /\ \A p \in BankReqs \ {q} : accounts[p] # accounts[q]
                      /\ q \in drops /\ accounts[q] = "none" => step[q] \in {"save", "error"}
    BY DEF DropsAreAccountedFor
  <2>1. accounts[q] # "none" => q \in drops /\ \A p \in BankReqs \ {q} : accounts[p] # accounts[q]
    BY DEF IInv, RowsOk, KeysOk
  <2>2. q \in drops /\ accounts[q] = "none" => step[q] \in {"save", "error"}
    <3> SUFFICES ASSUME q \in drops, accounts[q] = "none"
                 PROVE  step[q] \in {"save", "error"}
      OBVIOUS
    <3>1. step[q] \in {"idle", "save", "ok", "error"} /\ step[q] # "idle"
      BY Kinds DEF IInv, TypeOK, RowsOk
    <3>2. step[q] # "ok"
      BY Kinds DEF IInv, SaidOk, RowsOk
    <3> QED
      BY <3>1, <3>2
  <2> QED
    BY <2>1, <2>2
<1> QED
  BY Invariance, <1>1, PTL

-----------------------------------------------------------------------------
(* Refinement of Registry. *)

\* The merchants marked as verified.
Good    == {m \in merchants : panStatus[m] = "SUCCESS"}
GstGood == {m \in PanReqs : gstRow[m].status = "SUCCESS"}

\* An answer of Setu is an attestation.
LEMMA VerifyRefines ==
    ASSUME IInv, NEW q \in PanReqs \cup GstReqs, NEW n, Verify(q, n),
           \/ q \in PanReqs /\ n = Pan[q]
           \/ q \in GstReqs /\ n = Gstin[q]
    PROVE  [R!Next]_(R!vars)
<1>1. UNCHANGED <<merchants, panStatus, gstRow>>
  BY DEF Verify, rowVars
<1>2. CASE attested' = attested
  BY <1>1, <1>2 DEF R!vars, SaidOf
<1>3. CASE \E s \in SetuStatus : attested' = attested \cup {<<n, s>>}
  <2>1. PICK s \in SetuStatus : attested' = attested \cup {<<n, s>>}
    BY <1>3
  <2>2. n \in Numbers
    BY DEF Numbers
  <2>3. /\ SaidOf(s)' = SaidOf(s) \cup {n}
        /\ \A r \in SetuStatus \ {s} : SaidOf(r)' = SaidOf(r)
    BY <2>1, <2>2 DEF SaidOf
  <2>4. R!Attest(n)
    BY <1>1, <2>3 DEF R!Attest, SetuStatus
  <2> QED
    BY <2>2, <2>4 DEF R!Next, Numbers
<1> QED
  BY <1>2, <1>3 DEF Verify

\* An INSERT into merchants is an enrolment, under what Setu said of the PAN.
LEMMA InsertMerchantRefines ==
    ASSUME IInv, NEW q \in PanReqs, InsertMerchant(q)
    PROVE  R!Next
<1>1. q \notin merchants /\ \A m \in merchants : Phone[m] # Phone[q] /\ Pan[m] # Pan[q]
  BY DEF InsertMerchant, IdentityIsFree
<1>2. /\ merchants' = merchants \cup {q}
      /\ UNCHANGED <<attested, gstRow>>
      /\ \A m \in PanReqs : panStatus'[m] = IF m = q THEN StatusOf(said[q]) ELSE panStatus[m]
  BY DEF IInv, TypeOK, InsertMerchant, setuVars
<1>3. <<Pan[q], said[q]>> \in attested
  BY DEF IInv, SaidOk, InsertMerchant
<1>4. said[q] \in SetuStatus /\ Pan[q] \in SaidOf(said[q])
  BY <1>3 DEF IInv, TypeOK, SaidOf
<1>5. GstGood' = GstGood /\ \A s \in SetuStatus : SaidOf(s)' = SaidOf(s)
  BY <1>2 DEF GstGood, SaidOf
<1>6. CASE said[q] = "success"
  <2>1. Good' = Good \cup {q}
    BY <1>1, <1>2, <1>6 DEF IInv, TypeOK, Good, StatusOf
  <2>2. R!Enrol(q)
    BY <1>1, <1>2, <1>4, <1>5, <1>6, <2>1 DEF R!Enrol, Good, GstGood, SetuStatus
  <2> QED
    BY <2>2 DEF R!Next
<1>7. CASE said[q] = "other"
  <2>1. Good' = Good
    BY <1>1, <1>2, <1>7 DEF IInv, TypeOK, Good, StatusOf
  <2>2. R!Enrol(q)
    BY <1>1, <1>2, <1>4, <1>5, <1>7, <2>1 DEF R!Enrol, Good, GstGood, SetuStatus
  <2> QED
    BY <2>2 DEF R!Next
<1> QED
  BY <1>4, <1>6, <1>7 DEF SetuStatus

\* An UPDATE of a merchant sets its GSTIN; that of no row changes nothing.
LEMMA UpdateGstRefines ==
    ASSUME IInv, NEW q \in GstReqs, UpdateGst(q)
    PROVE  [R!Next]_(R!vars)
<1>1. UNCHANGED <<attested, merchants, panStatus>>
  BY DEF UpdateGst, setuVars
<1>2. CASE Target[q] \notin merchants
  <2>1. gstRow' = gstRow
    BY <1>2 DEF IInv, TypeOK, UpdateGst
  <2> QED
    BY <1>1, <2>1 DEF R!vars, SaidOf
<1>3. CASE Target[q] \in merchants
  <2> DEFINE t    == Target[q]
             held == [m \in PanReqs |-> gstRow[m].gstin]
  <2>1. t \in PanReqs /\ Gstin[q] \in {Gstin[g] : g \in GstReqs}
    BY <1>3 DEF IInv, TypeOK
  <2>2. \A m \in PanReqs : gstRow'[m] =
            IF m = t THEN [gstin |-> Gstin[q], status |-> StatusOf(said[q])] ELSE gstRow[m]
    BY <1>3 DEF UpdateGst
  <2>3. \A m \in PanReqs :
            /\ gstRow'[m].gstin = IF m = t THEN Gstin[q] ELSE gstRow[m].gstin
            /\ gstRow'[m].status = IF m = t THEN StatusOf(said[q]) ELSE gstRow[m].status
    BY <2>2
  <2>4. held' = [held EXCEPT ![t] = Gstin[q]]
    BY <2>1, <2>3
  <2>5. \A m \in merchants \ {t} : held[m] # Gstin[q]
    BY <1>3 DEF IInv, TypeOK, UpdateGst, GstinIsFree
  <2>6. said[q] \in SetuStatus /\ Gstin[q] \in SaidOf(said[q])
    BY DEF IInv, TypeOK, SaidOk, UpdateGst, SaidOf
  <2>7. \A s \in SetuStatus : SaidOf(s)' = SaidOf(s)
    BY <1>1 DEF SaidOf
  <2>8. \/ said[q] = "success" /\ GstGood' = GstGood \cup {t}
        \/ said[q] = "other" /\ GstGood' = GstGood \ {t}
    BY <2>1, <2>3, <2>6 DEF GstGood, StatusOf, SetuStatus
  <2>9. R!SetGst(t, Gstin[q])
    BY <1>1, <1>3, <2>4, <2>5, <2>6, <2>7, <2>8 DEF R!SetGst, GstGood, SetuStatus
  <2> QED
    BY <2>1, <2>9 DEF R!Next
<1> QED
  BY <1>2, <1>3

\* Every step of the routes is a step of Registry or nothing to it.
LEMMA StepRefines == IInv /\ [Next]_vars => [R!Next]_(R!vars)
<1> SUFFICES ASSUME IInv, [Next]_vars
             PROVE  [R!Next]_(R!vars)
  OBVIOUS
<1>1. ASSUME NEW q \in PanReqs, VerifyPAN(q) PROVE [R!Next]_(R!vars)
  BY <1>1, VerifyRefines DEF VerifyPAN
<1>2. ASSUME NEW q \in PanReqs, InsertMerchant(q) PROVE [R!Next]_(R!vars)
  BY <1>2, InsertMerchantRefines
<1>3. ASSUME NEW q \in GstReqs, VerifyGST(q) PROVE [R!Next]_(R!vars)
  BY <1>3, VerifyRefines DEF VerifyGST
<1>4. ASSUME NEW q \in GstReqs, UpdateGst(q) PROVE [R!Next]_(R!vars)
  BY <1>4, UpdateGstRefines
<1>5. ASSUME NEW q \in BankReqs, InitiateRPD(q) \/ InsertAccount(q) PROVE UNCHANGED R!vars
  BY <1>5 DEF InitiateRPD, InsertAccount, setuVars, rowVars, R!vars, SaidOf
<1>6. ASSUME (\E q \in Reqs : StatementFails(q)) \/ Crash PROVE UNCHANGED R!vars
  BY <1>6 DEF StatementFails, Crash, setuVars, rowVars, R!vars, SaidOf
<1>7. CASE UNCHANGED vars
  BY <1>7 DEF vars, R!vars, SaidOf
<1> QED
  BY <1>1, <1>2, <1>3, <1>4, <1>5, <1>6, <1>7 DEF Next

\* The routes implement Registry, for any requests (RefinesRegistry): whatever
\* overlaps, fails or is repeated, identities are unique and for good, and what is
\* marked as verified is what Setu has said of that number.
THEOREM Refinement == Spec => RefinesRegistry
<1>1. Init => R!Init
  BY DEF Init, R!Init, NoGst, SaidOf
<1>2. IInv /\ [Next]_vars => [R!Next]_(R!vars)
  BY StepRefines
<1> QED
  BY Invariance, <1>1, <1>2, PTL DEF Spec, RefinesRegistry, R!Spec
=============================================================================
